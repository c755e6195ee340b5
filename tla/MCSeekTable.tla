---------------------------- MODULE MCSeekTable ----------------------------
(***************************************************************************)
(* Instances of SeekTable for TLC: every table of short videos, with the   *)
(* numbers of the source divided by twelve, and a few tables of long       *)
(* videos with the numbers themselves.                                     *)
(***************************************************************************)
EXTENDS SeekTable

VideoOf(n, rows) ==
  LET IsRow(f) == f \in rows
  IN  [frames |-> n, iframes |-> SelectSeq([k \in 1 .. n |-> k - 1], IsRow)]

(* All the tables of videos of 9 to 13 frames: a row in every window of    *)
(* MAX_IFRAME_OFFSET frames.                                               *)
ShortVideos ==
  UNION { { VideoOf(n, {0} \cup rows) :
              rows \in { r \in SUBSET (1 .. n - 1) :
                           \A k \in 1 .. n - MAX_IFRAME_OFFSET :
                             r \cap (k .. k + MAX_IFRAME_OFFSET - 1) # {} } } :
          n \in 9 .. 13 }

(* I-frames at a regular distance.                                         *)
Regular(n, distance) ==
  VideoOf(n, { k \in 0 .. n - 1 : k % distance = 0 })

(* A video just over five seconds long, with as few I-frames as allowed.   *)
FewIframes == { Regular(133, 24) }

(* A video with an I-frame every third of a second.                        *)
ManyIframes == { Regular(241, 8) }
=============================================================================
