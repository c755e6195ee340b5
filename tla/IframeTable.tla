---------------------------- MODULE IframeTable ----------------------------
(***************************************************************************)
(* The trailer of a video file: the list of its I-frames, the frames that  *)
(* can be decoded on their own.                                            *)
(***************************************************************************)
EXTENDS Integers, Sequences

CONSTANT MAX_IFRAME_OFFSET   (* longest distance of two I-frames; 24       *)

ASSUME OffsetAssumption == MAX_IFRAME_OFFSET \in Nat \ {0}

(* A video has frames 0 .. frames - 1; iframes lists its I-frames in order. *)
(* Frame 0 is one, and the encoder never lets MAX_IFRAME_OFFSET frames go  *)
(* by without one; so row k is never later than k times that distance.     *)
IsVideo(v) ==
  /\ v.frames \in Nat \ {0}
  /\ v.iframes \in Seq(0 .. v.frames - 1)
  /\ v.iframes # <<>>
  /\ v.iframes[1] = 0
  /\ \A k \in 1 .. Len(v.iframes) - 1 :
       v.iframes[k + 1] - v.iframes[k] \in 1 .. MAX_IFRAME_OFFSET
  /\ \A k \in 1 .. Len(v.iframes) : v.iframes[k] <= (k - 1) * MAX_IFRAME_OFFSET
  /\ v.frames - v.iframes[Len(v.iframes)] <= MAX_IFRAME_OFFSET

num_iframes(v) == Len(v.iframes)

(* mpegTrailer.iframe_info[k].frame_index; the C array counts from 0.      *)
frame_index(v, k) == v.iframes[k + 1]
=============================================================================
