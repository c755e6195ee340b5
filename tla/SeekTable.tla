----------------------------- MODULE SeekTable -----------------------------
(***************************************************************************)
(* fastForwardVideo() and rewindVideo() (playback.c:157-227) loop by loop: *)
(* how the two functions walk the table of I-frames, from the position the *)
(* video has come to.  Player.tla uses the outcome, FastForwardIndex and   *)
(* RewindIndex of SeekChoice.tla; this module shows that the loops         *)
(* compute it, and what the outcome is worth.                              *)
(***************************************************************************)
EXTENDS SeekChoice

CONSTANT Videos      (* the videos considered                              *)
ASSUME VideosAssumption == \A v \in Videos : IsVideo(v)

VARIABLES video,         (* the video loaded                               *)
          currentFrame,  (* playbackData.currentFrame                      *)
          index,         (* the local variable of both functions           *)
          pc             (* "idle", in a loop, or at the call of seekFrame *)

vars == <<video, currentFrame, index, pc>>

(* The position stays in the video: 1 .. frames after the first frame.     *)
TypeOK == /\ IsVideo(video)
          /\ currentFrame \in 0 .. video.frames
          /\ index \in Int
          /\ pc \in {"idle", "forward", "rewind", "seekForward", "seekBack"}

(* loadVideo() has shown frame 0.                                          *)
Init == /\ video \in Videos
        /\ currentFrame = 1
        /\ index = 0
        /\ pc = "idle"

(* A frame is played.                                                      *)
PlayFrame == /\ pc = "idle"
             /\ currentFrame < video.frames
             /\ currentFrame' = currentFrame + 1
             /\ UNCHANGED <<video, index, pc>>

(* With less than Near frames left fastForwardVideo() does nothing.        *)
FastForward == /\ pc = "idle"
               /\ video.frames - currentFrame >= Near
               /\ index' = currentFrame \div MAX_IFRAME_OFFSET
               /\ pc' = "forward"
               /\ UNCHANGED <<video, currentFrame>>

(* The test that ends the loop.                                            *)
FartherAhead(k) ==    (* mutant: > for >= *)
  frame_index(video, k) - currentFrame > MinSkip
FarAhead(k) ==
  frame_index(video, k) - currentFrame >= MinSkip

(* One turn of while (++index < num_iframes).                              *)
ForwardTurn ==
  /\ pc = "forward"
  /\ index' = index + 1
  /\ pc' = IF /\ index' < num_iframes(video)
              /\ ~FarAhead(index')
           THEN "forward" ELSE "seekForward"
  /\ UNCHANGED <<video, currentFrame>>

(* Where the search for a row before the current frame begins.             *)
RowAfter == currentFrame \div MAX_IFRAME_OFFSET + 1   (* mutant: one row late *)
RowBefore == currentFrame \div MAX_IFRAME_OFFSET

(* Near the beginning rewindVideo() goes to row 0 at once.                 *)
Rewind == /\ pc = "idle"
          /\ \/ /\ currentFrame < Near
                /\ index' = 0
                /\ pc' = "seekBack"
             \/ /\ currentFrame >= Near
                /\ index' = RowBefore
                /\ pc' = "rewind"
          /\ UNCHANGED <<video, currentFrame>>

(* The row is in the table: reading it is defined.                         *)
InTable(k) == k \in 0 .. num_iframes(video) - 1

(* currentFrame - frame_index is unsigned: "negative" is far beyond        *)
(* MinSkip.                                                                *)
FarBehind(k) == \/ currentFrame - frame_index(video, k) >= MinSkip
                \/ currentFrame - frame_index(video, k) < 0

(* One turn of while (--index >= 0).                                       *)
RewindTurn ==
  /\ pc = "rewind"
  /\ index' = index - 1
  /\ \/ index' < 0 /\ pc' = "seekBack"
     \/ InTable(index') /\ pc' = IF FarBehind(index') THEN "seekBack" ELSE "rewind"
  /\ UNCHANGED <<video, currentFrame>>

(* seekFrame() sets the counter and process() displays that frame.  With   *)
(* an index outside the table nothing is known of what follows.            *)
SeekFrame ==
  /\ pc \in {"seekForward", "seekBack"}
  /\ InTable(index)
  /\ currentFrame' = frame_index(video, index) + 1
  /\ pc' = "idle"
  /\ UNCHANGED <<video, index>>

Next == PlayFrame \/ FastForward \/ ForwardTurn \/ Rewind \/ RewindTurn \/ SeekFrame

Spec == Init /\ [][Next]_vars

-----------------------------------------------------------------------------
(* Properties *)

(* The loops end at the rows that the operators of SeekChoice name.        *)
LoopsFindTheRow ==
  /\ pc = "seekForward" => index = FastForwardIndex(video, currentFrame)
  /\ pc = "seekBack" => index = RewindIndex(video, currentFrame)

(* rewindVideo() never reads outside the table: neither while it searches  *)
(* (its first row is below currentFrame / 24, also at the end of the       *)
(* video) nor when it takes the row it found (playback.c:218, 225).  And   *)
(* it goes back, by MinSkip frames or to the very beginning: the unsigned  *)
(* difference of playback.c:218 is never that of a later frame.            *)
RewindStaysInTable ==
  /\ pc = "rewind" => InTable(index - 1)
  /\ pc = "seekBack" => /\ InTable(index)
                        /\ \/ currentFrame - frame_index(video, index) >= MinSkip
                           \/ index = 0 /\ currentFrame < Near

(* A fast forward that finds its row skips between 4.5 and 5.5 seconds     *)
(* (playback.c:178-184): at least MinSkip frames, and less than one        *)
(* distance of I-frames more.                                              *)
ForwardByFiveSeconds ==
  pc = "seekForward" /\ InTable(index) =>
    frame_index(video, index) - currentFrame
      \in MinSkip .. MinSkip + MAX_IFRAME_OFFSET - 1

(* playback.c:170-175: "We know we wont go past the end of the iframe      *)
(* trailer information since we have at least 120 frames".                 *)
ForwardStaysInTable == pc = "seekForward" => InTable(index)

(* playback.c:211-216, of the rewind: "we just need to be 120 +- 12        *)
(* frames ... we will always get a fast forward by 4.5s - 5.5s".           *)
RewindByFiveSeconds ==
  pc = "seekBack" /\ currentFrame >= Near =>
    currentFrame - frame_index(video, index)
      \in MinSkip .. MinSkip + MAX_IFRAME_OFFSET

-----------------------------------------------------------------------------
(* The inductive invariant of SeekTableProofs *)

(* The row both searches go from.                                          *)
Start == currentFrame \div MAX_IFRAME_OFFSET

(* The forward search has passed over the rows behind Start, none of which *)
(* is far enough ahead, and ends at the first that is or behind the table. *)
ForwardInv ==
  /\ pc = "forward" =>
       /\ index \in Start .. num_iframes(video) - 1
       /\ \A k \in Start + 1 .. index : ~FarAhead(k)
  /\ pc = "seekForward" =>
       /\ index \in Start + 1 .. num_iframes(video)
       /\ \A k \in Start + 1 .. index - 1 : ~FarAhead(k)
       /\ InTable(index) => FarAhead(index)

(* The search backwards the same, except that it always finds a row.       *)
RewindInv ==
  /\ pc = "rewind" =>
       /\ currentFrame >= Near
       /\ index \in 1 .. Start
       /\ \A k \in index .. Start - 1 : ~FarBehind(k)
  /\ pc = "seekBack" =>
       \/ currentFrame < Near /\ index = 0
       \/ /\ currentFrame >= Near
          /\ index \in 0 .. Start - 1
          /\ FarBehind(index)
          /\ \A k \in index + 1 .. Start - 1 : ~FarBehind(k)

IInv == TypeOK /\ ForwardInv /\ RewindInv
=============================================================================
