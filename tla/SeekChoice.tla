----------------------------- MODULE SeekChoice -----------------------------
(***************************************************************************)
(* The choice fastForwardVideo() and rewindVideo() (playback.c) make from  *)
(* the table of I-frames.  The constants are the numbers of the source,    *)
(* kept as parameters so that short videos show what long ones do.         *)
(***************************************************************************)
EXTENDS IframeTable

CONSTANTS Near,              (* "less than 120 frames left"               *)
          MinSkip            (* an I-frame "at least 108 frames" away     *)

ASSUME SkipAssumption == /\ Near \in Nat
                         /\ MinSkip \in 1 .. Near
                         /\ MAX_IFRAME_OFFSET <= Near

(* The row the loop of fastForwardVideo() stops at: the first one, from    *)
(* the one after currentFrame / MAX_IFRAME_OFFSET, that is far enough      *)
(* ahead - or num_iframes, one past the table, if none is.                 *)
FastForwardIndex(v, currentFrame) ==
  LET from == currentFrame \div MAX_IFRAME_OFFSET + 1
      far == { k \in from .. num_iframes(v) - 1 :
                 frame_index(v, k) - currentFrame >= MinSkip }
  IN  IF far = {}
      THEN IF from > num_iframes(v) THEN from ELSE num_iframes(v)
      ELSE CHOOSE k \in far : \A j \in far : k <= j

(* The row rewindVideo() stops at: row 0 near the beginning, otherwise the *)
(* last one below currentFrame / MAX_IFRAME_OFFSET that is far enough      *)
(* behind - or -1, one before the table, if none is.                       *)
RewindIndex(v, currentFrame) ==
  LET below == currentFrame \div MAX_IFRAME_OFFSET - 1
      far == { k \in 0 .. below : currentFrame - frame_index(v, k) >= MinSkip }
  IN  IF currentFrame < Near THEN 0
      ELSE IF far = {} THEN -1
      ELSE CHOOSE k \in far : \A j \in far : k >= j

CanFastForward(v, currentFrame) == v.frames - currentFrame >= Near

(* Neither choice leaves the table.                                        *)
ChoiceInTable(v) ==
  \A c \in 0 .. v.frames :
    /\ CanFastForward(v, c) => FastForwardIndex(v, c) \in 0 .. num_iframes(v) - 1
    /\ RewindIndex(v, c) \in 0 .. num_iframes(v) - 1
=============================================================================
