------------------------------ MODULE MCPlayer ------------------------------
(***************************************************************************)
(* Small instances of Player for TLC.                                      *)
(***************************************************************************)
EXTENDS Player

(* Two videos of different length and different I-frames, scaled down:     *)
(* I-frames at most 2 apart, skips of 3 or more frames.                    *)
MCVideos == << [frames |-> 6, iframes |-> <<0, 1, 3, 5>>],
               [frames |-> 2, iframes |-> <<0>>] >>

(* One button at a time, and two pairs pressed together.                   *)
MCPresses == { {k} : k \in Keys } \cup
             { {"PLAY_PAUSE", "LOAD_NEXT"}, {"FAST_FORWARD", "REWIND"} }
=============================================================================
