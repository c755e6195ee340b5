------------------------------ MODULE Playlist ------------------------------
(***************************************************************************)
(* What the master may expect of READ_NEXT_FILE (findLoadNextVideo of core *)
(* 1): the videos of the card one after the other, the first again after   *)
(* the last.  When the card fails meanwhile the list may begin again, or   *)
(* no video may be opened, after which core 1 stops.                       *)
(***************************************************************************)
EXTENDS Integers

CONSTANT Videos  (* the number of videos on the card                       *)

VARIABLES video,   (* the one that is open, 0 before the first             *)
          asked,   (* the next one is being looked for                     *)
          fault,   (* the card failed since it was asked for               *)
          stopped

vars == <<video, asked, fault, stopped>>

Init == video = 0 /\ asked = FALSE /\ fault = FALSE /\ stopped = FALSE

Ask == /\ ~asked
       /\ asked' = TRUE
       /\ fault' = FALSE
       /\ UNCHANGED <<video, stopped>>

CardFails == /\ asked
             /\ fault' = TRUE
             /\ UNCHANGED <<video, asked, stopped>>

Give == /\ asked
        /\ asked' = FALSE
        /\ \/ video' = (video % Videos) + 1
           \/ fault /\ video' = 1
        /\ UNCHANGED <<fault, stopped>>

Stop == /\ asked
        /\ asked' = FALSE
        /\ stopped' = TRUE
        /\ fault' = TRUE
        /\ UNCHANGED video

Next == ~stopped /\ (Ask \/ CardFails \/ Give \/ Stop)

Spec == Init /\ [][Next]_vars
=============================================================================
