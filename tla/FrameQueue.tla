----------------------------- MODULE FrameQueue -----------------------------
(***************************************************************************)
(* What ece423_vid_ctl.c promises the player: a bounded queue of finished  *)
(* frames in front of a screen.  Frames reach the screen whole, in the     *)
(* order in which they were registered, none skipped and none twice.       *)
(*                                                                         *)
(* Display.tla, the ring of frame buffers and the video DMA, implements    *)
(* this; Player.tla is built on it.                                        *)
(***************************************************************************)
EXTENDS Naturals, Sequences

CONSTANTS Frame,      (* the frames                                        *)
          Black,      (* what is on the screen before the first frame      *)
          Capacity    (* frames that can be waiting; buffers less one      *)

VARIABLES screen,     (* the frame the viewer sees                         *)
          queue       (* frames registered and not yet on the screen       *)

vars == <<screen, queue>>

(* Never more frames than buffers.                                         *)
TypeOK == /\ screen \in Frame \cup {Black}
          /\ queue \in Seq(Frame)
          /\ Len(queue) <= Capacity

Init == /\ screen = Black
        /\ queue = <<>>

HasRoom == Len(queue) < Capacity

(* A finished frame is registered.  Nothing checks that there is room: the *)
(* caller has waited for it before it had the frame drawn.                 *)
Put(f) == /\ queue' = Append(queue, f)
          /\ UNCHANGED screen

(* The screen goes on to the next frame.                                   *)
Show == /\ queue # <<>>
        /\ screen' = Head(queue)
        /\ queue' = Tail(queue)

Next == (HasRoom /\ \E f \in Frame : Put(f)) \/ Show

Spec == Init /\ [][Next]_vars
=============================================================================
