----------------------------- MODULE MsgChannel -----------------------------
(***************************************************************************)
(* What one direction of common/mailbox/mailbox.c promises its callers: a  *)
(* channel that holds one message.  send_*() blocks while a message is     *)
(* waiting; recv_msg() blocks until there is one and hands it to the       *)
(* caller, who may read it until it calls recv_msg() again.  The message   *)
(* the receiver is using never changes under its hands.                    *)
(*                                                                         *)
(* Mailbox.tla, the ring of buffers and the hardware mailbox behind this   *)
(* promise, implements it; Player.tla uses two of these channels.          *)
(***************************************************************************)

CONSTANTS Msg,    (* the messages                                          *)
          NoMsg   (* "no message"                                          *)

VARIABLES channel,  (* the message sent and not yet received, or NoMsg     *)
          inUse     (* the message the receiver is working on, or NoMsg    *)

vars == <<channel, inUse>>

(* The variables hold messages or nothing.                                *)
TypeOK == /\ channel \in Msg \cup {NoMsg}
          /\ inUse \in Msg \cup {NoMsg}

Init == /\ channel = NoMsg
        /\ inUse = NoMsg

(* One of the send_*() functions returns.                                  *)
Send(m) == /\ channel = NoMsg
           /\ channel' = m
           /\ UNCHANGED inUse

(* recv_msg() is called: the caller has done with the message before.      *)
BeginRecv == /\ inUse' = NoMsg
             /\ UNCHANGED channel

(* recv_msg() returns the message that was waiting.                        *)
Receive == /\ channel # NoMsg
           /\ inUse' = channel
           /\ channel' = NoMsg

Next == \/ \E m \in Msg : Send(m)
        \/ BeginRecv
        \/ inUse = NoMsg /\ Receive

Spec == Init /\ [][Next]_vars
=============================================================================
