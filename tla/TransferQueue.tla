--------------------------- MODULE TransferQueue ---------------------------
(***************************************************************************)
(* What the callers of the mSGDMA driver expect of one device: every       *)
(* transfer asked for is carried out, once, in the order asked for.        *)
(***************************************************************************)
EXTENDS Integers, Sequences

CONSTANTS Payloads,    (* what is transferred                              *)
          MaxPending   (* a bound on the transfers under way               *)

VARIABLE pending  (* the transfers asked for and not done, oldest first    *)

Init == pending = <<>>

Request(b) == /\ Len(pending) < MaxPending
              /\ pending' = Append(pending, b)

Complete == /\ pending # <<>>
            /\ pending' = Tail(pending)

Next == (\E b \in Payloads : Request(b)) \/ Complete

Spec == Init /\ [][Next]_pending /\ WF_pending(Complete)
=============================================================================
