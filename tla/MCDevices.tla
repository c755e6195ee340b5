----------------------------- MODULE MCDevices -----------------------------
(***************************************************************************)
(* The devices of core 0 in one run: one direction of the mailbox, the     *)
(* ring of frame buffers, and the DMA driver.  They share no state, so a   *)
(* behaviour is one part's, with the others at rest.                       *)
(***************************************************************************)
EXTENDS Mailbox, Display, Msgdma

VARIABLE part

MCInit == /\ part \in {"mailbox", "display", "dma"}
          /\ MailInit
          /\ Init
          /\ DmaInit
          /\ part # "dma" => caller = "display"

MCNext ==
  /\ UNCHANGED part
  /\ \/ part = "mailbox" /\ MailNext /\ UNCHANGED <<vars, dmaVars>>
     \/ part = "display" /\ Next /\ UNCHANGED <<mailVars, dmaVars>>
     \/ part = "dma" /\ DmaNext /\ UNCHANGED <<mailVars, vars>>

(* The fairness of the three modules.                                      *)
MCSpec == /\ MCInit
          /\ [][MCNext]_<<part, mailVars, vars, dmaVars>>
          /\ WF_mailVars(part = "mailbox" /\ SenderStep)
          /\ WF_mailVars(part = "mailbox" /\ ReceiverStep)
          /\ WF_vars(part = "display" /\ MainStep)
          /\ WF_vars(part = "display" /\ SwitchStep)
          /\ WF_vars(part = "display" /\ NothingToSwitch /\ main = "switch")
          /\ WF_vars(part = "display" /\ \E f \in Frame : FinishDrawing(f))
          /\ WF_vars(part = "display" /\ EndOfScan)
          /\ WF_dmaVars(part = "dma" /\ Driver)
          /\ WF_dmaVars(part = "dma" /\ Device)
=============================================================================
