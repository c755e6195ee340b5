------------------------------ MODULE Mailbox ------------------------------
(***************************************************************************)
(* One direction of the link between the two cores, as                     *)
(* common/mailbox/mailbox.c and the polling half of                        *)
(* altera_avalon_mailbox_simple.c implement it.                            *)
(*                                                                         *)
(* The sender writes a message into the next slot of a ring of RingSize    *)
(* buffers in shared memory, waits until the hardware mailbox is free, and *)
(* posts the ADDRESS of the slot.  The receiver polls the mailbox, reads   *)
(* the address, and then works on the message IN PLACE, in the sender's    *)
(* slot, until it calls recv_msg() again.  Nothing tells the sender when   *)
(* the receiver has done with a slot: that no slot is overwritten too      *)
(* early rests on the size of the ring and on the order of the steps.      *)
(*                                                                         *)
(* The hardware is one pair of registers: a write of CMD makes the mailbox *)
(* full, a read of CMD makes it empty again; PTR has no such effect.       *)
(***************************************************************************)
EXTENDS Integers

CONSTANTS RingSize,  (* slots of sendBuffer; the source has 4               *)
          Msg,       (* the messages                                       *)
          NoMsg      (* contents of a slot never written                   *)

ASSUME RingAssumption == RingSize \in Nat /\ RingSize >= 3
ASSUME MsgAssumption == NoMsg \notin Msg

VARIABLES sendBuffer,  (* the ring of slots in shared memory               *)
          counter,     (* the slot the sender fills next                   *)
          sender,      (* where the sending core is in send_*() / send()   *)
          arg,         (* the message the current send_*() call is to send *)
          lock,        (* dev->lock of the sending driver                  *)
          ptr,         (* PTR register: address of a slot                  *)
          full,        (* FULL / PENDING bit of the status register        *)
          receiver,    (* where the receiving core is in recv_msg()        *)
          msg          (* the pointer recv_msg() has read                  *)

sendVars == <<sendBuffer, counter, sender, arg, lock>>
recvVars == <<receiver, msg>>
mailVars == <<sendBuffer, counter, sender, arg, lock, ptr, full, receiver, msg>>

Slots == 0 .. RingSize - 1
NoSlot == RingSize      (* a null pointer *)

(* A slot is written field by field: header.type first, type_data after.   *)
SlotContents == [header : Msg \cup {NoMsg}, data : Msg \cup {NoMsg}]

(* Every slot, register and pointer has its type; counter stays in the    *)
(* ring (mailbox.c:24).                                                    *)
MailTypeOK ==
  /\ sendBuffer \in [Slots -> SlotContents]
  /\ counter \in Slots
  /\ sender \in {"idle", "header", "data", "lock", "status", "ptr", "cmd", "advance"}
  /\ arg \in Msg \cup {NoMsg}
  /\ lock \in BOOLEAN
  /\ ptr \in Slots \cup {NoSlot}
  /\ full \in BOOLEAN
  /\ receiver \in {"use", "poll", "ptr", "cmd"}
  /\ msg \in Slots \cup {NoSlot}

MailInit ==
  /\ sendBuffer = [s \in Slots |-> [header |-> NoMsg, data |-> NoMsg]]
  /\ counter = 0
  /\ sender = "idle"
  /\ arg = NoMsg
  /\ lock = FALSE
  /\ ptr = NoSlot
  /\ full = FALSE
  /\ receiver = "use"
  /\ msg = NoSlot

-----------------------------------------------------------------------------
(* The sending core *)

(* (counter + 1) & 0x3.                                                    *)
NextSlotOfTwo(c) == (c + 1) % 2        (* mutant: two slots are enough *)
NextSlot(c) == (c + 1) % RingSize

(* mailboxBuffers[counter][1], the address that is posted.                 *)
PostedSlot == counter

(* A send_*() function is called with message m.                           *)
Call(m) ==
  /\ sender = "idle"
  /\ sender' = "header"
  /\ arg' = m
  /\ UNCHANGED <<sendBuffer, counter, lock, ptr, full, recvVars>>

(* sendBuffer[counter].header.type = ...                                   *)
FillHeader ==
  /\ sender = "header"
  /\ sender' = "data"
  /\ sendBuffer' = [sendBuffer EXCEPT ![counter].header = arg]
  /\ UNCHANGED <<counter, arg, lock, ptr, full, recvVars>>

(* sendBuffer[counter].type_data = ...                                     *)
FillData ==
  /\ sender = "data"
  /\ sender' = "lock"
  /\ sendBuffer' = [sendBuffer EXCEPT ![counter].data = arg]
  /\ UNCHANGED <<counter, arg, lock, ptr, full, recvVars>>

(* altera_avalon_mailbox_send() returns -1, and send() calls it again, as  *)
(* long as the device is locked or the mailbox is full.                    *)
Acquire ==
  /\ sender = "lock"
  /\ ~lock
  /\ ~full
  /\ sender' = "status"
  /\ lock' = TRUE
  /\ UNCHANGED <<sendBuffer, counter, arg, ptr, full, recvVars>>

(* The polling loop on altera_avalon_mailbox_status().                     *)
PollFree ==
  /\ sender = "status"
  /\ ~full
  /\ sender' = "ptr"
  /\ UNCHANGED <<sendBuffer, counter, arg, lock, ptr, full, recvVars>>

(* altera_avalon_mailbox_post() writes PTR ...                             *)
WritePtr ==
  /\ sender = "ptr"
  /\ sender' = "cmd"
  /\ ptr' = PostedSlot
  /\ UNCHANGED <<sendBuffer, counter, arg, lock, full, recvVars>>

(* ... and then CMD, which makes the message visible to the receiver.      *)
WriteCmd ==
  /\ sender = "cmd"
  /\ sender' = "advance"
  /\ full' = TRUE
  /\ UNCHANGED <<sendBuffer, counter, arg, lock, ptr, recvVars>>

(* Mutant: the lock is never released.                                     *)
AdvanceLocked ==
  /\ sender = "advance"
  /\ sender' = "idle"
  /\ counter' = NextSlot(counter)
  /\ arg' = NoMsg
  /\ UNCHANGED <<sendBuffer, lock, ptr, full, recvVars>>

(* The driver releases its lock; send() moves on to the next slot.         *)
Advance ==
  /\ sender = "advance"
  /\ sender' = "idle"
  /\ counter' = NextSlot(counter)
  /\ lock' = FALSE
  /\ arg' = NoMsg
  /\ UNCHANGED <<sendBuffer, ptr, full, recvVars>>

SenderStep == \/ FillHeader \/ FillData \/ Acquire \/ PollFree
              \/ WritePtr \/ WriteCmd \/ Advance

-----------------------------------------------------------------------------
(* The receiving core *)

(* recv_msg() is called; the caller's pointer is dead from here on.        *)
BeginRecv ==
  /\ receiver = "use"
  /\ receiver' = "poll"
  /\ msg' = NoSlot
  /\ UNCHANGED <<sendVars, ptr, full>>

(* The polling loop of altera_avalon_mailbox_retrieve_poll().              *)
PollPending ==
  /\ receiver = "poll"
  /\ full
  /\ receiver' = "ptr"
  /\ UNCHANGED <<sendVars, ptr, full, msg>>

ReadPtr ==
  /\ receiver = "ptr"
  /\ receiver' = "cmd"
  /\ msg' = ptr
  /\ UNCHANGED <<sendVars, ptr, full>>

(* Mutant: CMD is never read.                                              *)
ReadPtrOnly ==
  /\ receiver = "cmd"
  /\ receiver' = "use"
  /\ UNCHANGED <<sendVars, ptr, full, msg>>

(* The read of CMD frees the mailbox; recv_msg() returns the pointer.      *)
ReadCmd ==
  /\ receiver = "cmd"
  /\ receiver' = "use"
  /\ full' = FALSE
  /\ UNCHANGED <<sendVars, ptr, msg>>

ReceiverStep == BeginRecv \/ PollPending \/ ReadPtr \/ ReadCmd

-----------------------------------------------------------------------------
MailNext == (\E m \in Msg : Call(m)) \/ SenderStep \/ ReceiverStep

(* Both cores keep running.  Nothing obliges a core to call send_*(), but  *)
(* a receiver always comes back to recv_msg(): both programs are loops     *)
(* around it.                                                              *)
MailSpec == /\ MailInit /\ [][MailNext]_mailVars
            /\ WF_mailVars(SenderStep) /\ WF_mailVars(ReceiverStep)

-----------------------------------------------------------------------------
(* Properties *)

(* The slot the receiver may be reading, and the slot waiting in the       *)
(* mailbox.                                                                *)
InUseSlots == (IF receiver = "use" THEN {msg} ELSE {})
              \cup (IF full THEN {ptr} ELSE {})

(* mailbox.c:55-123 fills sendBuffer[counter] BEFORE send() has waited for *)
(* the mailbox to be free.  Even so, it never writes the slot the receiver *)
(* is working on nor the slot whose address is waiting in the mailbox.     *)
NoSlotReuse == sender \in {"header", "data"} => counter \notin InUseSlots

(* The strengthening of NoSlotReuse that is inductive.  Posted is the slot  *)
(* after the last one posted; counting back from it, the slots whose        *)
(* contents still matter are the one in the mailbox and the one before it.  *)
Succ(s) == IF s = RingSize - 1 THEN 0 ELSE s + 1
Posted == IF sender = "advance" THEN Succ(counter) ELSE counter
Whole(s, m) == s \in Slots /\ sendBuffer[s] = [header |-> m, data |-> m]

(* What the sender knows: the slot is filled before it is posted, and       *)
(* between its first look at the status bit and the write of CMD nobody     *)
(* else can make the mailbox full.                                          *)
SenderInv ==
  /\ lock <=> sender \in {"status", "ptr", "cmd", "advance"}
  /\ sender # "idle" => arg \in Msg
  /\ sender = "data" => sendBuffer[counter].header = arg
  /\ sender \in {"lock", "status", "ptr", "cmd", "advance"} => Whole(counter, arg)
  /\ sender \in {"status", "ptr", "cmd"} => ~full
  /\ sender = "cmd" => ptr = counter

(* What the receiver knows: the mailbox stays full until it reads CMD, and  *)
(* every slot it can reach holds one whole message.                         *)
ReceiverInv ==
  /\ receiver \in {"ptr", "cmd"} => full
  /\ receiver = "cmd" => msg = ptr
  /\ full => \E m \in Msg : Whole(ptr, m)
  /\ receiver = "use" /\ msg # NoSlot => \E m \in Msg : Whole(msg, m)

(* Where those slots are in the ring, relative to the next one to fill.     *)
RingInv ==
  /\ full => Succ(ptr) = Posted
  /\ receiver = "use" /\ msg # NoSlot =>
       (IF full THEN Succ(Succ(msg)) ELSE Succ(msg)) = Posted

MailIInv == MailTypeOK /\ SenderInv /\ ReceiverInv /\ RingInv

(* The slot as a message: "torn" when its fields come from two messages.   *)
Contents(s) == IF sendBuffer[s].header = sendBuffer[s].data
               THEN sendBuffer[s].header
               ELSE "torn"

(* What becomes visible to the receiver when mailbox.c:22 posts a slot is  *)
(* exactly the message the caller of send_*() asked to be sent.            *)
PostsArgument == [][~full /\ full' => Contents(ptr) = arg]_mailVars

(* Every send_*() call returns (the loops of mailbox.c:22 and of the       *)
(* driver end), given that the other core keeps calling recv_msg().        *)
SendReturns == (sender = "header") ~> (sender = "idle")

(* Every message posted is handed to the receiver (mailbox.c:50).          *)
PostedIsReceived == full ~> ~full

(* The ring and the registers implement the promise of MsgChannel: one     *)
(* message at a time, none lost, repeated or altered, and the message in   *)
(* the receiver's hands stays as it was sent.                              *)
Channel == INSTANCE MsgChannel WITH
             channel <- IF full THEN Contents(ptr) ELSE NoMsg,
             inUse <- IF receiver = "use" /\ msg # NoSlot
                      THEN Contents(msg) ELSE NoMsg
ImplementsChannel == Channel!Spec
=============================================================================
