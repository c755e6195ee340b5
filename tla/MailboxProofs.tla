--------------------------- MODULE MailboxProofs ---------------------------
(***************************************************************************)
(* For every size of the ring from three slots up and every set of         *)
(* messages: Mailbox keeps its type, never overwrites a slot the receiver  *)
(* can still reach, posts what it was asked to post, and implements        *)
(* MsgChannel.  Liveness is left to TLC.                                   *)
(***************************************************************************)
EXTENDS Mailbox, TLAPS

(* The mask of mailbox.c:24, for a ring of any size, is "the next slot".   *)
LEMMA SuccIsMod ==
  ASSUME NEW s \in Slots
  PROVE  /\ NextSlot(s) = Succ(s)
         /\ Succ(s) \in Slots
  <1>1. CASE s = RingSize - 1
    <2>1. (s + 1) % RingSize = 0
      BY <1>1, RingAssumption, SMT DEF Slots
    <2> QED
      BY <1>1, <2>1, RingAssumption DEF Slots, Succ, NextSlot
  <1>2. CASE s # RingSize - 1
    <2>1. s + 1 \in 0 .. RingSize - 1
      BY <1>2, RingAssumption DEF Slots
    <2>2. (s + 1) % RingSize = s + 1
      BY <2>1, RingAssumption, SMT
    <2> QED
      BY <1>2, <2>1, <2>2, RingAssumption DEF Slots, Succ, NextSlot
  <1> QED
    BY <1>1, <1>2

(* Three slots are enough: going round the ring once or twice never comes  *)
(* back to the slot one started from.                                      *)
LEMMA SuccMoves ==
  ASSUME NEW s \in Slots
  PROVE  Succ(s) # s /\ Succ(Succ(s)) # s
  BY RingAssumption DEF Slots, Succ

-----------------------------------------------------------------------------
LEMMA InitIInv == MailInit => MailIInv
  <1> SUFFICES ASSUME MailInit PROVE MailIInv
    OBVIOUS
  <1>1. MailTypeOK
    <2>1. sendBuffer \in [Slots -> SlotContents]
      BY DEF MailInit, SlotContents
    <2>2. counter \in Slots
      BY RingAssumption DEF MailInit, Slots
    <2> QED
      BY <2>1, <2>2 DEF MailInit, MailTypeOK
  <1>2. SenderInv
    BY DEF MailInit, SenderInv
  <1>3. ReceiverInv
    BY DEF MailInit, ReceiverInv
  <1>4. RingInv
    BY DEF MailInit, RingInv
  <1> QED
    BY <1>1, <1>2, <1>3, <1>4 DEF MailIInv

LEMMA StepIInv == MailIInv /\ [MailNext]_mailVars => MailIInv'
  <1> SUFFICES ASSUME MailIInv, [MailNext]_mailVars PROVE MailIInv'
    OBVIOUS
  <1> USE RingAssumption, MsgAssumption
      DEF MailIInv, MailTypeOK, SenderInv, ReceiverInv, RingInv, NoSlot, SlotContents,
          Posted, Whole, sendVars, recvVars
  <1>1. ASSUME NEW m \in Msg, Call(m) PROVE MailIInv'
    BY <1>1 DEF Call
  <1>2. CASE FillHeader
    BY <1>2, SuccMoves DEF FillHeader
  <1>3. CASE FillData
    BY <1>3, SuccMoves DEF FillData
  <1>4. CASE Acquire
    BY <1>4 DEF Acquire
  <1>5. CASE PollFree
    BY <1>5 DEF PollFree
  <1>6. CASE WritePtr
    BY <1>6 DEF WritePtr, PostedSlot
  <1>7. CASE WriteCmd
    BY <1>7, SuccIsMod DEF WriteCmd
  <1>8. CASE Advance
    BY <1>8, SuccIsMod DEF Advance
  <1>9. CASE BeginRecv
    BY <1>9 DEF BeginRecv
  <1>10. CASE PollPending
    BY <1>10 DEF PollPending
  <1>11. CASE ReadPtr
    BY <1>11 DEF ReadPtr
  <1>12. CASE ReadCmd
    BY <1>12 DEF ReadCmd
  <1>13. CASE UNCHANGED mailVars
    BY <1>13 DEF mailVars
  <1> QED
    BY <1>1, <1>2, <1>3, <1>4, <1>5, <1>6, <1>7, <1>8, <1>9, <1>10, <1>11,
       <1>12, <1>13 DEF MailNext, SenderStep, ReceiverStep

(* Every reachable state satisfies the inductive invariant of the ring.    *)
THEOREM Invariant == MailSpec => []MailIInv
  <1> QED BY InitIInv, StepIInv, PTL DEF MailSpec

(* No slot is overwritten while its message can still be read: the ring of  *)
(* mailbox.c needs no acknowledgement because it has three slots or more.   *)
THEOREM SlotSafety == MailSpec => []NoSlotReuse
  <1>1. MailIInv => NoSlotReuse
    BY SuccMoves, RingAssumption
    DEF MailIInv, MailTypeOK, SenderInv, RingInv, NoSlotReuse, InUseSlots, Posted,
        NoSlot, Slots
  <1> QED
    BY <1>1, Invariant, PTL

(* The message that becomes visible is the one send_*() was called with.    *)
THEOREM PostsWhatWasAsked == MailSpec => PostsArgument
  <1>1. MailIInv /\ [MailNext]_mailVars => [~full /\ full' => Contents(ptr) = arg]_mailVars
    <2> SUFFICES ASSUME MailIInv, [MailNext]_mailVars, ~full, full'
                 PROVE  Contents(ptr) = arg
      OBVIOUS
    <2>1. WriteCmd
      BY DEF MailNext, mailVars, SenderStep, ReceiverStep, Call, FillHeader, FillData,
             Acquire, PollFree, WritePtr, Advance, BeginRecv, PollPending,
             ReadPtr, ReadCmd
    <2>2. Whole(counter, arg) /\ ptr = counter
      BY <2>1 DEF WriteCmd, MailIInv, SenderInv
    <2> QED
      BY <2>2 DEF Whole, Contents
  <1> QED
    BY <1>1, Invariant, PTL DEF MailSpec, PostsArgument

-----------------------------------------------------------------------------
(* A slot that holds the whole of one message reads as that message.        *)
LEMMA WholeContents ==
  ASSUME NEW s, NEW m, Whole(s, m)
  PROVE  Contents(s) = m
  BY DEF Whole, Contents

(* Filling a slot leaves every slot the receiver can reach as it was.       *)
LEMMA FillIsInvisible ==
  ASSUME MailIInv, FillHeader \/ FillData
  PROVE  /\ full => Contents(ptr)' = Contents(ptr)
         /\ receiver = "use" /\ msg # NoSlot => Contents(msg)' = Contents(msg)
  <1>1. full => ptr \in Slots /\ ptr # counter
    BY SuccMoves DEF MailIInv, ReceiverInv, RingInv, Whole, Posted, FillHeader, FillData
  <1>2. receiver = "use" /\ msg # NoSlot => msg \in Slots /\ msg # counter
    BY SuccMoves DEF MailIInv, ReceiverInv, RingInv, Whole, Posted, FillHeader, FillData
  <1>3. \A s \in Slots : s # counter => sendBuffer'[s] = sendBuffer[s]
    BY DEF MailIInv, MailTypeOK, FillHeader, FillData
  <1> QED
    BY <1>1, <1>2, <1>3 DEF Contents, FillHeader, FillData, recvVars

(* Every step of the ring and the registers is a step of the channel or    *)
(* invisible in it.                                                        *)
LEMMA StepImplements == MailIInv /\ [MailNext]_mailVars => [Channel!Next]_Channel!vars
  <1> SUFFICES ASSUME MailIInv, [MailNext]_mailVars PROVE [Channel!Next]_Channel!vars
    OBVIOUS
  <1> USE DEF Channel!vars, recvVars, sendVars
  <1>1. ASSUME NEW m \in Msg, Call(m) PROVE UNCHANGED Channel!vars
    BY <1>1 DEF Call, Contents
  <1>2. CASE FillHeader
    BY <1>2, FillIsInvisible DEF FillHeader
  <1>3. CASE FillData
    BY <1>3, FillIsInvisible DEF FillData
  <1>4. CASE Acquire
    BY <1>4 DEF Acquire, Contents
  <1>5. CASE PollFree
    BY <1>5 DEF PollFree, Contents
  <1>6. CASE WritePtr
    BY <1>6 DEF WritePtr, Contents, MailIInv, SenderInv
  <1>7. CASE WriteCmd
    <2>1. ~full /\ arg \in Msg /\ Contents(ptr) = arg
      BY <1>7, WholeContents DEF WriteCmd, MailIInv, SenderInv
    <2>2. Contents(ptr)' = arg /\ Contents(msg)' = Contents(msg)
      BY <1>7, <2>1 DEF WriteCmd, Contents
    <2>3. Channel!Send(arg)
      BY <1>7, <2>1, <2>2 DEF WriteCmd, Channel!Send
    <2> QED
      BY <2>1, <2>3 DEF Channel!Next
  <1>8. CASE Advance
    BY <1>8 DEF Advance, Contents
  <1>9. CASE BeginRecv
    <2>1. Channel!BeginRecv
      BY <1>9 DEF BeginRecv, Channel!BeginRecv, Contents
    <2> QED
      BY <2>1 DEF Channel!Next
  <1>10. CASE PollPending
    BY <1>10 DEF PollPending, Contents
  <1>11. CASE ReadPtr
    BY <1>11 DEF ReadPtr, Contents
  <1>12. CASE ReadCmd
    <2>1. PICK m \in Msg : full /\ msg = ptr /\ Whole(ptr, m)
      BY <1>12 DEF ReadCmd, MailIInv, ReceiverInv
    <2>2. Contents(ptr) = m /\ Contents(msg)' = m
      BY <1>12, <2>1, WholeContents DEF ReadCmd, Contents
    <2>3. msg # NoSlot /\ m # NoMsg
      BY <2>1, RingAssumption, MsgAssumption DEF Whole, Slots, NoSlot
    <2>4. Channel!Receive
      BY <1>12, <2>1, <2>2, <2>3 DEF ReadCmd, Channel!Receive
    <2> QED
      BY <1>12, <2>4 DEF Channel!Next, ReadCmd
  <1>13. CASE UNCHANGED mailVars
    BY <1>13 DEF mailVars, Contents
  <1> QED
    BY <1>1, <1>2, <1>3, <1>4, <1>5, <1>6, <1>7, <1>8, <1>9, <1>10, <1>11,
       <1>12, <1>13 DEF MailNext, SenderStep, ReceiverStep

(* The mailbox keeps the promise of MsgChannel, whatever the messages and   *)
(* however long the ring (three slots at least).                            *)
THEOREM Implements == MailSpec => ImplementsChannel
  <1>1. MailInit => Channel!Init
    BY DEF MailInit, Channel!Init
  <1> QED
    BY <1>1, StepImplements, Invariant, PTL DEF MailSpec, ImplementsChannel, Channel!Spec
=============================================================================
