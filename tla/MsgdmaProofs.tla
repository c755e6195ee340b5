---------------------------- MODULE MsgdmaProofs ----------------------------
(***************************************************************************)
(* For every size of the descriptor FIFO and every set of transfers: what  *)
(* the callers of the mSGDMA driver ask for is carried out once and in     *)
(* order, and the driver never waits for room with the device stopped.     *)
(***************************************************************************)
EXTENDS Msgdma, SequenceTheorems, TLAPS

pending == transfer \o descriptors \o IF pc = "run" THEN <<>> ELSE request

(* The states of a call and of the device.                                 *)
TypeInv ==
  /\ caller \in {"display", "accelerator"}
  /\ descriptors \in Seq(Payloads) /\ transfer \in Seq(Payloads) /\ request \in Seq(Payloads)
  /\ Len(descriptors) <= descriptor_fifo_depth
  /\ Len(transfer) <= 1
  /\ rounds \in Nat
  /\ pc \in {"idle", "check", "stop", "write", "run"}
  /\ IF pc = "idle" THEN request = <<>> ELSE Len(request) = 1

(* Between the look at the fill level and the descriptor's write only the  *)
(* device changes the level, and lowers it; the accelerator begins with an *)
(* idle device.                                                            *)
RoomInv ==
  /\ pc \in {"stop", "write"} => fill_level < descriptor_fifo_depth
  /\ caller = "accelerator" /\ pc \in {"check", "stop", "write"} => descriptors = <<>>

(* The device is stopped only inside a call.                               *)
StoppedInv == stopped => pc \in {"write", "run"}

IInv == TypeInv /\ RoomInv /\ StoppedInv

LEMMA Single ==
  ASSUME NEW b \in Payloads
  PROVE  <<b>> \in Seq(Payloads) /\ Len(<<b>>) = 1
OBVIOUS

LEMMA Associative ==
  ASSUME NEW s \in Seq(Payloads), NEW t \in Seq(Payloads), NEW u \in Seq(Payloads)
  PROVE  (s \o t) \o u = s \o (t \o u)
BY ConcatAssociative

LEMMA OneTransfer ==
  ASSUME NEW s \in Seq(Payloads), s # <<>>, Len(s) <= 1
  PROVE  \E b \in Payloads : s = <<b>>
<1>1. Len(s) = 1
  <2>1. Len(s) \in Nat \ {0}
    BY EmptySeq, Zenon
  <2>2. \A n \in Nat \ {0} : n <= 1 => n = 1
    OBVIOUS
  <2> QED
    BY <2>1, <2>2, Zenon
<1>2. s[1] \in Payloads
  BY <1>1
<1>3. s = <<s[1]>>
  <2>1. <<s[1]>> \in Seq(Payloads) /\ Len(<<s[1]>>) = 1 /\ <<s[1]>>[1] = s[1]
    BY <1>2
  <2> QED
    BY <1>1, <2>1, SeqEqual
<1> QED
  BY <1>2, <1>3

LEMMA InitIInv == DmaInit => IInv
  BY MsgdmaAssumption, EmptySeq DEF DmaInit, IInv, TypeInv, RoomInv, StoppedInv, fill_level

LEMMA StepIInv == IInv /\ [DmaNext]_dmaVars => IInv'
<1> SUFFICES ASSUME IInv, [DmaNext]_dmaVars PROVE IInv'
  OBVIOUS
<1> USE MsgdmaAssumption DEF IInv, TypeInv, RoomInv, StoppedInv, fill_level, hardware
<1>1. ASSUME NEW b \in Payloads, async_transfer(b) PROVE IInv'
  <2>1. request' \in Seq(Payloads) /\ Len(request') = 1 /\ pc = "idle" /\ pc' = "check"
    BY <1>1, Single DEF async_transfer
  <2>2. caller = "accelerator" => descriptors = <<>>
    BY <1>1 DEF async_transfer, Busy
  <2> QED
    BY <1>1, <2>1, <2>2 DEF async_transfer
<1>2. CASE Check
  <2>1. pc = "check" /\ (caller = "accelerator" => ~Full)
    BY <1>2, EmptySeq DEF Check, Full
  <2> QED
    BY <1>2, <2>1, EmptySeq DEF Check, Full, Return, ENOSPC
<1>3. CASE Stop
  BY <1>3 DEF Stop
<1>4. CASE WriteDescriptor
  <2>1. /\ fill_level < descriptor_fifo_depth
        /\ descriptors' = descriptors \o request /\ pc = "write" /\ pc' = "run"
        /\ UNCHANGED <<caller, transfer, stopped, request, rounds>>
    BY <1>4 DEF WriteDescriptor
  <2>2. descriptors' \in Seq(Payloads) /\ Len(descriptors') = Len(descriptors) + Len(request)
    BY <2>1, ConcatProperties, Zenon
  <2>3. Len(request) = 1 /\ Len(descriptors) \in Nat
    BY <2>1
  <2> QED
    BY <2>1, <2>2, <2>3
<1>5. CASE Run
  BY <1>5, EmptySeq DEF Run, Return
<1>6. CASE Issue
  <2>1. /\ Head(descriptors) \in Payloads /\ Tail(descriptors) \in Seq(Payloads)
        /\ Len(Tail(descriptors)) = Len(descriptors) - 1
    BY <1>6, HeadTailProperties DEF Issue
  <2>2. transfer' \in Seq(Payloads) /\ Len(transfer') = 1
    BY <1>6, <2>1, Single DEF Issue
  <2>3. descriptors # <<>> /\ Len(descriptors) \in Nat
    BY <1>6 DEF Issue
  <2>4. UNCHANGED <<caller, stopped, pc, request, rounds>> /\ descriptors' = Tail(descriptors)
    BY <1>6 DEF Issue
  <2> QED
    BY <2>1, <2>2, <2>3, <2>4
<1>7. CASE Finish
  BY <1>7, EmptySeq DEF Finish
<1>8. CASE UNCHANGED dmaVars
  BY <1>8 DEF dmaVars
<1> QED
  BY <1>1, <1>2, <1>3, <1>4, <1>5, <1>6, <1>7, <1>8 DEF DmaNext, Driver, Device

(* Every reachable state satisfies the invariant of the driver.            *)
THEOREM Invariant == DmaSpec => []IInv
<1> QED BY InitIInv, StepIInv, PTL DEF DmaSpec

(* The wait for room in the FIFO, with the device stopped, never turns: so *)
(* it cannot time out, which would leave the device stopped for ever       *)
(* (altera_msgdma.c:394-418).                                              *)
RoomToWrite == pc = "write" => fill_level < descriptor_fifo_depth
DeviceRuns == pc \in {"idle", "check"} => ~stopped

THEOREM NeverWaits == DmaSpec => [](RoomToWrite /\ DeviceRuns)
<1>1. IInv => RoomToWrite /\ DeviceRuns
  BY DEF IInv, RoomInv, StoppedInv, RoomToWrite, DeviceRuns
<1> QED
  BY <1>1, Invariant, PTL

-----------------------------------------------------------------------------
(* A call adds its transfer at the end.                                    *)
LEMMA CallRequests ==
  ASSUME IInv, NEW b \in Payloads, async_transfer(b)
  PROVE  Requests!Next
<1> DEFINE busy == transfer \o descriptors
<1>1. /\ transfer \in Seq(Payloads) /\ descriptors \in Seq(Payloads)
      /\ Len(transfer) <= 1 /\ Len(descriptors) <= descriptor_fifo_depth
      /\ pc = "idle" /\ pc' = "check" /\ request = <<>> /\ request' = <<b>>
      /\ transfer' = transfer /\ descriptors' = descriptors
  BY DEF IInv, TypeInv, async_transfer, hardware
<1>2. busy \in Seq(Payloads) /\ Len(busy) = Len(transfer) + Len(descriptors)
  BY <1>1, ConcatProperties, Zenon
<1>3. pending = transfer \o descriptors \o <<>> /\ pending' = transfer \o descriptors \o <<b>>
  BY <1>1 DEF pending
<1>4. transfer \o descriptors \o <<>> = busy
  BY <1>2, ConcatEmptySeq, Zenon
<1>5. transfer \o descriptors \o <<b>> = Append(busy, b)
  BY <1>2, AppendIsConcat, Zenon
<1>6. Len(busy) < descriptor_fifo_depth + 2
  BY <1>1, <1>2, MsgdmaAssumption
<1> HIDE DEF busy
<1>7. pending' = Append(pending, b) /\ Len(pending) < descriptor_fifo_depth + 2
  BY <1>3, <1>4, <1>5, <1>6
<1> QED
  BY <1>7 DEF Requests!Next, Requests!Request, pending

(* The driver hands it on, and loses it neither by a result of its own ... *)
LEMMA DriverKeeps ==
  ASSUME IInv, Driver
  PROVE  pending' = pending
<1> USE DEF pending, IInv, TypeInv, hardware
<1>1. CASE Check
  <2>1. UNCHANGED <<transfer, descriptors>> /\ pc = "check" /\ (caller = "accelerator" => ~Full)
    BY <1>1, EmptySeq, MsgdmaAssumption DEF Check, Full, RoomInv, fill_level, hardware
  <2>2. request' = request /\ pc' # "run"
    BY <1>1, <2>1 DEF Check, Return, ENOSPC
  <2> QED
    BY <2>1, <2>2
<1>2. CASE Stop
  BY <1>2 DEF Stop
<1>3. CASE WriteDescriptor
  <2>1. /\ descriptors' = descriptors \o request /\ pc = "write" /\ pc' = "run"
        /\ transfer' = transfer
    BY <1>3 DEF WriteDescriptor, RoomInv
  <2>2. transfer \o (descriptors \o request) = (transfer \o descriptors) \o request
    BY Associative
  <2>3. transfer \o (descriptors \o request) \in Seq(Payloads)
    BY ConcatProperties, Zenon
  <2>4. (transfer \o (descriptors \o request)) \o <<>> = transfer \o (descriptors \o request)
    BY <2>3, ConcatEmptySeq, Zenon
  <2>5. pending' = (transfer \o (descriptors \o request)) \o <<>>
    BY <2>1
  <2>6. pending = (transfer \o descriptors) \o request
    BY <2>1
  <2> QED
    BY <2>2, <2>4, <2>5, <2>6
<1>4. CASE Run
  BY <1>4 DEF Run, Return
<1> QED
  BY <1>1, <1>2, <1>3, <1>4 DEF Driver

(* ... nor by the device's look at the FIFO.                               *)
LEMMA IssueKeeps ==
  ASSUME IInv, Issue
  PROVE  pending' = pending
<1>1. /\ transfer = <<>> /\ descriptors \in Seq(Payloads) /\ descriptors # <<>>
      /\ transfer' = <<Head(descriptors)>> /\ descriptors' = Tail(descriptors)
      /\ UNCHANGED <<pc, request>>
  BY DEF Issue, IInv, TypeInv
<1>2. Head(descriptors) \in Payloads /\ Tail(descriptors) \in Seq(Payloads)
  BY <1>1, HeadTailProperties, Zenon
<1>3. <<Head(descriptors)>> \o Tail(descriptors) = descriptors
  BY <1>1, <1>2
<1>4. <<>> \o descriptors = descriptors
  BY <1>1, ConcatEmptySeq, Zenon
<1>5. pending = (<<>> \o descriptors) \o IF pc = "run" THEN <<>> ELSE request
  BY <1>1 DEF pending
<1>6. pending' = (<<Head(descriptors)>> \o Tail(descriptors)) \o IF pc = "run" THEN <<>> ELSE request
  BY <1>1 DEF pending
<1> QED
  BY <1>3, <1>4, <1>5, <1>6

(* The transfer that ends is the oldest.                                   *)
LEMMA FinishCompletes ==
  ASSUME IInv, Finish
  PROVE  Requests!Next
<1> DEFINE late == IF pc = "run" THEN <<>> ELSE request
<1>1. /\ transfer \in Seq(Payloads) /\ transfer # <<>> /\ Len(transfer) <= 1
      /\ transfer' = <<>> /\ UNCHANGED <<descriptors, pc, request>>
      /\ descriptors \in Seq(Payloads) /\ request \in Seq(Payloads)
  BY DEF Finish, IInv, TypeInv
<1>2. late \in Seq(Payloads) /\ late' = late
  <2>1. <<>> \in Seq(Payloads)
    BY EmptySeq, Zenon
  <2> QED
    BY <1>1, <2>1
<1>3. pending = (transfer \o descriptors) \o late /\ pending' = (<<>> \o descriptors) \o late
  BY <1>1 DEF pending
<1> HIDE DEF late
<1>4. PICK b \in Payloads : transfer = <<b>>
  BY <1>1, OneTransfer
<1> DEFINE rest == descriptors \o late
<1>9. rest \in Seq(Payloads)
  BY <1>1, <1>2, ConcatProperties, Zenon
<1>5. (transfer \o descriptors) \o late = transfer \o rest
  BY <1>1, <1>2, Associative
<1>6. <<>> \o descriptors = descriptors
  BY <1>1, ConcatEmptySeq, Zenon
<1>7. pending = <<b>> \o rest /\ pending' = rest
  BY <1>3, <1>4, <1>5, <1>6
<1> HIDE DEF rest
<1>8. <<b>> \o rest # <<>> /\ Tail(<<b>> \o rest) = rest
  BY <1>9
<1>10. pending # <<>> /\ pending' = Tail(pending)
  BY <1>7, <1>8
<1> QED
  BY <1>10 DEF Requests!Next, Requests!Complete, pending

(* Every transfer asked for is carried out once, in the order asked for,   *)
(* whichever results the callers look at (the safety part of               *)
(* ImplementsTransferQueue; idct_ycbcr_to_rgb_accel.c:28-37).              *)
RequestsInOrder == Requests!Init /\ [][Requests!Next]_pending

THEOREM Implements == DmaSpec => RequestsInOrder
<1>1. DmaInit => Requests!Init
  <2>1. <<>> \in Seq(Payloads)
    BY EmptySeq, Zenon
  <2>2. <<>> \o <<>> \o <<>> = <<>>
    BY <2>1, ConcatEmptySeq, Zenon
  <2> QED
    BY <2>2 DEF DmaInit, Requests!Init
<1>2. IInv /\ [DmaNext]_dmaVars => [Requests!Next]_pending
  <2> SUFFICES ASSUME IInv, [DmaNext]_dmaVars PROVE [Requests!Next]_pending
    OBVIOUS
  <2>1. ASSUME NEW b \in Payloads, async_transfer(b) PROVE Requests!Next
    BY <2>1, CallRequests
  <2>2. CASE Driver
    BY <2>2, DriverKeeps
  <2>3. CASE Issue
    BY <2>3, IssueKeeps
  <2>4. CASE Finish
    BY <2>4, FinishCompletes
  <2>5. CASE UNCHANGED dmaVars
    BY <2>5 DEF dmaVars, hardware, pending
  <2> QED
    BY <2>1, <2>2, <2>3, <2>4, <2>5 DEF DmaNext, Device
<1> QED
  BY <1>1, <1>2, Invariant, PTL DEF DmaSpec, RequestsInOrder
=============================================================================
