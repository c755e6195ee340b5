--------------------------- MODULE DisplayProofs ---------------------------
(***************************************************************************)
(* For every number of frame buffers that is a power of two and every      *)
(* depth of the DMA's FIFO from two up: the ring of ece423_vid_ctl.c keeps *)
(* its type, no picture on the screen is drawn over, the FIFO always has   *)
(* room, and with the timer stopped there is always a buffer to draw into; *)
(* the ring and the DMA implement the queue of frames of FrameQueue.tla.   *)
(* That the number is a power of two makes Display the code's ring; the    *)
(* proofs use no more than that it is at least two.                        *)
(***************************************************************************)
EXTENDS Display, SequenceTheorems, TLAPS

(* The remainder that stands for the mask is "the next buffer".            *)
LEMMA AfterStep ==
  ASSUME NEW b \in Buffers
  PROVE  /\ After(b) \in Buffers
         /\ After(b) = IF b = NumBuffers - 1 THEN 0 ELSE b + 1
  <1>1. CASE b = NumBuffers - 1
    <2>1. (b + 1) % NumBuffers = 0
      BY <1>1, BuffersAssumption, SMT DEF Buffers
    <2> QED
      BY <1>1, <2>1, BuffersAssumption DEF Buffers, After
  <1>2. CASE b # NumBuffers - 1
    <2>1. b + 1 \in 0 .. NumBuffers - 1
      BY <1>2, BuffersAssumption DEF Buffers
    <2>2. (b + 1) % NumBuffers = b + 1
      BY <2>1, BuffersAssumption, SMT
    <2> QED
      BY <1>2, <2>1, <2>2, BuffersAssumption DEF Buffers, After
  <1> QED
    BY <1>1, <1>2

(* With two buffers or more the next one is another one, and different     *)
(* buffers have different successors.                                      *)
LEMMA AfterMoves ==
  ASSUME NEW b \in Buffers
  PROVE  /\ After(b) # b
         /\ \A c \in Buffers : After(b) = After(c) => b = c
  BY AfterStep, BuffersAssumption DEF Buffers

(* The sequences of one and two descriptors.                               *)
LEMMA ShortFifos ==
  ASSUME NEW a \in Buffers, NEW b \in Buffers
  PROVE  /\ <<a>> \in Seq(Buffers) /\ Len(<<a>>) = 1
         /\ <<a, b>> \in Seq(Buffers) /\ Len(<<a, b>>) = 2
         /\ Append(<<a>>, b) = <<a, b>>
         /\ Tail(<<a, b>>) = <<b>>
  <1>1. <<a>> \in Seq(Buffers) /\ <<a, b>> \in Seq(Buffers)
    OBVIOUS
  <1>2. Len(<<a>>) = 1 /\ Len(<<a, b>>) = 2
    OBVIOUS
  <1>3. Append(<<a>>, b) = <<a, b>>
    <2>1. /\ Append(<<a>>, b) \in Seq(Buffers)
          /\ Len(Append(<<a>>, b)) = 2
          /\ Append(<<a>>, b)[1] = a
          /\ Append(<<a>>, b)[2] = b
      BY <1>1, <1>2, AppendProperties
    <2>2. \A i \in 1 .. Len(Append(<<a>>, b)) : Append(<<a>>, b)[i] = <<a, b>>[i]
      BY <2>1
    <2> QED
      BY <1>1, <1>2, <2>1, <2>2, SeqEqual
  <1>4. Tail(<<a, b>>) = <<b>>
    OBVIOUS
  <1> QED
    BY <1>1, <1>2, <1>3, <1>4

-----------------------------------------------------------------------------
LEMMA InitIInv == Init => IInv
  <1> SUFFICES ASSUME Init PROVE IInv
    OBVIOUS
  <1>1. 0 \in Buffers /\ 1 \in Buffers /\ After(0) = 1
    BY AfterStep, BuffersAssumption DEF Buffers
  <1>2. TypeOK
    <2>1. fifo \in Seq(Buffers) /\ Len(fifo) = 1
      BY <1>1, ShortFifos DEF Init
    <2>2. buffer \in [Buffers -> Frame \cup {Black, "torn"}]
      BY DEF Init
    <2>3. Len(fifo) \in 1 .. FifoDepth
      BY <2>1, FifoAssumption
    <2> QED
      BY <1>1, <2>1, <2>2, <2>3 DEF Init, TypeOK
  <1>3. FifoInv /\ DrawInv /\ StillInv /\ DrawnInv
    BY <1>1 DEF Init, FifoInv, DrawInv, StillInv, DrawnInv
  <1> QED
    BY <1>2, <1>3 DEF IInv

(* In an inductive state the FIFO is one of three short sequences.         *)
LEMMA FifoCases ==
  ASSUME IInv
  PROVE  /\ After(displayed) \in Buffers
         /\ \/ fifo = <<displayed>>
            \/ switch = "wait" /\ fifo = <<displayed, After(displayed)>>
            \/ switch = "wait" /\ fifo = <<After(displayed)>>
  BY AfterStep DEF IInv, TypeOK, FifoInv

LEMMA StepIInv == IInv /\ [Next]_vars => IInv'
  <1> SUFFICES ASSUME IInv, [Next]_vars PROVE IInv'
    OBVIOUS
  <1>0. /\ displayed \in Buffers /\ written \in Buffers
        /\ After(displayed) \in Buffers /\ After(written) \in Buffers
    BY AfterStep DEF IInv, TypeOK
  <1> USE BuffersAssumption, FifoAssumption
      DEF IInv, TypeOK, FifoInv, DrawInv, StillInv, DrawnInv, NewFrame, FreeBuffer, MainAt, MaySwitch
  <1>1. CASE StartTimer
    BY <1>1 DEF StartTimer
  <1>2. CASE StopTimer
    BY <1>2 DEF StopTimer
  <1>3. CASE WantBuffer
    BY <1>3 DEF WantBuffer
  <1>4. CASE BufferIsAvailable
    BY <1>4 DEF BufferIsAvailable
  <1>5. CASE StartDrawing
    BY <1>5 DEF StartDrawing
  <1>6. CASE DrawingFinished
    BY <1>6 DEF DrawingFinished
  <1>7. CASE RegisterWrittenBuffer
    BY <1>0, <1>7 DEF RegisterWrittenBuffer
  <1>8. CASE NothingToSwitch
    BY <1>0, <1>8, AfterMoves DEF NothingToSwitch
  <1>9. CASE BeginSwitch
    BY <1>0, <1>9 DEF BeginSwitch
  <1>10. CASE Submit
    <2>1. fifo = <<displayed>> /\ fifo' = <<displayed, After(displayed)>>
      BY <1>0, <1>10, ShortFifos DEF Submit
    <2>2. fifo' \in Seq(Buffers) /\ Len(fifo') = 2
      BY <1>0, <2>1, ShortFifos
    <2>3. TypeOK'
      BY <1>0, <1>10, <2>2 DEF Submit
    <2>4. FifoInv'
      BY <1>0, <1>10, <2>1 DEF Submit
    <2>5. DrawInv' /\ StillInv' /\ DrawnInv'
      BY <1>10 DEF Submit
    <2> QED
      BY <2>3, <2>4, <2>5
  <1>11. CASE FinishSwitch
    BY <1>0, <1>11, AfterMoves DEF FinishSwitch, LastBufferDisplayed
  <1>12. ASSUME NEW f \in Frame, FinishDrawing(f) PROVE IInv'
    BY <1>12 DEF FinishDrawing
  <1>13. CASE EndOfScan
    <2>1. switch = "wait" /\ fifo = <<displayed, After(displayed)>>
      BY <1>0, <1>13, FifoCases, ShortFifos DEF EndOfScan
    <2>2. fifo' = <<After(displayed)>> /\ fifo' \in Seq(Buffers) /\ Len(fifo') = 1
      BY <1>0, <1>13, <2>1, ShortFifos DEF EndOfScan
    <2> QED
      BY <1>0, <1>13, <2>1, <2>2 DEF EndOfScan, After
  <1>14. CASE UNCHANGED vars
    BY <1>14 DEF vars
  <1> QED
    BY <1>1, <1>2, <1>3, <1>4, <1>5, <1>6, <1>7, <1>8, <1>9, <1>10, <1>11,
       <1>12, <1>13, <1>14 DEF Next, MainStep, SwitchStep, HardwareStep

(* Every reachable state satisfies the inductive invariant of the display. *)
THEOREM Invariant == Spec => []IInv
  <1> QED BY InitIInv, StepIInv, PTL DEF Spec

(* No tearing: the buffer being drawn is neither on the screen nor next.   *)
THEOREM NoTearingTheorem == Spec => []NoTearing
  <1>1. IInv => NoTearing
    BY FifoCases DEF IInv, FifoInv, DrawInv, NoTearing, Scanned, NewFrame, FreeBuffer
  <1> QED
    BY <1>1, Invariant, PTL

(* The retry loop around the DMA driver never turns.                       *)
THEOREM FifoHasRoomTheorem == Spec => []FifoHasRoom
  <1>1. ASSUME IInv, switch = "submit" PROVE Len(fifo) < FifoDepth
    <2>1. displayed \in Buffers /\ fifo = <<displayed>>
      BY <1>1 DEF IInv, TypeOK, FifoInv
    <2>2. Len(fifo) = 1
      BY <2>1, ShortFifos
    <2> QED
      BY <2>2, FifoAssumption
  <1>2. IInv => FifoHasRoom
    BY <1>1 DEF FifoHasRoom
  <1> QED
    BY <1>2, Invariant, PTL

(* Loading and seeking find a free buffer although the timer is stopped.   *)
THEOREM StillFrameTheorem == Spec => []StillFrameHasBuffer
  <1>1. IInv => StillFrameHasBuffer
    BY AfterMoves DEF IInv, TypeOK, StillInv, StillFrameHasBuffer
  <1> QED
    BY <1>1, Invariant, PTL

-----------------------------------------------------------------------------
(* The ring seen from the screen.  Ahead(h, i) is the buffer i behind h,   *)
(* Waiting the number of buffers between h and the one to be written.      *)
Ahead(h, i) == (h + i) % NumBuffers
Waiting(h, w) == (w - h - 1) % NumBuffers

LEMMA AheadIs ==
  ASSUME NEW h \in Buffers, NEW i \in 0 .. NumBuffers - 1
  PROVE  Ahead(h, i) = IF h + i < NumBuffers THEN h + i ELSE h + i - NumBuffers
<1>1. CASE h + i < NumBuffers
  BY <1>1, BuffersAssumption, SMT DEF Ahead, Buffers
<1>2. CASE h + i >= NumBuffers
  <2>1. h + i - NumBuffers \in 0 .. NumBuffers - 1
    BY <1>2, BuffersAssumption DEF Buffers
  <2>2. (h + i) % NumBuffers = h + i - NumBuffers
    BY <1>2, <2>1, BuffersAssumption, Z3 DEF Buffers
  <2> QED
    BY <1>2, <2>2, BuffersAssumption DEF Ahead, Buffers
<1> QED
  BY <1>1, <1>2, BuffersAssumption DEF Buffers

LEMMA WaitingIs ==
  ASSUME NEW h \in Buffers, NEW w \in Buffers
  PROVE  Waiting(h, w) = IF h < w THEN w - h - 1 ELSE w - h - 1 + NumBuffers
<1>1. CASE h < w
  BY <1>1, BuffersAssumption, SMT DEF Waiting, Buffers
<1>2. CASE h >= w
  <2>1. w - h - 1 + NumBuffers \in 0 .. NumBuffers - 1
    BY <1>2, BuffersAssumption DEF Buffers
  <2>2. (w - h - 1) % NumBuffers = w - h - 1 + NumBuffers
    BY <1>2, <2>1, BuffersAssumption, Z3 DEF Buffers
  <2> QED
    BY <1>2, <2>2, BuffersAssumption DEF Waiting, Buffers
<1> QED
  BY <1>1, <1>2, BuffersAssumption DEF Buffers

(* No buffer that waits is the one to be written or the one on the screen; *)
(* registering adds that one behind the others, and when the screen goes   *)
(* on to the next buffer all others move up.                               *)
LEMMA RingOfFrames ==
  ASSUME NEW h \in Buffers, NEW w \in Buffers
  PROVE  /\ Waiting(h, w) \in 0 .. NumBuffers - 1
         /\ \A i \in 1 .. Waiting(h, w) : Ahead(h, i) \in Buffers \ {w, h}
         /\ h # w => /\ Waiting(h, w) < NumBuffers - 1
                    /\ Waiting(h, After(w)) = Waiting(h, w) + 1
                    /\ Ahead(h, Waiting(h, w) + 1) = w
         /\ After(h) # w =>
              /\ Waiting(h, w) >= 1
              /\ Ahead(h, 1) = After(h)
              /\ Waiting(After(h), w) = Waiting(h, w) - 1
              /\ \A i \in 1 .. Waiting(h, w) - 1 : Ahead(After(h), i) = Ahead(h, i + 1)
<1> DEFINE n == Waiting(h, w)
<1>1. n = IF h < w THEN w - h - 1 ELSE w - h - 1 + NumBuffers
  BY WaitingIs
<1>2. n \in 0 .. NumBuffers - 1
  BY <1>1, BuffersAssumption DEF Buffers
<1>3. \A i \in 0 .. NumBuffers - 1 :
        Ahead(h, i) = IF h + i < NumBuffers THEN h + i ELSE h + i - NumBuffers
  BY AheadIs
<1>4. /\ After(h) \in Buffers /\ After(w) \in Buffers
      /\ After(h) = IF h = NumBuffers - 1 THEN 0 ELSE h + 1
      /\ After(w) = IF w = NumBuffers - 1 THEN 0 ELSE w + 1
  BY AfterStep
<1>5. /\ Waiting(h, After(w)) = IF h < After(w) THEN After(w) - h - 1
                                ELSE After(w) - h - 1 + NumBuffers
      /\ Waiting(After(h), w) = IF After(h) < w THEN w - After(h) - 1
                                ELSE w - After(h) - 1 + NumBuffers
  BY <1>4, WaitingIs
<1>6. \A i \in 0 .. NumBuffers - 1 :
        Ahead(After(h), i) = IF After(h) + i < NumBuffers THEN After(h) + i
                             ELSE After(h) + i - NumBuffers
  BY <1>4, AheadIs
<1> HIDE DEF n
<1>7. \A i \in 1 .. n : Ahead(h, i) \in Buffers \ {w, h}
  BY <1>1, <1>2, <1>3, BuffersAssumption DEF Buffers
<1>8. h # w => /\ n < NumBuffers - 1
               /\ Waiting(h, After(w)) = n + 1
               /\ Ahead(h, n + 1) = w
  BY <1>1, <1>2, <1>3, <1>4, <1>5, BuffersAssumption DEF Buffers
<1>9. ASSUME After(h) # w
      PROVE  /\ n >= 1
             /\ Ahead(h, 1) = After(h)
             /\ Waiting(After(h), w) = n - 1
             /\ \A i \in 1 .. n - 1 : Ahead(After(h), i) = Ahead(h, i + 1)
  BY <1>1, <1>2, <1>3, <1>4, <1>5, <1>6, <1>9, BuffersAssumption DEF Buffers
<1> QED
  BY <1>2, <1>7, <1>8, <1>9 DEF n

(* The screen shows a buffer of the ring, and never the one being drawn.   *)
LEMMA ScreenIsRight ==
  ASSUME IInv
  PROVE  /\ Head(fifo) \in Buffers
         /\ main \in {"start", "draw", "register"} => Head(fifo) # written
<1>1. /\ displayed \in Buffers /\ After(displayed) \in Buffers
      /\ \/ Head(fifo) = displayed
         \/ Head(fifo) = After(displayed) /\ switch = "wait"
  BY FifoCases DEF IInv, TypeOK
<1> QED
  BY <1>1 DEF IInv, FifoInv, DrawInv, NewFrame, FreeBuffer

LEMMA PendingIs ==
  Pending = [i \in 1 .. Waiting(Head(fifo), written) |-> buffer[Ahead(Head(fifo), i)]]
  BY DEF Pending, Waiting, Ahead

(* A buffer that is being drawn is not seen.                               *)
LEMMA DrawingIsInvisible ==
  ASSUME IInv, main \in {"start", "draw"}, NEW x,
         buffer' = [buffer EXCEPT ![written] = x],
         UNCHANGED <<fifo, written>>
  PROVE  UNCHANGED Frames!vars
<1> DEFINE h == Head(fifo)
           n == Waiting(h, written)
<1>1. h \in Buffers /\ h # written /\ written \in Buffers
  BY ScreenIsRight DEF IInv, TypeOK
<1>2. \A i \in 1 .. n : Ahead(h, i) \in Buffers \ {written}
  BY <1>1, RingOfFrames
<1>3. \A b \in Buffers \ {written} : buffer'[b] = buffer[b]
  BY DEF IInv, TypeOK
<1>4. Pending = [i \in 1 .. n |-> buffer[Ahead(h, i)]]
  BY PendingIs
<1>5. Pending' = [i \in 1 .. n |-> buffer'[Ahead(h, i)]]
  BY DEF Pending, Waiting, Ahead
<1> HIDE DEF n, h
<1>6. Pending' = Pending
  BY <1>2, <1>3, <1>4, <1>5
<1>7. (buffer[Head(fifo)])' = buffer[Head(fifo)]
  BY <1>1, <1>3 DEF h
<1> QED
  BY <1>6, <1>7 DEF Frames!vars

(* Registering a buffer puts its picture behind those that wait.           *)
LEMMA RegisterPuts ==
  ASSUME IInv, RegisterWrittenBuffer
  PROVE  Frames!Next
<1> DEFINE h == Head(fifo)
           n == Waiting(h, written)
           f == buffer[written]
<1>1. /\ h \in Buffers /\ h # written /\ written \in Buffers /\ f \in Frame
      /\ buffer' = buffer /\ fifo' = fifo /\ written' = After(written)
  BY ScreenIsRight DEF IInv, TypeOK, DrawnInv, RegisterWrittenBuffer, MainAt
<1>2. /\ n \in Nat /\ n < NumBuffers - 1
      /\ Waiting(h, written') = n + 1
      /\ Ahead(h, n + 1) = written
  BY <1>1, RingOfFrames
<1>3. Pending = [i \in 1 .. n |-> buffer[Ahead(h, i)]]
  BY PendingIs
<1>4. Pending' = [i \in 1 .. n + 1 |-> buffer[Ahead(h, i)]]
  <2>1. Pending' = [i \in 1 .. Waiting(h, written') |-> buffer[Ahead(h, i)]]
    BY <1>1 DEF Pending, Waiting, Ahead
  <2> QED
    BY <1>2, <2>1
<1> HIDE DEF n, h, f
<1>5. Len(Pending) = n
  BY <1>2, <1>3
<1>6. Pending' = Append(Pending, f)
  BY <1>2, <1>3, <1>4, <1>5 DEF f
<1>7. (buffer[Head(fifo)])' = buffer[Head(fifo)]
  BY <1>1
<1>8. Frames!Put(f)
  BY <1>6, <1>7 DEF Frames!Put
<1>9. Frames!HasRoom
  BY <1>2, <1>5 DEF Frames!HasRoom
<1> QED
  BY <1>1, <1>8, <1>9 DEF Frames!Next

(* The video DMA's step to its next descriptor shows the first that waits. *)
LEMMA EndOfScanShows ==
  ASSUME IInv, EndOfScan
  PROVE  Frames!Next
<1> DEFINE h == Head(fifo)
           n == Waiting(h, written)
<1>1. switch = "wait" /\ fifo = <<displayed, After(displayed)>>
  BY FifoCases, ShortFifos DEF EndOfScan, IInv, TypeOK
<1>2. /\ h = displayed /\ h \in Buffers /\ written \in Buffers
      /\ After(h) # written
      /\ fifo' = <<After(h)>> /\ Head(fifo') = After(h)
      /\ buffer' = buffer /\ written' = written
  BY <1>1 DEF EndOfScan, IInv, TypeOK, FifoInv, NewFrame
<1>3. /\ n \in Nat /\ n >= 1
      /\ Ahead(h, 1) = After(h)
      /\ Waiting(After(h), written) = n - 1
      /\ \A i \in 1 .. n - 1 : Ahead(After(h), i) = Ahead(h, i + 1)
  BY <1>2, RingOfFrames
<1>4. Pending = [i \in 1 .. n |-> buffer[Ahead(h, i)]]
  BY PendingIs
<1>5. Pending' = [i \in 1 .. n - 1 |-> buffer[Ahead(After(h), i)]]
  <2>1. Pending' = [i \in 1 .. Waiting(After(h), written) |-> buffer[Ahead(After(h), i)]]
    BY <1>2 DEF Pending, Waiting, Ahead
  <2> QED
    BY <1>3, <2>1
<1>6. (buffer[Head(fifo)])' = buffer[After(h)]
  BY <1>2
<1> HIDE DEF n, h
<1>7. Pending # <<>> /\ Head(Pending) = buffer[After(h)]
  BY <1>3, <1>4
<1>8. Pending' = [i \in 1 .. n - 1 |-> buffer[Ahead(h, i + 1)]]
  BY <1>3, <1>5
<1>9. Pending' = Tail(Pending)
  BY <1>3, <1>4, <1>8
<1> QED
  BY <1>6, <1>7, <1>9 DEF Frames!Next, Frames!Show

(* Every step of the ring and the DMA is a step of the queue or invisible. *)
LEMMA StepImplements == IInv /\ [Next]_vars => [Frames!Next]_Frames!vars
<1> SUFFICES ASSUME IInv, [Next]_vars PROVE [Frames!Next]_Frames!vars
  OBVIOUS
<1>1. ASSUME UNCHANGED <<buffer, fifo, written>> PROVE UNCHANGED Frames!vars
  BY <1>1 DEF Frames!vars, Pending
<1>2. CASE StartDrawing
  BY <1>2, DrawingIsInvisible DEF StartDrawing, MainAt
<1>3. CASE RegisterWrittenBuffer
  BY <1>3, RegisterPuts
<1>4. CASE Submit
  <2>1. Head(fifo') = Head(fifo)
    BY <1>4, FifoCases, ShortFifos DEF Submit, IInv, TypeOK, FifoInv
  <2> QED
    BY <1>4, <2>1 DEF Submit, Frames!vars, Pending
<1>5. ASSUME NEW f \in Frame, FinishDrawing(f) PROVE UNCHANGED Frames!vars
  BY <1>5, DrawingIsInvisible DEF FinishDrawing, IInv, DrawnInv
<1>6. CASE EndOfScan
  BY <1>6, EndOfScanShows
<1>7. CASE \/ StartTimer \/ StopTimer \/ WantBuffer \/ BufferIsAvailable
           \/ DrawingFinished \/ NothingToSwitch \/ BeginSwitch \/ FinishSwitch
  BY <1>1, <1>7 DEF StartTimer, StopTimer, WantBuffer, BufferIsAvailable,
     DrawingFinished, NothingToSwitch, BeginSwitch, FinishSwitch
<1>8. CASE UNCHANGED vars
  BY <1>1, <1>8 DEF vars
<1> QED
  BY <1>2, <1>3, <1>4, <1>5, <1>6, <1>7, <1>8
  DEF Next, MainStep, SwitchStep, HardwareStep

(* The ring of frame buffers and the video DMA keep the promise of         *)
(* FrameQueue, for every power of two of buffers: pictures come to the     *)
(* screen whole, in the order of their registration, none skipped or       *)
(* repeated.                                                               *)
THEOREM Implements == Spec => ImplementsFrameQueue
<1>1. Init => Frames!Init
  <2> SUFFICES ASSUME Init PROVE Frames!Init
    OBVIOUS
  <2>1. 0 \in Buffers /\ 1 \in Buffers /\ Head(fifo) = 0 /\ written = 1
    BY BuffersAssumption DEF Init, Buffers
  <2>2. Waiting(Head(fifo), written) = 0
    BY <2>1, WaitingIs
  <2>3. Pending = <<>>
    BY <2>2, PendingIs
  <2> QED
    BY <2>1, <2>3 DEF Init, Frames!Init
<1> QED
  BY <1>1, StepImplements, Invariant, PTL DEF Spec, ImplementsFrameQueue, Frames!Spec
=============================================================================
