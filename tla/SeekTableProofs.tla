-------------------------- MODULE SeekTableProofs --------------------------
(***************************************************************************)
(* Proofs about SeekTable, for every set of videos the encoder can write   *)
(* and every three numbers in the place of 24, 120 and 108: the loops of   *)
(* fastForwardVideo() and rewindVideo() find the row that SeekChoice names,*)
(* rewind stays in the table, and what is skipped is bounded.              *)
(***************************************************************************)
EXTENDS SeekTable, TLAPS

LEMMA InSeq ==
  ASSUME NEW S, NEW s \in Seq(S), NEW i \in 1 .. Len(s)
  PROVE  s[i] \in S
  OBVIOUS

(* Row k lies at most k full distances behind the beginning.               *)
LEMMA RowIsEarly ==
  ASSUME NEW v, IsVideo(v), NEW k \in 0 .. num_iframes(v) - 1
  PROVE  /\ num_iframes(v) \in Nat \ {0}
         /\ frame_index(v, k) \in 0 .. v.frames - 1
         /\ frame_index(v, k) <= k * MAX_IFRAME_OFFSET
<1>1. v.iframes \in Seq(0 .. v.frames - 1) /\ Len(v.iframes) \in Nat \ {0}
  BY DEF IsVideo
<1>2. k + 1 \in 1 .. Len(v.iframes) /\ (k + 1) - 1 = k
  BY <1>1 DEF num_iframes
<1>3. v.iframes[k + 1] <= ((k + 1) - 1) * MAX_IFRAME_OFFSET
  BY <1>2 DEF IsVideo
<1>4. v.iframes[k + 1] \in 0 .. v.frames - 1
  BY <1>1, <1>2, InSeq, Zenon
<1> QED
  BY <1>1, <1>2, <1>3, <1>4 DEF num_iframes, frame_index

(* Frames are counted in full distances from below.                        *)
LEMMA Quotient ==
  ASSUME NEW c \in Nat
  PROVE  /\ c \div MAX_IFRAME_OFFSET \in Nat
         /\ (c \div MAX_IFRAME_OFFSET) * MAX_IFRAME_OFFSET <= c
         /\ c < (c \div MAX_IFRAME_OFFSET) * MAX_IFRAME_OFFSET + MAX_IFRAME_OFFSET
  BY OffsetAssumption, Z3

LEMMA Distance ==
  ASSUME NEW j \in Int, NEW k \in Int
  PROVE  /\ (j + 1) * MAX_IFRAME_OFFSET = j * MAX_IFRAME_OFFSET + MAX_IFRAME_OFFSET
         /\ j <= k => j * MAX_IFRAME_OFFSET <= k * MAX_IFRAME_OFFSET
         /\ j * MAX_IFRAME_OFFSET < k * MAX_IFRAME_OFFSET => j < k
  BY OffsetAssumption, Z3

(* Where the searches begin, relative to the end of the table.             *)
LEMMA SearchBegins ==
  ASSUME NEW v, IsVideo(v), NEW c \in 0 .. v.frames
  PROVE  /\ num_iframes(v) \in Nat \ {0}
         /\ c \div MAX_IFRAME_OFFSET \in 0 .. num_iframes(v)
         /\ c < v.frames => c \div MAX_IFRAME_OFFSET < num_iframes(v)
<1>1. /\ v.frames \in Nat /\ v.iframes \in Seq(0 .. v.frames - 1)
      /\ Len(v.iframes) \in Nat \ {0}
  BY DEF IsVideo
<1> DEFINE n == num_iframes(v)
           q == c \div MAX_IFRAME_OFFSET
           last == frame_index(v, n - 1)
<1>2. n \in Nat \ {0} /\ n - 1 \in 0 .. n - 1
  BY <1>1 DEF num_iframes
<1>3. last \in Nat /\ last <= (n - 1) * MAX_IFRAME_OFFSET
  BY <1>1, <1>2, RowIsEarly
<1>4. v.frames - last <= MAX_IFRAME_OFFSET
  BY <1>2 DEF IsVideo, frame_index, num_iframes
<1>5. (n - 1) * MAX_IFRAME_OFFSET \in Int /\ n * MAX_IFRAME_OFFSET \in Int
  BY <1>2, OffsetAssumption
<1>6. n * MAX_IFRAME_OFFSET = (n - 1) * MAX_IFRAME_OFFSET + MAX_IFRAME_OFFSET
  <2>1. n - 1 \in Int /\ (n - 1) + 1 = n
    BY <1>2
  <2> QED
    BY <2>1, Distance
<1> HIDE DEF n, last
<1>7. v.frames <= n * MAX_IFRAME_OFFSET
  BY <1>1, <1>3, <1>4, <1>5, <1>6, OffsetAssumption
<1>8. q \in Nat /\ q * MAX_IFRAME_OFFSET <= c /\ q * MAX_IFRAME_OFFSET \in Int
  BY <1>1, Quotient, OffsetAssumption
<1> HIDE DEF q
<1>9. c < v.frames => q < n
  <2>1. c < v.frames => q * MAX_IFRAME_OFFSET < n * MAX_IFRAME_OFFSET
    BY <1>1, <1>5, <1>7, <1>8
  <2> QED
    BY <1>2, <1>8, <2>1, Distance
<1>10. q <= n
  <2>1. q * MAX_IFRAME_OFFSET < (n + 1) * MAX_IFRAME_OFFSET
    <3>1. (n + 1) * MAX_IFRAME_OFFSET = n * MAX_IFRAME_OFFSET + MAX_IFRAME_OFFSET
      BY <1>2, Distance
    <3> QED
      BY <1>1, <1>5, <1>7, <1>8, <3>1, OffsetAssumption
  <2>2. q < n + 1
    BY <1>2, <1>8, <2>1, Distance
  <2> QED
    BY <1>2, <1>8, <2>2
<1> QED
  BY <1>2, <1>8, <1>9, <1>10 DEF n, q

(* The forward search: every row from the one after currentFrame /         *)
(* MAX_IFRAME_OFFSET on is looked at, none is passed over that is far      *)
(* enough.                                                                 *)
LEMMA FastForwardInv ==
  ASSUME IInv, FastForward
  PROVE  IInv'
<1>1. /\ pc = "idle" /\ pc' = "forward" /\ index' = Start
      /\ video' = video /\ currentFrame' = currentFrame
      /\ video.frames - currentFrame >= Near
  BY DEF FastForward, Start
<1>2. /\ IsVideo(video) /\ video.frames \in Nat
      /\ currentFrame \in 0 .. video.frames
  BY DEF IInv, TypeOK, IsVideo
<1>3. currentFrame < video.frames
  BY <1>1, <1>2, SkipAssumption
<1>4. num_iframes(video) \in Nat \ {0} /\ Start \in 0 .. num_iframes(video) - 1
  <2>1. /\ num_iframes(video) \in Nat \ {0}
        /\ currentFrame \div MAX_IFRAME_OFFSET \in 0 .. num_iframes(video)
        /\ currentFrame \div MAX_IFRAME_OFFSET < num_iframes(video)
    BY <1>2, <1>3, SearchBegins
  <2> QED
    BY <2>1 DEF Start
<1> QED
  BY <1>1, <1>2, <1>4 DEF IInv, TypeOK, ForwardInv, RewindInv, Start

LEMMA ForwardTurnInv ==
  ASSUME IInv, ForwardTurn
  PROVE  IInv'
<1>1. /\ pc = "forward" /\ index' = index + 1
      /\ video' = video /\ currentFrame' = currentFrame
      /\ pc' = IF index' < num_iframes(video) /\ ~FarAhead(index')
               THEN "forward" ELSE "seekForward"
  BY DEF ForwardTurn
<1>2. /\ IsVideo(video) /\ num_iframes(video) \in Nat /\ Start \in Nat
      /\ index \in Start .. num_iframes(video) - 1
      /\ \A k \in Start + 1 .. index : ~FarAhead(k)
  <2>1. num_iframes(video) \in Nat /\ Start \in Nat
    BY SearchBegins DEF IInv, TypeOK, Start
  <2> QED
    BY <1>1, <2>1 DEF IInv, TypeOK, ForwardInv
<1>3. Start' = Start /\ \A k : FarAhead(k)' = FarAhead(k)
  BY <1>1 DEF Start, FarAhead
<1>4. TypeOK' /\ RewindInv'
  BY <1>1, <1>2 DEF IInv, TypeOK, RewindInv
<1>5. CASE pc' = "forward"
  <2>1. index' < num_iframes(video) /\ ~FarAhead(index')
    BY <1>1, <1>5
  <2>2. index' \in Start .. num_iframes(video) - 1
    BY <1>1, <1>2, <2>1
  <2>3. \A k \in Start + 1 .. index' : ~FarAhead(k)
    BY <1>1, <1>2, <2>1
  <2> QED
    BY <1>1, <1>3, <1>4, <1>5, <2>2, <2>3 DEF IInv, ForwardInv
<1>6. CASE pc' = "seekForward"
  <2>1. index' \in Start + 1 .. num_iframes(video)
    BY <1>1, <1>2
  <2>2. index' < num_iframes(video) => FarAhead(index')
    BY <1>1, <1>6
  <2>3. \A k \in Start + 1 .. index' - 1 : ~FarAhead(k)
    BY <1>1, <1>2
  <2>4. InTable(index)' => FarAhead(index')
    BY <1>1, <1>2, <2>1, <2>2 DEF InTable
  <2> QED
    BY <1>1, <1>3, <1>4, <1>6, <2>1, <2>3, <2>4 DEF IInv, ForwardInv
<1> QED
  BY <1>1, <1>5, <1>6

(* The search for a row before the current frame begins in the table, or   *)
(* one behind it.                                                          *)
LEMMA RewindIsInv ==
  ASSUME IInv, Rewind
  PROVE  IInv'
<1>1. /\ pc = "idle" /\ video' = video /\ currentFrame' = currentFrame
      /\ \/ currentFrame < Near /\ index' = 0 /\ pc' = "seekBack"
         \/ currentFrame >= Near /\ index' = Start /\ pc' = "rewind"
  BY DEF Rewind, RowBefore, Start
<1>2. IsVideo(video) /\ currentFrame \in Nat /\ Start \in Nat
  <2>1. IsVideo(video) /\ currentFrame \in 0 .. video.frames
    BY DEF IInv, TypeOK
  <2>2. video.frames \in Nat
    BY <2>1 DEF IsVideo
  <2> QED
    BY <2>1, <2>2, Quotient DEF Start
<1>3. currentFrame >= Near => Start >= 1
  <2> SUFFICES ASSUME currentFrame >= Near, Start = 0 PROVE FALSE
    BY <1>2
  <2>1. currentFrame < Start * MAX_IFRAME_OFFSET + MAX_IFRAME_OFFSET
    BY <1>2, Quotient DEF Start
  <2>2. currentFrame < MAX_IFRAME_OFFSET
    BY <1>2, <2>1, OffsetAssumption
  <2> QED
    BY <1>2, <2>2, SkipAssumption, OffsetAssumption
<1> QED
  BY <1>1, <1>2, <1>3 DEF IInv, TypeOK, ForwardInv, RewindInv, Start

(* Of the rows before Start none is behind the current frame; so the       *)
(* unsigned difference is the difference.                                  *)
LEMMA RowsBefore ==
  ASSUME IInv, NEW k \in 0 .. Start - 1
  PROVE  /\ InTable(k)
         /\ frame_index(video, k) \in 0 .. currentFrame
         /\ FarBehind(k) <=> currentFrame - frame_index(video, k) >= MinSkip
<1>1. /\ IsVideo(video) /\ currentFrame \in 0 .. video.frames /\ currentFrame \in Nat
      /\ video.frames \in Nat
  BY DEF IInv, TypeOK, IsVideo
<1>2. /\ num_iframes(video) \in Nat /\ Start \in 0 .. num_iframes(video)
      /\ Start * MAX_IFRAME_OFFSET <= currentFrame
  BY <1>1, SearchBegins, Quotient DEF Start
<1>3. k \in 0 .. num_iframes(video) - 1 /\ k <= Start
  BY <1>2
<1>4. /\ frame_index(video, k) \in Nat
      /\ frame_index(video, k) <= k * MAX_IFRAME_OFFSET
  BY <1>1, <1>3, RowIsEarly
<1>5. k * MAX_IFRAME_OFFSET <= Start * MAX_IFRAME_OFFSET
  BY <1>2, <1>3, Distance
<1>6. k * MAX_IFRAME_OFFSET \in Int /\ Start * MAX_IFRAME_OFFSET \in Int
  BY <1>2, OffsetAssumption
<1>7. frame_index(video, k) <= currentFrame
  BY <1>1, <1>2, <1>4, <1>5, <1>6
<1> QED
  BY <1>1, <1>3, <1>4, <1>7 DEF InTable, FarBehind

(* It ends at row 0 at the latest, which is frame 0.                       *)
LEMMA RewindTurnInv ==
  ASSUME IInv, RewindTurn
  PROVE  IInv'
<1>1. /\ pc = "rewind" /\ index' = index - 1
      /\ video' = video /\ currentFrame' = currentFrame
      /\ \/ index' < 0 /\ pc' = "seekBack"
         \/ InTable(index') /\ pc' = IF FarBehind(index') THEN "seekBack" ELSE "rewind"
  BY DEF RewindTurn
<1>2. /\ IsVideo(video) /\ currentFrame \in Nat /\ Start \in Nat /\ index \in 1 .. Start
      /\ currentFrame >= Near
      /\ \A k \in index .. Start - 1 : ~FarBehind(k)
  <2>1. Start \in Nat
    BY SearchBegins DEF IInv, TypeOK, Start
  <2> QED
    BY <1>1, <2>1 DEF IInv, TypeOK, RewindInv, IsVideo
<1>3. Start' = Start /\ \A k : FarBehind(k)' = FarBehind(k)
  BY <1>1 DEF Start, FarBehind
<1>4. index' \in 0 .. Start - 1
  BY <1>1, <1>2
<1>5. FarBehind(0)
  <2>1. frame_index(video, 0) = 0
    BY <1>2 DEF IsVideo, frame_index
  <2> QED
    BY <1>2, <2>1, SkipAssumption DEF FarBehind
<1>6. pc' = IF FarBehind(index') THEN "seekBack" ELSE "rewind"
  BY <1>1, <1>4
<1>7. ~FarBehind(index') => index' >= 1
  BY <1>4, <1>5
<1> HIDE DEF InTable
<1> QED
  BY <1>1, <1>2, <1>3, <1>4, <1>6, <1>7 DEF IInv, TypeOK, ForwardInv, RewindInv

LEMMA SeekFrameInv ==
  ASSUME IInv, SeekFrame
  PROVE  IInv'
<1>1. /\ pc' = "idle" /\ video' = video /\ index' = index /\ InTable(index)
      /\ currentFrame' = frame_index(video, index) + 1
  BY DEF SeekFrame
<1>2. IsVideo(video) /\ video.frames \in Nat
  BY DEF IInv, TypeOK, IsVideo
<1>3. frame_index(video, index) \in 0 .. video.frames - 1
  BY <1>1, <1>2, RowIsEarly DEF InTable
<1>4. currentFrame' \in 0 .. video.frames
  BY <1>1, <1>2, <1>3
<1> QED
  BY <1>1, <1>2, <1>4 DEF IInv, TypeOK, ForwardInv, RewindInv

(* The invariant of the two searches: which rows they have looked at.      *)
THEOREM Invariant == Spec => []IInv
<1>1. Init => IInv
  <2> SUFFICES ASSUME Init PROVE IInv
    OBVIOUS
  <2>1. IsVideo(video) /\ video.frames \in Nat \ {0}
    BY VideosAssumption DEF Init, IsVideo
  <2> QED
    BY <2>1 DEF Init, IInv, TypeOK, ForwardInv, RewindInv
<1>2. IInv /\ [Next]_vars => IInv'
  <2> SUFFICES ASSUME IInv, [Next]_vars PROVE IInv'
    OBVIOUS
  <2>1. CASE PlayFrame
    <3>1. video.frames \in Nat /\ currentFrame \in 0 .. video.frames
      BY DEF IInv, TypeOK, IsVideo
    <3> QED
      BY <2>1, <3>1 DEF PlayFrame, IInv, TypeOK, ForwardInv, RewindInv
  <2>2. CASE FastForward
    BY <2>2, FastForwardInv
  <2>3. CASE ForwardTurn
    BY <2>3, ForwardTurnInv
  <2>4. CASE Rewind
    BY <2>4, RewindIsInv
  <2>5. CASE RewindTurn
    BY <2>5, RewindTurnInv
  <2>6. CASE SeekFrame
    BY <2>6, SeekFrameInv
  <2>7. CASE UNCHANGED vars
    BY <2>7 DEF vars, IInv, TypeOK, ForwardInv, RewindInv, Start, FarAhead, FarBehind, InTable
  <2> QED
    BY <2>1, <2>2, <2>3, <2>4, <2>5, <2>6, <2>7 DEF Next
<1> QED
  BY <1>1, <1>2, PTL DEF Spec

(* The loops of playback.c:176-189 and 209-222 end at the rows that the    *)
(* choice of SeekChoice, which Player uses, names.                         *)
THEOREM LoopsTheorem == Spec => []LoopsFindTheRow
<1>1. IInv => LoopsFindTheRow
  <2> SUFFICES ASSUME IInv PROVE LoopsFindTheRow
    OBVIOUS
  <2>1. /\ IsVideo(video) /\ currentFrame \in Nat /\ Start \in Nat
        /\ num_iframes(video) \in Nat
    <3>1. /\ IsVideo(video) /\ currentFrame \in Nat
          /\ currentFrame \in 0 .. video.frames
      BY DEF IInv, TypeOK, IsVideo
    <3> QED
      BY <3>1, SearchBegins, Quotient DEF Start
  <2>2. ASSUME pc = "seekForward"
        PROVE  index = FastForwardIndex(video, currentFrame)
    <3> DEFINE far == {k \in Start + 1 .. num_iframes(video) - 1 :
                         frame_index(video, k) - currentFrame >= MinSkip}
    <3>1. FastForwardIndex(video, currentFrame) =
            IF far = {}
            THEN IF Start + 1 > num_iframes(video) THEN Start + 1 ELSE num_iframes(video)
            ELSE CHOOSE k \in far : \A j \in far : k <= j
      BY DEF FastForwardIndex, Start
    <3>2. /\ index \in Start + 1 .. num_iframes(video)
          /\ \A k \in far : k >= index
          /\ index < num_iframes(video) => index \in far
      BY <2>1, <2>2 DEF IInv, ForwardInv, FarAhead, InTable
    <3>3. \A k \in far : k \in Int
      BY <2>1
    <3> HIDE DEF far
    <3>4. CASE index = num_iframes(video)
      <4>1. far = {}
        BY <2>1, <3>2, <3>3, <3>4 DEF far
      <4> QED
        BY <2>1, <3>1, <3>2, <3>4, <4>1
    <3>5. CASE index < num_iframes(video)
      <4>1. index \in far /\ \A j \in far : index <= j
        BY <3>2, <3>3, <3>5
      <4>2. \A k \in far : (\A j \in far : k <= j) => k = index
        BY <3>3, <4>1
      <4> QED
        BY <3>1, <4>1, <4>2
    <3> QED
      BY <2>1, <3>2, <3>4, <3>5
  <2>3. ASSUME pc = "seekBack"
        PROVE  index = RewindIndex(video, currentFrame)
    <3> DEFINE far == {k \in 0 .. Start - 1 :
                         currentFrame - frame_index(video, k) >= MinSkip}
    <3>1. RewindIndex(video, currentFrame) =
            IF currentFrame < Near THEN 0
            ELSE IF far = {} THEN 0 - 1
            ELSE CHOOSE k \in far : \A j \in far : k >= j
      BY DEF RewindIndex, Start
    <3>2. CASE currentFrame < Near
      BY <2>1, <2>3, <3>1, <3>2, SkipAssumption DEF IInv, RewindInv
    <3>3. CASE ~(currentFrame < Near)
      <4>1. /\ index \in 0 .. Start - 1 /\ FarBehind(index)
            /\ \A k \in index + 1 .. Start - 1 : ~FarBehind(k)
        BY <2>3, <3>3 DEF IInv, RewindInv
      <4>2. \A k \in 0 .. Start - 1 :
              FarBehind(k) <=> currentFrame - frame_index(video, k) >= MinSkip
        BY RowsBefore
      <4>3. index \in far /\ \A j \in far : index >= j
        BY <2>1, <4>1, <4>2
      <4>4. \A k \in far : k \in Int
        BY <2>1
      <4> HIDE DEF far
      <4>5. \A k \in far : (\A j \in far : k >= j) => k = index
        BY <4>3, <4>4
      <4> QED
        BY <3>1, <3>3, <4>3, <4>5
    <3> QED
      BY <3>2, <3>3
  <2> QED
    BY <2>2, <2>3 DEF LoopsFindTheRow
<1> QED
  BY <1>1, Invariant, PTL

(* rewindVideo() never reads a row outside the table, and goes back by     *)
(* MinSkip frames or to the very beginning (playback.c:204-225).           *)
THEOREM RewindTheorem == Spec => []RewindStaysInTable
<1>1. IInv => RewindStaysInTable
  <2> SUFFICES ASSUME IInv PROVE RewindStaysInTable
    OBVIOUS
  <2>1. Start \in Nat /\ num_iframes(video) \in Nat \ {0}
    <3>1. /\ IsVideo(video) /\ currentFrame \in Nat
          /\ currentFrame \in 0 .. video.frames
      BY DEF IInv, TypeOK, IsVideo
    <3> QED
      BY <3>1, SearchBegins, Quotient DEF Start
  <2>2. pc = "rewind" => InTable(index - 1)
    <3>1. pc = "rewind" => index - 1 \in 0 .. Start - 1
      BY <2>1 DEF IInv, RewindInv
    <3> QED
      BY <3>1, RowsBefore
  <2>3. ASSUME pc = "seekBack"
        PROVE  /\ InTable(index)
               /\ \/ currentFrame - frame_index(video, index) >= MinSkip
                  \/ index = 0 /\ currentFrame < Near
    <3>1. CASE currentFrame < Near /\ index = 0
      BY <2>1, <3>1 DEF InTable
    <3>2. CASE index \in 0 .. Start - 1 /\ FarBehind(index)
      BY <3>2, RowsBefore
    <3> QED
      BY <2>3, <3>1, <3>2 DEF IInv, RewindInv
  <2> QED
    BY <2>2, <2>3 DEF RewindStaysInTable
<1> QED
  BY <1>1, Invariant, PTL

(* A fast forward that finds its row skips MinSkip frames at least and     *)
(* less than one distance of I-frames more (playback.c:178-184).           *)
THEOREM ForwardTheorem == Spec => []ForwardByFiveSeconds
<1>1. IInv => ForwardByFiveSeconds
  <2> SUFFICES ASSUME IInv, pc = "seekForward", InTable(index)
               PROVE  frame_index(video, index) - currentFrame
                        \in MinSkip .. MinSkip + MAX_IFRAME_OFFSET - 1
    BY DEF ForwardByFiveSeconds
  <2> DEFINE f(k) == frame_index(video, k)
  <2>1. /\ IsVideo(video) /\ currentFrame \in Nat /\ Start \in Nat
        /\ Start * MAX_IFRAME_OFFSET <= currentFrame
        /\ num_iframes(video) \in Nat
    <3>1. /\ IsVideo(video) /\ currentFrame \in Nat
          /\ currentFrame \in 0 .. video.frames
      BY DEF IInv, TypeOK, IsVideo
    <3> QED
      BY <3>1, SearchBegins, Quotient DEF Start
  <2>2. /\ index \in Start + 1 .. num_iframes(video) - 1
        /\ f(index) - currentFrame >= MinSkip
        /\ \A k \in Start + 1 .. index - 1 : ~FarAhead(k)
    BY <2>1 DEF IInv, ForwardInv, InTable, FarAhead
  <2>3. video.frames \in Nat
    BY <2>1 DEF IsVideo
  <2>4. \A k \in 0 .. num_iframes(video) - 1 :
          f(k) \in Int /\ f(k) <= k * MAX_IFRAME_OFFSET
    BY <2>1, <2>3, RowIsEarly
  <2>5. f(index) \in Int
    BY <2>1, <2>2, <2>4
  <2>6. CASE index = Start + 1
    <3>1. f(index) <= (Start + 1) * MAX_IFRAME_OFFSET
      BY <2>1, <2>2, <2>4, <2>6
    <3>2. (Start + 1) * MAX_IFRAME_OFFSET = Start * MAX_IFRAME_OFFSET + MAX_IFRAME_OFFSET
      BY <2>1, Distance
    <3>3. Start * MAX_IFRAME_OFFSET \in Int
      BY <2>1, OffsetAssumption
    <3>4. f(index) - currentFrame <= MAX_IFRAME_OFFSET
      <4> HIDE DEF f
      <4> QED
        BY <2>1, <2>5, <3>1, <3>2, <3>3, OffsetAssumption
    <3> HIDE DEF f
    <3> QED
      BY <2>1, <2>2, <2>5, <3>4, SkipAssumption, OffsetAssumption DEF f
  <2>7. CASE index # Start + 1
    <3>1. index - 1 \in Start + 1 .. index - 1 /\ index - 1 \in 0 .. num_iframes(video) - 1
      BY <2>1, <2>2, <2>7
    <3>2. f(index - 1) \in Int /\ ~(f(index - 1) - currentFrame >= MinSkip)
      BY <2>2, <2>4, <3>1 DEF FarAhead
    <3>3. f(index) - f(index - 1) \in 1 .. MAX_IFRAME_OFFSET
      <4>1. index \in 1 .. Len(video.iframes) - 1
        BY <2>1, <2>2 DEF num_iframes
      <4>2. video.iframes[index + 1] - video.iframes[index] \in 1 .. MAX_IFRAME_OFFSET
        BY <2>1, <4>1 DEF IsVideo
      <4>3. (index - 1) + 1 = index
        BY <4>1
      <4> QED
        BY <4>2, <4>3 DEF frame_index
    <3> HIDE DEF f
    <3>4. f(index) - currentFrame \in MinSkip .. MinSkip + MAX_IFRAME_OFFSET - 1
      BY <2>1, <2>2, <2>5, <3>2, <3>3, SkipAssumption, OffsetAssumption
    <3> QED
      BY <3>4 DEF f
  <2> QED
    BY <2>6, <2>7
<1> QED
  BY <1>1, Invariant, PTL
=============================================================================
