---------------------------- MODULE CodingProofs ----------------------------
(***************************************************************************)
(* Proofs about how a video is coded.  VideoFile, for every length of      *)
(* video, every distance of I-frames, all pictures and all sizes: the      *)
(* encoder's table is one that the player's searches may rely on, its rows *)
(* lead to I-frames, the reader never loses its place in the file, and     *)
(* what it decodes is what was encoded.  Lossless, for all blocks and all  *)
(* widths of its fields: what went into the stream of bits comes out of    *)
(* it.                                                                     *)
(***************************************************************************)
EXTENDS VideoFile, Lossless, WellFoundedInduction, TLAPS

-----------------------------------------------------------------------------
(* Numbers.  Induction over data is by the least counterexample.           *)

LEMMA LeastElement ==
  ASSUME NEW T, T \subseteq Nat, T # {}
  PROVE  \E x \in T : \A y \in T : x <= y
<1>1. IsWellFoundedOn({s \in Nat \X Nat : s[1] < s[2]}, Nat)
  BY NatLessThanWellFounded DEF OpToRel
<1>2. PICK x \in T : \A y \in T : ~(<<y, x>> \in {s \in Nat \X Nat : s[1] < s[2]})
  BY <1>1, WFMin
<1>3. ASSUME NEW y \in T PROVE x <= y
  <2>1. x \in Nat /\ y \in Nat
    OBVIOUS
  <2>2. <<y, x>> \in Nat \X Nat /\ <<y, x>>[1] = y /\ <<y, x>>[2] = x
    BY <2>1
  <2>3. ~(y < x)
    BY <1>2, <2>2
  <2> QED
    BY <2>1, <2>3
<1> QED
  BY <1>3

(* Induction, for a set of numbers.                                        *)
LEMMA AllNumbers ==
  ASSUME NEW S, 0 \in S, \A n \in Nat : n \in S => n + 1 \in S
  PROVE  Nat \subseteq S
<1> DEFINE T == Nat \ S
<1> SUFFICES ASSUME T # {} PROVE FALSE
  OBVIOUS
<1>1. PICK x \in T : \A y \in T : x <= y
  <2>1. T \subseteq Nat
    OBVIOUS
  <2> HIDE DEF T
  <2> QED
    BY <2>1, LeastElement
<1>2. x \in Nat /\ x # 0
  OBVIOUS
<1>3. x - 1 \in Nat /\ ~(x <= x - 1)
  BY <1>2
<1>4. x - 1 \in S
  BY <1>1, <1>3
<1>5. (x - 1) + 1 = x
  BY <1>2
<1> QED
  BY <1>3, <1>4, <1>5

-----------------------------------------------------------------------------
(* The file: table, frames, reader                                         *)

(* The padding fills a frame up to frame_size (mjpeg423_encoder.c:188-190).*)
LEMMA FrameSizeIsWritten ==
  ASSUME NEW bytes \in Nat
  PROVE  /\ FrameSize(bytes) \in Nat \ {0}
         /\ SizeOfFrameHeader + bytes + Padding(bytes) = FrameSize(bytes)
  BY DEF FrameSize, Padding, SizeOfFrameHeader

LEMMA InitInv == Init => IInv
<1> SUFFICES ASSUME Init PROVE IInv
  OBVIOUS
<1> USE DEF Init, SizeOfHeader, frame
<1>1. TypeOK
  BY VideoFileAssumption DEF TypeOK
<1>2. TableInv /\ EarlyInv
  BY DEF TableInv, EarlyInv
<1>3. ChainInv /\ PlaceInv /\ RowsPointAtIframes
  BY DEF ChainInv, PlaceInv, RowsPointAtIframes, Follows, At
<1> QED
  BY <1>1, <1>2, <1>3 DEF IInv

(* One more frame: a row for it if it is an I-frame, and the chain of      *)
(* frames one longer.                                                      *)
LEMMA EncodeFrameInv ==
  ASSUME IInv, NEW picture \in Pictures, NEW sizes \in CodedSizes,
         EncodeFrame(picture, sizes)
  PROVE  IInv'
<1> DEFINE type == IF TakeIframe(sizes[1], sizes[2]) THEN "I" ELSE "P"
           bytes == IF type = "I" THEN sizes[1] ELSE sizes[2]
           size == FrameSize(bytes)
           row == <<frame, file_position>>
<1>1. /\ pc = "encode" /\ frame < num_frames
      /\ source' = Append(source, picture)
      /\ last_iframe' = IF type = "I" THEN frame ELSE last_iframe
      /\ prev' = picture
      /\ trailer' = IF type = "I" THEN Append(trailer, row) ELSE trailer
      /\ file_position' = file_position + size
      /\ offset' = offset + SizeOfFrameHeader + bytes + Padding(bytes)
      /\ DOMAIN file' = DOMAIN file \cup {offset}
      /\ \A p \in DOMAIN file : p # offset => file'[p] = file[p]
      /\ file'[offset].kind = "frame" /\ file'[offset].type = type
      /\ file'[offset].frame_size = size /\ file'[offset].number = frame
      /\ UNCHANGED <<header, pc, position, next, table, coefficients>>
  BY DEF EncodeFrame, Reference, TrailerRow
<1>2. bytes \in Nat
  BY VideoFileAssumption
<1>3. size \in Nat \ {0} /\ offset' = offset + size
  <2>1. SizeOfFrameHeader + bytes + Padding(bytes) = size /\ size \in Nat \ {0}
    BY <1>2, FrameSizeIsWritten
  <2>2. Padding(bytes) \in Int /\ SizeOfFrameHeader \in Int /\ offset \in Nat
    BY <1>2, <2>1 DEF Padding, SizeOfFrameHeader, IInv, TypeOK
  <2> QED
    BY <1>1, <1>2, <2>1, <2>2
<1>4. frame \in Nat /\ frame' = frame + 1
  BY <1>1 DEF IInv, TypeOK, frame
<1> HIDE DEF type, bytes, size
<1>5. type \in {"I", "P"} /\ (type = "P" => ~TakeIframe(sizes[1], sizes[2]))
  BY DEF type
<1>6. TypeOK'
  <2>1. row \in (0 .. num_frames - 1) \X Nat
    <3>1. num_frames \in Nat /\ file_position \in Nat
      BY VideoFileAssumption DEF IInv, TypeOK
    <3> QED
      BY <1>1, <1>4, <3>1
  <2> HIDE DEF row
  <2>2. source' \in Seq(Pictures) /\ frame' <= num_frames
    <3>1. source' \in Seq(Pictures)
      BY <1>1 DEF IInv, TypeOK
    <3>2. num_frames \in Nat
      BY VideoFileAssumption
    <3> QED
      BY <1>1, <1>4, <3>1, <3>2
  <2>3. trailer' \in Seq((0 .. num_frames - 1) \X Nat)
    BY <1>1, <1>5, <2>1 DEF IInv, TypeOK
  <2>4. last_iframe' \in 0 .. num_frames - 1
    BY <1>1, <1>4, VideoFileAssumption DEF IInv, TypeOK
  <2>5. file_position' \in Nat /\ offset' \in Nat /\ position' \in Nat
    <3>1. file_position \in Nat /\ offset \in Nat /\ position \in Nat
      BY DEF IInv, TypeOK
    <3> QED
      BY <1>1, <1>3, <3>1
  <2> QED
    BY <1>1, <2>2, <2>3, <2>4, <2>5 DEF IInv, TypeOK
<1>7. TableInv'
  <2>1. CASE type = "I"
    <3>1. trailer' = Append(trailer, row) /\ last_iframe' = frame
      BY <1>1, <2>1
    <3>2. /\ Len(trailer') = Len(trailer) + 1
          /\ \A k \in 1 .. Len(trailer) : trailer'[k] = trailer[k]
          /\ trailer'[Len(trailer) + 1] = row
      BY <3>1 DEF IInv, TypeOK
    <3>3. row[1] = frame
      OBVIOUS
    <3>4. Len(trailer) \in Nat /\ (Len(trailer) = 0 <=> trailer = <<>>)
      BY DEF IInv, TypeOK
    <3> HIDE DEF row
    <3>5. trailer' # <<>> /\ trailer'[Len(trailer')][1] = last_iframe'
      BY <3>1, <3>2, <3>3, <3>4
    <3>6. trailer'[1][1] = 0
      BY <1>4, <3>2, <3>3, <3>4 DEF IInv, TableInv
    <3>7. \A k \in 1 .. Len(trailer') - 1 :
            trailer'[k + 1][1] - trailer'[k][1] \in 1 .. MAX_IFRAME_OFFSET
      <4> TAKE k \in 1 .. Len(trailer') - 1
      <4>1. CASE k < Len(trailer)
        BY <3>2, <3>4, <4>1 DEF IInv, TableInv
      <4>2. CASE k = Len(trailer)
        BY <1>4, <3>2, <3>3, <3>4, <4>2 DEF IInv, TableInv
      <4> QED
        BY <3>2, <3>4, <4>1, <4>2
    <3>8. frame' > 0 /\ frame' - last_iframe' \in 1 .. MAX_IFRAME_OFFSET
      BY <1>4, <3>1, OffsetAssumption
    <3> QED
      BY <3>5, <3>6, <3>7, <3>8 DEF TableInv
  <2>2. CASE type = "P"
    <3>1. frame > 0 /\ ~(frame - last_iframe >= MAX_IFRAME_OFFSET)
      BY <1>4, <1>5, <2>2 DEF TakeIframe
    <3>2. trailer' = trailer /\ last_iframe' = last_iframe
      BY <1>1, <2>2
    <3> QED
      BY <1>4, <3>1, <3>2, OffsetAssumption DEF IInv, TableInv, TypeOK
  <2> QED
    BY <1>5, <2>1, <2>2
<1> DEFINE NowFollows(q, n) ==
             IF n = frame' THEN q = offset'
             ELSE q \in DOMAIN file' /\ file'[q].kind = "frame" /\ file'[q].number = n
<1>8. \A q, n : n \in 0 .. frame /\ Follows(q, n) => NowFollows(q, n)
  BY <1>1, <1>4 DEF Follows, At, IInv, ChainInv
<1>9. ChainInv'
  <2>1. NowFollows(SizeOfHeader, 0)
    BY <1>4, <1>8 DEF IInv, ChainInv
  <2>2. NowFollows(offset + size, frame + 1)
    BY <1>3, <1>4
  <2>3. offset \in Nat
    BY DEF IInv, TypeOK
  <2>4. \A p \in DOMAIN file' : p \in Nat /\ p <= offset' /\ (p = offset' => pc' # "encode")
    BY <1>1, <1>3, <2>3 DEF IInv, ChainInv
  <2>5. ASSUME NEW p \in DOMAIN file', file'[p].kind = "frame"
        PROVE  /\ file'[p].number \in 0 .. frame' - 1
               /\ file'[p].frame_size \in Nat
               /\ NowFollows(p + file'[p].frame_size, file'[p].number + 1)
    <3>1. CASE p = offset
      BY <1>1, <1>3, <1>4, <2>2, <3>1
    <3>2. CASE p # offset
      <4>1. p \in DOMAIN file /\ file'[p] = file[p] /\ At(p, "frame")
        BY <1>1, <2>5, <3>2 DEF At
      <4>2. /\ file[p].number \in 0 .. frame - 1
            /\ file[p].frame_size \in Nat
            /\ Follows(p + file[p].frame_size, file[p].number + 1)
        BY <4>1 DEF IInv, ChainInv
      <4>3. NowFollows(p + file[p].frame_size, file[p].number + 1)
        BY <1>4, <1>8, <4>2
      <4> HIDE DEF NowFollows
      <4> QED
        BY <1>4, <4>1, <4>2, <4>3
    <3> QED
      BY <3>1, <3>2
  <2> QED
    BY <2>1, <2>4, <2>5 DEF ChainInv, Follows, At, SizeOfHeader
<1>10. PlaceInv'
  BY <1>1, <1>3 DEF IInv, PlaceInv
<1>11. RowsPointAtIframes'
  <2>1. ASSUME NEW k \in 1 .. Len(trailer')
        PROVE  LET p == trailer'[k][2]
               IN  /\ p \in DOMAIN file' /\ file'[p].kind = "frame"
                   /\ file'[p].type = "I" /\ file'[p].number = trailer'[k][1]
    <3>1. CASE k \in 1 .. Len(trailer)
      <4>1. trailer'[k] = trailer[k]
        BY <1>1, <1>5, <3>1 DEF IInv, TypeOK
      <4> DEFINE p == trailer[k][2]
      <4>2. /\ p \in DOMAIN file /\ file[p].kind = "frame"
            /\ file[p].type = "I" /\ file[p].number = trailer[k][1]
        BY <3>1 DEF IInv, RowsPointAtIframes, At
      <4>3. p # offset
        BY <1>1, <4>2 DEF IInv, ChainInv
      <4> QED
        BY <1>1, <4>1, <4>2, <4>3
    <3>2. CASE k \notin 1 .. Len(trailer)
      <4>1. type = "I" /\ trailer'[k] = row
        BY <1>1, <1>5, <3>2 DEF IInv, TypeOK
      <4>2. trailer'[k][1] = frame /\ trailer'[k][2] = offset
        BY <4>1 DEF IInv, PlaceInv
      <4> QED
        BY <1>1, <4>1, <4>2
    <3> QED
      BY <3>1, <3>2
  <2> QED
    BY <2>1 DEF RowsPointAtIframes, At
<1>12. EarlyInv'
  <2>1. Len(trailer) \in Nat /\ (Len(trailer) = 0 <=> trailer = <<>>)
    BY DEF IInv, TypeOK
  <2>2. \A k \in 1 .. Len(trailer) : trailer[k][1] <= (k - 1) * MAX_IFRAME_OFFSET
    BY DEF IInv, EarlyInv
  <2>3. CASE type = "P"
    BY <1>1, <2>2, <2>3 DEF EarlyInv
  <2>4. CASE type = "I"
    <3>1. frame <= Len(trailer) * MAX_IFRAME_OFFSET
      <4>1. CASE frame = 0
        <5>1. Len(trailer) = 0
          BY <2>1, <4>1 DEF IInv, TableInv
        <5> QED
          BY <4>1, <5>1, OffsetAssumption
      <4>2. CASE frame > 0
        <5>1. /\ Len(trailer) \in Nat \ {0} /\ trailer[Len(trailer)][1] = last_iframe
              /\ frame - last_iframe \in 1 .. MAX_IFRAME_OFFSET
          BY <2>1, <4>2 DEF IInv, TableInv
        <5>2. last_iframe \in Int
          BY DEF IInv, TypeOK
        <5> DEFINE n == Len(trailer) - 1
        <5>3. n \in Nat /\ Len(trailer) = n + 1
          BY <5>1
        <5>4. last_iframe <= n * MAX_IFRAME_OFFSET
          BY <2>2, <5>1
        <5>5. (n + 1) * MAX_IFRAME_OFFSET = n * MAX_IFRAME_OFFSET + MAX_IFRAME_OFFSET
          BY <5>3, OffsetAssumption
        <5>6. n * MAX_IFRAME_OFFSET \in Int
          BY <5>3, OffsetAssumption
        <5> HIDE DEF n
        <5>7. frame <= (n + 1) * MAX_IFRAME_OFFSET
          BY <1>4, <5>1, <5>2, <5>4, <5>5, <5>6, OffsetAssumption
        <5> QED
          BY <5>3, <5>7
      <4> QED
        BY <1>4, <4>1, <4>2
    <3>2. /\ Len(trailer') = Len(trailer) + 1
          /\ \A k \in 1 .. Len(trailer) : trailer'[k] = trailer[k]
          /\ trailer'[Len(trailer) + 1][1] = frame
      BY <1>1, <2>4 DEF IInv, TypeOK
    <3>3. ASSUME NEW k \in 1 .. Len(trailer')
          PROVE  trailer'[k][1] <= (k - 1) * MAX_IFRAME_OFFSET
      <4>1. CASE k \in 1 .. Len(trailer)
        BY <2>2, <3>2, <4>1
      <4>2. CASE k = Len(trailer) + 1
        <5>1. k - 1 = Len(trailer)
          BY <2>1, <4>2
        <5> QED
          BY <3>1, <3>2, <4>2, <5>1
      <4> QED
        BY <2>1, <3>2, <4>1, <4>2
    <3> QED
      BY <3>3 DEF EarlyInv
  <2> QED
    BY <1>5, <2>3, <2>4
<1> QED
  BY <1>6, <1>7, <1>9, <1>10, <1>11, <1>12 DEF IInv

(* The trailer goes where the frames end, and the header says so.          *)
LEMMA FinishFileInv ==
  ASSUME IInv, FinishFile
  PROVE  IInv'
<1>1. /\ pc = "encode" /\ pc' = "load" /\ frame = num_frames
      /\ DOMAIN file' = DOMAIN file \cup {offset}
      /\ \A p \in DOMAIN file : p # offset => file'[p] = file[p]
      /\ file'[offset].kind = "trailer" /\ file'[offset].rows = trailer
      /\ header' = [num_iframes |-> Len(trailer),
                    payload_size |-> file_position - SizeOfHeader]
      /\ UNCHANGED <<source, last_iframe, prev, trailer, file_position, offset,
                     position, next, table, coefficients>>
  BY DEF FinishFile, PayloadSize
<1>2. frame' = frame /\ frame \in Nat
  BY <1>1 DEF frame, IInv, TypeOK
<1>3. \A p \in DOMAIN file : p # offset /\ file'[p] = file[p]
  BY <1>1 DEF IInv, ChainInv
<1>4. offset >= SizeOfHeader /\ offset \in Nat
  <2>1. At(SizeOfHeader, "frame") \/ offset = SizeOfHeader
    BY <1>1, VideoFileAssumption DEF IInv, ChainInv, Follows
  <2>2. ASSUME At(SizeOfHeader, "frame") PROVE SizeOfHeader <= offset
    BY <2>2 DEF IInv, ChainInv, At
  <2> QED
    BY <2>1, <2>2 DEF IInv, TypeOK, SizeOfHeader
<1>5. TypeOK'
  <2>1. header'.num_iframes \in Nat /\ header'.payload_size \in Nat
    BY <1>1, <1>4 DEF IInv, TypeOK, PlaceInv, SizeOfHeader
  <2> QED
    BY <1>1, <1>2, <2>1 DEF IInv, TypeOK
<1>6. TableInv' /\ EarlyInv'
  BY <1>1, <1>2 DEF IInv, TableInv, EarlyInv
<1>7. ChainInv'
  <2> DEFINE NowFollows(q, n) ==
               IF n = frame THEN q = offset
               ELSE q \in DOMAIN file' /\ file'[q].kind = "frame" /\ file'[q].number = n
  <2>1. \A q, n : Follows(q, n) => NowFollows(q, n)
    BY <1>1, <1>3 DEF Follows, At
  <2>2. NowFollows(SizeOfHeader, 0)
    BY <2>1 DEF IInv, ChainInv
  <2>3. \A p \in DOMAIN file' : p \in Nat /\ p <= offset
    BY <1>1, <1>4 DEF IInv, ChainInv
  <2>4. ASSUME NEW p \in DOMAIN file', file'[p].kind = "frame"
        PROVE  /\ file'[p].number \in 0 .. frame - 1
               /\ file'[p].frame_size \in Nat
               /\ NowFollows(p + file'[p].frame_size, file'[p].number + 1)
    <3>1. p \in DOMAIN file /\ file'[p] = file[p] /\ At(p, "frame")
      BY <1>1, <1>3, <2>4 DEF At
    <3>2. /\ file[p].number \in 0 .. frame - 1
          /\ file[p].frame_size \in Nat
          /\ Follows(p + file[p].frame_size, file[p].number + 1)
      BY <3>1 DEF IInv, ChainInv
    <3>3. NowFollows(p + file[p].frame_size, file[p].number + 1)
      BY <2>1, <3>2
    <3> HIDE DEF NowFollows
    <3> QED
      BY <3>1, <3>2, <3>3
  <2> QED
    BY <1>1, <1>2, <2>2, <2>3, <2>4 DEF ChainInv, Follows, At, SizeOfHeader
<1>8. PlaceInv'
  BY <1>1, <1>2 DEF IInv, PlaceInv, At, SizeOfHeader
<1>9. RowsPointAtIframes'
  BY <1>1, <1>3 DEF IInv, RowsPointAtIframes, At
<1> QED
  BY <1>5, <1>6, <1>7, <1>8, <1>9 DEF IInv

(* Where the reader looks for the trailer, it is.                          *)
LEMMA TrailerIsFound ==
  ASSUME IInv, pc # "encode"
  PROVE  /\ TrailerPosition = offset
         /\ At(TrailerPosition, "trailer")
         /\ file[TrailerPosition].rows = trailer
  BY DEF IInv, PlaceInv, TypeOK, TrailerPosition, SizeOfHeader

LEMMA LoadVideoInv ==
  ASSUME IInv, LoadVideo
  PROVE  IInv'
<1>1. /\ pc # "encode" /\ pc' = "read" /\ position' = SizeOfHeader /\ next' = 0
      /\ table' = SubSeq(trailer, 1, header.num_iframes)
      /\ UNCHANGED <<encoder, coefficients>>
  BY TrailerIsFound DEF LoadVideo
<1>2. table' = trailer
  BY <1>1 DEF IInv, PlaceInv, TypeOK
<1> USE DEF encoder, frame
<1>3. TypeOK'
  BY <1>1, <1>2, VideoFileAssumption DEF IInv, TypeOK, SizeOfHeader
<1>4. TableInv' /\ EarlyInv' /\ ChainInv' /\ RowsPointAtIframes'
  BY <1>1 DEF IInv, TableInv, EarlyInv, ChainInv, RowsPointAtIframes, Follows, At, SizeOfHeader
<1>5. PlaceInv'
  BY <1>1, <1>2 DEF IInv, PlaceInv, ChainInv, Follows, At, SizeOfHeader
<1> QED
  BY <1>3, <1>4, <1>5 DEF IInv

(* From a frame the reader gets to the one that follows it.                *)
LEMMA ReadFrameInv ==
  ASSUME IInv, ReadFrame
  PROVE  IInv'
<1>1. /\ pc = "read" /\ pc' = pc /\ next < num_frames /\ next' = next + 1
      /\ At(position, "frame")
      /\ position' = position + file[position].frame_size
      /\ UNCHANGED <<encoder, table>>
  BY DEF ReadFrame
<1>2. frame = num_frames /\ next \in 0 .. num_frames - 1 /\ file[position].number = next
  BY <1>1, VideoFileAssumption DEF IInv, PlaceInv, TypeOK, Follows
<1>3. /\ file[position].frame_size \in Nat
      /\ Follows(position + file[position].frame_size, file[position].number + 1)
  BY <1>1 DEF IInv, ChainInv, At
<1>4. Follows(position', next')
  BY <1>1, <1>2, <1>3
<1> USE DEF encoder, frame
<1>5. TypeOK'
  <2>1. position' \in Nat /\ next' \in 0 .. num_frames
    <3>1. position \in Nat
      BY DEF IInv, TypeOK
    <3> QED
      BY <1>1, <1>2, <1>3, <3>1, VideoFileAssumption
  <2> QED
    BY <1>1, <2>1 DEF IInv, TypeOK
<1>6. TableInv' /\ EarlyInv' /\ ChainInv' /\ RowsPointAtIframes'
  BY <1>1 DEF IInv, TableInv, EarlyInv, ChainInv, RowsPointAtIframes, Follows, At, SizeOfHeader
<1>7. PlaceInv'
  BY <1>1, <1>4 DEF IInv, PlaceInv, Follows, At, SizeOfHeader
<1> QED
  BY <1>5, <1>6, <1>7 DEF IInv

(* A row of the table leads to the frame it names.                         *)
LEMMA SeekFrameInv ==
  ASSUME IInv, NEW k \in 1 .. Len(table), SeekFrame(table[k])
  PROVE  IInv'
<1>1. /\ pc = "read" /\ pc' = pc
      /\ next' = table[k][1] /\ position' = table[k][2]
      /\ UNCHANGED <<encoder, table>>
  BY DEF SeekFrame
<1>2. table = trailer /\ frame = num_frames
  BY <1>1 DEF IInv, PlaceInv
<1>3. table[k] \in (0 .. num_frames - 1) \X Nat
  BY DEF IInv, TypeOK
<1>4. Follows(position', next')
  <2>1. At(table[k][2], "frame") /\ file[table[k][2]].number = table[k][1]
    BY <1>2 DEF IInv, RowsPointAtIframes
  <2>2. next' # frame
    BY <1>1, <1>2, <1>3, VideoFileAssumption
  <2> QED
    BY <1>1, <2>1, <2>2 DEF Follows
<1> USE DEF encoder, frame
<1>5. TypeOK'
  <2>1. position' \in Nat /\ next' \in 0 .. num_frames
    BY <1>1, <1>3, VideoFileAssumption
  <2> QED
    BY <1>1, <2>1 DEF IInv, TypeOK
<1>6. TableInv' /\ EarlyInv' /\ ChainInv' /\ RowsPointAtIframes'
  BY <1>1 DEF IInv, TableInv, EarlyInv, ChainInv, RowsPointAtIframes, Follows, At, SizeOfHeader
<1>7. PlaceInv'
  BY <1>1, <1>4 DEF IInv, PlaceInv, Follows, At, SizeOfHeader
<1> QED
  BY <1>5, <1>6, <1>7 DEF IInv

(* The invariant, of which the properties below are consequences.          *)
THEOREM Invariant == Spec => []IInv
<1>1. Init => IInv
  BY InitInv
<1>2. IInv /\ [Next]_vars => IInv'
  <2> SUFFICES ASSUME IInv, [Next]_vars PROVE IInv'
    OBVIOUS
  <2>1. ASSUME NEW picture \in Pictures, NEW sizes \in CodedSizes, EncodeFrame(picture, sizes)
        PROVE  IInv'
    BY <2>1, EncodeFrameInv
  <2>2. CASE FinishFile
    BY <2>2, FinishFileInv
  <2>3. CASE LoadVideo
    BY <2>3, LoadVideoInv
  <2>4. CASE ReadFrame
    BY <2>4, ReadFrameInv
  <2>5. ASSUME NEW k \in 1 .. Len(table), SeekFrame(table[k])
        PROVE  IInv'
    BY <2>5, SeekFrameInv
  <2>6. CASE UNCHANGED vars
    BY <2>6 DEF vars, encoder, frame, IInv, TypeOK, TableInv, EarlyInv, ChainInv,
                PlaceInv, RowsPointAtIframes, Follows, At, SizeOfHeader
  <2> QED
    BY <2>1, <2>2, <2>3, <2>4, <2>5, <2>6 DEF Next, Encode, Read
<1> QED
  BY <1>1, <1>2, PTL DEF Spec

(* Every row of the encoder's trailer is one of an I-frame with that       *)
(* number, at that offset of the file (mjpeg423_encoder.c:203-209).        *)
THEOREM RowsTheorem == Spec => []RowsPointAtIframes
<1>1. IInv => RowsPointAtIframes
  BY DEF IInv
<1> QED
  BY <1>1, Invariant, PTL

(* The finished trailer is a table of I-frames as the player takes it for  *)
(* granted, whatever the pictures and their sizes                          *)
(* (mjpeg423_encoder.c:155-157).                                           *)
THEOREM TrailerTheorem == Spec => []TrailerIsVideo
<1>1. IInv => TrailerIsVideo
  <2> SUFFICES ASSUME IInv, pc # "encode" PROVE TrailerIsVideo
    BY DEF TrailerIsVideo
  <2> DEFINE rows == [k \in 1 .. Len(trailer) |-> trailer[k][1]]
  <2>1. frame = num_frames /\ trailer \in Seq((0 .. num_frames - 1) \X Nat)
    BY DEF IInv, PlaceInv, TypeOK
  <2>2. rows \in Seq(0 .. num_frames - 1) /\ Len(rows) = Len(trailer)
    BY <2>1
  <2>3. /\ trailer # <<>> /\ trailer[1][1] = 0
        /\ trailer[Len(trailer)][1] = last_iframe
        /\ num_frames - last_iframe \in 1 .. MAX_IFRAME_OFFSET
        /\ \A k \in 1 .. Len(trailer) - 1 :
             trailer[k + 1][1] - trailer[k][1] \in 1 .. MAX_IFRAME_OFFSET
    BY <2>1, VideoFileAssumption DEF IInv, TableInv
  <2>4. Len(trailer) \in Nat \ {0}
    BY <2>1, <2>3
  <2>5. /\ rows # <<>> /\ rows[1] = 0
        /\ num_frames - rows[Len(rows)] <= MAX_IFRAME_OFFSET
        /\ \A k \in 1 .. Len(rows) - 1 : rows[k + 1] - rows[k] \in 1 .. MAX_IFRAME_OFFSET
    BY <2>2, <2>3, <2>4, OffsetAssumption
  <2>6. \A k \in 1 .. Len(rows) : rows[k] <= (k - 1) * MAX_IFRAME_OFFSET
    BY <2>2 DEF IInv, EarlyInv
  <2> HIDE DEF rows
  <2>7. IsVideo([frames |-> num_frames, iframes |-> rows])
    BY <2>2, <2>5, <2>6, VideoFileAssumption DEF IsVideo
  <2> QED
    BY <2>7 DEF TrailerIsVideo, rows
<1> QED
  BY <1>1, Invariant, PTL

(* However it plays, seeks and loads, the reader stands at the frame the   *)
(* player believes is next (core1 main.c:77-113, 135-164).                 *)
THEOREM ReaderTheorem == Spec => []ReaderFindsItsPlace
<1>1. IInv => ReaderFindsItsPlace
  <2> SUFFICES ASSUME IInv PROVE ReaderFindsItsPlace
    OBVIOUS
  <2>1. pc # "encode" => At(TrailerPosition, "trailer")
    BY TrailerIsFound
  <2>2. pc = "read" => Len(table) = Len(trailer)
    BY DEF IInv, PlaceInv
  <2>3. pc = "read" /\ next < num_frames =>
          At(position, "frame") /\ file[position].number = next
    BY VideoFileAssumption DEF IInv, PlaceInv, TypeOK, Follows
  <2> QED
    BY <2>1, <2>2, <2>3 DEF ReaderFindsItsPlace
<1> QED
  BY <1>1, Invariant, PTL

-----------------------------------------------------------------------------
(* Decoding                                                                *)

(* What is added to the sum at a block.                                    *)
LEMMA QuantizedDCs ==
  ASSUME NEW picture \in Pictures, NEW b \in 1 .. Blocks
  PROVE  /\ picture[b].dc \in Int
         /\ quantize_I(picture)[b].dc
              = picture[b].dc - (IF b = 1 THEN 0 ELSE picture[b - 1].dc)
         /\ quantize_I(picture)[b].ac = picture[b].ac
  BY VideoFileAssumption DEF quantize_I

(* There is a function such as the recursive definition asks for: the DCs  *)
(* themselves.  So SumsOfDCs is one.                                       *)
LEMMA SumsAreDefined ==
  ASSUME NEW picture \in Pictures
  PROVE  LET coded == quantize_I(picture)
         IN  SumsOfDCs(coded) =
               [b \in 0 .. Blocks |-> IF b = 0 THEN 0
                                      ELSE SumsOfDCs(coded)[b - 1] + coded[b].dc]
<1> DEFINE coded == quantize_I(picture)
<1> DEFINE IsSum(f) ==
             f = [b \in 0 .. Blocks |-> IF b = 0 THEN 0 ELSE f[b - 1] + coded[b].dc]
<1> DEFINE DCs == [b \in 0 .. Blocks |-> IF b = 0 THEN 0 ELSE picture[b].dc]
<1>1. IsSum(DCs)
  <2>1. ASSUME NEW b \in 0 .. Blocks, b # 0
        PROVE  DCs[b] = DCs[b - 1] + coded[b].dc
    <3>1. b \in 1 .. Blocks /\ b - 1 \in 0 .. Blocks
      BY <2>1, VideoFileAssumption
    <3>2. /\ picture[b].dc \in Int
          /\ coded[b].dc = picture[b].dc - (IF b = 1 THEN 0 ELSE picture[b - 1].dc)
      BY <3>1, QuantizedDCs
    <3>3. b # 1 => b - 1 \in 1 .. Blocks /\ picture[b - 1].dc \in Int
      <4>1. b # 1 => b - 1 \in 1 .. Blocks
        BY <3>1, VideoFileAssumption
      <4> QED
        BY <4>1, QuantizedDCs
    <3>4. DCs[b - 1] = IF b = 1 THEN 0 ELSE picture[b - 1].dc
      BY <3>1
    <3>5. DCs[b] = picture[b].dc
      BY <3>1
    <3> HIDE DEF DCs, coded
    <3> QED
      BY <3>2, <3>3, <3>4, <3>5
  <2>2. DCs[0] = 0
    BY VideoFileAssumption
  <2> DEFINE Sum == [b \in 0 .. Blocks |-> IF b = 0 THEN 0 ELSE DCs[b - 1] + coded[b].dc]
  <2>3. ASSUME NEW b \in 0 .. Blocks PROVE DCs[b] = Sum[b]
    BY <2>1, <2>2
  <2>4. DOMAIN DCs = 0 .. Blocks /\ DOMAIN Sum = 0 .. Blocks
    OBVIOUS
  <2>5. DCs = Sum
    BY <2>3, <2>4
  <2> QED
    BY <2>5
<1>2. SumsOfDCs(coded) = CHOOSE f : IsSum(f)
  BY DEF SumsOfDCs
<1> HIDE DEF IsSum
<1>3. IsSum(CHOOSE f : IsSum(f))
  BY <1>1
<1>4. IsSum(SumsOfDCs(coded))
  BY <1>2, <1>3
<1> QED
  BY <1>4 DEF IsSum

(* And it is the only one: there is no first block at which it differs.    *)
LEMMA SumsAreDCs ==
  ASSUME NEW picture \in Pictures, NEW b \in 1 .. Blocks
  PROVE  SumsOfDCs(quantize_I(picture))[b] = picture[b].dc
<1> DEFINE coded == quantize_I(picture)
<1> DEFINE sums == SumsOfDCs(coded)
<1>1. sums = [c \in 0 .. Blocks |-> IF c = 0 THEN 0 ELSE sums[c - 1] + coded[c].dc]
  BY SumsAreDefined
<1> HIDE DEF sums
<1>2. \A c \in 0 .. Blocks : sums[c] = IF c = 0 THEN 0 ELSE sums[c - 1] + coded[c].dc
  BY <1>1
<1> DEFINE wrong == {c \in 1 .. Blocks : sums[c] # picture[c].dc}
<1>3. ASSUME wrong # {} PROVE FALSE
  <2>1. wrong \subseteq Nat
    BY VideoFileAssumption
  <2>2. PICK c \in wrong : \A d \in wrong : c <= d
    <3> HIDE DEF wrong
    <3> QED
      BY <1>3, <2>1, LeastElement
  <2>3. c \in 1 .. Blocks /\ c \in 0 .. Blocks /\ c # 0 /\ sums[c] # picture[c].dc
    BY VideoFileAssumption
  <2>4. c \in Nat \ {0}
    BY <2>3, VideoFileAssumption
  <2>5. sums[c] = sums[c - 1] + coded[c].dc
    BY <1>2, <2>3
  <2>6. /\ picture[c].dc \in Int
        /\ coded[c].dc = picture[c].dc - (IF c = 1 THEN 0 ELSE picture[c - 1].dc)
    BY <2>3, QuantizedDCs
  <2>7. sums[c - 1] = IF c = 1 THEN 0 ELSE picture[c - 1].dc
    <3>1. CASE c = 1
      <4>1. 0 \in 0 .. Blocks /\ c - 1 = 0
        BY <3>1, VideoFileAssumption
      <4>2. sums[0] = 0
        BY <1>2, <4>1
      <4> QED
        BY <3>1, <4>1, <4>2
    <3>2. CASE c # 1
      <4>1. c - 1 \in 1 .. Blocks /\ ~(c <= c - 1)
        BY <2>3, <2>4, <3>2, VideoFileAssumption
      <4>2. c - 1 \notin wrong
        BY <2>2, <4>1
      <4> QED
        BY <3>2, <4>1, <4>2
    <3> QED
      BY <3>1, <3>2
  <2>8. c # 1 => picture[c - 1].dc \in Int
    <3>1. c # 1 => c - 1 \in 1 .. Blocks
      BY <2>3, <2>4, VideoFileAssumption
    <3> QED
      BY <3>1, QuantizedDCs
  <2> HIDE DEF coded
  <2> QED
    BY <2>3, <2>5, <2>6, <2>7, <2>8
<1> QED
  BY <1>3 DEF sums

(* Two pictures are the same if their coefficients are.                    *)
LEMMA SamePicture ==
  ASSUME NEW picture \in Pictures, NEW f,
         f = [b \in 1 .. Blocks |-> [dc |-> f[b].dc, ac |-> f[b].ac]],
         \A b \in 1 .. Blocks : f[b].dc = picture[b].dc /\ f[b].ac = picture[b].ac
  PROVE  f = picture
<1>1. picture \in [1 .. Blocks -> [dc : Int, ac : Int]]
  BY VideoFileAssumption
<1>2. ASSUME NEW b \in 1 .. Blocks
      PROVE  picture[b] = [dc |-> picture[b].dc, ac |-> picture[b].ac]
  BY <1>1
<1>3. picture = [b \in 1 .. Blocks |-> [dc |-> picture[b].dc, ac |-> picture[b].ac]]
  BY <1>1, <1>2
<1>4. [b \in 1 .. Blocks |-> [dc |-> f[b].dc, ac |-> f[b].ac]]
        = [b \in 1 .. Blocks |-> [dc |-> picture[b].dc, ac |-> picture[b].ac]]
  OBVIOUS
<1> QED
  BY <1>3, <1>4

(* Decoding is the inverse of coding (quantize.c:11-49,                    *)
(* lossless_decode.c:60-135); what an I-frame is decoded over is of no     *)
(* account.                                                                *)
LEMMA IframeComesBack ==
  ASSUME NEW picture \in Pictures, NEW before
  PROVE  lossless_decode("I", quantize_I(picture), before) = picture
<1> DEFINE coded == quantize_I(picture)
<1> DEFINE f == lossless_decode("I", coded, before)
<1>1. f = [b \in 1 .. Blocks |-> [dc |-> SumsOfDCs(coded)[b], ac |-> coded[b].ac]]
  BY DEF lossless_decode
<1> HIDE DEF f
<1>2. ASSUME NEW b \in 1 .. Blocks
      PROVE  f[b].dc = picture[b].dc /\ f[b].ac = picture[b].ac
  <2>1. f[b] = [dc |-> SumsOfDCs(coded)[b], ac |-> coded[b].ac]
    BY <1>1
  <2>2. f[b].dc = SumsOfDCs(coded)[b] /\ f[b].ac = coded[b].ac
    BY <2>1
  <2> QED
    BY <2>2, SumsAreDCs, QuantizedDCs
<1>3. \A b \in 1 .. Blocks : f[b].dc = SumsOfDCs(coded)[b] /\ f[b].ac = coded[b].ac
  BY <1>1
<1>4. f = [b \in 1 .. Blocks |-> [dc |-> f[b].dc, ac |-> f[b].ac]]
  <2> HIDE DEF coded
  <2> QED
    BY <1>1, <1>3
<1> QED
  BY <1>2, <1>4, SamePicture DEF f

LEMMA PframeComesBack ==
  ASSUME NEW before \in Pictures, NEW picture \in Pictures
  PROVE  lossless_decode("P", quantize_P(before, picture), before) = picture
<1> DEFINE coded == quantize_P(before, picture)
<1> DEFINE f == lossless_decode("P", coded, before)
<1>1. f = [b \in 1 .. Blocks |-> [dc |-> before[b].dc + coded[b].dc,
                                  ac |-> before[b].ac + coded[b].ac]]
  BY DEF lossless_decode
<1>2. \A b \in 1 .. Blocks :
        coded[b].dc = picture[b].dc - before[b].dc /\ coded[b].ac = picture[b].ac - before[b].ac
  BY DEF quantize_P
<1> HIDE DEF f, coded
<1>3. \A b \in 1 .. Blocks :
        f[b].dc = before[b].dc + coded[b].dc /\ f[b].ac = before[b].ac + coded[b].ac
  BY <1>1
<1>4. ASSUME NEW b \in 1 .. Blocks
      PROVE  f[b].dc = picture[b].dc /\ f[b].ac = picture[b].ac
  <2>1. /\ picture[b].dc \in Int /\ picture[b].ac \in Int
        /\ before[b].dc \in Int /\ before[b].ac \in Int
    BY VideoFileAssumption
  <2> QED
    BY <1>2, <1>3, <2>1
<1>5. f = [b \in 1 .. Blocks |-> [dc |-> f[b].dc, ac |-> f[b].ac]]
  BY <1>1, <1>3
<1> QED
  BY <1>4, <1>5, SamePicture DEF f, coded

(* Of the frames coded so far only the number and the coding count, and of *)
(* the pictures those that had been encoded.                               *)
LEMMA DriftPreserved ==
  ASSUME IInv, NEW picture \in Pictures, source' = Append(source, picture),
         NEW number \in 0 .. frame - 1, NEW type, NEW coded,
         CodedFrom(number, type, coded)
  PROVE  \/ type = "I" /\ coded = quantize_I(source'[number + 1])
         \/ /\ type = "P" /\ number > 0
            /\ coded = quantize_P(source'[number], source'[number + 1])
<1>1. source \in Seq(Pictures)
  BY DEF IInv, TypeOK
<1>2. \A n \in 1 .. Len(source) : source'[n] = source[n]
  BY <1>1
<1>3. /\ source'[number + 1] = source[number + 1]
      /\ number > 0 => source'[number] = source[number]
  <2>1. Len(source) \in Nat
    BY <1>1
  <2>2. number + 1 \in 1 .. Len(source) /\ (number > 0 => number \in 1 .. Len(source))
    BY <2>1 DEF frame
  <2> QED
    BY <1>2, <2>2
<1> QED
  BY <1>3 DEF CodedFrom

LEMMA EncodeFrameDrift ==
  ASSUME IInv, DriftInv, NEW picture \in Pictures, NEW sizes \in CodedSizes,
         EncodeFrame(picture, sizes)
  PROVE  DriftInv'
<1> DEFINE type == IF TakeIframe(sizes[1], sizes[2]) THEN "I" ELSE "P"
<1> DEFINE coded == IF type = "I" THEN quantize_I(picture) ELSE quantize_P(prev, picture)
<1>1. /\ pc = "encode" /\ pc' = pc
      /\ source' = Append(source, picture)
      /\ prev' = picture
      /\ DOMAIN file' = DOMAIN file \cup {offset}
      /\ \A p \in DOMAIN file : p # offset => file'[p] = file[p]
      /\ file'[offset].type = type /\ file'[offset].coded = coded
      /\ file'[offset].number = frame
  BY DEF EncodeFrame, Reference
<1>2. source \in Seq(Pictures) /\ frame \in Nat /\ frame' = frame + 1
  BY <1>1 DEF IInv, TypeOK, frame
<1>3. type \in {"I", "P"} /\ (type = "P" => frame > 0)
  BY <1>2 DEF TakeIframe
<1>4. /\ source'[frame + 1] = picture
      /\ frame > 0 => source'[frame] = source[frame]
  BY <1>1, <1>2 DEF frame
<1> DEFINE NowCoded(n, t, c) ==
             \/ t = "I" /\ c = quantize_I(source'[n + 1])
             \/ t = "P" /\ n > 0 /\ c = quantize_P(source'[n], source'[n + 1])
<1>5. NowCoded(frame, type, coded)
  <2>1. CASE type = "I"
    BY <1>4, <2>1
  <2>2. CASE type = "P"
    <3>1. frame > 0 /\ prev = source'[frame]
      BY <1>3, <1>4, <2>2 DEF DriftInv
    <3> QED
      BY <1>4, <2>2, <3>1
  <2> QED
    BY <1>3, <2>1, <2>2
<1> HIDE DEF type, coded
<1>6. ASSUME NEW p \in DOMAIN file', file'[p].kind = "frame"
      PROVE  NowCoded(file'[p].number, file'[p].type, file'[p].coded)
  <2>1. CASE p = offset
    BY <1>1, <1>5, <2>1
  <2>2. CASE p # offset
    <3>1. p \in DOMAIN file /\ file'[p] = file[p] /\ At(p, "frame")
      BY <1>1, <1>6, <2>2 DEF At
    <3>2. /\ file[p].number \in 0 .. frame - 1
          /\ CodedFrom(file[p].number, file[p].type, file[p].coded)
      BY <3>1 DEF IInv, ChainInv, DriftInv
    <3> DEFINE was == file[p]
    <3>3. was.number \in 0 .. frame - 1 /\ CodedFrom(was.number, was.type, was.coded)
      BY <3>2
    <3> HIDE DEF was
    <3>4. NowCoded(was.number, was.type, was.coded)
      BY <1>1, <3>3, DriftPreserved
    <3> QED
      BY <3>1, <3>4 DEF was
  <2> QED
    BY <2>1, <2>2
<1> QED
  BY <1>1, <1>2, <1>4, <1>6 DEF DriftInv, At, CodedFrom

(* The trailer leaves the frames as they are.                              *)
LEMMA FinishFileDrift ==
  ASSUME IInv, DriftInv, FinishFile
  PROVE  DriftInv'
<1>1. /\ pc = "encode" /\ pc' = "load"
      /\ DOMAIN file' = DOMAIN file \cup {offset}
      /\ \A p \in DOMAIN file : p # offset => file'[p] = file[p]
      /\ file'[offset].kind = "trailer"
      /\ source' = source /\ prev' = prev
  BY DEF FinishFile
<1>2. ASSUME NEW p \in DOMAIN file', file'[p].kind = "frame"
      PROVE  CodedFrom(file'[p].number, file'[p].type, file'[p].coded)
  <2>1. p # offset
    BY <1>1, <1>2 DEF At
  <2>2. p \in DOMAIN file /\ file'[p] = file[p] /\ At(p, "frame")
    BY <1>1, <1>2, <2>1 DEF At
  <2> QED
    BY <1>1, <2>2 DEF DriftInv
<1> QED
  BY <1>1, <1>2 DEF DriftInv, frame, At, CodedFrom

(* What is read next is the frame the player believes is next; it is       *)
(* decoded to its picture.                                                 *)
LEMMA FrameComesBack ==
  ASSUME IInv, DriftInv, ReadFrame
  PROVE  coefficients' = source[next']
<1>1. /\ pc = "read" /\ next < num_frames /\ next' = next + 1
      /\ At(position, "frame")
      /\ coefficients' = lossless_decode(file[position].type, file[position].coded, coefficients)
  BY DEF ReadFrame
<1>2. frame = num_frames /\ next \in 0 .. num_frames - 1 /\ file[position].number = next
  BY <1>1, VideoFileAssumption DEF IInv, PlaceInv, TypeOK, Follows
<1>3. source \in Seq(Pictures)
  BY DEF IInv, TypeOK
<1>4. source[next + 1] \in Pictures /\ (next > 0 => source[next] \in Pictures)
  BY <1>2, <1>3 DEF frame
<1>5. CodedFrom(next, file[position].type, file[position].coded)
  BY <1>1, <1>2 DEF DriftInv, At
<1>6. CASE file[position].type = "I"
  <2>1. file[position].coded = quantize_I(source[next + 1])
    BY <1>5, <1>6 DEF CodedFrom
  <2> QED
    BY <1>1, <1>4, <1>6, <2>1, IframeComesBack
<1>7. CASE file[position].type # "I"
  <2>1. /\ file[position].type = "P" /\ next > 0
        /\ file[position].coded = quantize_P(source[next], source[next + 1])
    BY <1>5, <1>7 DEF CodedFrom
  <2>2. coefficients = source[next]
    BY <1>1, <1>7 DEF DriftInv
  <2> QED
    BY <1>1, <1>4, <2>1, <2>2, PframeComesBack
<1> QED
  BY <1>6, <1>7

(* The reader's next frame is one it can decode: the first and those of    *)
(* the table are I-frames, and before any other its predecessor was read.  *)
LEMMA ReadDrift ==
  ASSUME IInv, IInv', DriftInv,
         LoadVideo \/ ReadFrame \/ \E k \in 1 .. Len(table) : SeekFrame(table[k])
  PROVE  DriftInv'
<1>1. UNCHANGED encoder
  BY DEF LoadVideo, ReadFrame, SeekFrame
<1>2. /\ frame' = frame /\ prev' = prev /\ source' = source /\ file' = file
      /\ trailer' = trailer
  BY <1>1 DEF encoder, frame
<1>3. pc' = "read"
  BY DEF LoadVideo, ReadFrame, SeekFrame
<1> SUFFICES ASSUME next' < num_frames
             PROVE  \/ file'[position'].type = "I"
                    \/ next' > 0 /\ coefficients' = source'[next']
  BY <1>2 DEF DriftInv, At, CodedFrom
<1>4. CASE LoadVideo
  <2>1. position' = SizeOfHeader /\ next' = 0
    BY <1>4 DEF LoadVideo
  <2>2. frame' = num_frames /\ Follows(position, next)'
    BY <1>3 DEF IInv, PlaceInv
  <2>3. At(position, "frame")' /\ file'[position'].number = 0
    BY <2>1, <2>2, VideoFileAssumption DEF Follows, At
  <2>4. CodedFrom(0, file[position'].type, file[position'].coded)
    BY <1>2, <2>3 DEF At, DriftInv
  <2> QED
    BY <1>2, <2>4 DEF CodedFrom
<1>5. CASE ReadFrame
  <2>1. next' > 0
    BY <1>5 DEF ReadFrame, IInv, TypeOK
  <2>2. coefficients' = source'[next']
    BY <1>1, <1>5, FrameComesBack DEF encoder
  <2> QED
    BY <2>1, <2>2
<1>6. ASSUME NEW k \in 1 .. Len(table), SeekFrame(table[k])
      PROVE  file'[position'].type = "I"
  <2>1. pc = "read" /\ position' = table[k][2] /\ file' = file
    BY <1>1, <1>6 DEF SeekFrame, encoder
  <2>2. table = trailer
    BY <2>1 DEF IInv, PlaceInv
  <2> QED
    BY <2>1, <2>2 DEF IInv, RowsPointAtIframes
<1> QED
  BY <1>4, <1>5, <1>6

THEOREM DriftInvariant == Spec => [](IInv /\ DriftInv)
<1>1. Init => DriftInv
  BY DEF Init, DriftInv, At, frame
<1>2. IInv /\ IInv' /\ DriftInv /\ [Next]_vars => DriftInv'
  <2> SUFFICES ASSUME IInv, IInv', DriftInv, [Next]_vars PROVE DriftInv'
    OBVIOUS
  <2>1. ASSUME NEW picture \in Pictures, NEW sizes \in CodedSizes, EncodeFrame(picture, sizes)
        PROVE  DriftInv'
    BY <2>1, EncodeFrameDrift
  <2>2. CASE FinishFile
    BY <2>2, FinishFileDrift
  <2>3. CASE Read
    BY <2>3, ReadDrift DEF Read
  <2>4. CASE UNCHANGED vars
    BY <2>4 DEF vars, encoder, frame, DriftInv, At, CodedFrom, quantize_I, quantize_P
  <2> QED
    BY <2>1, <2>2, <2>3, <2>4 DEF Next, Encode
<1> QED
  BY <1>1, <1>2, Invariant, PTL DEF Spec

(* Every frame is decoded to the picture it was coded from, in whatever    *)
(* order they are read and sought (quantize.c:11-49,                       *)
(* mjpeg423_encoder.c:155-186, core1 main.c:77-113).                       *)
THEOREM DriftTheorem == Spec => NoDrift
<1>1. IInv /\ DriftInv /\ [Next]_vars => [ReadFrame => coefficients' = source[next']]_vars
  BY FrameComesBack
<1> QED
  BY <1>1, DriftInvariant, PTL DEF Spec, NoDrift

-----------------------------------------------------------------------------
(* Powers of two                                                           *)

Power(f, n) == f = [k \in 0 .. n |-> IF k = 0 THEN 1 ELSE 2 * f[k - 1]]

(* The recursive function that TwoTo stands on exists, for every n.         *)
LEMMA PowerExists ==
  ASSUME NEW n \in Nat
  PROVE  \E f : Power(f, n)
<1> DEFINE S == {m \in Nat : \E f : Power(f, m)}
<1>1. 0 \in S
  <2> DEFINE f == [k \in 0 .. 0 |-> 1]
  <2>1. f = [k \in 0 .. 0 |-> IF k = 0 THEN 1 ELSE 2 * f[k - 1]]
    OBVIOUS
  <2> QED
    BY <2>1 DEF Power
<1>2. ASSUME NEW m \in Nat, m \in S PROVE m + 1 \in S
  <2>1. PICK f : Power(f, m)
    BY <1>2
  <2>2. \A k \in 0 .. m : f[k] = IF k = 0 THEN 1 ELSE 2 * f[k - 1]
    BY <2>1 DEF Power
  <2> DEFINE g == [k \in 0 .. m + 1 |-> IF k = m + 1 THEN 2 * f[m] ELSE f[k]]
  <2> DEFINE h == [k \in 0 .. m + 1 |-> IF k = 0 THEN 1 ELSE 2 * g[k - 1]]
  <2>3. ASSUME NEW k \in 0 .. m + 1 PROVE g[k] = h[k]
    <3>1. CASE k = m + 1
      <4>1. k # 0 /\ k - 1 = m /\ m \in 0 .. m + 1 /\ m # m + 1
        BY <3>1
      <4> QED
        BY <3>1, <4>1
    <3>2. CASE k # m + 1
      <4>1. k \in 0 .. m
        BY <3>2
      <4>2. k # 0 => k - 1 \in 0 .. m + 1 /\ k - 1 # m + 1
        BY <4>1
      <4> QED
        BY <2>2, <3>2, <4>1, <4>2
    <3> QED
      BY <3>1, <3>2
  <2>4. g = h
    BY <2>3
  <2>5. Power(g, m + 1)
    BY <2>4 DEF Power
  <2> QED
    BY <2>5
<1>3. Nat \subseteq S
  <2> HIDE DEF S
  <2> QED
    BY <1>1, <1>2, AllNumbers
<1> QED
  BY <1>3

(* Two such functions agree as far as both go.                             *)
LEMMA PowerUnique ==
  ASSUME NEW m \in Nat, NEW n \in Nat, m <= n, NEW f, NEW g, Power(f, m), Power(g, n)
  PROVE  f[m] = g[m]
<1>1. /\ \A k \in 0 .. m : f[k] = IF k = 0 THEN 1 ELSE 2 * f[k - 1]
      /\ \A k \in 0 .. n : g[k] = IF k = 0 THEN 1 ELSE 2 * g[k - 1]
  BY DEF Power
<1> DEFINE S == {k \in Nat : k <= m => f[k] = g[k]}
<1>2. 0 \in S
  BY <1>1
<1>3. ASSUME NEW k \in Nat, k \in S PROVE k + 1 \in S
  <2> SUFFICES ASSUME k + 1 <= m PROVE f[k + 1] = g[k + 1]
    OBVIOUS
  <2>1. k + 1 \in 0 .. m /\ k + 1 \in 0 .. n /\ k + 1 # 0 /\ (k + 1) - 1 = k /\ k <= m
    OBVIOUS
  <2> QED
    BY <1>1, <1>3, <2>1
<1>4. Nat \subseteq S
  <2> HIDE DEF S
  <2> QED
    BY <1>2, <1>3, AllNumbers
<1> QED
  BY <1>4

(* So TwoTo(n) is its value at n.                                           *)
LEMMA TwoToIs ==
  ASSUME NEW n \in Nat
  PROVE  \E f : Power(f, n) /\ TwoTo(n) = f[n]
<1> DEFINE f == CHOOSE f : f = [k \in 0 .. n |-> IF k = 0 THEN 1 ELSE 2 * f[k - 1]]
<1>1. TwoTo(n) = f[n]
  BY DEF TwoTo
<1>2. Power(f, n)
  <2>1. \E g : g = [k \in 0 .. n |-> IF k = 0 THEN 1 ELSE 2 * g[k - 1]]
    BY PowerExists DEF Power
  <2>2. f = [k \in 0 .. n |-> IF k = 0 THEN 1 ELSE 2 * f[k - 1]]
    BY <2>1
  <2> QED
    BY <2>2 DEF Power
<1> QED
  BY <1>1, <1>2

(* The powers of two begin with 1,                                          *)
LEMMA TwoToZero == TwoTo(0) = 1
  BY TwoToIs DEF Power

(* each is twice the one before,                                            *)
LEMMA TwoToNext ==
  ASSUME NEW n \in Nat
  PROVE  TwoTo(n + 1) = 2 * TwoTo(n)
<1>1. PICK f : Power(f, n) /\ TwoTo(n) = f[n]
  BY TwoToIs
<1>2. n + 1 \in Nat /\ n <= n + 1
  OBVIOUS
<1>3. PICK g : Power(g, n + 1) /\ TwoTo(n + 1) = g[n + 1]
  BY <1>2, TwoToIs
<1>4. f[n] = g[n]
  BY <1>1, <1>2, <1>3, PowerUnique
<1>5. g[n + 1] = 2 * g[n]
  BY <1>3 DEF Power
<1> QED
  BY <1>1, <1>3, <1>4, <1>5

(* all are positive,                                                        *)
LEMMA TwoToPositive == \A n \in Nat : TwoTo(n) \in Nat \ {0}
<1> DEFINE S == {n \in Nat : TwoTo(n) \in Nat \ {0}}
<1>1. 0 \in S
  BY TwoToZero
<1>2. ASSUME NEW n \in Nat, n \in S PROVE n + 1 \in S
  <2>1. TwoTo(n) \in Nat \ {0} /\ TwoTo(n + 1) = 2 * TwoTo(n)
    BY <1>2, TwoToNext
  <2> QED
    BY <2>1
<1>3. Nat \subseteq S
  <2> HIDE DEF S
  <2> QED
    BY <1>1, <1>2, AllNumbers
<1> QED
  BY <1>3

(* and none is smaller than an earlier one.                                 *)
LEMMA TwoToGrows ==
  ASSUME NEW m \in Nat, NEW n \in Nat, m <= n
  PROVE  TwoTo(m) <= TwoTo(n)
<1> DEFINE S == {d \in Nat : TwoTo(m) <= TwoTo(m + d)}
<1>1. 0 \in S
  BY TwoToPositive
<1>2. ASSUME NEW d \in Nat, d \in S PROVE d + 1 \in S
  <2>1. m + d \in Nat /\ m + (d + 1) = (m + d) + 1
    OBVIOUS
  <2>2. TwoTo(m + d) \in Nat /\ TwoTo(m + (d + 1)) = 2 * TwoTo(m + d) /\ TwoTo(m) \in Nat
    BY <2>1, TwoToNext, TwoToPositive
  <2> QED
    BY <1>2, <2>2
<1>3. Nat \subseteq S
  <2> HIDE DEF S
  <2> QED
    BY <1>1, <1>2, AllNumbers
<1>4. n - m \in Nat /\ m + (n - m) = n
  OBVIOUS
<1> QED
  BY <1>3, <1>4

-----------------------------------------------------------------------------
(* Products, quotients and remainders                                      *)

(* What the steps below use of products: they keep their products hidden    *)
(* from the arithmetic, which does not decide products of variables.        *)
LEMMA Multiples ==
  ASSUME NEW d \in Nat \ {0}, NEW m \in Int, NEW n \in Int
  PROVE  /\ m * d \in Int
         /\ (m + 1) * d = m * d + d
         /\ (m + n) * d = m * d + n * d
         /\ m <= n => m * d <= n * d
         /\ m < n => m * d + d <= n * d
  BY Z3

(* Quotient and remainder.                                                 *)
LEMMA Divides ==
  ASSUME NEW d \in Nat \ {0}, NEW n \in Nat
  PROVE  /\ n \div d \in Nat /\ n % d \in 0 .. d - 1
         /\ n = (n \div d) * d + (n % d)
<1>1. n \div d \in Int /\ n % d \in 0 .. d - 1
  OBVIOUS
<1>2. n = d * (n \div d) + (n % d)
  BY Z3
<1>3. d * (n \div d) = (n \div d) * d
  BY <1>1, Z3
<1>4. ~(n \div d <= 0 - 1)
  <2>1. n \div d <= 0 - 1 => (n \div d) * d <= (0 - 1) * d
    BY <1>1, Multiples
  <2>2. (0 - 1) * d = 0 - d
    BY Z3
  <2>3. (n \div d) * d \in Int
    BY <1>1, Multiples
  <2> QED
    BY <1>1, <1>2, <1>3, <2>1, <2>2, <2>3
<1> QED
  BY <1>1, <1>2, <1>3, <1>4

(* They are unique.                                                        *)
LEMMA QuotientIs ==
  ASSUME NEW d \in Nat \ {0}, NEW q \in Nat, NEW r \in 0 .. d - 1
  PROVE  (q * d + r) \div d = q /\ (q * d + r) % d = r
<1> DEFINE n == q * d + r
           Q == n \div d
           R == n % d
<1>1. q * d \in Int /\ r \in Int /\ 0 <= q * d
  BY Z3
<1>2. n = q * d + r /\ n \in Nat
  BY <1>1
<1> HIDE DEF n
<1>3. Q \in Nat /\ R \in 0 .. d - 1 /\ n = Q * d + R /\ n = q * d + r /\ n \in Nat
  BY <1>2, Divides
<1> HIDE DEF Q, R
<1>4. Q * d \in Int
  BY <1>3, Multiples
<1>5. ~(Q < q)
  <2>1. Q < q => Q * d + d <= q * d
    BY <1>3, Multiples
  <2> QED
    BY <2>1, <1>1, <1>3, <1>4
<1>6. ~(q < Q)
  <2>1. q < Q => q * d + d <= Q * d
    BY <1>3, Multiples
  <2> QED
    BY <2>1, <1>1, <1>3, <1>4
<1>7. Q = q
  BY <1>3, <1>5, <1>6
<1>8. R = r
  BY <1>1, <1>3, <1>7
<1> QED
  BY <1>7, <1>8 DEF n, Q, R

(* Whole bytes in front of m bits only add to the quotient.                *)
LEMMA Whole ==
  ASSUME NEW d \in Nat \ {0}, NEW q \in Nat, NEW m \in Nat
  PROVE  (q * d + m) \div d = q + m \div d /\ (q * d + m) % d = m % d
<1> DEFINE Q == m \div d
           R == m % d
<1>1. Q \in Nat /\ R \in 0 .. d - 1 /\ m = Q * d + R
  BY Divides
<1> HIDE DEF Q, R
<1>2. q * d \in Int /\ Q * d \in Int /\ (q + Q) * d = q * d + Q * d
  BY <1>1, Multiples
<1>3. q * d + m = (q + Q) * d + R
  BY <1>1, <1>2
<1>4. q + Q \in Nat
  BY <1>1
<1>5. ((q + Q) * d + R) \div d = q + Q /\ ((q + Q) * d + R) % d = R
  BY <1>1, <1>4, QuotientIs
<1> QED
  BY <1>3, <1>5 DEF Q, R

(* The number in front of a bit, doubled, and the bit.                      *)
LEMMA Halve ==
  ASSUME NEW v \in Nat, NEW p \in Nat \ {0}
  PROVE  v \div p = 2 * (v \div (2 * p)) + ((v \div p) % 2)
<1> DEFINE q == v \div p
           r == v % p
           h == q \div 2
           b == q % 2
<1>1. q \in Nat /\ r \in 0 .. p - 1 /\ v = q * p + r
  BY Divides
<1> HIDE DEF q, r
<1>2. h \in Nat /\ b \in {0, 1} /\ q = 2 * h + b
  BY <1>1
<1> HIDE DEF h, b
<1> DEFINE bp == IF b = 0 THEN 0 ELSE p
<1>3. q * p = h * (2 * p) + bp
  BY <1>1, <1>2, Z3
<1>4. h * (2 * p) \in Int /\ q * p \in Int /\ 2 * p \in Nat \ {0}
  BY <1>1, <1>2, Z3
<1>5. bp + r \in 0 .. 2 * p - 1
  BY <1>1, <1>2
<1>6. v = h * (2 * p) + (bp + r)
  BY <1>1, <1>3, <1>4, <1>5
<1>7. v \div (2 * p) = h
  BY <1>2, <1>4, <1>5, <1>6, QuotientIs
<1> QED
  BY <1>2, <1>7 DEF q, b

(* % never gives a negative number, as & does not (encode_VLI).             *)
LEMMA NegativeRemainder ==
  ASSUME NEW d \in Nat \ {0}, NEW x \in Int, 0 - d <= x, x < 0
  PROVE  x % d = x + d
<1> DEFINE q == x \div d
           r == x % d
<1>1. q \in Int /\ r \in 0 .. d - 1
  OBVIOUS
<1>2. x = d * q + r
  BY Z3
<1> HIDE DEF q, r
<1>3. d * q = q * d
  BY <1>1, Z3
<1>4. q * d \in Int
  BY <1>1, Multiples
<1>5. ~(q >= 0)
  <2>1. 0 <= q => 0 * d <= q * d
    BY <1>1, Multiples
  <2>2. 0 * d = 0
    BY Z3
  <2> QED
    BY <1>1, <1>2, <1>3, <1>4, <2>1, <2>2
<1>6. ~(q <= -2)
  <2>1. q <= -2 => q * d <= (-2) * d
    BY <1>1, Multiples
  <2>2. (-2) * d = 0 - (d + d)
    BY Z3
  <2> QED
    BY <1>1, <1>2, <1>3, <1>4, <2>1, <2>2
<1>7. q = -1
  BY <1>1, <1>5, <1>6
<1>8. (-1) * d = 0 - d
  BY Z3
<1>9. r = x + d
  BY <1>1, <1>2, <1>3, <1>7, <1>8
<1> QED
  BY <1>9 DEF r

-----------------------------------------------------------------------------
(* Numbers in bits                                                         *)

(* n bits are n bits.                                                       *)
LEMMA BitsType ==
  ASSUME NEW n \in Nat, NEW v \in Nat
  PROVE  /\ Bits(n, v) \in [1 .. n -> {0, 1}]
         /\ Bits(n, v) \in Seq({0, 1}) /\ Len(Bits(n, v)) = n
<1>1. ASSUME NEW k \in 1 .. n PROVE (v \div TwoTo(n - k)) % 2 \in {0, 1}
  <2>1. n - k \in Nat
    OBVIOUS
  <2>2. TwoTo(n - k) \in Nat \ {0}
    BY <2>1, TwoToPositive
  <2>3. v \div TwoTo(n - k) \in Nat
    BY <2>2, Divides
  <2> QED
    BY <2>3
<1>2. Bits(n, v) \in [1 .. n -> {0, 1}]
  BY <1>1 DEF Bits
<1> QED
  BY <1>2

Reads(f, w, from, n) ==
  f = [k \in 0 .. n |-> IF k = 0 THEN 0 ELSE 2 * f[k - 1] + w[from + k]]

(* The recursive function of InputBits exists, for every number of bits.    *)
LEMMA ReadsExists ==
  ASSUME NEW w, NEW from, NEW n \in Nat
  PROVE  \E f : Reads(f, w, from, n)
<1> DEFINE S == {m \in Nat : \E f : Reads(f, w, from, m)}
<1>1. 0 \in S
  <2> DEFINE f == [k \in 0 .. 0 |-> 0]
  <2>1. f = [k \in 0 .. 0 |-> IF k = 0 THEN 0 ELSE 2 * f[k - 1] + w[from + k]]
    OBVIOUS
  <2> QED
    BY <2>1 DEF Reads
<1>2. ASSUME NEW m \in Nat, m \in S PROVE m + 1 \in S
  <2>1. PICK f : Reads(f, w, from, m)
    BY <1>2
  <2>2. \A k \in 0 .. m : f[k] = IF k = 0 THEN 0 ELSE 2 * f[k - 1] + w[from + k]
    BY <2>1 DEF Reads
  <2> DEFINE g == [k \in 0 .. m + 1 |-> IF k = m + 1 THEN 2 * f[m] + w[from + k] ELSE f[k]]
  <2> DEFINE h == [k \in 0 .. m + 1 |-> IF k = 0 THEN 0 ELSE 2 * g[k - 1] + w[from + k]]
  <2>3. ASSUME NEW k \in 0 .. m + 1 PROVE g[k] = h[k]
    <3>1. CASE k = m + 1
      <4>1. k # 0 /\ k - 1 = m /\ m \in 0 .. m + 1 /\ m # m + 1
        BY <3>1
      <4> QED
        BY <3>1, <4>1
    <3>2. CASE k # m + 1
      <4>1. k \in 0 .. m
        BY <3>2
      <4>2. k # 0 => k - 1 \in 0 .. m + 1 /\ k - 1 # m + 1
        BY <4>1
      <4> QED
        BY <2>2, <3>2, <4>1, <4>2
    <3> QED
      BY <3>1, <3>2
  <2>4. g = h
    BY <2>3
  <2>5. Reads(g, w, from, m + 1)
    BY <2>4 DEF Reads
  <2> QED
    BY <2>5
<1>3. Nat \subseteq S
  <2> HIDE DEF S
  <2> QED
    BY <1>1, <1>2, AllNumbers
<1> QED
  BY <1>3

(* InputBits reads bit after bit.                                           *)
LEMMA InputBitsIs ==
  ASSUME NEW w, NEW from, NEW n \in Nat
  PROVE  \E f : /\ InputBits(w, from, n) = f[n]
                /\ f[0] = 0
                /\ \A k \in 0 .. n - 1 : f[k + 1] = 2 * f[k] + w[from + (k + 1)]
<1> DEFINE f == CHOOSE f : f = [k \in 0 .. n |-> IF k = 0 THEN 0 ELSE 2 * f[k - 1] + w[from + k]]
<1>1. InputBits(w, from, n) = f[n]
  BY DEF InputBits
<1>2. Reads(f, w, from, n)
  <2>1. \E g : g = [k \in 0 .. n |-> IF k = 0 THEN 0 ELSE 2 * g[k - 1] + w[from + k]]
    <3>1. \E g : Reads(g, w, from, n)
      BY ReadsExists
    <3> QED
      BY <3>1 DEF Reads
  <2>2. f = [k \in 0 .. n |-> IF k = 0 THEN 0 ELSE 2 * f[k - 1] + w[from + k]]
    BY <2>1
  <2> QED
    BY <2>2 DEF Reads
<1> HIDE DEF f
<1>3. \A k \in 0 .. n : f[k] = IF k = 0 THEN 0 ELSE 2 * f[k - 1] + w[from + k]
  BY <1>2 DEF Reads
<1>4. f[0] = 0
  BY <1>3
<1>5. ASSUME NEW k \in 0 .. n - 1 PROVE f[k + 1] = 2 * f[k] + w[from + (k + 1)]
  <2>1. k + 1 \in 0 .. n /\ k + 1 # 0 /\ (k + 1) - 1 = k
    OBVIOUS
  <2> QED
    BY <1>3, <2>1
<1> QED
  BY <1>1, <1>4, <1>5

(* n bits hold a number of n bits.                                         *)
LEMMA InputBitsType ==
  ASSUME NEW w, NEW from \in Nat, NEW n \in Nat, \A k \in 1 .. n : w[from + k] \in {0, 1}
  PROVE  InputBits(w, from, n) \in 0 .. TwoTo(n) - 1
<1>1. PICK f : /\ InputBits(w, from, n) = f[n]
               /\ f[0] = 0
               /\ \A k \in 0 .. n - 1 : f[k + 1] = 2 * f[k] + w[from + (k + 1)]
  BY InputBitsIs
<1> DEFINE S == {k \in Nat : k <= n => f[k] \in 0 .. TwoTo(k) - 1}
<1>2. 0 \in S
  BY <1>1, TwoToZero
<1>3. ASSUME NEW k \in Nat, k \in S PROVE k + 1 \in S
  <2> SUFFICES ASSUME k + 1 <= n PROVE f[k + 1] \in 0 .. TwoTo(k + 1) - 1
    OBVIOUS
  <2>1. k \in 0 .. n - 1 /\ k + 1 \in 1 .. n /\ k <= n
    OBVIOUS
  <2>2. f[k + 1] = 2 * f[k] + w[from + (k + 1)] /\ w[from + (k + 1)] \in {0, 1}
    BY <1>1, <2>1
  <2>3. f[k] \in 0 .. TwoTo(k) - 1 /\ TwoTo(k) \in Nat /\ TwoTo(k + 1) = 2 * TwoTo(k)
    BY <1>3, <2>1, TwoToNext, TwoToPositive
  <2> QED
    BY <2>2, <2>3
<1>4. Nat \subseteq S
  <2> HIDE DEF S
  <2> QED
    BY <1>2, <1>3, AllNumbers
<1> QED
  BY <1>1, <1>4

(* What was written in n bits is read from them.                           *)
LEMMA InputBitsOf ==
  ASSUME NEW w, NEW from \in Nat, NEW n \in Nat, NEW v \in 0 .. TwoTo(n) - 1,
         \A k \in 1 .. n : w[from + k] = Bits(n, v)[k]
  PROVE  InputBits(w, from, n) = v
<1>1. PICK f : /\ InputBits(w, from, n) = f[n]
               /\ f[0] = 0
               /\ \A k \in 0 .. n - 1 : f[k + 1] = 2 * f[k] + w[from + (k + 1)]
  BY InputBitsIs
<1>2. v \in Nat /\ TwoTo(n) \in Nat \ {0} /\ v < TwoTo(n)
  BY TwoToPositive
<1> DEFINE S == {k \in Nat : k <= n => f[k] = v \div TwoTo(n - k)}
<1>3. 0 \in S
  <2>1. v \div TwoTo(n) = 0
    <3>1. 0 * TwoTo(n) + v = v /\ v \in 0 .. TwoTo(n) - 1
      BY <1>2
    <3>2. (0 * TwoTo(n) + v) \div TwoTo(n) = 0
      BY <1>2, <3>1, QuotientIs
    <3> QED
      BY <3>1, <3>2
  <2>2. n - 0 = n
    OBVIOUS
  <2> QED
    BY <1>1, <2>1, <2>2
<1>4. ASSUME NEW k \in Nat, k \in S PROVE k + 1 \in S
  <2> SUFFICES ASSUME k + 1 <= n PROVE f[k + 1] = v \div TwoTo(n - (k + 1))
    OBVIOUS
  <2> DEFINE m == n - (k + 1)
  <2>1. m \in Nat /\ n - k = m + 1 /\ k \in 0 .. n - 1 /\ k + 1 \in 1 .. n /\ k <= n
    OBVIOUS
  <2> HIDE DEF m
  <2>2. TwoTo(m) \in Nat \ {0} /\ TwoTo(m + 1) = 2 * TwoTo(m)
    BY <2>1, TwoToNext, TwoToPositive
  <2>3. f[k] = v \div (2 * TwoTo(m))
    BY <1>4, <2>1, <2>2
  <2>4. w[from + (k + 1)] = (v \div TwoTo(m)) % 2
    BY <2>1 DEF Bits, m
  <2>5. f[k + 1] = 2 * f[k] + w[from + (k + 1)]
    BY <1>1, <2>1
  <2>6. v \div TwoTo(m) = 2 * (v \div (2 * TwoTo(m))) + ((v \div TwoTo(m)) % 2)
    BY <1>2, <2>2, Halve
  <2>7. f[k + 1] = v \div TwoTo(m)
    BY <2>3, <2>4, <2>5, <2>6
  <2> QED
    BY <2>7 DEF m
<1>5. Nat \subseteq S
  <2> HIDE DEF S
  <2> QED
    BY <1>3, <1>4, AllNumbers
<1>6. f[n] = v \div TwoTo(n - n) /\ n - n = 0
  BY <1>5
<1>7. v \div 1 = v
  <2>1. v * 1 + 0 = v /\ 0 \in 0 .. 1 - 1 /\ 1 \in Nat \ {0}
    BY <1>2
  <2>2. (v * 1 + 0) \div 1 = v
    BY <1>2, <2>1, QuotientIs
  <2> QED
    BY <2>1, <2>2
<1> QED
  BY <1>1, <1>6, <1>7, TwoToZero

-----------------------------------------------------------------------------
(* Amplitudes                                                              *)

Amplitudes == (1 - TwoTo(MaxSize)) .. TwoTo(MaxSize) - 1

(* The size of an amplitude is the smallest it fits in.                     *)
LEMMA SizeIs ==
  ASSUME NEW x \in Amplitudes
  PROVE  /\ Size(x) \in 0 .. MaxSize
         /\ FitsIn(x, Size(x))
         /\ \A m \in 0 .. Size(x) - 1 : ~FitsIn(x, m)
<1>1. MaxSize \in Nat
  BY LosslessAssumption
<1> DEFINE T == {n \in 0 .. MaxSize : FitsIn(x, n)}
<1>2. MaxSize \in T
  BY <1>1 DEF Amplitudes, FitsIn
<1>3. T \subseteq Nat
  BY <1>1
<1>4. PICK n \in T : \A m \in T : n <= m
  <2> HIDE DEF T
  <2> QED
    BY <1>2, <1>3, LeastElement
<1>5. n \in 0 .. MaxSize /\ FitsIn(x, n)
  OBVIOUS
<1>6. ASSUME NEW m \in 0 .. n - 1 PROVE ~FitsIn(x, m)
  <2>1. m \in 0 .. MaxSize /\ ~(n <= m)
    BY <1>1, <1>5
  <2> QED
    BY <1>4, <2>1
<1> DEFINE IsSize(k) == /\ FitsIn(x, k) \/ k = MaxSize
                        /\ \A m \in 0 .. k - 1 : ~FitsIn(x, m)
<1>7. Size(x) = CHOOSE k \in 0 .. MaxSize : IsSize(k)
  BY DEF Size
<1>8. \E k \in 0 .. MaxSize : IsSize(k)
  BY <1>5, <1>6
<1> HIDE DEF IsSize
<1>9. Size(x) \in 0 .. MaxSize /\ IsSize(Size(x))
  BY <1>7, <1>8
<1>10. FitsIn(x, MaxSize)
  BY DEF Amplitudes, FitsIn
<1> QED
  BY <1>9, <1>10 DEF IsSize

(* An amplitude's bits are as many as its size, and with the size tell     *)
(* which amplitude it is (lossless_encode.c, encode_VLI;                   *)
(* lossless_decode.c, HUFF_EXTEND).                                        *)
LEMMA AmplitudeComesBack ==
  ASSUME NEW x \in Amplitudes
  PROVE  /\ Size(x) \in 0 .. MaxSize
         /\ Size(x) = 0 <=> x = 0
         /\ Amplitude(x) \in 0 .. TwoTo(Size(x)) - 1
         /\ Size(x) # 0 => HUFF_EXTEND(Amplitude(x), Size(x)) = x
<1> DEFINE s == Size(x)
<1>1. MaxSize \in Nat /\ TwoTo(MaxSize) \in Nat
  BY LosslessAssumption, TwoToPositive
<1>2. x \in Int
  BY <1>1 DEF Amplitudes
<1>3. s \in 0 .. MaxSize /\ FitsIn(x, s) /\ \A m \in 0 .. s - 1 : ~FitsIn(x, m)
  BY SizeIs
<1> HIDE DEF s
<1>4. s = 0 => x = 0
  BY <1>2, <1>3, TwoToZero DEF FitsIn
<1>5. x = 0 => s = 0
  <2> SUFFICES ASSUME s # 0 PROVE x # 0
    OBVIOUS
  <2>1. 0 \in 0 .. s - 1
    BY <1>1, <1>3
  <2>2. ~FitsIn(x, 0)
    BY <1>3, <2>1
  <2> QED
    BY <2>2, TwoToZero DEF FitsIn
<1>6. CASE s = 0
  <2>1. (0 - 1) % 1 = 0
    OBVIOUS
  <2> QED
    BY <1>3, <1>4, <1>5, <1>6, <2>1, TwoToZero DEF Amplitude, s
<1>7. CASE s # 0
  <2>1. s - 1 \in Nat /\ (s - 1) + 1 = s /\ s - 1 \in 0 .. s - 1
    BY <1>1, <1>3, <1>7
  <2> DEFINE q == TwoTo(s - 1)
             p == TwoTo(s)
  <2>2. q \in Nat \ {0} /\ p = 2 * q
    BY <2>1, TwoToNext, TwoToPositive
  <2>3. x \in (1 - p) .. p - 1 /\ x \notin (1 - q) .. q - 1
    BY <1>3, <2>1 DEF FitsIn
  <2>4. HUFF_EXTEND(Amplitude(x), s) =
          IF Amplitude(x) < q THEN Amplitude(x) - p + 1 ELSE Amplitude(x)
    BY DEF HUFF_EXTEND
  <2>5. Amplitude(x) = IF x > 0 THEN x ELSE (x - 1) % p
    BY DEF Amplitude, s
  <2> HIDE DEF p, q
  <2>6. CASE x > 0
    <3>1. Amplitude(x) = x /\ x >= q /\ x \in 0 .. p - 1
      BY <1>2, <2>2, <2>3, <2>5, <2>6
    <3>2. ~(x < q)
      BY <1>2, <2>2, <3>1
    <3>3. HUFF_EXTEND(Amplitude(x), s) = x
      BY <2>4, <3>1, <3>2
    <3> QED
      BY <1>3, <1>4, <1>5, <3>1, <3>3 DEF s, p
  <2>7. CASE ~(x > 0)
    <3>1. x <= 0 - q /\ x >= 1 - p
      BY <1>2, <2>2, <2>3, <2>7
    <3>2. x - 1 \in Int /\ 0 - p <= x - 1 /\ x - 1 < 0 /\ p \in Nat \ {0}
      BY <1>2, <2>2, <3>1
    <3>3. (x - 1) % p = (x - 1) + p
      BY <3>2, NegativeRemainder
    <3>4. Amplitude(x) = (x - 1) + p
      BY <2>5, <2>7, <3>3
    <3>5. (x - 1) + p < q /\ (x - 1) + p \in 0 .. p - 1 /\ ((x - 1) + p) - p + 1 = x
      BY <1>2, <2>2, <3>1
    <3>6. HUFF_EXTEND(Amplitude(x), s) = x
      BY <2>4, <3>4, <3>5
    <3> QED
      BY <1>3, <1>4, <1>5, <3>4, <3>5, <3>6 DEF s, p
  <2> QED
    BY <2>6, <2>7
<1> QED
  BY <1>6, <1>7

-----------------------------------------------------------------------------
(* The code of a symbol                                                    *)

(* What is used of the constants.                                           *)
LEMMA Constants ==
  /\ Last \in Nat \ {0} /\ RunBits \in Nat \ {0} /\ SizeBits \in Nat \ {0}
  /\ MaxSize \in Nat \ {0} /\ ByteBits \in Nat \ {0} /\ WindowBytes \in Nat \ {0}
  /\ Window \in Nat /\ Window = WindowBytes * ByteBits
  /\ MaxSize \in 0 .. TwoTo(SizeBits) - 1
  /\ MaxRun \in Nat \ {0} /\ MaxRun \in 0 .. TwoTo(RunBits) - 1
  /\ TwoTo(SizeBits) \in Nat \ {0}
  /\ ByteBits - 1 <= RunBits + SizeBits
  /\ RunBits + SizeBits + TwoTo(SizeBits) - 1 <= Window - (ByteBits - 1)
<1>1. /\ Last \in Nat \ {0} /\ RunBits \in Nat \ {0} /\ SizeBits \in Nat \ {0}
      /\ MaxSize \in Nat \ {0} /\ ByteBits \in Nat \ {0} /\ WindowBytes \in Nat \ {0}
  BY LosslessAssumption
<1>2. Window \in Int /\ Window = WindowBytes * ByteBits
  BY <1>1, Multiples DEF Window
<1>3. Window \in Nat
  <2>1. 0 <= WindowBytes => 0 * ByteBits <= WindowBytes * ByteBits
    BY <1>1, Multiples
  <2>2. 0 * ByteBits = 0
    BY <1>1, Z3
  <2> QED
    BY <1>1, <1>2, <2>1, <2>2
<1>4. TwoTo(SizeBits) \in Nat \ {0} /\ TwoTo(RunBits) \in Nat
  BY <1>1, TwoToPositive
<1>5. MaxSize < TwoTo(SizeBits) /\ ByteBits <= RunBits + SizeBits + 1
      /\ RunBits + SizeBits + TwoTo(SizeBits) - 1 <= Window - (ByteBits - 1)
  BY LosslessAssumption
<1>6. TwoTo(RunBits) >= 2
  <2>1. TwoTo(0 + 1) = 2 * TwoTo(0)
    BY TwoToNext
  <2>2. TwoTo(1) <= TwoTo(RunBits)
    BY <1>1, TwoToGrows
  <2> QED
    BY <1>4, <2>1, <2>2, TwoToZero
<1>7. MaxRun \in Nat \ {0} /\ MaxRun \in 0 .. TwoTo(RunBits) - 1
  BY <1>4, <1>6 DEF MaxRun
<1> HIDE DEF MaxRun, Window
<1>8. MaxSize \in 0 .. TwoTo(SizeBits) - 1 /\ ByteBits - 1 <= RunBits + SizeBits
  BY <1>1, <1>4, <1>5
<1> QED
  BY <1>1, <1>2, <1>3, <1>4, <1>5, <1>7, <1>8

(* Two numbers one after the other.                                        *)
LEMMA TwoNumbers ==
  ASSUME NEW s \in Seq({0, 1}), NEW t \in Seq({0, 1})
  PROVE  /\ s \o t \in Seq({0, 1}) /\ Len(s \o t) = Len(s) + Len(t)
         /\ \A k \in 1 .. Len(s) : (s \o t)[k] = s[k]
         /\ \A k \in 1 .. Len(t) : (s \o t)[Len(s) + k] = t[k]
  OBVIOUS

(* The code of a DC: its size, then its amplitude;                          *)
LEMMA DCCodeIs ==
  ASSUME NEW e \in Amplitudes
  PROVE  /\ DCCode(e) \in Seq({0, 1}) /\ Len(DCCode(e)) = SizeBits + Size(e)
         /\ \A k \in 1 .. SizeBits : DCCode(e)[k] = Bits(SizeBits, Size(e))[k]
         /\ \A k \in 1 .. Size(e) : DCCode(e)[SizeBits + k] = Bits(Size(e), Amplitude(e))[k]
<1>1. SizeBits \in Nat /\ Size(e) \in Nat /\ Amplitude(e) \in Nat
  <2>1. Size(e) \in 0 .. MaxSize /\ MaxSize \in Nat
    BY AmplitudeComesBack, Constants
  <2>2. Size(e) \in Nat
    BY <2>1
  <2>3. TwoTo(Size(e)) \in Nat
    BY <2>2, TwoToPositive
  <2> QED
    BY <2>2, <2>3, AmplitudeComesBack, Constants
<1> DEFINE s == Bits(SizeBits, Size(e))
           t == Bits(Size(e), Amplitude(e))
<1>2. s \in Seq({0, 1}) /\ Len(s) = SizeBits /\ t \in Seq({0, 1}) /\ Len(t) = Size(e)
  BY <1>1, BitsType
<1>3. DCCode(e) = s \o t
  BY DEF DCCode, VLI
<1> HIDE DEF s, t
<1>4. /\ DCCode(e) \in Seq({0, 1}) /\ Len(DCCode(e)) = SizeBits + Size(e)
      /\ \A k \in 1 .. SizeBits : DCCode(e)[k] = s[k]
      /\ \A k \in 1 .. Size(e) : DCCode(e)[SizeBits + k] = t[k]
  <2>1. /\ s \o t \in Seq({0, 1}) /\ Len(s \o t) = Len(s) + Len(t)
        /\ \A k \in 1 .. Len(s) : (s \o t)[k] = s[k]
        /\ \A k \in 1 .. Len(t) : (s \o t)[Len(s) + k] = t[k]
    BY <1>2, TwoNumbers
  <2> QED
    BY <1>2, <1>3, <2>1
<1> QED
  BY <1>4 DEF s, t

(* that of a run and a size;                                                *)
LEMMA RunCodeIs ==
  ASSUME NEW run \in Nat, NEW size \in Nat
  PROVE  LET code == Bits(RunBits, run) \o Bits(SizeBits, size)
         IN  /\ code \in Seq({0, 1}) /\ Len(code) = RunBits + SizeBits
             /\ \A k \in 1 .. RunBits : code[k] = Bits(RunBits, run)[k]
             /\ \A k \in 1 .. SizeBits : code[RunBits + k] = Bits(SizeBits, size)[k]
<1> DEFINE s == Bits(RunBits, run)
           t == Bits(SizeBits, size)
<1>1. s \in Seq({0, 1}) /\ Len(s) = RunBits /\ t \in Seq({0, 1}) /\ Len(t) = SizeBits
  BY Constants, BitsType
<1> HIDE DEF s, t
<1>2. LET code == s \o t
      IN  /\ code \in Seq({0, 1}) /\ Len(code) = RunBits + SizeBits
          /\ \A k \in 1 .. RunBits : code[k] = s[k]
          /\ \A k \in 1 .. SizeBits : code[RunBits + k] = t[k]
  BY <1>1, TwoNumbers
<1> QED
  BY <1>2 DEF s, t

(* and that of an AC: run, size and amplitude.                              *)
LEMMA ACCodeIs ==
  ASSUME NEW run \in Nat, NEW e \in Amplitudes
  PROVE  LET code == ACCode(run, e)
         IN  /\ code \in Seq({0, 1}) /\ Len(code) = RunBits + SizeBits + Size(e)
             /\ \A k \in 1 .. RunBits : code[k] = Bits(RunBits, run)[k]
             /\ \A k \in 1 .. SizeBits : code[RunBits + k] = Bits(SizeBits, Size(e))[k]
             /\ \A k \in 1 .. Size(e) :
                  code[(RunBits + SizeBits) + k] = Bits(Size(e), Amplitude(e))[k]
<1>1. Size(e) \in Nat /\ Amplitude(e) \in Nat
  <2>1. Size(e) \in 0 .. MaxSize /\ MaxSize \in Nat
    BY AmplitudeComesBack, Constants
  <2>2. Size(e) \in Nat
    BY <2>1
  <2>3. TwoTo(Size(e)) \in Nat
    BY <2>2, TwoToPositive
  <2> QED
    BY <2>2, <2>3, AmplitudeComesBack
<1> DEFINE s == Bits(RunBits, run) \o Bits(SizeBits, Size(e))
           t == Bits(Size(e), Amplitude(e))
<1>2. /\ s \in Seq({0, 1}) /\ Len(s) = RunBits + SizeBits
      /\ \A k \in 1 .. RunBits : s[k] = Bits(RunBits, run)[k]
      /\ \A k \in 1 .. SizeBits : s[RunBits + k] = Bits(SizeBits, Size(e))[k]
  BY <1>1, RunCodeIs
<1>3. t \in Seq({0, 1}) /\ Len(t) = Size(e)
  BY <1>1, BitsType
<1>4. ACCode(run, e) = s \o t
  <2> DEFINE u == Bits(RunBits, run)
             v == Bits(SizeBits, Size(e))
  <2>1. u \in Seq({0, 1}) /\ v \in Seq({0, 1})
    BY <1>1, BitsType, Constants
  <2>2. ACCode(run, e) = u \o v \o t /\ s = u \o v
    BY DEF ACCode, VLI
  <2> HIDE DEF u, v, s, t
  <2> QED
    BY <2>1, <2>2
<1> HIDE DEF s, t
<1>5. /\ s \o t \in Seq({0, 1}) /\ Len(s \o t) = RunBits + SizeBits + Size(e)
      /\ \A k \in 1 .. RunBits + SizeBits : (s \o t)[k] = s[k]
      /\ \A k \in 1 .. Size(e) : (s \o t)[(RunBits + SizeBits) + k] = t[k]
  <2>1. /\ s \o t \in Seq({0, 1}) /\ Len(s \o t) = Len(s) + Len(t)
        /\ \A k \in 1 .. Len(s) : (s \o t)[k] = s[k]
        /\ \A k \in 1 .. Len(t) : (s \o t)[Len(s) + k] = t[k]
    BY <1>2, <1>3, TwoNumbers
  <2> QED
    BY <1>2, <1>3, <2>1
<1>6. RunBits \in Nat /\ SizeBits \in Nat
  BY Constants
<1>7. /\ \A k \in 1 .. RunBits : k \in 1 .. RunBits + SizeBits
      /\ \A k \in 1 .. SizeBits : RunBits + k \in 1 .. RunBits + SizeBits
  BY <1>6
<1>8. /\ \A k \in 1 .. RunBits : (s \o t)[k] = Bits(RunBits, run)[k]
      /\ \A k \in 1 .. SizeBits : (s \o t)[RunBits + k] = Bits(SizeBits, Size(e))[k]
  BY <1>2, <1>5, <1>7
<1> QED
  BY <1>4, <1>5, <1>8 DEF t

(* The bits of zero are zeros.                                              *)
LEMMA ZeroBits ==
  ASSUME NEW n \in Nat, NEW k \in 1 .. n
  PROVE  Bits(n, 0)[k] = 0
<1>1. n - k \in Nat
  OBVIOUS
<1>2. TwoTo(n - k) \in Nat \ {0}
  BY <1>1, TwoToPositive
<1>3. 0 \div TwoTo(n - k) = 0
  <2>1. 0 * TwoTo(n - k) + 0 = 0 /\ 0 \in 0 .. TwoTo(n - k) - 1
    BY <1>2, Z3
  <2>2. (0 * TwoTo(n - k) + 0) \div TwoTo(n - k) = 0
    BY <1>2, <2>1, QuotientIs
  <2> QED
    BY <2>1, <2>2
<1>4. 0 % 2 = 0
  OBVIOUS
<1> QED
  BY <1>3, <1>4 DEF Bits

(* END is nothing but zeros, at least as many as can be pending behind it. *)
LEMMA ENDCodeIs ==
  /\ Len(ENDCode) = RunBits + SizeBits
  /\ \A k \in 1 .. RunBits + SizeBits : ENDCode[k] = 0
<1>1. /\ Len(ENDCode) = RunBits + SizeBits
      /\ \A k \in 1 .. RunBits : ENDCode[k] = Bits(RunBits, 0)[k]
      /\ \A k \in 1 .. SizeBits : ENDCode[RunBits + k] = Bits(SizeBits, 0)[k]
  BY RunCodeIs DEF ENDCode
<1>2. RunBits \in Nat /\ SizeBits \in Nat
  BY Constants
<1>3. ASSUME NEW k \in 1 .. RunBits + SizeBits PROVE ENDCode[k] = 0
  <2>1. CASE k <= RunBits
    BY <1>1, <1>2, <2>1, ZeroBits
  <2>2. CASE k > RunBits
    <3>1. k - RunBits \in 1 .. SizeBits /\ RunBits + (k - RunBits) = k
      BY <1>2, <2>2
    <3> QED
      BY <1>1, <1>2, <3>1, ZeroBits
  <2> QED
    BY <1>2, <2>1, <2>2
<1> QED
  BY <1>1, <1>3

-----------------------------------------------------------------------------
(* Where the bits go                                                       *)

(* output_bits() puts bits behind those that it has got, and moves whole   *)
(* bytes to the stream (lossless_encode.c:64-80).                          *)
LEMMA OutputBitsInv ==
  ASSUME CodeTypeOK, PendingInv, stage = "encode", stage' = "encode",
         NEW bits \in Seq({0, 1}), OutputBits(bits),
         Len(bits) <= RunBits + SizeBits + MaxSize
  PROVE  /\ bitcount' = bitcount + Len(bits)
         /\ bitbuffer' \in [1 .. Window -> {0, 1}] /\ stream' \in Seq({0, 1})
         /\ Len(stream') = (bitcount' \div ByteBits) * ByteBits
         /\ \A k \in 1 .. Window : k > bitcount' % ByteBits => bitbuffer'[k] = 0
         /\ \A n \in 1 .. bitcount : BitOut(n)' = BitOut(n)
         /\ \A k \in 1 .. Len(bits), n \in Nat : n = bitcount + k => BitOut(n)' = bits[k]
         /\ Len(bits) >= ByteBits - 1 /\ (\A k \in 1 .. Len(bits) : bits[k] = 0)
              => bitbuffer' = Empty
<1> DEFINE p == bitcount % ByteBits
           q == bitcount \div ByteBits
           L == Len(bits)
           d == (p + L) \div ByteBits
           r == (p + L) % ByteBits
           full == d * ByteBits
           filled == [k \in 1 .. Window |->
                        IF k \in p + 1 .. p + L THEN bits[k - p] ELSE bitbuffer[k]]
<1>1. /\ ByteBits \in Nat \ {0} /\ Window \in Nat /\ L \in Nat /\ bitcount \in Nat
      /\ RunBits \in Nat /\ SizeBits \in Nat /\ MaxSize \in Nat
  BY Constants DEF CodeTypeOK
<1>2. p \in 0 .. ByteBits - 1 /\ q \in Nat /\ bitcount = q * ByteBits + p
  BY <1>1, Divides
<1>3. p + L <= Window
  <2>1. MaxSize <= TwoTo(SizeBits) - 1 /\ TwoTo(SizeBits) \in Nat
    BY Constants
  <2>2. RunBits + SizeBits + TwoTo(SizeBits) - 1 <= Window - (ByteBits - 1)
    BY Constants
  <2> QED
    BY <1>1, <1>2, <2>1, <2>2
<1>4. Len(stream) = q * ByteBits /\ (\A k \in 1 .. Window : k > p => bitbuffer[k] = 0)
  BY DEF PendingInv
<1>5. /\ bitcount' = bitcount + L
      /\ stream' = stream \o SubSeq(filled, 1, full)
      /\ bitbuffer' = [k \in 1 .. Window |-> IF k + full <= Window THEN filled[k + full] ELSE 0]
  BY DEF OutputBits
<1> HIDE DEF p, q, L
<1>6. p + L \in Nat
  BY <1>1, <1>2
<1>7. d \in Nat /\ r \in 0 .. ByteBits - 1 /\ p + L = d * ByteBits + r
  BY <1>1, <1>6, Divides
<1> HIDE DEF d, r
<1>8. full \in Int /\ 0 <= full /\ q * ByteBits \in Int /\ 0 <= q * ByteBits
      /\ (q + d) * ByteBits = q * ByteBits + d * ByteBits
  <2>1. 0 * ByteBits = 0
    BY <1>1, Z3
  <2>2. 0 * ByteBits <= d * ByteBits /\ 0 * ByteBits <= q * ByteBits
    BY <1>1, <1>2, <1>7, Multiples
  <2>3. d * ByteBits \in Int /\ q * ByteBits \in Int
    BY <1>1, <1>2, <1>7, Multiples
  <2> QED
    BY <1>1, <1>2, <1>7, <2>1, <2>2, <2>3, Multiples
<1> DEFINE base == q * ByteBits
<1>9. /\ base \in Nat /\ full \in Nat /\ bitcount = base + p /\ Len(stream) = base
      /\ p + L = full + r
  BY <1>2, <1>4, <1>7, <1>8
<1>10. bitcount' = (q + d) * ByteBits + r
  BY <1>5, <1>8, <1>9, <1>1, <1>2, <1>7
<1>11. bitcount' \div ByteBits = q + d /\ bitcount' % ByteBits = r
  <2>1. q + d \in Nat
    BY <1>2, <1>7
  <2> QED
    BY <1>1, <1>7, <1>10, <2>1, QuotientIs
<1>12. (bitcount' \div ByteBits) * ByteBits = base + full
  BY <1>8, <1>11
<1> HIDE DEF base, full
<1>13. filled \in [1 .. Window -> {0, 1}]
  <2>1. ASSUME NEW k \in 1 .. Window
        PROVE  (IF k \in p + 1 .. p + L THEN bits[k - p] ELSE bitbuffer[k]) \in {0, 1}
    <3>1. CASE k \in p + 1 .. p + L
      <4>1. k - p \in 1 .. L
        BY <1>1, <1>2, <3>1
      <4> QED
        BY <3>1, <4>1 DEF L
    <3>2. CASE k \notin p + 1 .. p + L
      BY <3>2 DEF CodeTypeOK
    <3> QED
      BY <3>1, <3>2
  <2> QED
    BY <2>1
<1>14. \A k \in 1 .. Window : filled[k] = IF k \in p + 1 .. p + L THEN bits[k - p] ELSE bitbuffer[k]
  OBVIOUS
<1> HIDE DEF filled
<1>15. full <= Window /\ r \in Nat
  BY <1>1, <1>3, <1>7, <1>9
<1>16. /\ SubSeq(filled, 1, full) \in Seq({0, 1}) /\ Len(SubSeq(filled, 1, full)) = full
       /\ \A k \in 1 .. full : SubSeq(filled, 1, full)[k] = filled[k]
  <2>1. filled \in Seq({0, 1}) /\ Len(filled) = Window
    BY <1>1, <1>13
  <2> QED
    BY <1>1, <1>9, <1>15, <2>1
<1>17. /\ stream' \in Seq({0, 1}) /\ Len(stream') = base + full
       /\ \A k \in 1 .. base : stream'[k] = stream[k]
       /\ \A k \in 1 .. full : stream'[base + k] = filled[k]
  <2>1. stream \in Seq({0, 1})
    BY DEF CodeTypeOK
  <2> DEFINE t == SubSeq(filled, 1, full)
  <2>2. t \in Seq({0, 1}) /\ Len(t) = full /\ \A k \in 1 .. full : t[k] = filled[k]
    BY <1>16
  <2> HIDE DEF t
  <2>3. /\ stream \o t \in Seq({0, 1}) /\ Len(stream \o t) = Len(stream) + Len(t)
        /\ \A k \in 1 .. Len(stream) : (stream \o t)[k] = stream[k]
        /\ \A k \in 1 .. Len(t) : (stream \o t)[Len(stream) + k] = t[k]
    BY <2>1, <2>2, TwoNumbers
  <2>4. stream' = stream \o t
    BY <1>5 DEF t
  <2> QED
    BY <1>9, <2>2, <2>3, <2>4
<1>18. bitbuffer' \in [1 .. Window -> {0, 1}]
  <2>1. ASSUME NEW k \in 1 .. Window
        PROVE  (IF k + full <= Window THEN filled[k + full] ELSE 0) \in {0, 1}
    <3>1. k + full <= Window => k + full \in 1 .. Window
      BY <1>1, <1>9
    <3> QED
      BY <1>13, <3>1
  <2> QED
    BY <1>5, <2>1
(* Bit k behind those that were in the stream.                             *)
<1>19. ASSUME NEW k \in 1 .. p + L, NEW n, n = base + k
       PROVE  BitOut(n)' = filled[k]
  <2>2. CASE k <= full
    <3>1. k \in 1 .. full /\ n <= Len(stream') /\ ~(n > Len(stream'))
      BY <1>9, <1>17, <1>19, <2>2
    <3>2. stream'[n] = filled[k]
      BY <1>17, <1>19, <3>1
    <3> QED
      BY <3>1, <3>2 DEF BitOut, StreamBit
  <2>3. CASE k > full
    <3>1. n > Len(stream') /\ n - Len(stream') = k - full
      BY <1>9, <1>17, <1>19, <2>3
    <3>2. k - full \in 1 .. Window /\ (k - full) + full = k /\ k <= Window
      BY <1>1, <1>3, <1>6, <1>9, <2>3
    <3>3. bitbuffer'[k - full] = filled[k]
      BY <1>5, <3>2
    <3> QED
      BY <3>1, <3>3 DEF BitOut
  <2> QED
    BY <1>9, <2>2, <2>3
<1>20. ASSUME NEW n \in 1 .. bitcount
       PROVE  BitOut(n)' = BitOut(n)
  <2>1. CASE n <= base
    <3>1. n \in 1 .. base /\ n <= Len(stream') /\ n <= Len(stream)
      BY <1>9, <1>17, <2>1
    <3>2. ~(n > Len(stream')) /\ ~(n > Len(stream))
      BY <1>9, <1>17, <3>1
    <3> QED
      BY <1>17, <3>1, <3>2 DEF BitOut, StreamBit
  <2>2. CASE n > base
    <3> DEFINE k == n - base
    <3>1. /\ k \in 1 .. p /\ k \in 1 .. p + L /\ base + k = n /\ k \in 1 .. Window
          /\ n > Len(stream) /\ n - Len(stream) = k /\ k \notin p + 1 .. p + L
      BY <1>1, <1>2, <1>3, <1>9, <2>2
    <3> HIDE DEF k
    <3>2. BitOut(n)' = filled[k] /\ filled[k] = bitbuffer[k]
      BY <1>14, <1>19, <3>1
    <3>3. BitOut(n) = bitbuffer[k]
      BY <3>1 DEF BitOut
    <3> QED
      BY <3>1, <3>2, <3>3
  <2> QED
    BY <1>9, <2>1, <2>2
<1>21. ASSUME NEW k \in 1 .. L, NEW n \in Nat, n = bitcount + k
       PROVE  BitOut(n)' = bits[k]
  <2> DEFINE i == p + k
  <2>1. /\ i \in 1 .. p + L /\ i \in p + 1 .. p + L /\ i \in 1 .. Window
        /\ i - p = k /\ n = base + i
    BY <1>1, <1>2, <1>3, <1>9, <1>21
  <2> HIDE DEF i
  <2>2. BitOut(n)' = filled[i] /\ filled[i] = bits[k]
    BY <1>14, <1>19, <2>1
  <2> QED
    BY <2>1, <2>2
(* Behind the new pending bits there are none.                             *)
<1>22. ASSUME NEW k \in 1 .. Window, k > r
       PROVE  bitbuffer'[k] = 0
  <2>1. CASE k + full <= Window
    <3>1. /\ k + full \in 1 .. Window /\ k + full \notin p + 1 .. p + L /\ k + full > p
      BY <1>1, <1>2, <1>9, <1>15, <2>1, <1>22
    <3> QED
      BY <1>4, <1>5, <1>14, <2>1, <3>1
  <2>2. CASE ~(k + full <= Window)
    BY <1>5, <2>2
  <2> QED
    BY <2>1, <2>2
<1>23. ASSUME L >= ByteBits - 1, \A k \in 1 .. L : bits[k] = 0
       PROVE  bitbuffer' = Empty
  <2>1. full >= p
    <3>1. CASE d = 0
      <4>1. full = 0
        BY <1>1, <3>1, Z3 DEF full
      <4>2. p + L <= ByteBits - 1
        BY <1>1, <1>2, <1>7, <1>9, <4>1
      <4> QED
        BY <1>1, <1>2, <1>23, <4>1, <4>2
    <3>2. CASE d # 0
      <4>1. 1 <= d /\ 1 * ByteBits = ByteBits
        BY <1>1, <1>7, <3>2, Z3
      <4>2. 1 * ByteBits <= d * ByteBits
        BY <1>1, <1>7, <4>1, Multiples
      <4> QED
        BY <1>1, <1>2, <1>9, <4>1, <4>2 DEF full
    <3> QED
      BY <3>1, <3>2
  <2>2. ASSUME NEW k \in 1 .. Window
        PROVE  bitbuffer'[k] = 0
    <3>1. CASE k > r
      BY <1>22, <3>1
    <3>2. CASE ~(k > r)
      <4>1. /\ k + full \in 1 .. Window /\ k + full \in p + 1 .. p + L /\ k + full <= Window
            /\ (k + full) - p \in 1 .. L
        BY <1>1, <1>2, <1>3, <1>9, <1>15, <2>1, <3>2
      <4> QED
        BY <1>5, <1>14, <1>23, <4>1
    <3> QED
      BY <3>1, <3>2
  <2> QED
    BY <1>18, <2>2 DEF Empty
<1> QED
  BY <1>5, <1>11, <1>12, <1>17, <1>18, <1>20, <1>21, <1>22, <1>23 DEF L

(* update_buffer(): the window moves on by `size' bits and shows those of  *)
(* the stream again (lossless_decode.c:139-162).                           *)
LEMMA UpdateBufferInv ==
  ASSUME CodeTypeOK, NEW size \in Nat, UpdateBuffer(size), UNCHANGED <<stream, junk>>,
         \A k \in 1 .. Window - (shifted + size) :
           window[k + size] = StreamBit(Consumed + size + k)
  PROVE  /\ taken' \in Nat /\ shifted' \in 0 .. ByteBits - 1
         /\ window' \in [1 .. Window -> {0, 1}]
         /\ Consumed' = Consumed + size
         /\ \A k \in 1 .. Window :
              window'[k] = IF k <= Window - shifted' THEN StreamBit(Consumed + size + k) ELSE 0
<1> DEFINE free == shifted + size
           d == free \div ByteBits
           room == free - d * ByteBits
<1>1. /\ ByteBits \in Nat \ {0} /\ Window \in Nat /\ taken \in Nat
      /\ shifted \in 0 .. ByteBits - 1 /\ free \in Nat /\ free = shifted + size
  BY Constants DEF CodeTypeOK
<1>2. /\ window' = [k \in 1 .. Window |->
                      IF k <= Window - free THEN window[k + size]
                      ELSE IF k <= Window - room
                      THEN StreamBit(taken * ByteBits + k - (Window - free))
                      ELSE 0]
      /\ shifted' = room
      /\ taken' = taken + d
  BY DEF UpdateBuffer, BytesIn
<1> HIDE DEF free
<1>3. d \in Nat /\ free % ByteBits \in 0 .. ByteBits - 1
      /\ free = d * ByteBits + (free % ByteBits)
  BY <1>1, Divides
<1> HIDE DEF d
<1> DEFINE bytes == d * ByteBits
           begun == taken * ByteBits
<1>4. /\ bytes \in Int /\ begun \in Int /\ (taken + d) * ByteBits = begun + bytes
  BY <1>1, <1>3, Multiples
<1>5. 0 <= begun
  <2>1. 0 * ByteBits <= taken * ByteBits
    BY <1>1, Multiples
  <2>2. 0 * ByteBits = 0
    BY <1>1, Z3
  <2> QED
    BY <2>1, <2>2
<1>6. room = free - bytes /\ Consumed = begun - (Window - shifted)
  BY DEF Consumed
<1>7. Consumed' = (begun + bytes) - (Window - room)
  BY <1>2, <1>4 DEF Consumed
<1>8. \A k \in 1 .. Window :
        window'[k] = IF k <= Window - free THEN window[k + size]
                     ELSE IF k <= Window - room THEN StreamBit(begun + k - (Window - free))
                     ELSE 0
  BY <1>2
<1>9. free = bytes + (free % ByteBits)
  BY <1>3
<1> HIDE DEF bytes, begun, room
<1>10. room = free % ByteBits /\ room \in 0 .. ByteBits - 1
  BY <1>1, <1>3, <1>4, <1>6, <1>9
<1>11. Consumed' = Consumed + size
  BY <1>1, <1>4, <1>6, <1>7, <1>10
<1>12. \A m \in Nat \ {0} : StreamBit(m) \in {0, 1}
  BY DEF StreamBit, CodeTypeOK
<1>13. ASSUME NEW k \in 1 .. Window
       PROVE  /\ window'[k] = IF k <= Window - shifted' THEN StreamBit(Consumed + size + k) ELSE 0
              /\ window'[k] \in {0, 1}
  <2>1. CASE k <= Window - free
    <3>1. k \in 1 .. Window - (shifted + size) /\ k + size \in 1 .. Window
      BY <1>1, <2>1
    <3>2. window'[k] = window[k + size] /\ window[k + size] = StreamBit(Consumed + size + k)
      BY <1>8, <2>1, <3>1
    <3>3. k <= Window - room
      <4>1. room <= free
        <5>1. 0 <= bytes
          <6>1. 0 * ByteBits <= d * ByteBits /\ 0 * ByteBits = 0
            BY <1>1, <1>3, Multiples, Z3
          <6> QED
            BY <6>1 DEF bytes
        <5> QED
          BY <1>1, <1>4, <1>6, <5>1
      <4> QED
        BY <1>1, <1>10, <2>1, <4>1
    <3>4. window[k + size] \in {0, 1}
      BY <3>1 DEF CodeTypeOK
    <3> QED
      BY <1>2, <3>2, <3>3, <3>4
  <2>2. CASE ~(k <= Window - free) /\ k <= Window - room
    <3> DEFINE m == begun + k - (Window - free)
    <3>1. m = Consumed + size + k /\ m \in Nat \ {0}
      BY <1>1, <1>4, <1>5, <1>6, <1>10, <2>2
    <3>2. window'[k] = StreamBit(m)
      BY <1>8, <2>2
    <3> HIDE DEF m
    <3> QED
      BY <1>2, <1>12, <2>2, <3>1, <3>2
  <2>3. CASE ~(k <= Window - room) /\ ~(k <= Window - free)
    BY <1>2, <1>8, <2>3
  <2>4. CASE ~(k <= Window - room) /\ k <= Window - free
    <3>1. 0 <= bytes
      <4>1. 0 * ByteBits <= d * ByteBits /\ 0 * ByteBits = 0
        BY <1>1, <1>3, Multiples, Z3
      <4> QED
        BY <4>1 DEF bytes
    <3> QED
      BY <1>1, <1>4, <1>6, <1>10, <2>4, <3>1
  <2> QED
    BY <2>1, <2>2, <2>3, <2>4
<1>14. window' \in [1 .. Window -> {0, 1}]
  BY <1>2, <1>13
<1>15. taken' \in Nat /\ shifted' \in 0 .. ByteBits - 1
  BY <1>1, <1>2, <1>3, <1>10
<1> QED
  BY <1>11, <1>13, <1>14, <1>15

-----------------------------------------------------------------------------
(* The encoder                                                             *)

(* What a symbol is does not change with the encoding.                      *)
LEMMA SameSymbol ==
  ASSUME blocks' = blocks, NEW p, NEW q, NEW code
  PROVE  Symbol(p, q, code)' = Symbol(p, q, code)
  BY DEF Symbol, Zeros

(* A symbol more, and the trace is one longer.                             *)
LEMMA TraceGrows ==
  ASSUME CodeTypeOK, stage = "encode", stage' = "encode", blocks' = blocks,
         NEW pos, Trace(pos), at # End,
         NEW code \in Seq({0, 1}), Len(code) > 0,
         NEW to, at' = to, to \in Positions, Symbol(at, to, code),
         bitcount' = bitcount + Len(code),
         \A n \in 1 .. bitcount : BitOut(n)' = BitOut(n),
         \A k \in 1 .. Len(code), n \in Nat : n = bitcount + k => BitOut(n)' = code[k]
  PROVE  \E p : Trace(p)'
<1>1. PICK end : end = bitcount + Len(code)
  OBVIOUS
<1>2. end \in Nat /\ bitcount \in Nat /\ bitcount < end /\ bitcount' = end /\ Len(code) \in Nat
  BY <1>1 DEF CodeTypeOK
<1>3. PICK p : p = [n \in DOMAIN pos \cup {end} |-> IF n = end THEN to ELSE pos[n]]
  OBVIOUS
<1>4. /\ DOMAIN pos \subseteq 0 .. bitcount
      /\ \A n \in DOMAIN pos : pos[n] \in Positions
      /\ 0 \in DOMAIN pos /\ pos[0] = <<1, 0>>
      /\ bitcount \in DOMAIN pos /\ pos[bitcount] = at
  BY DEF Trace
<1>5. /\ DOMAIN p = DOMAIN pos \cup {end} /\ p[end] = to
      /\ \A n \in DOMAIN pos : n \in Nat /\ n <= bitcount /\ n # end /\ p[n] = pos[n]
  BY <1>2, <1>3, <1>4
<1>6. End' = End /\ Positions' = Positions
  BY DEF End, Positions
<1>7. /\ DOMAIN p \subseteq 0 .. end
      /\ \A n \in DOMAIN p : p[n] \in Positions
      /\ 0 \in DOMAIN p /\ p[0] = <<1, 0>>
      /\ end \in DOMAIN p /\ p[end] = at'
  <2>1. \A n \in DOMAIN p : n \in 0 .. end
    BY <1>2, <1>5
  <2> QED
    BY <1>4, <1>5, <2>1
<1>8. ASSUME NEW n \in DOMAIN p, n < end
      PROVE  \E m \in DOMAIN p :
               /\ n < m /\ p[n] # End
               /\ Symbol(p[n], p[m], [k \in 1 .. m - n |-> BitOut(n + k)'])
  <2>1. n \in DOMAIN pos /\ p[n] = pos[n] /\ n \in Nat /\ n <= bitcount
    BY <1>5, <1>8, <1>2
  <2>2. CASE n < bitcount
    <3>1. PICK m \in DOMAIN pos :
            /\ n < m /\ pos[n] # End
            /\ Symbol(pos[n], pos[m], [k \in 1 .. m - n |-> BitOut(n + k)])
      BY <2>1, <2>2 DEF Trace
    <3>2. m \in Nat /\ m <= bitcount /\ m \in DOMAIN p /\ p[m] = pos[m]
      BY <1>5
    <3>3. ASSUME NEW k \in 1 .. m - n PROVE BitOut(n + k)' = BitOut(n + k)
      <4>1. n + k \in 1 .. bitcount
        BY <1>2, <2>1, <3>2
      <4> QED
        BY <4>1
    <3>4. [k \in 1 .. m - n |-> BitOut(n + k)'] = [k \in 1 .. m - n |-> BitOut(n + k)]
      BY <3>3
    <3> QED
      BY <2>1, <3>1, <3>2, <3>4
  <2>3. CASE n = bitcount
    <3>1. end - n = Len(code) /\ n < end /\ end \in DOMAIN p
      BY <1>1, <1>2, <1>5, <2>3
    <3>2. ASSUME NEW k \in 1 .. Len(code) PROVE BitOut(n + k)' = code[k]
      <4>1. n + k \in Nat /\ n + k = bitcount + k
        BY <1>2, <2>3
      <4> QED
        BY <4>1
    <3>3. [k \in 1 .. Len(code) |-> code[k]] = code
      OBVIOUS
    <3>4. [k \in 1 .. end - n |-> BitOut(n + k)'] = code
      BY <3>1, <3>2, <3>3
    <3>5. p[n] = at /\ p[end] = to
      BY <1>4, <1>5, <2>1, <2>3
    <3> QED
      BY <3>1, <3>4, <3>5
  <2>4. n < bitcount \/ n = bitcount
    BY <1>2, <2>1
  <2> QED
    BY <2>2, <2>3, <2>4
<1>9. ASSUME NEW n \in DOMAIN p, n < end
      PROVE  \E m \in DOMAIN p :
               /\ n < m /\ p[n] # End'
               /\ Symbol(p[n], p[m], [k \in 1 .. m - n |-> BitOut(n + k)])'
  <2>1. PICK m \in DOMAIN p :
          /\ n < m /\ p[n] # End
          /\ Symbol(p[n], p[m], [k \in 1 .. m - n |-> BitOut(n + k)'])
    BY <1>8, <1>9
  <2>2. PICK f : f = [k \in 1 .. m - n |-> BitOut(n + k)']
    OBVIOUS
  <2>3. Symbol(p[n], p[m], f)'
    BY <2>1, <2>2, SameSymbol
  <2>4. Symbol(p[n], p[m], [k \in 1 .. m - n |-> BitOut(n + k)])'
    BY <2>2, <2>3 DEF Symbol
  <2> QED
    BY <1>6, <2>1, <2>4
<1> QED
  BY <1>2, <1>6, <1>7, <1>9 DEF Trace

(* All that is ever coded is an amplitude.                                  *)
LEMMA BlockValues ==
  ASSUME CodeTypeOK
  PROVE  /\ Len(blocks) \in Nat /\ DOMAIN blocks = 1 .. Len(blocks)
         /\ \A b \in 1 .. Len(blocks), k \in 0 .. Last : blocks[b][k] \in Amplitudes
<1>1. Inputs \subseteq Seq([0 .. Last -> Amplitudes])
  BY LosslessAssumption DEF Amplitudes
<1> DEFINE B == [0 .. Last -> Amplitudes]
<1>2. blocks \in Seq(B)
  BY <1>1 DEF CodeTypeOK
<1> HIDE DEF B
<1>3. Len(blocks) \in Nat /\ DOMAIN blocks = 1 .. Len(blocks)
  BY <1>2
<1>4. \A b \in 1 .. Len(blocks) : blocks[b] \in B
  BY <1>2
<1> QED
  BY <1>3, <1>4 DEF B

(* A position is in a block, or the end.                                    *)
LEMMA Inside ==
  ASSUME CodeTypeOK, NEW p \in Positions
  PROVE  /\ p[1] <= Len(blocks) <=> p # End
         /\ p # End => /\ p[1] \in 1 .. Len(blocks) /\ p[2] \in 0 .. Last
                       /\ p = <<p[1], p[2]>>
  BY BlockValues DEF Positions, End

(* The invariant, for every step that writes a symbol.                      *)
LEMMA EncodeStep ==
  ASSUME CodeIInv, stage = "encode", stage' = "encode", at # End,
         UNCHANGED <<blocks, junk, decoderVars>>,
         NEW code \in Seq({0, 1}), OutputBits(code),
         Len(code) \in 1 .. RunBits + SizeBits + MaxSize,
         NEW to, at' = to, to \in Positions, Symbol(at, to, code),
         to = End => code = ENDCode \/ blocks[Len(blocks)][Last] # 0
  PROVE  CodeIInv'
<1>1. CodeTypeOK /\ PendingInv /\ WindowShowsStream
  BY DEF CodeIInv
<1>2. Len(code) \in Nat /\ Len(code) > 0 /\ Len(code) <= RunBits + SizeBits + MaxSize
  BY Constants
<1>3. /\ bitcount' = bitcount + Len(code)
      /\ bitbuffer' \in [1 .. Window -> {0, 1}] /\ stream' \in Seq({0, 1})
      /\ Len(stream') = (bitcount' \div ByteBits) * ByteBits
      /\ \A k \in 1 .. Window : k > bitcount' % ByteBits => bitbuffer'[k] = 0
      /\ \A n \in 1 .. bitcount : BitOut(n)' = BitOut(n)
      /\ \A k \in 1 .. Len(code), n \in Nat : n = bitcount + k => BitOut(n)' = code[k]
      /\ Len(code) >= ByteBits - 1 /\ (\A k \in 1 .. Len(code) : code[k] = 0)
           => bitbuffer' = Empty
  BY <1>1, <1>2, OutputBitsInv
<1>4. PICK pos : Trace(pos) /\ DecoderInv(pos)
  BY DEF CodeIInv
<1>5. PICK p : Trace(p)'
  BY <1>1, <1>2, <1>3, <1>4, TraceGrows
<1>6. DecoderInv(p)'
  BY <1>4 DEF DecoderInv, DecodedUpTo, decoderVars
<1>7. bitcount' \in Nat
  BY <1>1, <1>2, <1>3 DEF CodeTypeOK
<1>8. CodeTypeOK'
  BY <1>1, <1>3, <1>7 DEF CodeTypeOK, decoderVars
<1>9. ASSUME to[1] > Len(blocks), NothingLost'
      PROVE  bitbuffer' = Empty
  <2>1. to = End
    BY <1>1, <1>9, BlockValues DEF Positions, End
  <2>2. CASE bitcount' % ByteBits = 0
    <3>1. \A k \in 1 .. Window : bitbuffer'[k] = 0
      BY <1>3, <2>2
    <3> QED
      BY <1>3, <3>1 DEF Empty
  <2>3. CASE blocks[Len(blocks)][Last] = 0
    <3>1. code = ENDCode
      BY <2>1, <2>3
    <3>2. Len(code) >= ByteBits - 1 /\ \A k \in 1 .. Len(code) : code[k] = 0
      BY <3>1, ENDCodeIs, Constants
    <3> QED
      BY <1>3, <3>2
  <2> QED
    BY <1>9, <2>2, <2>3 DEF NothingLost
<1>10. PendingInv'
  <2>1. shifted' = 0 /\ taken' = 0
    BY <1>1 DEF PendingInv, decoderVars
  <2> QED
    BY <1>3, <1>9, <2>1 DEF PendingInv
<1>11. WindowShowsStream'
  BY DEF WindowShowsStream
<1> QED
  BY <1>5, <1>6, <1>8, <1>10, <1>11 DEF CodeIInv

(* Where the encoder is.                                                   *)
LEMMA EncoderInside ==
  ASSUME CodeIInv, Encoding
  PROVE  /\ stage = "encode" /\ at # End /\ at \in Positions
         /\ at[1] \in 1 .. Len(blocks) /\ at[2] \in 0 .. Last /\ at = <<at[1], at[2]>>
         /\ block = blocks[at[1]] /\ \A k \in 0 .. Last : block[k] \in Amplitudes
<1>1. CodeTypeOK /\ stage = "encode" /\ at[1] <= Len(blocks)
  BY DEF CodeIInv, Encoding
<1>2. PICK pos : Trace(pos)
  BY <1>1 DEF CodeIInv
<1>3. at \in Positions
  BY <1>1, <1>2 DEF Trace
<1> QED
  BY <1>1, <1>3, Inside, BlockValues DEF block

(* The actions of the encoder: each writes the symbol that belongs to the   *)
(* coefficients at its place.                                               *)
LEMMA EncodeDCInv ==
  ASSUME CodeIInv, EncodeDC
  PROVE  CodeIInv'
<1>1. /\ Encoding /\ at[2] = 0 /\ OutputBits(DCCode(block[0])) /\ at' = <<at[1], 1>>
      /\ stage' = stage /\ UNCHANGED <<blocks, junk, decoderVars>>
  BY DEF EncodeDC
<1>2. /\ stage = "encode" /\ at # End /\ at[1] \in 1 .. Len(blocks)
      /\ block = blocks[at[1]]
      /\ \A k \in 0 .. Last : block[k] \in Amplitudes
  BY <1>1, EncoderInside
<1>3. Last \in Nat \ {0} /\ SizeBits \in Nat \ {0} /\ MaxSize \in Nat /\ RunBits \in Nat
  BY Constants
<1>4. block[0] \in Amplitudes
  BY <1>2, <1>3
<1> DEFINE code == DCCode(block[0])
<1>5. code \in Seq({0, 1}) /\ Len(code) = SizeBits + Size(block[0])
  BY <1>4, DCCodeIs
<1>6. Size(block[0]) \in 0 .. MaxSize
  BY <1>4, AmplitudeComesBack
<1>7. Symbol(at, <<at[1], 1>>, code)
  BY <1>1, <1>2 DEF Symbol
<1> HIDE DEF code
<1>8. Len(code) \in 1 .. RunBits + SizeBits + MaxSize
  BY <1>3, <1>5, <1>6
<1>9. PICK to : to = <<at[1], 1>>
  OBVIOUS
<1>10. to \in Positions /\ to # End
  BY <1>2, <1>3, <1>9 DEF Positions, End
<1>11. OutputBits(code)
  BY <1>1 DEF code
<1> QED
  BY <1>1, <1>2, <1>5, <1>7, <1>8, <1>9, <1>10, <1>11, EncodeStep

(* The last nonzero coefficient, and the next one.                         *)
LEMMA LastIndexIs ==
  ASSUME NonZero # {}
  PROVE  LastIndex \in NonZero /\ \A j \in NonZero : j <= LastIndex
<1>1. NonZero \subseteq 1 .. Last /\ Last \in Nat
  BY Constants DEF NonZero
<1> DEFINE T == {Last - k : k \in NonZero}
<1>2. T \subseteq Nat /\ T # {}
  <2>1. \A k \in NonZero : Last - k \in Nat
    BY <1>1
  <2>2. PICK k \in NonZero : TRUE
    OBVIOUS
  <2>3. Last - k \in T
    BY <2>2
  <2> QED
    BY <2>1, <2>3
<1>3. PICK m \in T : \A y \in T : m <= y
  <2> HIDE DEF T
  <2> QED
    BY <1>2, LeastElement
<1>4. PICK k \in NonZero : m = Last - k
  OBVIOUS
<1>5. ASSUME NEW j \in NonZero PROVE j <= k
  <2>1. Last - k <= Last - j
    BY <1>3, <1>4
  <2>2. j \in Int /\ k \in Int
    BY <1>1
  <2> QED
    BY <1>1, <2>1, <2>2
<1>6. \E i \in NonZero : \A j \in NonZero : j <= i
  BY <1>5
<1> QED
  BY <1>6 DEF LastIndex

(* The next one that is not zero.                                           *)
LEMMA NextNonZeroIs ==
  ASSUME CodeIInv, Encoding, at[2] \in 1 .. LastIndex
  PROVE  /\ NextNonZero \in at[2] .. Last /\ block[NextNonZero] # 0
         /\ Zeros(at[1], at[2], NextNonZero - 1)
<1>1. at[2] \in 0 .. Last /\ block = blocks[at[1]]
  BY EncoderInside
<1>2. NonZero \subseteq 1 .. Last /\ Last \in Nat
  BY Constants DEF NonZero
<1>3. NonZero # {}
  BY <1>1, <1>2 DEF LastIndex
<1>4. LastIndex \in NonZero /\ at[2] <= LastIndex
  BY <1>1, <1>2, <1>3, LastIndexIs
<1> DEFINE T == {k \in NonZero : k >= at[2]}
<1>5. T # {} /\ T \subseteq Nat
  <2>1. LastIndex \in Int /\ at[2] \in Int
    BY <1>1, <1>2, <1>4
  <2>2. LastIndex \in T
    BY <1>4, <2>1
  <2>3. T \subseteq NonZero
    OBVIOUS
  <2> HIDE DEF T
  <2> QED
    BY <1>2, <2>2, <2>3
<1>6. PICK k \in T : \A j \in T : k <= j
  <2> HIDE DEF T
  <2> QED
    BY <1>5, LeastElement
<1>7. \E i \in NonZero : i >= at[2] /\ \A j \in NonZero : j >= at[2] => i <= j
  BY <1>6
<1>8. /\ NextNonZero \in NonZero /\ NextNonZero >= at[2]
      /\ \A j \in NonZero : j >= at[2] => NextNonZero <= j
  BY <1>7 DEF NextNonZero
<1>9. NextNonZero \in at[2] .. Last /\ block[NextNonZero] # 0
  BY <1>1, <1>2, <1>8 DEF NonZero
<1>10. ASSUME NEW j \in at[2] .. NextNonZero - 1 PROVE blocks[at[1]][j] = 0
  <2>1. j \in 1 .. Last /\ j >= at[2] /\ ~(NextNonZero <= j)
    BY <1>1, <1>2, <1>9
  <2>2. j \notin NonZero
    BY <1>8, <2>1
  <2> QED
    BY <1>1, <2>1, <2>2 DEF NonZero
<1> QED
  BY <1>9, <1>10 DEF Zeros

(* Sixteen zeros, or more of them.                                          *)
LEMMA EncodeZRLInv ==
  ASSUME CodeIInv, EncodeZRL
  PROVE  CodeIInv'
<1>1. /\ Encoding /\ at[2] \in 1 .. LastIndex /\ NextNonZero - at[2] > MaxRun
      /\ OutputBits(ZRLCode) /\ at' = <<at[1], at[2] + MaxRun + 1>>
      /\ stage' = stage /\ UNCHANGED <<blocks, junk, decoderVars>>
  BY DEF EncodeZRL, LongRun
<1>2. /\ stage = "encode" /\ at # End /\ at[1] \in 1 .. Len(blocks) /\ at[2] \in 0 .. Last
      /\ block = blocks[at[1]]
  BY <1>1, EncoderInside
<1>3. /\ Last \in Nat \ {0} /\ SizeBits \in Nat \ {0} /\ MaxSize \in Nat /\ RunBits \in Nat
      /\ MaxRun \in Nat
  BY Constants
<1>4. /\ NextNonZero \in at[2] .. Last /\ block[NextNonZero] # 0
      /\ Zeros(at[1], at[2], NextNonZero - 1)
  BY <1>1, NextNonZeroIs
<1>5. ZRLCode \in Seq({0, 1}) /\ Len(ZRLCode) = RunBits + SizeBits
  BY <1>3, RunCodeIs DEF ZRLCode
<1>6. Len(ZRLCode) \in 1 .. RunBits + SizeBits + MaxSize
  BY <1>3, <1>5
<1>7. PICK to : to = <<at[1], at[2] + MaxRun + 1>>
  OBVIOUS
<1>8. Symbol(at, to, ZRLCode)
  <2> DEFINE k == NextNonZero
  <2>1. at[2] > 0
    BY <1>1, <1>2, <1>3
  <2>2. k \in at[2] .. Last /\ k - at[2] > MaxRun /\ Zeros(at[1], at[2], k - 1)
        /\ blocks[at[1]][k] # 0
    BY <1>1, <1>2, <1>4
  <2> HIDE DEF k
  <2> QED
    BY <1>7, <2>1, <2>2 DEF Symbol
<1>9. to \in Positions /\ to # End
  <2>1. at[2] + MaxRun + 1 \in 0 .. Last /\ at[2] + MaxRun + 1 # 0
    BY <1>1, <1>2, <1>3, <1>4
  <2> QED
    BY <1>2, <1>7, <2>1 DEF Positions, End
<1> QED
  BY <1>1, <1>2, <1>5, <1>6, <1>7, <1>8, <1>9, EncodeStep

(* The next coefficient, and the zeros before it.                           *)
LEMMA EncodeACInv ==
  ASSUME CodeIInv, EncodeAC
  PROVE  CodeIInv'
<1> DEFINE k == NextNonZero
           run == k - at[2]
           e == block[k]
           code == ACCode(run, e)
<1>1. /\ Encoding /\ at[2] \in 1 .. LastIndex /\ ~(run > MaxRun)
      /\ OutputBits(code)
      /\ at' = IF k = Last THEN <<at[1] + 1, 0>> ELSE <<at[1], k + 1>>
      /\ stage' = stage /\ UNCHANGED <<blocks, junk, decoderVars>>
  BY DEF EncodeAC, LongRun, NextBlock
<1>2. /\ stage = "encode" /\ at # End /\ at[1] \in 1 .. Len(blocks) /\ at[2] \in 0 .. Last
      /\ block = blocks[at[1]] /\ \A j \in 0 .. Last : block[j] \in Amplitudes
  BY <1>1, EncoderInside
<1>3. /\ Last \in Nat \ {0} /\ SizeBits \in Nat \ {0} /\ MaxSize \in Nat /\ RunBits \in Nat
      /\ MaxRun \in Nat
  BY Constants
<1>4. k \in at[2] .. Last /\ e # 0 /\ Zeros(at[1], at[2], k - 1)
  BY <1>1, NextNonZeroIs
<1> HIDE DEF k
<1>5. run \in Nat /\ run <= MaxRun /\ k \in 0 .. Last /\ e \in Amplitudes
  BY <1>1, <1>2, <1>3, <1>4
<1>6. code \in Seq({0, 1}) /\ Len(code) = RunBits + SizeBits + Size(e)
  BY <1>5, ACCodeIs
<1>7. Size(e) \in 0 .. MaxSize
  BY <1>5, AmplitudeComesBack
<1>8. Len(code) \in 1 .. RunBits + SizeBits + MaxSize
  <2> HIDE DEF code, e
  <2> QED
    BY <1>3, <1>6, <1>7
<1>9. PICK to : to = IF k = Last THEN <<at[1] + 1, 0>> ELSE <<at[1], k + 1>>
  OBVIOUS
<1>10. Symbol(at, to, code)
  <2>1. /\ at[2] > 0 /\ k \in at[2] .. Last
        /\ Zeros(at[1], at[2], k - 1) /\ blocks[at[1]][k] # 0 /\ k - at[2] <= MaxRun
        /\ code = ACCode(k - at[2], blocks[at[1]][k])
    BY <1>1, <1>2, <1>4, <1>5
  <2> HIDE DEF code
  <2> QED
    BY <1>9, <2>1 DEF Symbol
<1>11. to \in Positions /\ (to = End => k = Last /\ at[1] = Len(blocks))
  <2>1. Len(blocks) \in Nat
    BY BlockValues DEF CodeIInv
  <2>2. CASE k = Last
    <3>1. at[1] = Len(blocks) \/ at[1] + 1 \in 1 .. Len(blocks)
      BY <1>2, <2>1
    <3> QED
      BY <1>2, <1>3, <1>9, <2>1, <2>2, <3>1 DEF Positions, End
  <2>3. CASE k # Last
    <3>1. k + 1 \in 0 .. Last /\ k + 1 # 0
      BY <1>3, <1>5, <2>3
    <3> QED
      BY <1>2, <1>9, <2>3, <3>1 DEF Positions, End
  <2> QED
    BY <2>2, <2>3
<1>12. to = End => blocks[Len(blocks)][Last] # 0
  BY <1>2, <1>4, <1>11
<1> HIDE DEF code
<1> QED
  BY <1>1, <1>2, <1>6, <1>8, <1>9, <1>10, <1>11, <1>12, EncodeStep

(* END, when there are only zeros left.                                     *)
LEMMA EncodeENDInv ==
  ASSUME CodeIInv, EncodeEND
  PROVE  CodeIInv'
<1>1. /\ Encoding /\ at[2] > LastIndex /\ at[2] > 0
      /\ OutputBits(ENDCode) /\ at' = <<at[1] + 1, 0>>
      /\ stage' = stage /\ UNCHANGED <<blocks, junk, decoderVars>>
  BY DEF EncodeEND, NextBlock
<1>2. /\ stage = "encode" /\ at # End /\ at[1] \in 1 .. Len(blocks) /\ at[2] \in 0 .. Last
      /\ block = blocks[at[1]]
  BY <1>1, EncoderInside
<1>3. /\ Last \in Nat \ {0} /\ SizeBits \in Nat \ {0} /\ MaxSize \in Nat /\ RunBits \in Nat
  BY Constants
<1>4. Zeros(at[1], at[2], Last)
  <2>1. ASSUME NEW j \in at[2] .. Last PROVE blocks[at[1]][j] = 0
    <3>1. j \in 1 .. Last /\ j > LastIndex
      <4>1. LastIndex \in Int
        <5>1. NonZero # {} => LastIndex \in NonZero
          BY LastIndexIs
        <5> QED
          BY <1>3, <5>1 DEF LastIndex, NonZero
      <4> QED
        BY <1>1, <1>2, <1>3, <4>1
    <3>2. j \notin NonZero
      <4>1. j \in NonZero => j <= LastIndex
        BY LastIndexIs
      <4>2. LastIndex \in Int
        <5>1. NonZero # {} => LastIndex \in NonZero
          BY LastIndexIs
        <5> QED
          BY <1>3, <5>1 DEF LastIndex, NonZero
      <4> QED
        BY <3>1, <4>1, <4>2
    <3> QED
      BY <1>2, <3>1, <3>2 DEF NonZero
  <2> QED
    BY <2>1 DEF Zeros
<1>5. ENDCode \in Seq({0, 1}) /\ Len(ENDCode) = RunBits + SizeBits
  BY <1>3, RunCodeIs DEF ENDCode
<1>6. Len(ENDCode) \in 1 .. RunBits + SizeBits + MaxSize
  BY <1>3, <1>5
<1>7. PICK to : to = <<at[1] + 1, 0>>
  OBVIOUS
<1>8. Symbol(at, to, ENDCode)
  BY <1>1, <1>4, <1>7 DEF Symbol
<1>9. to \in Positions
  <2>1. Len(blocks) \in Nat
    BY BlockValues DEF CodeIInv
  <2>2. at[1] = Len(blocks) \/ at[1] + 1 \in 1 .. Len(blocks)
    BY <1>2, <2>1
  <2> QED
    BY <1>3, <1>7, <2>2 DEF Positions, End
<1> QED
  BY <1>1, <1>2, <1>5, <1>6, <1>7, <1>8, <1>9, EncodeStep

-----------------------------------------------------------------------------
(* From the encoder to the decoder                                         *)

(* At first nothing is written, and the trace is a point.                   *)
LEMMA CodeInitInv ==
  ASSUME CodeInit
  PROVE  CodeIInv
<1>1. /\ blocks \in Inputs /\ stage = "encode" /\ at = <<1, 0>> /\ bitcount = 0
      /\ bitbuffer = Empty /\ stream = <<>> /\ junk = 0 /\ window = Empty
      /\ shifted = 0 /\ taken = 0
      /\ decoded = [b \in DOMAIN blocks |-> [k \in 0 .. Last |-> 0]]
  BY DEF CodeInit
<1>2. ByteBits \in Nat \ {0} /\ Last \in Nat
  BY Constants
<1>3. Empty \in [1 .. Window -> {0, 1}]
  BY DEF Empty
<1>4. CodeTypeOK
  <2>1. stream \in Seq({0, 1})
    BY <1>1
  <2> QED
    BY <1>1, <1>2, <1>3, <2>1 DEF CodeTypeOK
<1>5. 0 \div ByteBits = 0 /\ 0 % ByteBits = 0 /\ 0 * ByteBits = 0
  <2>1. 0 * ByteBits = 0
    BY <1>2, Z3
  <2>2. 0 \in 0 .. ByteBits - 1
    BY <1>2
  <2>3. (0 * ByteBits + 0) \div ByteBits = 0 /\ (0 * ByteBits + 0) % ByteBits = 0
    BY <1>2, <2>2, QuotientIs
  <2> QED
    BY <2>1, <2>3
<1>6. PendingInv
  <2>1. Len(stream) = (bitcount \div ByteBits) * ByteBits
    BY <1>1, <1>5
  <2>2. \A k \in 1 .. Window : bitbuffer[k] = 0
    BY <1>1 DEF Empty
  <2> QED
    BY <1>1, <2>1, <2>2 DEF PendingInv
<1>7. WindowShowsStream
  BY <1>1 DEF WindowShowsStream
<1>8. Len(blocks) \in Nat /\ DOMAIN blocks = 1 .. Len(blocks)
  BY <1>4, BlockValues
<1>9. <<1, 0>> \in Positions
  <2>1. CASE Len(blocks) = 0
    BY <2>1 DEF Positions, End
  <2>2. CASE Len(blocks) # 0
    BY <1>2, <1>8, <2>2 DEF Positions
  <2> QED
    BY <2>1, <2>2
<1>10. PICK pos : pos = [n \in {0} |-> <<1, 0>>]
  OBVIOUS
<1>11. Trace(pos)
  <2>1. DOMAIN pos = {0} /\ pos[0] = <<1, 0>>
    BY <1>10
  <2>2. \A n \in DOMAIN pos : n \in 0 .. bitcount /\ pos[n] \in Positions /\ ~(n < bitcount)
    BY <1>1, <1>9, <2>1
  <2> QED
    BY <1>1, <2>1, <2>2 DEF Trace
<1>12. DecoderInv(pos)
  <2>1. decoded \in [DOMAIN blocks -> [0 .. Last -> Int]]
    BY <1>1
  <2>2. DecodedUpTo(<<1, 0>>)
    BY <1>1, <1>8 DEF DecodedUpTo
  <2> QED
    BY <1>1, <2>1, <2>2 DEF DecoderInv
<1> QED
  BY <1>1, <1>4, <1>6, <1>7, <1>11, <1>12 DEF CodeIInv

(* The trace of what is in the stream.                                     *)
LEMMA TraceStays ==
  ASSUME CodeTypeOK, UNCHANGED <<blocks, bitcount>>, NEW pos, Trace(pos),
         stage' = "encode" => stage = "encode" /\ at' = at,
         stage' # "encode" => stage # "encode" \/ at = End,
         \A n \in 1 .. bitcount : BitOut(n)' = BitOut(n)
  PROVE  Trace(pos)'
<1>1. bitcount \in Nat /\ bitcount' = bitcount /\ blocks' = blocks
  BY DEF CodeTypeOK
<1>2. End' = End /\ Positions' = Positions
  BY DEF End, Positions
<1>3. /\ DOMAIN pos \subseteq 0 .. bitcount
      /\ \A n \in DOMAIN pos : pos[n] \in Positions
      /\ 0 \in DOMAIN pos /\ pos[0] = <<1, 0>>
      /\ bitcount \in DOMAIN pos
      /\ pos[bitcount] = IF stage' = "encode" THEN at' ELSE End
  BY DEF Trace
<1>4. ASSUME NEW n \in DOMAIN pos, n < bitcount
      PROVE  \E m \in DOMAIN pos :
               /\ n < m /\ pos[n] # End'
               /\ Symbol(pos[n], pos[m], [k \in 1 .. m - n |-> BitOut(n + k)])'
  <2>1. PICK m \in DOMAIN pos :
          /\ n < m /\ pos[n] # End
          /\ Symbol(pos[n], pos[m], [k \in 1 .. m - n |-> BitOut(n + k)])
    BY <1>4 DEF Trace
  <2>2. n \in Nat /\ m \in Nat /\ m <= bitcount
    BY <1>1, <1>3
  <2>3. PICK f : f = [k \in 1 .. m - n |-> BitOut(n + k)]
    OBVIOUS
  <2>4. Symbol(pos[n], pos[m], f)'
    BY <1>1, <2>1, <2>3, SameSymbol
  <2>5. ASSUME NEW k \in 1 .. m - n PROVE BitOut(n + k)' = BitOut(n + k)
    <3>1. n + k \in 1 .. bitcount
      BY <1>1, <2>2
    <3> QED
      BY <3>1
  <2>6. f = [k \in 1 .. m - n |-> BitOut(n + k)']
    BY <2>3, <2>5
  <2>7. Symbol(pos[n], pos[m], [k \in 1 .. m - n |-> BitOut(n + k)])'
    BY <2>4, <2>6 DEF Symbol
  <2> QED
    BY <1>2, <2>1, <2>7
<1> QED
  BY <1>1, <1>2, <1>3, <1>4 DEF Trace

(* output_rest() sends all that is left; or zeros, if nothing else was.    *)
LEMMA OutputRestInv ==
  ASSUME CodeIInv, OutputRest
  PROVE  CodeIInv'
<1>1. /\ stage = "encode" /\ at[1] > Len(blocks) /\ stage' = "start" /\ junk' \in {0, 1}
      /\ stream' = IF bitcount % ByteBits = 0 THEN stream ELSE stream \o RestOfBits
      /\ UNCHANGED <<blocks, at, bitcount, bitbuffer, decoderVars>>
  BY DEF OutputRest
<1>2. CodeTypeOK /\ PendingInv
  BY DEF CodeIInv
<1>3. /\ ByteBits \in Nat \ {0} /\ Window \in Nat /\ bitcount \in Nat
      /\ WindowBytes \in Nat \ {0} /\ Window = WindowBytes * ByteBits
  BY <1>2, Constants DEF CodeTypeOK
<1>4. ByteBits <= Window
  <2>1. 1 * ByteBits <= WindowBytes * ByteBits
    BY <1>3, Multiples
  <2>2. 1 * ByteBits = ByteBits
    BY <1>3, Z3
  <2> QED
    BY <1>3, <2>1, <2>2
<1> DEFINE p == bitcount % ByteBits
           base == (bitcount \div ByteBits) * ByteBits
<1>5. p \in 0 .. ByteBits - 1 /\ bitcount = base + p /\ base \in Int /\ Len(stream) = base
  <2>1. bitcount \div ByteBits \in Nat /\ p \in 0 .. ByteBits - 1 /\ bitcount = base + p
    BY <1>3, Divides
  <2>2. base \in Int
    BY <1>3, <2>1, Multiples
  <2>3. Len(stream) = base
    BY <1>1, <1>2 DEF PendingInv
  <2> QED
    BY <2>1, <2>2, <2>3
<1> HIDE DEF base
<1>6. /\ RestOfBits \in Seq({0, 1}) /\ Len(RestOfBits) = ByteBits
      /\ \A k \in 1 .. ByteBits : RestOfBits[k] = bitbuffer[(Window - ByteBits) + k]
  <2> DEFINE b == bitbuffer
             f == Window - ByteBits
  <2>1. b \in Seq({0, 1}) /\ Len(b) = Window /\ f \in Nat /\ f <= Window
    BY <1>2, <1>3, <1>4 DEF CodeTypeOK
  <2>2. f + 1 \in 1 .. Window + 1 /\ Window - (f + 1) + 1 = ByteBits
    BY <1>3, <1>4
  <2> HIDE DEF f
  <2>3. /\ SubSeq(b, f + 1, Window) \in Seq({0, 1})
        /\ Len(SubSeq(b, f + 1, Window)) = ByteBits
        /\ \A k \in 1 .. ByteBits : SubSeq(b, f + 1, Window)[k] = b[f + k]
    <3>1. \A k \in 1 .. ByteBits : f + k \in 1 .. Window
      BY <1>3, <2>1, <2>2
    <3>2. \A k \in f + 1 .. Window : b[k] \in {0, 1}
      BY <1>2, <2>1 DEF CodeTypeOK
    <3>3. /\ Len(SubSeq(b, f + 1, Window)) = ByteBits
          /\ \A k \in 1 .. ByteBits : SubSeq(b, f + 1, Window)[k] = b[f + k]
      BY <1>3, <2>1, <2>2
    <3>4. SubSeq(b, f + 1, Window) \in Seq({0, 1})
      BY <1>3, <2>1, <2>2
    <3> QED
      BY <3>3, <3>4
  <2> QED
    BY <2>3 DEF f, RestOfBits
<1>7. /\ stream' \in Seq({0, 1}) /\ bitcount <= Len(stream')
      /\ \A n \in 1 .. base : stream'[n] = stream[n]
      /\ p # 0 => \A k \in 1 .. ByteBits : stream'[base + k] = RestOfBits[k]
  <2>1. CASE p = 0
    BY <1>1, <1>2, <1>5, <2>1 DEF CodeTypeOK
  <2>2. CASE p # 0
    <3> DEFINE t == RestOfBits
    <3>1. stream \in Seq({0, 1}) /\ stream' = stream \o t
      BY <1>1, <1>2, <2>2 DEF CodeTypeOK
    <3>2. t \in Seq({0, 1}) /\ Len(t) = ByteBits
      BY <1>6
    <3> HIDE DEF t
    <3>3. /\ stream \o t \in Seq({0, 1}) /\ Len(stream \o t) = Len(stream) + Len(t)
          /\ \A k \in 1 .. Len(stream) : (stream \o t)[k] = stream[k]
          /\ \A k \in 1 .. Len(t) : (stream \o t)[Len(stream) + k] = t[k]
      BY <3>1, <3>2, TwoNumbers
    <3>4. base + ByteBits >= bitcount
      BY <1>3, <1>5
    <3> QED
      BY <1>5, <3>1, <3>2, <3>3, <3>4 DEF t
  <2> QED
    BY <2>1, <2>2
<1>8. CodeTypeOK'
  BY <1>1, <1>2, <1>7 DEF CodeTypeOK, decoderVars
<1>9. PendingInv'
  BY <1>1, <1>2, <1>7 DEF PendingInv, decoderVars
<1>10. WindowShowsStream'
  BY <1>1 DEF WindowShowsStream
<1>11. ASSUME NothingLost'
       PROVE  stage' # "outside" /\ \E pos : Trace(pos)' /\ DecoderInv(pos)'
  <2>1. NothingLost
    BY <1>1, <1>11 DEF NothingLost
  <2>2. bitbuffer = Empty
    BY <1>1, <1>2, <2>1 DEF PendingInv
  <2>3. PICK pos : Trace(pos) /\ DecoderInv(pos)
    BY <1>1 DEF CodeIInv
  <2>4. at = End
    <3>1. at \in Positions
      BY <1>1, <2>3 DEF Trace
    <3> QED
      BY <1>1, <1>2, <3>1, BlockValues DEF Positions, End
  <2>5. ASSUME NEW n \in 1 .. bitcount
        PROVE  BitOut(n)' = BitOut(n)
    <3>1. n <= Len(stream')
      <4>1. Len(stream') \in Nat
        BY <1>7
      <4> QED
        BY <1>3, <1>7, <4>1
    <3>2. BitOut(n)' = stream'[n]
      BY <1>1, <3>1 DEF BitOut, StreamBit
    <3>3. CASE n <= base
      <4>1. n \in 1 .. base /\ n <= Len(stream) /\ ~(n > Len(stream))
        BY <1>3, <1>5, <3>3
      <4>2. BitOut(n) = stream[n]
        BY <4>1 DEF BitOut, StreamBit
      <4> QED
        BY <1>7, <3>2, <4>1, <4>2
    <3>4. CASE n > base
      <4> DEFINE k == n - base
      <4>1. /\ p # 0 /\ k \in 1 .. ByteBits /\ base + k = n /\ k \in 1 .. Window
            /\ (Window - ByteBits) + k \in 1 .. Window /\ n > Len(stream)
            /\ n - Len(stream) = k
        BY <1>3, <1>4, <1>5, <3>4
      <4> HIDE DEF k
      <4>2. stream'[n] = bitbuffer[(Window - ByteBits) + k]
        BY <1>6, <1>7, <4>1
      <4>3. stream'[n] = 0
        BY <2>2, <4>1, <4>2 DEF Empty
      <4>4. BitOut(n) = bitbuffer[k]
        BY <1>1, <4>1 DEF BitOut
      <4>5. BitOut(n) = 0
        BY <2>2, <4>1, <4>4 DEF Empty
      <4> QED
        BY <3>2, <4>3, <4>5
    <3> QED
      BY <1>3, <1>5, <3>3, <3>4
  <2>6. Trace(pos)'
    BY <1>1, <1>2, <2>3, <2>4, <2>5, TraceStays
  <2>7. DecoderInv(pos)'
    BY <1>1, <2>3 DEF DecoderInv, DecodedUpTo, decoderVars
  <2> QED
    BY <1>1, <2>6, <2>7
<1> QED
  BY <1>1, <1>8, <1>9, <1>10, <1>11 DEF CodeIInv

-----------------------------------------------------------------------------
(* The decoder                                                             *)

(* What the window shows.                                                   *)
LEMMA WindowIs ==
  ASSUME CodeIInv, stage \in {"decode", "done"}
  PROVE  /\ \A k \in 1 .. Window :
              window[k] = IF k <= Window - shifted THEN StreamBit(Consumed + k) ELSE 0
         /\ \A k \in 1 .. Window : window[k] \in {0, 1}
         /\ RunBits + SizeBits + TwoTo(SizeBits) - 1 <= Window - shifted
         /\ Consumed \in Int /\ shifted \in Nat /\ Window \in Nat
<1>1. CodeTypeOK /\ WindowShowsStream
  BY DEF CodeIInv
<1>2. /\ Window \in Nat /\ shifted \in Nat /\ taken \in Nat /\ ByteBits \in Nat \ {0}
      /\ \A k \in 1 .. Window : window[k] \in {0, 1}
  BY <1>1, Constants DEF CodeTypeOK
<1>3. Consumed \in Int
  <2>1. taken * ByteBits \in Int
    BY <1>2, Multiples
  <2> QED
    BY <1>2, <2>1 DEF Consumed
<1>4. /\ \A k \in 1 .. Window :
           window[k] = IF k <= Window - shifted THEN StreamBit(Consumed + k) ELSE 0
      /\ Window - shifted >= RunBits + SizeBits + TwoTo(SizeBits) - 1
  BY <1>1 DEF WindowShowsStream
<1>5. RunBits \in Nat /\ SizeBits \in Nat /\ TwoTo(SizeBits) \in Nat
  BY Constants
<1>6. RunBits + SizeBits + TwoTo(SizeBits) - 1 <= Window - shifted
  BY <1>2, <1>4, <1>5
<1> QED
  BY <1>2, <1>3, <1>4, <1>6

(* Whatever the decoder makes of its window, update_buffer() moves it on.  *)
LEMMA WindowMoves ==
  ASSUME CodeIInv, stage = "decode", stage' \in {"decode", "outside"},
         UNCHANGED <<blocks, encoderVars, junk>>,
         NEW size \in Nat, UpdateBuffer(size)
  PROVE  /\ CodeTypeOK' /\ PendingInv' /\ WindowShowsStream'
         /\ Consumed' = Consumed + size
<1>1. /\ CodeTypeOK /\ PendingInv
      /\ UNCHANGED <<blocks, bitcount, bitbuffer, stream, junk>>
  BY DEF CodeIInv, encoderVars
<1>2. /\ \A k \in 1 .. Window :
           window[k] = IF k <= Window - shifted THEN StreamBit(Consumed + k) ELSE 0
      /\ Consumed \in Int /\ shifted \in Nat /\ Window \in Nat
  BY WindowIs
<1>3. ASSUME NEW k \in 1 .. Window - (shifted + size)
      PROVE  window[k + size] = StreamBit(Consumed + size + k)
  <2>1. /\ k + size \in 1 .. Window /\ k + size <= Window - shifted
        /\ Consumed + (k + size) = Consumed + size + k
    BY <1>2
  <2>2. window[k + size] = StreamBit(Consumed + (k + size))
    BY <1>2, <2>1
  <2> QED
    BY <2>1, <2>2
<1>4. /\ taken' \in Nat /\ shifted' \in 0 .. ByteBits - 1
      /\ window' \in [1 .. Window -> {0, 1}]
      /\ Consumed' = Consumed + size
      /\ \A k \in 1 .. Window :
           window'[k] = IF k <= Window - shifted' THEN StreamBit(Consumed + size + k) ELSE 0
  BY <1>1, <1>3, UpdateBufferInv
<1>5. CodeTypeOK'
  BY <1>1, <1>4 DEF CodeTypeOK
<1>6. PendingInv'
  BY <1>1 DEF PendingInv, NothingLost
<1>7. Window - shifted' >= RunBits + SizeBits + TwoTo(SizeBits) - 1
  <2>1. /\ RunBits \in Nat /\ SizeBits \in Nat /\ TwoTo(SizeBits) \in Nat
        /\ ByteBits \in Nat
        /\ RunBits + SizeBits + TwoTo(SizeBits) - 1 <= Window - (ByteBits - 1)
    BY Constants
  <2> QED
    BY <1>2, <1>4, <2>1
<1>8. \A n : StreamBit(n)' = StreamBit(n)
  BY <1>1 DEF StreamBit
<1>9. PICK from : from = Consumed + size
  OBVIOUS
<1>10. \A k \in 1 .. Window :
         window'[k] = IF k <= Window - shifted' THEN StreamBit(from + k)' ELSE 0
  BY <1>4, <1>8, <1>9
<1>11. WindowShowsStream'
  BY <1>4, <1>7, <1>9, <1>10 DEF WindowShowsStream
<1> QED
  BY <1>4, <1>5, <1>6, <1>11

(* It follows the encoder's trace, as long as that is all in the stream.   *)
LEMMA TraceFollowed ==
  ASSUME CodeIInv, stage = "decode", stage' \in {"decode", "outside"},
         UNCHANGED <<blocks, encoderVars, junk>>,
         NEW size \in Nat, UpdateBuffer(size),
         NothingLost =>
           /\ stage' = "decode"
           /\ \E pos : /\ Trace(pos) /\ Consumed + size \in DOMAIN pos
                       /\ \E to : /\ at' = to /\ pos[Consumed + size] = to
                                  /\ DecodedUpTo(to)'
                       /\ decoded' \in [DOMAIN blocks -> [0 .. Last -> Int]]
  PROVE  CodeIInv'
<1>1. /\ CodeTypeOK' /\ PendingInv' /\ WindowShowsStream'
      /\ Consumed' = Consumed + size
  BY WindowMoves
<1>2. /\ NothingLost' = NothingLost
      /\ UNCHANGED <<blocks, bitcount, bitbuffer, stream, junk>> /\ CodeTypeOK
  BY DEF NothingLost, encoderVars, CodeIInv
<1>3. ASSUME NothingLost'
      PROVE  stage' # "outside" /\ \E pos : Trace(pos)' /\ DecoderInv(pos)'
  <2>1. PICK pos : /\ Trace(pos) /\ Consumed + size \in DOMAIN pos
                   /\ \E to : /\ at' = to /\ pos[Consumed + size] = to
                              /\ DecodedUpTo(to)'
                   /\ decoded' \in [DOMAIN blocks -> [0 .. Last -> Int]]
    BY <1>2, <1>3
  <2>2. stage' = "decode"
    BY <1>2, <1>3
  <2>3. \A n \in 1 .. bitcount : BitOut(n)' = BitOut(n)
    BY <1>2, <2>2 DEF BitOut, StreamBit
  <2>4. Trace(pos)'
    BY <1>2, <2>1, <2>2, <2>3, TraceStays
  <2>5. DecoderInv(pos)'
    <3>1. PICK to : at' = to /\ pos[Consumed + size] = to /\ DecodedUpTo(to)'
      BY <2>1
    <3>2. DecodedUpTo(at)'
      BY <3>1 DEF DecodedUpTo
    <3>3. Consumed' \in DOMAIN pos /\ pos[Consumed'] = at'
      BY <1>1, <2>1, <3>1
    <3>4. decoded' \in [DOMAIN blocks' -> [0 .. Last -> Int]]
      BY <1>2, <2>1
    <3> QED
      BY <2>2, <3>2, <3>3, <3>4 DEF DecoderInv
  <2> QED
    BY <2>2, <2>4, <2>5
<1> QED
  BY <1>1, <1>3 DEF CodeIInv

(* The symbol the decoder has before it is the next of the trace.          *)
LEMMA NextSymbol ==
  ASSUME CodeIInv, NothingLost, Decoding, NEW pos, Trace(pos), DecoderInv(pos)
  PROVE  /\ at \in Positions /\ at[1] \in 1 .. Len(blocks) /\ at[2] \in 0 .. Last
         /\ at = <<at[1], at[2]>>
         /\ \E m \in DOMAIN pos : \E code :
              /\ m \in Nat /\ Consumed \in Nat
              /\ Symbol(at, pos[m], code) /\ Len(code) = m - Consumed
              /\ \A k \in 1 .. RunBits + SizeBits + MaxSize :
                   k <= Len(code) => window[k] = code[k]
<1>1. CodeTypeOK /\ stage = "decode" /\ at[1] <= Len(blocks)
  BY DEF CodeIInv, Decoding
<1>2. Consumed \in DOMAIN pos /\ pos[Consumed] = at
  BY <1>1 DEF DecoderInv
<1>3. at \in Positions /\ DOMAIN pos \subseteq 0 .. bitcount /\ pos[bitcount] = End
  BY <1>1, <1>2 DEF Trace
<1>4. at # End /\ at[1] \in 1 .. Len(blocks) /\ at[2] \in 0 .. Last /\ at = <<at[1], at[2]>>
  BY <1>1, <1>3, Inside
<1>5. bitcount \in Nat /\ Consumed \in Nat /\ Consumed < bitcount
  <2>1. bitcount \in Nat /\ Consumed # bitcount
    BY <1>1, <1>2, <1>3, <1>4 DEF CodeTypeOK
  <2> HIDE DEF Consumed
  <2> QED
    BY <1>2, <1>3, <2>1
<1>6. PICK n : n = Consumed
  OBVIOUS
<1>7. PICK m \in DOMAIN pos :
        n < m /\ Symbol(pos[n], pos[m], [k \in 1 .. m - n |-> BitOut(n + k)])
  BY <1>2, <1>5, <1>6 DEF Trace
<1> DEFINE code == [k \in 1 .. m - n |-> BitOut(n + k)]
<1>8. n \in Nat /\ m \in Nat /\ m - n \in Nat
  BY <1>3, <1>5, <1>6, <1>7
<1>9. Len(code) = m - n
  BY <1>8
<1>10. /\ \A k \in 1 .. Window :
            window[k] = IF k <= Window - shifted THEN StreamBit(Consumed + k) ELSE 0
       /\ RunBits + SizeBits + TwoTo(SizeBits) - 1 <= Window - shifted
       /\ shifted \in Nat /\ Window \in Nat
  BY <1>1, WindowIs
<1>11. ASSUME NEW k \in 1 .. RunBits + SizeBits + MaxSize, k <= Len(code)
       PROVE  window[k] = code[k]
  <2>1. /\ RunBits \in Nat /\ SizeBits \in Nat /\ TwoTo(SizeBits) \in Nat
        /\ MaxSize \in Nat /\ MaxSize <= TwoTo(SizeBits) - 1
    BY Constants
  <2>2. k \in 1 .. Window /\ k <= Window - shifted
    BY <1>10, <2>1
  <2>3. window[k] = StreamBit(n + k)
    BY <1>6, <1>10, <2>2
  <2>4. k \in 1 .. m - n
    BY <1>8, <1>9, <1>11
  <2>5. code[k] = StreamBit(n + k)
    BY <1>1, <2>4 DEF BitOut
  <2> QED
    BY <2>3, <2>5
<1>12. Symbol(at, pos[m], code)
  BY <1>2, <1>6, <1>7
<1> HIDE DEF code
<1> QED
  BY <1>3, <1>4, <1>5, <1>6, <1>8, <1>9, <1>11, <1>12

(* It reads what was written, and with it where the encoder then was.      *)
LEMMA ReadDC ==
  ASSUME CodeIInv, NothingLost, Decoding, at[2] = 0, NEW pos, Trace(pos), DecoderInv(pos)
  PROVE  LET size == InputBits(window, 0, SizeBits)
         IN  /\ Consumed + (SizeBits + size) \in DOMAIN pos
             /\ pos[Consumed + (SizeBits + size)] = <<at[1], 1>>
             /\ blocks[at[1]][0]
                  = IF size = 0 THEN 0 ELSE HUFF_EXTEND(InputBits(window, SizeBits, size), size)
<1>1. /\ at[1] \in 1 .. Len(blocks) /\ CodeTypeOK
      /\ RunBits \in Nat /\ SizeBits \in Nat /\ MaxSize \in Nat /\ Last \in Nat
  BY NextSymbol, Constants DEF CodeIInv
<1>m. PICK m \in DOMAIN pos : \E code :
        /\ m \in Nat /\ Consumed \in Nat
        /\ Symbol(at, pos[m], code) /\ Len(code) = m - Consumed
        /\ \A k \in 1 .. RunBits + SizeBits + MaxSize : k <= Len(code) => window[k] = code[k]
  BY NextSymbol
<1>2. PICK code :
        /\ m \in Nat /\ Consumed \in Nat
        /\ Symbol(at, pos[m], code) /\ Len(code) = m - Consumed
        /\ \A k \in 1 .. RunBits + SizeBits + MaxSize : k <= Len(code) => window[k] = code[k]
  BY <1>m
<1>3. PICK e : e = blocks[at[1]][0]
  OBVIOUS
<1>4. e \in Amplitudes /\ code = DCCode(e) /\ pos[m] = <<at[1], 1>>
  <2>1. 0 \in 0 .. Last
    BY <1>1
  <2> QED
    BY <1>1, <1>2, <1>3, <2>1, BlockValues DEF Symbol
<1>5. PICK s : s = Size(e)
  OBVIOUS
<1>6. /\ s \in 0 .. MaxSize /\ (s = 0 <=> e = 0) /\ Amplitude(e) \in 0 .. TwoTo(s) - 1
      /\ s # 0 => HUFF_EXTEND(Amplitude(e), s) = e
  BY <1>4, <1>5, AmplitudeComesBack
<1>7. /\ Len(code) = SizeBits + s
      /\ \A k \in 1 .. SizeBits : code[k] = Bits(SizeBits, s)[k]
      /\ \A k \in 1 .. s : code[SizeBits + k] = Bits(s, Amplitude(e))[k]
  BY <1>4, <1>5, DCCodeIs
<1>8. s \in Nat /\ s \in 0 .. TwoTo(SizeBits) - 1
  <2>1. MaxSize \in 0 .. TwoTo(SizeBits) - 1 /\ TwoTo(SizeBits) \in Nat
    BY Constants
  <2> QED
    BY <1>1, <1>6, <2>1
<1> HIDE DEF Consumed
<1>9. /\ \A k \in 1 .. SizeBits : window[0 + k] = Bits(SizeBits, s)[k]
      /\ \A k \in 1 .. s : window[SizeBits + k] = Bits(s, Amplitude(e))[k]
  <2>1. ASSUME NEW k \in 1 .. SizeBits PROVE window[0 + k] = Bits(SizeBits, s)[k]
    <3>1. k \in 1 .. RunBits + SizeBits + MaxSize /\ k <= Len(code) /\ 0 + k = k
      BY <1>1, <1>6, <1>7
    <3> QED
      BY <1>2, <1>7, <3>1
  <2>2. ASSUME NEW k \in 1 .. s PROVE window[SizeBits + k] = Bits(s, Amplitude(e))[k]
    <3>1. SizeBits + k \in 1 .. RunBits + SizeBits + MaxSize /\ SizeBits + k <= Len(code)
      BY <1>1, <1>6, <1>7
    <3> QED
      BY <1>2, <1>7, <3>1
  <2> QED
    BY <2>1, <2>2
<1>10. InputBits(window, 0, SizeBits) = s
  <2>1. SizeBits \in Nat /\ 0 \in Nat
    BY <1>1
  <2> QED
    BY <1>8, <1>9, <2>1, InputBitsOf
<1>11. InputBits(window, SizeBits, s) = Amplitude(e)
  <2>1. PICK a : a = Amplitude(e)
    OBVIOUS
  <2>2. a \in 0 .. TwoTo(s) - 1 /\ \A k \in 1 .. s : window[SizeBits + k] = Bits(s, a)[k]
    BY <1>6, <1>9, <2>1
  <2>3. s \in Nat /\ SizeBits \in Nat
    BY <1>1, <1>8
  <2>4. InputBits(window, SizeBits, s) = a
    BY <2>2, <2>3, InputBitsOf
  <2> QED
    BY <2>1, <2>4
<1>12. m = Consumed + (SizeBits + s)
  <2>1. m \in Nat /\ Consumed \in Nat /\ Len(code) = m - Consumed
    BY <1>2
  <2>2. SizeBits \in Nat /\ s \in Nat /\ Len(code) = SizeBits + s
    BY <1>1, <1>7, <1>8
  <2> QED
    BY <2>1, <2>2
<1>13. /\ Consumed + (SizeBits + s) \in DOMAIN pos
       /\ pos[Consumed + (SizeBits + s)] = <<at[1], 1>>
       /\ e = IF s = 0 THEN 0 ELSE HUFF_EXTEND(InputBits(window, SizeBits, s), s)
  BY <1>2, <1>4, <1>6, <1>11, <1>12
<1> QED
  BY <1>3, <1>10, <1>13

(* The same for the other symbols of a block.                              *)
LEMMA ReadAC ==
  ASSUME CodeIInv, NothingLost, ACHere, NEW pos, Trace(pos), DecoderInv(pos)
  PROVE  \E m \in DOMAIN pos :
           \/ /\ Zeros(at[1], at[2], Last)
              /\ SizeHere = 0 /\ RunHere # MaxRun
              /\ pos[m] = <<at[1] + 1, 0>> /\ m = Consumed + (RunBits + SizeBits)
           \/ \E k \in at[2] .. Last :
                /\ Zeros(at[1], at[2], k - 1)
                /\ \/ /\ SizeHere = 0 /\ RunHere = MaxRun
                      /\ at[2] + MaxRun + 1 <= k
                      /\ pos[m] = <<at[1], at[2] + MaxRun + 1>>
                      /\ m = Consumed + (RunBits + SizeBits)
                   \/ /\ SizeHere # 0 /\ at[2] + RunHere = k
                      /\ ValueHere = blocks[at[1]][k]
                      /\ pos[m] = IF k = Last THEN <<at[1] + 1, 0>> ELSE <<at[1], k + 1>>
                      /\ m = Consumed + (RunBits + SizeBits + SizeHere)
<1>1. /\ at[1] \in 1 .. Len(blocks) /\ at[2] \in 0 .. Last /\ at[2] > 0 /\ CodeTypeOK
      /\ RunBits \in Nat /\ SizeBits \in Nat /\ MaxSize \in Nat /\ Last \in Nat
      /\ MaxRun \in Nat \ {0} /\ MaxRun \in 0 .. TwoTo(RunBits) - 1
      /\ TwoTo(SizeBits) \in Nat \ {0} /\ MaxSize \in 0 .. TwoTo(SizeBits) - 1
  BY NextSymbol, Constants DEF CodeIInv, ACHere
<1>m. PICK m \in DOMAIN pos : \E code :
        /\ m \in Nat /\ Consumed \in Nat
        /\ Symbol(at, pos[m], code) /\ Len(code) = m - Consumed
        /\ \A k \in 1 .. RunBits + SizeBits + MaxSize : k <= Len(code) => window[k] = code[k]
  BY NextSymbol DEF ACHere
<1>2. PICK code :
        /\ m \in Nat /\ Consumed \in Nat
        /\ Symbol(at, pos[m], code) /\ Len(code) = m - Consumed
        /\ \A k \in 1 .. RunBits + SizeBits + MaxSize : k <= Len(code) => window[k] = code[k]
  BY <1>m
<1> HIDE DEF Consumed
(* A run and a size that the symbol begins with are what the decoder reads. *)
<1>3. ASSUME NEW run \in 0 .. TwoTo(RunBits) - 1, NEW s \in 0 .. MaxSize,
             Len(code) = RunBits + SizeBits + s,
             \A k \in 1 .. RunBits : code[k] = Bits(RunBits, run)[k],
             \A k \in 1 .. SizeBits : code[RunBits + k] = Bits(SizeBits, s)[k]
      PROVE  RunHere = run /\ SizeHere = s /\ m = Consumed + (RunBits + SizeBits + s)
  <2>1. ASSUME NEW k \in 1 .. RunBits PROVE window[0 + k] = Bits(RunBits, run)[k]
    <3>1. k \in 1 .. RunBits + SizeBits + MaxSize /\ k <= Len(code) /\ 0 + k = k
      BY <1>1, <1>3
    <3> QED
      BY <1>2, <1>3, <3>1
  <2>2. ASSUME NEW k \in 1 .. SizeBits PROVE window[RunBits + k] = Bits(SizeBits, s)[k]
    <3>1. RunBits + k \in 1 .. RunBits + SizeBits + MaxSize /\ RunBits + k <= Len(code)
      BY <1>1, <1>3
    <3> QED
      BY <1>2, <1>3, <3>1
  <2>3. RunHere = run
    <3>1. RunBits \in Nat /\ 0 \in Nat
      BY <1>1
    <3>2. InputBits(window, 0, RunBits) = run
      BY <2>1, <3>1, InputBitsOf
    <3> QED
      BY <3>2 DEF RunHere
  <2>4. s \in 0 .. TwoTo(SizeBits) - 1
    BY <1>1
  <2>5. SizeHere = s
    <3>1. RunBits \in Nat /\ SizeBits \in Nat
      BY <1>1
    <3>2. InputBits(window, RunBits, SizeBits) = s
      BY <2>2, <2>4, <3>1, InputBitsOf
    <3> QED
      BY <3>2 DEF SizeHere
  <2>6. m = Consumed + (RunBits + SizeBits + s)
    <3>1. s \in Nat
      BY <1>1
    <3>2. m \in Nat /\ Consumed \in Nat /\ Len(code) = m - Consumed
      BY <1>2
    <3>3. RunBits \in Nat /\ SizeBits \in Nat /\ Len(code) = RunBits + SizeBits + s
      BY <1>1, <1>3
    <3> QED
      BY <3>1, <3>2, <3>3
  <2> QED
    BY <2>3, <2>5, <2>6
<1>4. CASE /\ Zeros(at[1], at[2], Last)
           /\ code = ENDCode
           /\ pos[m] = <<at[1] + 1, 0>>
  <2>1. 0 \in 0 .. TwoTo(RunBits) - 1 /\ 0 \in 0 .. MaxSize /\ RunBits + SizeBits + 0 = RunBits + SizeBits
    BY <1>1, TwoToPositive
  <2>2. /\ Len(code) = RunBits + SizeBits + 0
        /\ \A k \in 1 .. RunBits : code[k] = Bits(RunBits, 0)[k]
        /\ \A k \in 1 .. SizeBits : code[RunBits + k] = Bits(SizeBits, 0)[k]
    <3>1. /\ Len(ENDCode) = RunBits + SizeBits
          /\ \A k \in 1 .. RunBits : ENDCode[k] = Bits(RunBits, 0)[k]
          /\ \A k \in 1 .. SizeBits : ENDCode[RunBits + k] = Bits(SizeBits, 0)[k]
      BY RunCodeIs DEF ENDCode
    <3> QED
      BY <1>4, <2>1, <3>1
  <2>3. RunHere = 0 /\ SizeHere = 0 /\ m = Consumed + (RunBits + SizeBits + 0)
    BY <1>3, <2>1, <2>2
  <2> QED
    BY <1>1, <1>4, <2>1, <2>3
<1>5. CASE \E k \in at[2] .. Last :
             /\ Zeros(at[1], at[2], k - 1)
             /\ k - at[2] > MaxRun
             /\ code = ZRLCode
             /\ pos[m] = <<at[1], at[2] + MaxRun + 1>>
  <2>1. PICK k \in at[2] .. Last :
             /\ Zeros(at[1], at[2], k - 1)
             /\ k - at[2] > MaxRun
             /\ code = ZRLCode
             /\ pos[m] = <<at[1], at[2] + MaxRun + 1>>
    BY <1>5
  <2>2. 0 \in 0 .. MaxSize /\ RunBits + SizeBits + 0 = RunBits + SizeBits
    BY <1>1
  <2>3. RunHere = MaxRun /\ SizeHere = 0 /\ m = Consumed + (RunBits + SizeBits)
    <3>1. /\ Len(code) = RunBits + SizeBits + 0
          /\ \A j \in 1 .. RunBits : code[j] = Bits(RunBits, MaxRun)[j]
          /\ \A j \in 1 .. SizeBits : code[RunBits + j] = Bits(SizeBits, 0)[j]
      <4>1. /\ Len(ZRLCode) = RunBits + SizeBits
            /\ \A j \in 1 .. RunBits : ZRLCode[j] = Bits(RunBits, MaxRun)[j]
            /\ \A j \in 1 .. SizeBits : ZRLCode[RunBits + j] = Bits(SizeBits, 0)[j]
        <5>1. MaxRun \in Nat /\ 0 \in Nat
          BY <1>1
        <5> HIDE DEF MaxRun
        <5> QED
          BY <5>1, RunCodeIs DEF ZRLCode
      <4> QED
        BY <2>1, <2>2, <4>1
    <3>2. RunHere = MaxRun /\ SizeHere = 0 /\ m = Consumed + (RunBits + SizeBits + 0)
      BY <1>1, <1>3, <2>2, <3>1
    <3> QED
      BY <2>2, <3>2
  <2>4. at[2] + MaxRun + 1 <= k
    BY <1>1, <2>1
  <2> QED
    BY <2>1, <2>3, <2>4
<1>6. CASE \E k \in at[2] .. Last :
             /\ Zeros(at[1], at[2], k - 1) /\ blocks[at[1]][k] # 0
             /\ k - at[2] <= MaxRun
             /\ code = ACCode(k - at[2], blocks[at[1]][k])
             /\ pos[m] = IF k = Last THEN <<at[1] + 1, 0>> ELSE <<at[1], k + 1>>
  <2>1. PICK k \in at[2] .. Last :
             /\ Zeros(at[1], at[2], k - 1) /\ blocks[at[1]][k] # 0
             /\ k - at[2] <= MaxRun
             /\ code = ACCode(k - at[2], blocks[at[1]][k])
             /\ pos[m] = IF k = Last THEN <<at[1] + 1, 0>> ELSE <<at[1], k + 1>>
    BY <1>6
  <2>2. PICK e, run, s : e = blocks[at[1]][k] /\ run = k - at[2] /\ s = Size(e)
    OBVIOUS
  <2>3. e \in Amplitudes /\ e # 0
    <3>1. k \in 0 .. Last
      BY <1>1
    <3> QED
      BY <1>1, <2>1, <2>2, <3>1, BlockValues
  <2>4. run \in Nat /\ run \in 0 .. TwoTo(RunBits) - 1 /\ at[2] + run = k
    <3>1. TwoTo(RunBits) \in Nat /\ MaxRun <= TwoTo(RunBits) - 1 /\ MaxRun \in Nat
      BY <1>1, TwoToPositive
    <3>2. at[2] \in Nat /\ k \in Nat /\ at[2] <= k /\ k - at[2] <= MaxRun
      BY <1>1, <2>1
    <3> QED
      BY <2>2, <3>1, <3>2
  <2>5. /\ s \in 0 .. MaxSize /\ s # 0 /\ Amplitude(e) \in 0 .. TwoTo(s) - 1
        /\ HUFF_EXTEND(Amplitude(e), s) = e
    BY <2>2, <2>3, AmplitudeComesBack
  <2>6. /\ Len(code) = RunBits + SizeBits + s
        /\ \A j \in 1 .. RunBits : code[j] = Bits(RunBits, run)[j]
        /\ \A j \in 1 .. SizeBits : code[RunBits + j] = Bits(SizeBits, s)[j]
        /\ \A j \in 1 .. s : code[(RunBits + SizeBits) + j] = Bits(s, Amplitude(e))[j]
    BY <2>1, <2>2, <2>3, <2>4, ACCodeIs
  <2>7. RunHere = run /\ SizeHere = s /\ m = Consumed + (RunBits + SizeBits + s)
    BY <1>3, <2>4, <2>5, <2>6
  <2>8. ASSUME NEW j \in 1 .. s
        PROVE  window[(RunBits + SizeBits) + j] = Bits(s, Amplitude(e))[j]
    <3>1. /\ (RunBits + SizeBits) + j \in 1 .. RunBits + SizeBits + MaxSize
          /\ (RunBits + SizeBits) + j <= Len(code)
      BY <1>1, <2>5, <2>6
    <3> QED
      BY <1>2, <2>6, <3>1
  <2>9. s \in Nat /\ RunBits + SizeBits \in Nat
    BY <1>1, <2>5
  <2>10. InputBits(window, RunBits + SizeBits, s) = Amplitude(e)
    BY <2>5, <2>8, <2>9, InputBitsOf
  <2>11. ValueHere = e
    BY <2>5, <2>7, <2>10 DEF ValueHere
  <2> QED
    BY <2>1, <2>2, <2>4, <2>5, <2>7, <2>11
<1>7. \/ /\ Zeros(at[1], at[2], Last)
         /\ code = ENDCode
         /\ pos[m] = <<at[1] + 1, 0>>
      \/ \E k \in at[2] .. Last :
           /\ Zeros(at[1], at[2], k - 1)
           /\ k - at[2] > MaxRun
           /\ code = ZRLCode
           /\ pos[m] = <<at[1], at[2] + MaxRun + 1>>
      \/ \E k \in at[2] .. Last :
           /\ Zeros(at[1], at[2], k - 1) /\ blocks[at[1]][k] # 0
           /\ k - at[2] <= MaxRun
           /\ code = ACCode(k - at[2], blocks[at[1]][k])
           /\ pos[m] = IF k = Last THEN <<at[1] + 1, 0>> ELSE <<at[1], k + 1>>
  <2>1. ~(at[2] = 0)
    BY <1>1
  <2> QED
    BY <1>2, <2>1 DEF Symbol
<1> QED
  BY <1>4, <1>5, <1>6, <1>7

(* Filling the window: as if a whole window had been passed over.           *)
LEMMA StartDecodingInv ==
  ASSUME CodeIInv, StartDecoding
  PROVE  CodeIInv'
<1>1. /\ stage = "start" /\ UpdateBuffer(Window) /\ stage' = "decode" /\ at' = <<1, 0>>
      /\ UNCHANGED <<blocks, bitcount, bitbuffer, stream, junk, decoded>>
  BY DEF StartDecoding, encoderVars
<1>2. CodeTypeOK /\ PendingInv
  BY DEF CodeIInv
<1>3. shifted = 0 /\ taken = 0 /\ Window \in Nat /\ ByteBits \in Nat \ {0}
  BY <1>1, <1>2, Constants DEF PendingInv
<1>4. Consumed + Window = 0
  <2>1. 0 * ByteBits = 0
    BY <1>3, Z3
  <2>2. Consumed = 0 - (Window - 0)
    BY <1>3, <2>1 DEF Consumed
  <2> HIDE DEF Consumed
  <2> QED
    BY <1>3, <2>2
<1>5. /\ taken' \in Nat /\ shifted' \in 0 .. ByteBits - 1
      /\ window' \in [1 .. Window -> {0, 1}]
      /\ Consumed' = Consumed + Window
      /\ \A k \in 1 .. Window :
           window'[k] = IF k <= Window - shifted' THEN StreamBit(Consumed + Window + k) ELSE 0
  <2>1. \A k \in 1 .. Window - (shifted + Window) : FALSE
    BY <1>3
  <2>2. UNCHANGED <<stream, junk>>
    BY <1>1
  <2> QED
    BY <1>1, <1>2, <1>3, <2>1, <2>2, UpdateBufferInv
<1>6. CodeTypeOK'
  BY <1>1, <1>2, <1>5 DEF CodeTypeOK
<1>7. PendingInv'
  BY <1>1, <1>2 DEF PendingInv, NothingLost
<1>8. WindowShowsStream'
  <2>1. Window - shifted' >= RunBits + SizeBits + TwoTo(SizeBits) - 1
    <3>1. /\ RunBits \in Nat /\ SizeBits \in Nat /\ TwoTo(SizeBits) \in Nat
          /\ ByteBits \in Nat
          /\ RunBits + SizeBits + TwoTo(SizeBits) - 1 <= Window - (ByteBits - 1)
      BY Constants
    <3> QED
      BY <1>3, <1>5, <3>1
  <2>2. \A n : StreamBit(n)' = StreamBit(n)
    BY <1>1 DEF StreamBit
  <2>3. PICK from : from = Consumed + Window
    OBVIOUS
  <2>4. \A k \in 1 .. Window :
          window'[k] = IF k <= Window - shifted' THEN StreamBit(from + k)' ELSE 0
    BY <1>5, <2>2, <2>3
  <2> QED
    BY <1>5, <2>1, <2>3, <2>4 DEF WindowShowsStream
<1>9. ASSUME NothingLost'
      PROVE  stage' # "outside" /\ \E pos : Trace(pos)' /\ DecoderInv(pos)'
  <2>1. NothingLost
    BY <1>1, <1>9 DEF NothingLost
  <2>2. PICK pos : Trace(pos) /\ DecoderInv(pos)
    BY <2>1 DEF CodeIInv
  <2>3. \A n \in 1 .. bitcount : BitOut(n)' = BitOut(n)
    BY <1>1 DEF BitOut, StreamBit
  <2>4. Trace(pos)'
    BY <1>1, <1>2, <2>2, <2>3, TraceStays
  <2>5. Consumed' = 0 /\ 0 \in DOMAIN pos /\ pos[0] = <<1, 0>>
    BY <1>4, <1>5, <2>2 DEF Trace
  <2>6. DecodedUpTo(<<1, 0>>) /\ decoded \in [DOMAIN blocks -> [0 .. Last -> Int]]
    BY <1>1, <2>2 DEF DecoderInv
  <2>7. DecodedUpTo(at)'
    BY <1>1, <2>6 DEF DecodedUpTo
  <2>8. DecoderInv(pos)'
    BY <1>1, <2>5, <2>6, <2>7 DEF DecoderInv
  <2> QED
    BY <1>1, <2>4, <2>8
<1> QED
  BY <1>1, <1>6, <1>7, <1>8, <1>9 DEF CodeIInv

(* What the decoder has stored, when it passes over zeros,                 *)
LEMMA Skipped ==
  ASSUME CodeTypeOK, UNCHANGED <<blocks, decoded>>, DecodedUpTo(at),
         at[1] \in 1 .. Len(blocks), at[2] \in 0 .. Last,
         NEW k \in at[2] .. Last + 1, Zeros(at[1], at[2], k - 1),
         NEW to, to = <<at[1], k>> \/ (k = Last + 1 /\ to = <<at[1] + 1, 0>>)
  PROVE  DecodedUpTo(to)'
<1>1. /\ DOMAIN blocks = 1 .. Len(blocks) /\ Len(blocks) \in Nat /\ Last \in Nat
      /\ at[1] \in Nat /\ at[2] \in Nat /\ k \in Nat
  BY BlockValues, Constants
<1>2. ASSUME NEW b \in DOMAIN blocks, NEW j \in 0 .. Last
      PROVE  decoded[b][j] = IF b < to[1] \/ (b = to[1] /\ j < to[2]) THEN blocks[b][j] ELSE 0
  <2>1. decoded[b][j] = IF b < at[1] \/ (b = at[1] /\ j < at[2]) THEN blocks[b][j] ELSE 0
    BY DEF DecodedUpTo
  <2>2. b \in Nat /\ j \in Nat /\ j <= Last
    BY <1>1
  <2>3. (b < to[1] \/ (b = to[1] /\ j < to[2])) <=> (b < at[1] \/ (b = at[1] /\ j < k))
    BY <1>1, <2>2
  <2>4. b = at[1] /\ at[2] <= j /\ j < k => blocks[b][j] = 0
    BY <1>1, <2>2 DEF Zeros
  <2> QED
    BY <1>1, <2>1, <2>2, <2>3, <2>4
<1> QED
  BY <1>2 DEF DecodedUpTo

(* and when it stores the value behind them.                               *)
LEMMA Stored ==
  ASSUME CodeTypeOK, blocks' = blocks, decoded \in [DOMAIN blocks -> [0 .. Last -> Int]],
         DecodedUpTo(at), at[1] \in 1 .. Len(blocks), at[2] \in 0 .. Last,
         NEW k \in at[2] .. Last, Zeros(at[1], at[2], k - 1), Store(k, blocks[at[1]][k]),
         NEW to, to = <<at[1], k + 1>> \/ (k = Last /\ to = <<at[1] + 1, 0>>)
  PROVE  DecodedUpTo(to)' /\ decoded' \in [DOMAIN blocks -> [0 .. Last -> Int]]
<1>1. /\ DOMAIN blocks = 1 .. Len(blocks) /\ Len(blocks) \in Nat /\ Last \in Nat
      /\ at[1] \in Nat /\ at[2] \in Nat /\ k \in Nat /\ k \in 0 .. Last
  <2>1. DOMAIN blocks = 1 .. Len(blocks) /\ Len(blocks) \in Nat /\ Last \in Nat
    BY BlockValues, Constants
  <2> QED
    BY <2>1
<1>2. PICK e, a : e = blocks[at[1]][k] /\ a = at[1]
  OBVIOUS
<1>3. decoded' = [decoded EXCEPT ![a][k] = e] /\ a \in DOMAIN blocks
  <2>1. a \in DOMAIN blocks
    BY <1>1, <1>2
  <2>2. decoded' = [decoded EXCEPT ![a][k] = e]
    BY <1>2, Zenon DEF Store
  <2> QED
    BY <2>1, <2>2
<1>4. e \in Int
  <2>1. e \in Amplitudes
    BY <1>1, <1>2, BlockValues
  <2>2. TwoTo(MaxSize) \in Nat
    BY Constants, TwoToPositive
  <2> QED
    BY <2>1, <2>2 DEF Amplitudes
<1>5. decoded' \in [DOMAIN blocks -> [0 .. Last -> Int]]
  BY <1>1, <1>3, <1>4
<1>6. \A b \in DOMAIN blocks, j \in 0 .. Last :
        decoded'[b][j] = IF b = a /\ j = k THEN e ELSE decoded[b][j]
  BY <1>1, <1>3
<1>7. ASSUME NEW b \in DOMAIN blocks, NEW j \in 0 .. Last
      PROVE  decoded'[b][j] = IF b < to[1] \/ (b = to[1] /\ j < to[2]) THEN blocks[b][j] ELSE 0
  <2>1. decoded[b][j] = IF b < a \/ (b = a /\ j < at[2]) THEN blocks[b][j] ELSE 0
    BY <1>2 DEF DecodedUpTo
  <2>2. b \in Nat /\ j \in Nat /\ j <= Last
    BY <1>1
  <2>3. (b < to[1] \/ (b = to[1] /\ j < to[2])) <=> (b < a \/ (b = a /\ j <= k))
    <3>1. CASE to = <<at[1], k + 1>>
      <4>1. to[1] = a /\ to[2] = k + 1
        BY <1>2, <3>1
      <4>2. j \in Int /\ k \in Int
        BY <1>1, <2>2
      <4>3. j < k + 1 <=> j <= k
        BY <4>2
      <4> QED
        BY <4>1, <4>3
    <3>2. CASE k = Last /\ to = <<at[1] + 1, 0>>
      <4>1. to[1] = a + 1 /\ to[2] = 0
        BY <1>2, <3>2
      <4>2. ~(j < 0) /\ j <= k /\ (b < a + 1 <=> b < a \/ b = a)
        BY <1>1, <1>2, <2>2, <3>2
      <4> QED
        BY <4>1, <4>2
    <3> QED
      BY <3>1, <3>2
  <2>4. b = a /\ at[2] <= j /\ j < k => blocks[b][j] = 0
    BY <1>1, <1>2, <2>2 DEF Zeros
  <2>5. CASE b = a /\ j = k
    BY <1>2, <1>6, <2>2, <2>3, <2>5
  <2>6. CASE ~(b = a /\ j = k)
    <3>1. decoded'[b][j] = decoded[b][j]
      BY <1>6, <2>6
    <3>2. /\ b < a \/ (b = a /\ j < at[2]) => b < a \/ (b = a /\ j <= k)
          /\ (b < a \/ (b = a /\ j <= k)) /\ ~(b < a \/ (b = a /\ j < at[2]))
               => b = a /\ at[2] <= j /\ j < k
      BY <1>1, <1>2, <2>2, <2>6
    <3> QED
      BY <2>1, <2>3, <2>4, <3>1, <3>2
  <2> QED
    BY <2>5, <2>6
<1> QED
  BY <1>5, <1>7 DEF DecodedUpTo

(* What the decoder reads are numbers, whatever the bits are.              *)
LEMMA ReadsNumbers ==
  ASSUME CodeIInv, stage = "decode"
  PROVE  /\ InputBits(window, 0, SizeBits) \in Nat
         /\ RunHere \in Nat /\ SizeHere \in Nat
<1>1. /\ \A k \in 1 .. Window : window[k] \in {0, 1}
      /\ RunBits + SizeBits + TwoTo(SizeBits) - 1 <= Window - shifted
      /\ shifted \in Nat /\ Window \in Nat
  BY WindowIs
<1>2. RunBits \in Nat /\ SizeBits \in Nat /\ TwoTo(SizeBits) \in Nat \ {0} /\ TwoTo(RunBits) \in Nat
  BY Constants, TwoToPositive
<1>3. RunBits + SizeBits <= Window
  BY <1>1, <1>2
<1>4. /\ \A k \in 1 .. SizeBits : window[0 + k] \in {0, 1}
      /\ \A k \in 1 .. RunBits : window[0 + k] \in {0, 1}
      /\ \A k \in 1 .. SizeBits : window[RunBits + k] \in {0, 1}
  <2>1. /\ \A k \in 1 .. SizeBits : 0 + k \in 1 .. Window
        /\ \A k \in 1 .. RunBits : 0 + k \in 1 .. Window
        /\ \A k \in 1 .. SizeBits : RunBits + k \in 1 .. Window
    BY <1>1, <1>2, <1>3
  <2> QED
    BY <1>1, <2>1
<1>5. InputBits(window, 0, SizeBits) \in 0 .. TwoTo(SizeBits) - 1
  BY <1>2, <1>4, InputBitsType
<1>6. InputBits(window, 0, RunBits) \in 0 .. TwoTo(RunBits) - 1
  BY <1>2, <1>4, InputBitsType
<1>7. InputBits(window, RunBits, SizeBits) \in 0 .. TwoTo(SizeBits) - 1
  BY <1>2, <1>4, InputBitsType
<1> QED
  BY <1>2, <1>5, <1>6, <1>7 DEF RunHere, SizeHere

(* The actions of the decoder.                                              *)
LEMMA DecodeDCInv ==
  ASSUME CodeIInv, DecodeDC
  PROVE  CodeIInv'
<1> DEFINE size == InputBits(window, 0, SizeBits)
           value == IF size = 0 THEN 0
                    ELSE HUFF_EXTEND(InputBits(window, SizeBits, size), size)
<1>1. /\ Decoding /\ stage = "decode" /\ at[2] = 0 /\ stage' = "decode"
      /\ Store(0, value) /\ UpdateBuffer(SizeBits + size) /\ at' = <<at[1], 1>>
      /\ UNCHANGED <<blocks, encoderVars, junk>>
  BY DEF DecodeDC, Decoding
<1>2. SizeBits + size \in Nat
  <2>1. size \in Nat /\ SizeBits \in Nat
    BY <1>1, ReadsNumbers, Constants
  <2> QED
    BY <2>1
<1>3. ASSUME NothingLost
      PROVE  \E pos : /\ Trace(pos) /\ Consumed + (SizeBits + size) \in DOMAIN pos
                      /\ \E to : /\ at' = to /\ pos[Consumed + (SizeBits + size)] = to
                                 /\ DecodedUpTo(to)'
                      /\ decoded' \in [DOMAIN blocks -> [0 .. Last -> Int]]
  <2>1. PICK pos : Trace(pos) /\ DecoderInv(pos)
    BY <1>3 DEF CodeIInv
  <2>2. /\ Consumed + (SizeBits + size) \in DOMAIN pos
        /\ pos[Consumed + (SizeBits + size)] = <<at[1], 1>>
        /\ blocks[at[1]][0] = value
    BY <1>1, <1>3, <2>1, ReadDC
  <2>3. CodeTypeOK /\ DecodedUpTo(at) /\ decoded \in [DOMAIN blocks -> [0 .. Last -> Int]]
    BY <1>1, <2>1 DEF CodeIInv, DecoderInv
  <2>4. at[1] \in 1 .. Len(blocks) /\ at[2] \in 0 .. Last
    BY <1>1, <1>3, <2>1, NextSymbol
  <2> HIDE DEF size, value
  <2>5. Store(0, blocks[at[1]][0])
    BY <1>1, <2>2, Zenon
  <2>6. PICK to : to = <<at[1], 0 + 1>>
    OBVIOUS
  <2>7. DecodedUpTo(to)' /\ decoded' \in [DOMAIN blocks -> [0 .. Last -> Int]]
    <3>1. 0 \in at[2] .. Last /\ blocks' = blocks
      BY <1>1, Constants
    <3>2. Zeros(at[1], at[2], 0 - 1)
      BY <1>1 DEF Zeros
    <3> QED
      BY <2>3, <2>4, <2>5, <2>6, <3>1, <3>2, Stored
  <2>8. to = <<at[1], 1>>
    BY <2>6
  <2> QED
    BY <1>1, <2>1, <2>2, <2>7, <2>8
<1> HIDE DEF size, value
<1> QED
  BY <1>1, <1>2, <1>3, TraceFollowed

(* Sixteen zeros.                                                           *)
LEMMA DecodeZRLInv ==
  ASSUME CodeIInv, DecodeZRL
  PROVE  CodeIInv'
<1>1. /\ ACHere /\ Decoding /\ stage = "decode" /\ stage' = "decode"
      /\ SizeHere = 0 /\ RunHere = MaxRun
      /\ UpdateBuffer(RunBits + SizeBits) /\ at' = <<at[1], at[2] + MaxRun + 1>>
      /\ UNCHANGED <<blocks, encoderVars, junk, decoded>>
  BY DEF DecodeZRL, ACHere, Decoding
<1>2. RunBits + SizeBits \in Nat
  BY Constants
<1>3. ASSUME NothingLost
      PROVE  \E pos : /\ Trace(pos) /\ Consumed + (RunBits + SizeBits) \in DOMAIN pos
                      /\ \E to : /\ at' = to /\ pos[Consumed + (RunBits + SizeBits)] = to
                                 /\ DecodedUpTo(to)'
                      /\ decoded' \in [DOMAIN blocks -> [0 .. Last -> Int]]
  <2>1. PICK pos : Trace(pos) /\ DecoderInv(pos)
    BY <1>3 DEF CodeIInv
  <2>2. PICK m \in DOMAIN pos, k \in at[2] .. Last :
          /\ Zeros(at[1], at[2], k - 1) /\ at[2] + MaxRun + 1 <= k
          /\ pos[m] = <<at[1], at[2] + MaxRun + 1>> /\ m = Consumed + (RunBits + SizeBits)
    BY <1>1, <1>3, <2>1, ReadAC
  <2>3. CodeTypeOK /\ DecodedUpTo(at) /\ decoded \in [DOMAIN blocks -> [0 .. Last -> Int]]
    BY <1>1, <2>1 DEF CodeIInv, DecoderInv
  <2>4. at[1] \in 1 .. Len(blocks) /\ at[2] \in 0 .. Last
    BY <1>1, <1>3, <2>1, NextSymbol
  <2>5. PICK j : j = at[2] + MaxRun + 1
    OBVIOUS
  <2>6. j \in at[2] .. Last + 1 /\ j - 1 <= k - 1 /\ k \in Int /\ j \in Int
    <3>1. at[2] \in Nat /\ Last \in Nat /\ MaxRun \in Nat
      BY <2>4, Constants
    <3> QED
      BY <2>2, <2>5, <3>1
  <2>7. Zeros(at[1], at[2], j - 1)
    <3>1. at[2] .. j - 1 \subseteq at[2] .. k - 1
      BY <2>4, <2>6
    <3> QED
      BY <2>2, <3>1 DEF Zeros
  <2>8. PICK to : to = <<at[1], j>>
    OBVIOUS
  <2>9. DecodedUpTo(to)'
    <3>1. UNCHANGED <<blocks, decoded>>
      BY <1>1
    <3> QED
      BY <2>3, <2>4, <2>6, <2>7, <2>8, <3>1, Skipped
  <2> QED
    BY <1>1, <2>1, <2>2, <2>3, <2>5, <2>8, <2>9
<1> QED
  BY <1>1, <1>2, <1>3, TraceFollowed

(* Nothing but zeros.                                                       *)
LEMMA DecodeENDInv ==
  ASSUME CodeIInv, DecodeEND
  PROVE  CodeIInv'
<1>1. /\ ACHere /\ Decoding /\ stage = "decode" /\ stage' = "decode"
      /\ SizeHere = 0 /\ RunHere # MaxRun
      /\ UpdateBuffer(RunBits + SizeBits) /\ at' = <<at[1] + 1, 0>>
      /\ UNCHANGED <<blocks, encoderVars, junk, decoded>>
  BY DEF DecodeEND, ACHere, Decoding, NextBlock
<1>2. RunBits + SizeBits \in Nat
  BY Constants
<1>3. ASSUME NothingLost
      PROVE  \E pos : /\ Trace(pos) /\ Consumed + (RunBits + SizeBits) \in DOMAIN pos
                      /\ \E to : /\ at' = to /\ pos[Consumed + (RunBits + SizeBits)] = to
                                 /\ DecodedUpTo(to)'
                      /\ decoded' \in [DOMAIN blocks -> [0 .. Last -> Int]]
  <2>1. PICK pos : Trace(pos) /\ DecoderInv(pos)
    BY <1>3 DEF CodeIInv
  <2>2. PICK m \in DOMAIN pos :
          /\ Zeros(at[1], at[2], Last)
          /\ pos[m] = <<at[1] + 1, 0>> /\ m = Consumed + (RunBits + SizeBits)
    BY <1>1, <1>3, <2>1, ReadAC
  <2>3. CodeTypeOK /\ DecodedUpTo(at) /\ decoded \in [DOMAIN blocks -> [0 .. Last -> Int]]
    BY <1>1, <2>1 DEF CodeIInv, DecoderInv
  <2>4. at[1] \in 1 .. Len(blocks) /\ at[2] \in 0 .. Last
    BY <1>1, <1>3, <2>1, NextSymbol
  <2>5. Last + 1 \in at[2] .. Last + 1 /\ (Last + 1) - 1 = Last
    BY <2>4, Constants
  <2>6. PICK to : to = <<at[1] + 1, 0>>
    OBVIOUS
  <2>7. DecodedUpTo(to)'
    <3>1. UNCHANGED <<blocks, decoded>>
      BY <1>1
    <3> QED
      BY <2>2, <2>3, <2>4, <2>5, <2>6, <3>1, Skipped
  <2> QED
    BY <1>1, <2>1, <2>2, <2>3, <2>6, <2>7
<1> QED
  BY <1>1, <1>2, <1>3, TraceFollowed

(* A coefficient; never beyond the block.                                   *)
LEMMA DecodeACInv ==
  ASSUME CodeIInv, DecodeAC
  PROVE  CodeIInv'
<1>1. /\ ACHere /\ Decoding /\ stage = "decode" /\ stage' \in {"decode", "outside"}
      /\ SizeHere # 0 /\ UpdateBuffer(RunBits + SizeBits + SizeHere)
      /\ UNCHANGED <<blocks, encoderVars, junk>>
      /\ \/ at[2] + RunHere > Last
         \/ /\ Store(at[2] + RunHere, ValueHere)
            /\ at' = IF at[2] + RunHere >= Last THEN <<at[1] + 1, 0>>
                     ELSE <<at[1], at[2] + RunHere + 1>>
            /\ stage' = "decode"
  <2>1. ACHere /\ SizeHere # 0 /\ UpdateBuffer(RunBits + SizeBits + SizeHere)
        /\ UNCHANGED <<blocks, encoderVars, junk>>
    BY DEF DecodeAC
  <2>2. Decoding /\ stage = "decode"
    BY <2>1 DEF ACHere, Decoding
  <2>3. \/ at[2] + RunHere > Last /\ stage' = "outside"
        \/ /\ Store(at[2] + RunHere, ValueHere)
           /\ at' = IF at[2] + RunHere >= Last THEN <<at[1] + 1, 0>>
                    ELSE <<at[1], at[2] + RunHere + 1>>
           /\ stage' = "decode"
    BY <2>2 DEF DecodeAC, AtLast, NextBlock
  <2> QED
    BY <2>1, <2>2, <2>3
<1>2. RunBits + SizeBits + SizeHere \in Nat
  <2>1. SizeHere \in Nat /\ RunBits \in Nat /\ SizeBits \in Nat
    BY <1>1, ReadsNumbers, Constants
  <2> QED
    BY <2>1
<1> DEFINE size == RunBits + SizeBits + SizeHere
<1>3. ASSUME NothingLost
      PROVE  /\ stage' = "decode"
             /\ \E pos : /\ Trace(pos) /\ Consumed + size \in DOMAIN pos
                         /\ \E to : /\ at' = to /\ pos[Consumed + size] = to
                                    /\ DecodedUpTo(to)'
                         /\ decoded' \in [DOMAIN blocks -> [0 .. Last -> Int]]
  <2>1. PICK pos : Trace(pos) /\ DecoderInv(pos)
    BY <1>3 DEF CodeIInv
  <2>2. PICK m \in DOMAIN pos, k \in at[2] .. Last :
          /\ Zeros(at[1], at[2], k - 1) /\ at[2] + RunHere = k
          /\ ValueHere = blocks[at[1]][k]
          /\ pos[m] = IF k = Last THEN <<at[1] + 1, 0>> ELSE <<at[1], k + 1>>
          /\ m = Consumed + size
    BY <1>1, <1>3, <2>1, ReadAC
  <2>3. CodeTypeOK /\ DecodedUpTo(at) /\ decoded \in [DOMAIN blocks -> [0 .. Last -> Int]]
    BY <1>1, <2>1 DEF CodeIInv, DecoderInv
  <2>4. at[1] \in 1 .. Len(blocks) /\ at[2] \in 0 .. Last
    BY <1>1, <1>3, <2>1, NextSymbol
  <2>5. ~(k > Last) /\ (k >= Last <=> k = Last)
    <3>1. at[2] \in Nat /\ Last \in Nat
      BY <2>4, Constants
    <3> QED
      BY <2>2, <3>1
  <2>6. PICK to : to = IF k = Last THEN <<at[1] + 1, 0>> ELSE <<at[1], k + 1>>
    OBVIOUS
  <2>7. at' = to /\ stage' = "decode"
    BY <1>1, <2>2, <2>5, <2>6
  <2>8. Store(k, blocks[at[1]][k])
    BY <1>1, <2>2, <2>5
  <2>9. DecodedUpTo(to)' /\ decoded' \in [DOMAIN blocks -> [0 .. Last -> Int]]
    <3>1. blocks' = blocks
      BY <1>1
    <3> QED
      BY <2>2, <2>3, <2>4, <2>6, <2>8, <3>1, Stored
  <2> HIDE DEF size
  <2> QED
    BY <2>1, <2>2, <2>6, <2>7, <2>9
<1> HIDE DEF size
<1>4. size \in Nat /\ UpdateBuffer(size)
  BY <1>1, <1>2 DEF size
<1> QED
  BY <1>1, <1>3, <1>4, TraceFollowed

(* Behind the last block the decoder has got to the end of the trace.       *)
LEMMA FinishDecodingInv ==
  ASSUME CodeIInv, FinishDecoding
  PROVE  CodeIInv'
<1>1. /\ stage = "decode" /\ at[1] > Len(blocks) /\ stage' = "done"
      /\ UNCHANGED <<blocks, at, bitcount, bitbuffer, stream, junk>>
      /\ UNCHANGED <<window, shifted, taken, decoded>>
  BY DEF FinishDecoding, encoderVars, decoderVars
<1>2. CodeTypeOK /\ PendingInv /\ WindowShowsStream
  BY DEF CodeIInv
<1>3. CodeTypeOK' /\ PendingInv'
  BY <1>1, <1>2 DEF CodeTypeOK, PendingInv, NothingLost
<1>4. WindowShowsStream'
  BY <1>1, <1>2 DEF WindowShowsStream, StreamBit, Consumed
<1>5. ASSUME NothingLost'
      PROVE  stage' # "outside" /\ \E pos : Trace(pos)' /\ DecoderInv(pos)'
  <2>1. NothingLost
    BY <1>1, <1>5 DEF NothingLost
  <2>2. PICK pos : Trace(pos) /\ DecoderInv(pos)
    BY <2>1 DEF CodeIInv
  <2>3. \A n \in 1 .. bitcount : BitOut(n)' = BitOut(n)
    BY <1>1 DEF BitOut, StreamBit
  <2>4. Trace(pos)'
    BY <1>1, <1>2, <2>2, <2>3, TraceStays
  <2>5. Consumed \in DOMAIN pos /\ pos[Consumed] = at /\ Consumed' = Consumed
    BY <1>1, <2>2 DEF DecoderInv, Consumed
  <2>6. at = End
    <3>1. at \in Positions
      BY <2>2, <2>5 DEF Trace
    <3> QED
      BY <1>1, <1>2, <3>1, BlockValues DEF Positions, End
  <2>7. DecodedUpTo(at)' /\ decoded \in [DOMAIN blocks -> [0 .. Last -> Int]]
    BY <1>1, <2>2 DEF DecoderInv, DecodedUpTo
  <2>8. at' = End'
    BY <1>1, <2>6 DEF End
  <2> HIDE DEF Consumed
  <2>9. DecoderInv(pos)'
    BY <1>1, <2>5, <2>7, <2>8 DEF DecoderInv
  <2> QED
    BY <1>1, <2>4, <2>9
<1> QED
  BY <1>1, <1>3, <1>4, <1>5 DEF CodeIInv

(* A step that changes nothing.                                             *)
LEMMA CodeStutters ==
  ASSUME CodeIInv, UNCHANGED codeVars
  PROVE  CodeIInv'
<1>1. UNCHANGED <<blocks, stage, at, bitcount, bitbuffer, stream, junk, window, shifted,
                  taken, decoded>>
  BY DEF codeVars, encoderVars, decoderVars
<1>2. CodeTypeOK' /\ PendingInv'
  BY <1>1 DEF CodeIInv, CodeTypeOK, PendingInv, NothingLost
<1>3. WindowShowsStream'
  BY <1>1 DEF CodeIInv, WindowShowsStream, StreamBit, Consumed
<1>4. ASSUME stage' = "encode" \/ NothingLost'
      PROVE  stage' # "outside" /\ \E pos : Trace(pos)' /\ DecoderInv(pos)'
  <2>1. stage = "encode" \/ NothingLost
    BY <1>1, <1>4 DEF NothingLost
  <2>2. PICK pos : Trace(pos) /\ DecoderInv(pos)
    BY <2>1 DEF CodeIInv
  <2>3. \A n : BitOut(n)' = BitOut(n)
    BY <1>1 DEF BitOut, StreamBit
  <2>4. Trace(pos)'
    BY <1>1, <2>2, <2>3, TraceStays DEF CodeIInv
  <2>5. DecoderInv(pos)'
    BY <1>1, <2>2 DEF DecoderInv, DecodedUpTo, Consumed, End
  <2>6. stage' # "outside"
    BY <1>1, <2>1 DEF CodeIInv
  <2> QED
    BY <2>4, <2>5, <2>6
<1> QED
  BY <1>2, <1>3, <1>4 DEF CodeIInv

(* Whatever is encoded: the stream's bits are the codes of the symbols, in *)
(* the order of the coefficients, and the decoder follows their trace.     *)
THEOREM CodeInvariant == CodeSpec => []CodeIInv
<1>1. CodeInit => CodeIInv
  BY CodeInitInv
<1>2. CodeIInv /\ [CodeNext]_codeVars => CodeIInv'
  <2> SUFFICES ASSUME CodeIInv, [CodeNext]_codeVars PROVE CodeIInv'
    OBVIOUS
  <2>1. CASE EncodeDC
    BY <2>1, EncodeDCInv
  <2>2. CASE EncodeZRL
    BY <2>2, EncodeZRLInv
  <2>3. CASE EncodeAC
    BY <2>3, EncodeACInv
  <2>4. CASE EncodeEND
    BY <2>4, EncodeENDInv
  <2>5. CASE OutputRest
    BY <2>5, OutputRestInv
  <2>6. CASE StartDecoding
    BY <2>6, StartDecodingInv
  <2>7. CASE DecodeDC
    BY <2>7, DecodeDCInv
  <2>8. CASE DecodeZRL
    BY <2>8, DecodeZRLInv
  <2>9. CASE DecodeEND
    BY <2>9, DecodeENDInv
  <2>10. CASE DecodeAC
    BY <2>10, DecodeACInv
  <2>11. CASE FinishDecoding
    BY <2>11, FinishDecodingInv
  <2>12. CASE UNCHANGED codeVars
    BY <2>12, CodeStutters
  <2> QED
    BY <2>1, <2>2, <2>3, <2>4, <2>5, <2>6, <2>7, <2>8, <2>9, <2>10, <2>11, <2>12
    DEF CodeNext, EncodeBlocks, DecodeBlocks
<1> QED
  BY <1>1, <1>2, PTL DEF CodeSpec

(* The decoder's window shows the next bits of the stream, and always has  *)
(* room for the longest symbol (lossless_decode.c:139-162).                *)
THEOREM WindowTheorem == CodeSpec => []WindowShowsStream
<1>1. CodeIInv => WindowShowsStream
  BY DEF CodeIInv
<1> QED
  BY <1>1, CodeInvariant, PTL

(* Any blocks come back as they went in, if no bit of them was lost.       *)
THEOREM RoundTripTheorem == CodeSpec => []RoundTrip
<1>1. ASSUME CodeIInv PROVE RoundTrip
  <2> SUFFICES ASSUME stage = "done", NothingLost
               PROVE  decoded = blocks /\ Consumed = bitcount
    BY DEF RoundTrip
  <2>1. PICK pos : Trace(pos) /\ DecoderInv(pos)
    BY <1>1 DEF CodeIInv
  <2>2. CodeTypeOK /\ at = End /\ DecodedUpTo(at)
    BY <1>1, <2>1 DEF CodeIInv, DecoderInv
  <2>3. decoded = blocks
    <3>1. /\ Len(blocks) \in Nat /\ DOMAIN blocks = 1 .. Len(blocks)
          /\ blocks \in Seq([0 .. Last -> Amplitudes])
      BY <2>2, BlockValues, LosslessAssumption DEF CodeTypeOK, Amplitudes
    <3>2. decoded \in [DOMAIN blocks -> [0 .. Last -> Int]]
      BY <2>1 DEF DecoderInv
    <3>3. ASSUME NEW b \in DOMAIN blocks
          PROVE  decoded[b] = blocks[b]
      <4>1. b < at[1]
        BY <2>2, <3>1 DEF End
      <4>2. \A k \in 0 .. Last : decoded[b][k] = blocks[b][k]
        BY <2>2, <4>1 DEF DecodedUpTo
      <4>3. decoded[b] \in [0 .. Last -> Int] /\ blocks[b] \in [0 .. Last -> Amplitudes]
        BY <3>1, <3>2
      <4>4. /\ decoded[b] = [k \in 0 .. Last |-> decoded[b][k]]
            /\ blocks[b] = [k \in 0 .. Last |-> blocks[b][k]]
        BY <4>3
      <4> QED
        BY <4>2, <4>4
    <3>4. blocks = [b \in DOMAIN blocks |-> blocks[b]]
      BY <3>1
    <3> QED
      BY <3>2, <3>3, <3>4
  <2>4. Consumed \in DOMAIN pos /\ pos[Consumed] = End
    BY <2>1, <2>2 DEF DecoderInv
  <2>5. bitcount \in Nat /\ Consumed \in 0 .. bitcount /\ ~(Consumed < bitcount)
    <3>1. bitcount \in Nat
      BY <2>2 DEF CodeTypeOK
    <3> HIDE DEF Consumed
    <3> QED
      BY <2>1, <2>4, <3>1 DEF Trace
  <2> HIDE DEF Consumed
  <2>6. Consumed = bitcount
    BY <2>5
  <2> QED
    BY <2>3, <2>6
<1> QED
  BY <1>1, CodeInvariant, PTL

(* The decoder stores inside its blocks, and reads at most a window beyond *)
(* the stream.                                                             *)
THEOREM BuffersTheorem == CodeSpec => []StaysInBuffers
<1>1. ASSUME CodeIInv PROVE StaysInBuffers
  <2> SUFFICES ASSUME NothingLost
               PROVE  /\ stage # "outside"
                      /\ stage \in {"decode", "done"} =>
                           (taken - WindowBytes) * ByteBits <= Len(stream)
    BY DEF StaysInBuffers
  <2>1. stage # "outside"
    BY <1>1 DEF CodeIInv
  <2>2. ASSUME stage \in {"decode", "done"}
        PROVE  (taken - WindowBytes) * ByteBits <= Len(stream)
    <3>1. PICK pos : Trace(pos) /\ DecoderInv(pos)
      BY <1>1 DEF CodeIInv
    <3>2. CodeTypeOK /\ bitcount <= Len(stream) /\ bitcount \in Nat /\ Len(stream) \in Nat
      BY <1>1, <2>2 DEF CodeIInv, CodeTypeOK, PendingInv
    <3>3. Consumed \in 0 .. bitcount
      <4>1. Consumed \in DOMAIN pos
        BY <2>2, <3>1 DEF DecoderInv
      <4> HIDE DEF Consumed
      <4> QED
        BY <3>1, <4>1 DEF Trace
    <3>4. /\ taken \in Nat /\ shifted \in Nat /\ Window \in Nat /\ ByteBits \in Nat \ {0}
          /\ WindowBytes \in Nat /\ Window = WindowBytes * ByteBits
      BY <3>2, Constants DEF CodeTypeOK
    <3>5. (taken - WindowBytes) * ByteBits = taken * ByteBits - WindowBytes * ByteBits
      BY <3>4, Z3
    <3>6. taken * ByteBits \in Int
      BY <3>4, Multiples
    <3>7. Consumed = taken * ByteBits - (Window - shifted)
      BY DEF Consumed
    <3> HIDE DEF Consumed
    <3> QED
      BY <3>2, <3>3, <3>4, <3>5, <3>6, <3>7
  <2> QED
    BY <2>1, <2>2
<1> QED
  BY <1>1, CodeInvariant, PTL
=============================================================================
