----------------------------- MODULE VideoFile -----------------------------
(***************************************************************************)
(* A video file from end to end: the frame loop of mjpeg423_encode()       *)
(* (mjpeg423_encoder.c:91-225), which chooses between I- and P-frames and  *)
(* writes header, frames and trailer, and the reader on core 1 (main.c),   *)
(* which finds its way through the file by what is written in it and       *)
(* decodes frame after frame in place, or goes to an I-frame.              *)
(*                                                                         *)
(* A picture is what the quantiser sees of a frame: a few blocks with      *)
(* their DC and one AC coefficient, already divided and rounded.  How long *)
(* the two codings of a frame come out is a choice.                        *)
(***************************************************************************)
EXTENDS IframeTable

CONSTANTS num_frames,   (* the frames of the video                         *)
          Blocks,       (* blocks in a picture                             *)
          Pictures,     (* the pictures considered                         *)
          CodedSizes    (* the pairs <<I, P>> of sizes in bytes considered *)

ASSUME VideoFileAssumption ==
  /\ num_frames \in Nat \ {0}
  /\ Blocks \in Nat \ {0}
  /\ Pictures \subseteq [1 .. Blocks -> [dc : Int, ac : Int]]
  /\ CodedSizes \subseteq Nat \X Nat

VARIABLES
  source,         (* the pictures encoded so far                           *)
  last_iframe, prev, trailer, file_position,   (* locals of the encoder    *)
  file,           (* what begins at each offset of the file                *)
  offset,         (* where the encoder's next write goes                   *)
  header,         (* num_iframes and payload_size as the header has them   *)
  pc,             (* "encode", "load", "read"                              *)
  position,       (* of the reader in the file                             *)
  next,           (* the number of the frame the player believes is next   *)
  table,          (* mpegTrailer.iframe_info                               *)
  coefficients    (* what the last frame was decoded to                    *)

encoder == <<source, last_iframe, prev, trailer, file_position, file, offset, header>>
vars == <<encoder, pc, position, next, table, coefficients>>

SizeOfHeader == 20        (* five words                                    *)
SizeOfFrameHeader == 16   (* four words                                    *)

frame == Len(source)      (* frame_index of the loop                       *)

-----------------------------------------------------------------------------
(* Coding.  An I-frame holds the DCs as differences from block to block, a *)
(* P-frame everything as differences to the frame before.                  *)

quantize_I(picture) ==
  [b \in 1 .. Blocks |->
    [dc |-> picture[b].dc - (IF b = 1 THEN 0 ELSE picture[b - 1].dc),
     ac |-> picture[b].ac]]

quantize_P(before, picture) ==
  [b \in 1 .. Blocks |-> [dc |-> picture[b].dc - before[b].dc,
                          ac |-> picture[b].ac - before[b].ac]]

(* Decoding an I-frame clears the blocks and adds the DCs up; a P-frame is *)
(* added to what is there.                                                 *)
SumsOfDCs(coded) ==
  LET cur[b \in 0 .. Blocks] == IF b = 0 THEN 0 ELSE cur[b - 1] + coded[b].dc
  IN  cur

lossless_decode(type, coded, before) ==
  IF type = "P"
  THEN [b \in 1 .. Blocks |-> [dc |-> before[b].dc + coded[b].dc,
                               ac |-> before[b].ac + coded[b].ac]]
  ELSE [b \in 1 .. Blocks |-> [dc |-> SumsOfDCs(coded)[b], ac |-> coded[b].ac]]

-----------------------------------------------------------------------------
(* The encoder *)

(* An I-frame is taken for the first frame, if it is no longer than the    *)
(* P-frame, or if the last one is too far back.                            *)
TakeIframeTooLate(sizeI, sizeP) ==    (* mutant: > for >= *)
  \/ frame = 0
  \/ sizeI <= sizeP
  \/ frame - last_iframe > MAX_IFRAME_OFFSET
TakeIframe(sizeI, sizeP) ==
  \/ frame = 0
  \/ sizeI <= sizeP
  \/ frame - last_iframe >= MAX_IFRAME_OFFSET

(* frame_size: with the header, and a multiple of four.                    *)
FrameSize(bytes) == ((bytes + SizeOfFrameHeader + 3) \div 4) * 4

(* What is written behind the coded blocks to reach that size.             *)
Padding(bytes) == FrameSize(bytes) - bytes - SizeOfFrameHeader

(* The reference for the next P-frame.  After an I-frame it is what        *)
(* quantize_I left in DCACq_next; otherwise quantize_P has put the         *)
(* quantised picture in the place of its reference.                        *)
KeepIframe(type, picture) ==    (* mutant: P-frames all refer to the I-frame *)
  IF type = "I" THEN picture ELSE prev
Reference(type, picture) == picture

RowAfterFrame(size) == <<frame, file_position + size>> (* mutant: row made too late *)
TrailerRow(size) == <<frame, file_position>>

EncodeFrame(picture, sizes) ==
  LET type == IF TakeIframe(sizes[1], sizes[2]) THEN "I" ELSE "P"
      bytes == IF type = "I" THEN sizes[1] ELSE sizes[2]
      size == FrameSize(bytes)
      coded == IF type = "I" THEN quantize_I(picture) ELSE quantize_P(prev, picture)
      written == [kind |-> "frame", type |-> type, frame_size |-> size,
                  coded |-> coded, number |-> frame]   (* number: for the properties *)
  IN  /\ pc = "encode"
      /\ frame < num_frames
      /\ source' = Append(source, picture)
      /\ last_iframe' = IF type = "I" THEN frame ELSE last_iframe
      /\ prev' = Reference(type, picture)
      /\ trailer' = IF type = "I" THEN Append(trailer, TrailerRow(size)) ELSE trailer
      /\ file_position' = file_position + size
      /\ file' = [p \in DOMAIN file \cup {offset} |-> IF p = offset THEN written ELSE file[p]]
      /\ offset' = offset + SizeOfFrameHeader + bytes + Padding(bytes)
      /\ UNCHANGED <<header, pc, position, next, table, coefficients>>

PayloadWithHeader == file_position   (* mutant: the header counted in *)
PayloadSize == file_position - SizeOfHeader

(* The trailer goes behind the last frame; then the header's last two      *)
(* fields are overwritten.                                                 *)
FinishFile ==
  /\ pc = "encode"
  /\ frame = num_frames
  /\ file' = [p \in DOMAIN file \cup {offset} |->
                IF p = offset THEN [kind |-> "trailer", rows |-> trailer] ELSE file[p]]
  /\ header' = [num_iframes |-> Len(trailer), payload_size |-> PayloadSize]
  /\ pc' = "load"
  /\ UNCHANGED <<source, last_iframe, prev, trailer, file_position, offset,
                 position, next, table, coefficients>>

-----------------------------------------------------------------------------
(* The reader *)

At(p, kind) == p \in DOMAIN file /\ file[p].kind = kind

(* Where load_mpeg_trailer() looks for the trailer.                        *)
TrailerPosition == header.payload_size + SizeOfHeader

(* Any video may be loaded again, at any time between two frames.          *)
LoadVideo ==
  /\ pc \in {"load", "read"}
  /\ At(TrailerPosition, "trailer")
  /\ table' = SubSeq(file[TrailerPosition].rows, 1, header.num_iframes)
  /\ position' = SizeOfHeader
  /\ next' = 0
  /\ pc' = "read"
  /\ UNCHANGED <<encoder, coefficients>>

(* The header is read, then the rest of the frame, as long as it says.     *)
ReadFrame ==
  /\ pc = "read"
  /\ next < num_frames
  /\ At(position, "frame")
  /\ LET here == file[position]
     IN  /\ coefficients' = lossless_decode(here.type, here.coded, coefficients)
         /\ position' = position + here.frame_size
  /\ next' = next + 1
  /\ UNCHANGED <<encoder, pc, table>>

(* A jump to the I-frame of a row; the player counts on from its number.   *)
SeekFrame(row) ==
  /\ pc = "read"
  /\ next' = row[1]
  /\ position' = row[2]
  /\ UNCHANGED <<encoder, pc, table, coefficients>>

-----------------------------------------------------------------------------
(* prev and the reader's coefficients begin as whatever was in memory.     *)
Init ==
  /\ source = <<>>
  /\ last_iframe = 0
  /\ prev \in Pictures
  /\ trailer = <<>>
  /\ file_position = SizeOfHeader
  /\ file = <<>>
  /\ offset = SizeOfHeader
  /\ header = [num_iframes |-> 0, payload_size |-> 0]
  /\ pc = "encode"
  /\ position = 0
  /\ next = 0
  /\ table = <<>>
  /\ coefficients \in Pictures

Encode == \/ \E picture \in Pictures, sizes \in CodedSizes : EncodeFrame(picture, sizes)
          \/ FinishFile

Read == \/ LoadVideo
        \/ ReadFrame
        \/ \E k \in 1 .. Len(table) : SeekFrame(table[k])

Next == Encode \/ Read

Spec == Init /\ [][Next]_vars

-----------------------------------------------------------------------------
(* Properties *)

TypeOK ==
  /\ source \in Seq(Pictures) /\ frame <= num_frames
  /\ last_iframe \in 0 .. num_frames - 1
  /\ prev \in Pictures
  /\ trailer \in Seq((0 .. num_frames - 1) \X Nat)
  /\ table \in Seq((0 .. num_frames - 1) \X Nat)
  /\ file_position \in Nat /\ offset \in Nat /\ position \in Nat
  /\ header.num_iframes \in Nat /\ header.payload_size \in Nat
  /\ pc \in {"encode", "load", "read"}
  /\ next \in 0 .. num_frames

(* Each row of the trailer is one of an I-frame with that number, at that  *)
(* offset: the position the encoder counts up is where fwrite() has got    *)
(* to (mjpeg423_encoder.c:203-209).                                        *)
RowsPointAtIframes ==
  \A k \in 1 .. Len(trailer) :
    LET p == trailer[k][2]
    IN  At(p, "frame") /\ file[p].type = "I" /\ file[p].number = trailer[k][1]

(* The finished trailer is a table as SeekTable and Player take it for     *)
(* granted: frame 0 first, and never MAX_IFRAME_OFFSET frames without a    *)
(* row (mjpeg423_encoder.c:155-157).                                       *)
TrailerIsVideo ==
  pc # "encode" =>
    IsVideo([frames |-> num_frames,
             iframes |-> [k \in 1 .. Len(trailer) |-> trailer[k][1]]])

(* The reader finds the trailer by the header, and before each read the    *)
(* file stands at the frame the player believes is next, however it has    *)
(* been played, sought and loaded (core1 main.c:77-113, 135-164).          *)
ReaderFindsItsPlace ==
  /\ pc # "encode" => At(TrailerPosition, "trailer")
  /\ pc = "read" => /\ Len(table) = Len(trailer)
                    /\ next < num_frames => /\ At(position, "frame")
                                            /\ file[position].number = next

(* What a frame is decoded to is the picture it was coded from: P-frames   *)
(* add up without drift, whatever was decoded before the I-frame they      *)
(* begin at.                                                               *)
NoDrift == [][ReadFrame => coefficients' = source[next']]_vars

-----------------------------------------------------------------------------
(* The inductive invariant of CodingProofs *)

(* The table so far: its last row is the last I-frame, and that is not too *)
(* far back.                                                               *)
TableInv ==
  /\ frame = 0 => trailer = <<>>
  /\ frame > 0 => /\ trailer # <<>>
                  /\ trailer[1][1] = 0
                  /\ trailer[Len(trailer)][1] = last_iframe
                  /\ frame - last_iframe \in 1 .. MAX_IFRAME_OFFSET
  /\ \A k \in 1 .. Len(trailer) - 1 :
       trailer[k + 1][1] - trailer[k][1] \in 1 .. MAX_IFRAME_OFFSET

(* No row is later than the distances of I-frames allow.                   *)
EarlyInv ==
  \A k \in 1 .. Len(trailer) : trailer[k][1] <= (k - 1) * MAX_IFRAME_OFFSET

(* The frames lie end to end, in order, from the header to the place the   *)
(* encoder writes at next.                                                 *)
Follows(p, number) ==
  IF number = frame THEN p = offset ELSE At(p, "frame") /\ file[p].number = number

ChainInv ==
  /\ Follows(SizeOfHeader, 0)
  /\ \A p \in DOMAIN file : p \in Nat /\ p <= offset /\ (p = offset => pc # "encode")
  /\ \A p \in DOMAIN file :
       At(p, "frame") => /\ file[p].number \in 0 .. frame - 1
                         /\ file[p].frame_size \in Nat
                         /\ Follows(p + file[p].frame_size, file[p].number + 1)

(* What the encoder notes down is where it is; what the reader goes by is  *)
(* where it leads.                                                         *)
PlaceInv ==
  /\ file_position = offset
  /\ pc # "encode" => /\ frame = num_frames
                      /\ At(offset, "trailer")
                      /\ file[offset].rows = trailer
                      /\ header = [num_iframes |-> Len(trailer),
                                   payload_size |-> offset - SizeOfHeader]
  /\ pc = "read" => table = trailer /\ Follows(position, next)

IInv == TypeOK /\ TableInv /\ EarlyInv /\ ChainInv /\ PlaceInv /\ RowsPointAtIframes

(* And what NoDrift needs on top of it: a frame is coded from its picture, *)
(* a P-frame against the picture before, which the encoder has kept; and   *)
(* the reader, unless it is at an I-frame, has that picture decoded.       *)
CodedFrom(number, type, coded) ==
  \/ type = "I" /\ coded = quantize_I(source[number + 1])
  \/ type = "P" /\ number > 0 /\ coded = quantize_P(source[number], source[number + 1])

DriftInv ==
  /\ frame > 0 => prev = source[frame]
  /\ \A p \in DOMAIN file :
       At(p, "frame") => CodedFrom(file[p].number, file[p].type, file[p].coded)
  /\ pc = "read" /\ next < num_frames =>
       \/ file[position].type = "I"
       \/ next > 0 /\ coefficients = source[next]
=============================================================================
