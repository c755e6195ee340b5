------------------------------ MODULE Lossless ------------------------------
(***************************************************************************)
(* The lossless coding of blocks of coefficients: lossless_encode.c writes *)
(* a stream of bits, lossless_decode.c reads it back through a window of a *)
(* few bytes.  One action per coded symbol.                                *)
(*                                                                         *)
(* A block is a function of the zig-zag index.  What the decoder does with *)
(* the values (dequantise, add to the block or the frame before) is        *)
(* lossless_decode of VideoFile.tla.  The numbers of the source are        *)
(* constants, so that a scaled-down instance can be exhaustive.            *)
(***************************************************************************)
EXTENDS Integers, Sequences

CONSTANTS
  Last,         (* the last zig-zag index; 63                              *)
  RunBits,      (* bits of a run length; 4                                 *)
  SizeBits,     (* bits of the size of an amplitude; 4                     *)
  MaxSize,      (* the largest size encode_VLI gives; 11                   *)
  ByteBits,     (* 8                                                       *)
  WindowBytes,  (* bytes of a uint32_t; 4                                  *)
  Inputs        (* the sequences of blocks considered                      *)

(* 2 ^ n *)
TwoTo(n) == LET power[k \in 0 .. n] == IF k = 0 THEN 1 ELSE 2 * power[k - 1]
            IN  power[n]

Window == WindowBytes * ByteBits

ASSUME LosslessAssumption ==
  /\ {Last, RunBits, SizeBits, MaxSize, ByteBits, WindowBytes} \subseteq Nat \ {0}
  /\ MaxSize < TwoTo(SizeBits)
  /\ Inputs \subseteq Seq([0 .. Last -> (1 - TwoTo(MaxSize)) .. TwoTo(MaxSize) - 1])
  /\ ByteBits <= RunBits + SizeBits + 1   (* END fills a byte begun before it *)
  /\ RunBits + SizeBits + TwoTo(SizeBits) - 1 <= Window - (ByteBits - 1)
                            (* any symbol is in the window whole, see below *)

Empty == [k \in 1 .. Window |-> 0]
MaxRun == TwoTo(RunBits) - 1

VARIABLES
  blocks,       (* DCACq, what is to be encoded                            *)
  stage,        (* "encode", "start", "decode", "done" or "outside"        *)
  at,           (* block and zig-zag index the encoder or decoder is at    *)
  bitcount, bitbuffer, stream,   (* of the encoder                         *)
  junk,         (* the bits that follow the stream in memory               *)
  window, shifted,   (* bitbuffer and bitcount of the decoder              *)
  taken,        (* bytes the decoder has taken from the stream             *)
  decoded       (* DCACq of the decoder                                    *)

encoderVars == <<bitcount, bitbuffer, stream>>
decoderVars == <<window, shifted, taken, decoded>>
codeVars == <<blocks, stage, at, encoderVars, junk, decoderVars>>

-----------------------------------------------------------------------------
(* Numbers and bits *)

Bits(n, v) == [k \in 1 .. n |-> (v \div TwoTo(n - k)) % 2]

(* INPUT_BITS: the number in the n bits behind the first `from' of a       *)
(* window.                                                                 *)
InputBits(w, from, n) ==
  LET upTo[k \in 0 .. n] == IF k = 0 THEN 0 ELSE 2 * upTo[k - 1] + w[from + k]
  IN  upTo[n]

(* encode_VLI: the bits an amplitude takes, and which.                     *)
FitsIn(x, n) == x \in (1 - TwoTo(n)) .. TwoTo(n) - 1
Size(x) == CHOOSE n \in 0 .. MaxSize :
             /\ FitsIn(x, n) \/ n = MaxSize
             /\ \A m \in 0 .. n - 1 : ~FitsIn(x, m)
TwosComplement(x) == IF x > 0 THEN x ELSE x % TwoTo(Size(x))   (* mutant *)
Amplitude(x) == IF x > 0 THEN x ELSE (x - 1) % TwoTo(Size(x))
VLI(x) == Bits(Size(x), Amplitude(x))

HUFF_EXTEND(x, s) == IF x < TwoTo(s - 1) THEN x - TwoTo(s) + 1 ELSE x

DCCode(e) == Bits(SizeBits, Size(e)) \o VLI(e)
ACCode(run, e) == Bits(RunBits, run) \o Bits(SizeBits, Size(e)) \o VLI(e)
ZRLCode == Bits(RunBits, MaxRun) \o Bits(SizeBits, 0)
ENDCode == Bits(RunBits, 0) \o Bits(SizeBits, 0)

-----------------------------------------------------------------------------
(* The encoder *)

(* output_bits, once for all the parts of a symbol: they go behind the     *)
(* pending bits, and whole bytes leave for the stream.                     *)
OutputBits(bits) ==
  LET pending == bitcount % ByteBits
      full == ((pending + Len(bits)) \div ByteBits) * ByteBits
      filled == [k \in 1 .. Window |->
                   IF k \in pending + 1 .. pending + Len(bits) THEN bits[k - pending]
                   ELSE bitbuffer[k]]
  IN  /\ bitcount' = bitcount + Len(bits)
      /\ stream' = stream \o SubSeq(filled, 1, full)
      /\ bitbuffer' = [k \in 1 .. Window |-> IF k + full <= Window THEN filled[k + full] ELSE 0]

block == blocks[at[1]]
NextBlock == <<at[1] + 1, 0>>

NonZero == { k \in 1 .. Last : block[k] # 0 }
LastIndex == IF NonZero = {} THEN 0
             ELSE CHOOSE k \in NonZero : \A j \in NonZero : j <= k

Encoding == stage = "encode" /\ at[1] <= Len(blocks)

EncodeDC ==
  /\ Encoding
  /\ at[2] = 0
  /\ OutputBits(DCCode(block[0]))
  /\ at' = <<at[1], 1>>
  /\ UNCHANGED <<blocks, stage, junk, decoderVars>>

(* The first nonzero coefficient from here on.                             *)
NextNonZero == CHOOSE k \in NonZero : k >= at[2] /\ \A j \in NonZero : j >= at[2] => k <= j

(* MaxRun + 1 zeros in a row.                                              *)
LongRun == NextNonZero - at[2] > MaxRun

EncodeZRL ==
  /\ Encoding
  /\ at[2] \in 1 .. LastIndex
  /\ LongRun
  /\ OutputBits(ZRLCode)
  /\ at' = <<at[1], at[2] + MaxRun + 1>>
  /\ UNCHANGED <<blocks, stage, junk, decoderVars>>

(* The block's last coefficient needs no END behind it.                    *)
EncodeAC ==
  /\ Encoding
  /\ at[2] \in 1 .. LastIndex
  /\ ~LongRun
  /\ OutputBits(ACCode(NextNonZero - at[2], block[NextNonZero]))
  /\ at' = IF NextNonZero = Last THEN NextBlock ELSE <<at[1], NextNonZero + 1>>
  /\ UNCHANGED <<blocks, stage, junk, decoderVars>>

EncodeEND ==
  /\ Encoding
  /\ at[2] > LastIndex
  /\ at[2] > 0
  /\ OutputBits(ENDCode)
  /\ at' = NextBlock
  /\ UNCHANGED <<blocks, stage, junk, decoderVars>>

(* output_rest: the low-order byte of bitbuffer (the machines the program  *)
(* is built for are little-endian), and as many bytes as bits were begun.  *)
(* In the decoder's memory anything may follow.                            *)
RestOfBits == SubSeq(bitbuffer, Window - ByteBits + 1, Window)

OutputRest ==
  /\ stage = "encode"
  /\ at[1] > Len(blocks)
  /\ stream' = IF bitcount % ByteBits = 0 THEN stream ELSE stream \o RestOfBits
  /\ junk' \in {0, 1}
  /\ stage' = "start"
  /\ UNCHANGED <<blocks, at, bitcount, bitbuffer, decoderVars>>

-----------------------------------------------------------------------------
(* The decoder *)

StreamBit(k) == IF k <= Len(stream) THEN stream[k] ELSE junk

(* update_buffer: `size' bits leave the window, whole bytes come in as     *)
(* soon as there is room for one; `room' is what then is left.             *)
BytesInLate(free) == (free - 1) \div ByteBits   (* mutant: > for >= *)
BytesIn(free) == free \div ByteBits

UpdateBuffer(size) ==
  LET free == shifted + size
      room == free - BytesIn(free) * ByteBits
  IN  /\ window' = [k \in 1 .. Window |->
                      IF k <= Window - free THEN window[k + size]
                      ELSE IF k <= Window - room
                      THEN StreamBit(taken * ByteBits + k - (Window - free))
                      ELSE 0]
      /\ shifted' = room
      /\ taken' = taken + BytesIn(free)

StartDecoding ==
  /\ stage = "start"
  /\ UpdateBuffer(Window)
  /\ stage' = "decode"
  /\ at' = <<1, 0>>
  /\ UNCHANGED <<blocks, encoderVars, junk, decoded>>

Decoding == stage = "decode" /\ at[1] <= Len(blocks)

Store(k, e) == decoded' = [decoded EXCEPT ![at[1]][k] = e]

DecodeDC ==
  /\ Decoding
  /\ at[2] = 0
  /\ LET size == InputBits(window, 0, SizeBits)
     IN  /\ Store(0, IF size = 0 THEN 0
                     ELSE HUFF_EXTEND(InputBits(window, SizeBits, size), size))
         /\ UpdateBuffer(SizeBits + size)
  /\ at' = <<at[1], 1>>
  /\ UNCHANGED <<blocks, stage, encoderVars, junk>>

(* input_AC                                                                *)
RunHere == InputBits(window, 0, RunBits)
SizeHere == InputBits(window, RunBits, SizeBits)
ValueHere == HUFF_EXTEND(InputBits(window, RunBits + SizeBits, SizeHere), SizeHere)

ACHere == Decoding /\ at[2] > 0

DecodeZRL ==
  /\ ACHere
  /\ SizeHere = 0 /\ RunHere = MaxRun
  /\ UpdateBuffer(RunBits + SizeBits)
  /\ at' = <<at[1], at[2] + MaxRun + 1>>
  /\ UNCHANGED <<blocks, stage, encoderVars, junk, decoded>>

DecodeEND ==
  /\ ACHere
  /\ SizeHere = 0 /\ RunHere # MaxRun
  /\ UpdateBuffer(RunBits + SizeBits)
  /\ at' = NextBlock
  /\ UNCHANGED <<blocks, stage, encoderVars, junk, decoded>>

(* Is this the end of the block?                                           *)
AfterLast(k) == k > Last   (* mutant *)
AtLast(k) == k >= Last

(* The index is compared with 63 only after the value is stored: beyond    *)
(* the block nothing is known of what follows.                             *)
DecodeAC ==
  /\ ACHere
  /\ SizeHere # 0
  /\ UpdateBuffer(RunBits + SizeBits + SizeHere)
  /\ LET k == at[2] + RunHere
     IN  \/ /\ k > Last
            /\ stage' = "outside"
            /\ UNCHANGED <<at, decoded>>
         \/ /\ k <= Last
            /\ Store(k, ValueHere)
            /\ at' = IF AtLast(k) THEN NextBlock ELSE <<at[1], k + 1>>
            /\ stage' = stage
  /\ UNCHANGED <<blocks, encoderVars, junk>>

FinishDecoding ==
  /\ stage = "decode"
  /\ at[1] > Len(blocks)
  /\ stage' = "done"
  /\ UNCHANGED <<blocks, at, encoderVars, junk, decoderVars>>

-----------------------------------------------------------------------------
(* The decoder clears its blocks (of an I-frame).                          *)
CodeInit ==
  /\ blocks \in Inputs
  /\ stage = "encode"
  /\ at = <<1, 0>>
  /\ bitcount = 0
  /\ bitbuffer = Empty
  /\ stream = <<>>
  /\ junk = 0
  /\ window = Empty
  /\ shifted = 0
  /\ taken = 0
  /\ decoded = [b \in DOMAIN blocks |-> [k \in 0 .. Last |-> 0]]

EncodeBlocks == EncodeDC \/ EncodeZRL \/ EncodeAC \/ EncodeEND \/ OutputRest
DecodeBlocks == StartDecoding \/ DecodeDC \/ DecodeZRL \/ DecodeEND \/ DecodeAC \/ FinishDecoding
CodeNext == EncodeBlocks \/ DecodeBlocks

CodeSpec == CodeInit /\ [][CodeNext]_codeVars /\ WF_codeVars(CodeNext)

-----------------------------------------------------------------------------
(* Properties *)

CodeTypeOK ==
  /\ stage \in {"encode", "start", "decode", "done", "outside"}
  /\ blocks \in Inputs
  /\ bitcount \in Nat /\ taken \in Nat
  /\ shifted \in 0 .. ByteBits - 1
  /\ bitbuffer \in [1 .. Window -> {0, 1}] /\ window \in [1 .. Window -> {0, 1}]
  /\ stream \in Seq({0, 1}) /\ junk \in {0, 1}

(* All bits have reached the stream, or those that have not were zeros:    *)
(* the video ends with END, or at the end of a byte.                       *)
NothingLost == \/ bitcount % ByteBits = 0
               \/ blocks # <<>> /\ blocks[Len(blocks)][Last] = 0

(* The bits the decoder is through with.                                   *)
Consumed == taken * ByteBits - (Window - shifted)

(* The decoder's window always shows the next bits of the stream, all but  *)
(* the `shifted' last places, which are empty; and these are so few that   *)
(* the longest symbol is in it whole (lossless_decode.c:139-162).          *)
WindowShowsStream ==
  stage \in {"decode", "done"} =>
    /\ \A k \in 1 .. Window :
         window[k] = IF k <= Window - shifted THEN StreamBit(Consumed + k) ELSE 0
    /\ Window - shifted >= RunBits + SizeBits + TwoTo(SizeBits) - 1

(* Every block comes back as it went in, and the decoder stops at the bit  *)
(* the encoder stopped at - whatever follows the stream in memory, which   *)
(* its window always reaches into.                                         *)
RoundTrip ==
  stage = "done" /\ NothingLost => decoded = blocks /\ Consumed = bitcount

(* No coefficient is ever stored outside its block, though the index is    *)
(* compared with 63 only after its use (lossless_decode.c:118-130), and    *)
(* the decoder reads at most a window beyond the stream: this is how much  *)
(* longer than the largest frame its buffer has to be.                     *)
StaysInBuffers ==
  NothingLost =>
    /\ stage # "outside"
    /\ stage \in {"decode", "done"} =>
         (taken - WindowBytes) * ByteBits <= Len(stream)

(* The loops over blocks and symbols, none of which counts bytes, end.     *)
DecodingEnds == (stage = "start" /\ NothingLost) ~> (stage = "done")

(* lossless_encode.c:62-63, of the writing of bits: "endian-independent    *)
(* (creates big-endian)".  Then the blocks come back whatever they are.    *)
AlwaysRoundTrip == stage # "outside" /\ (stage = "done" => decoded = blocks)

-----------------------------------------------------------------------------
(* The inductive invariant of CodingProofs.  It speaks of the trace that   *)
(* the encoder leaves in the stream: pos[n] is the block and the index it  *)
(* was at when it had written n bits.  The decoder follows it.             *)

Zeros(b, from, to) == \A k \in from .. to : blocks[b][k] = 0

(* At p, `code' is what the encoder writes, and q where it then is.        *)
Symbol(p, q, code) ==
  \/ /\ p[2] = 0
     /\ code = DCCode(blocks[p[1]][0])
     /\ q = <<p[1], 1>>
  \/ /\ p[2] > 0
     /\ Zeros(p[1], p[2], Last)
     /\ code = ENDCode
     /\ q = <<p[1] + 1, 0>>
  \/ /\ p[2] > 0
     /\ \E k \in p[2] .. Last :
          /\ Zeros(p[1], p[2], k - 1) /\ blocks[p[1]][k] # 0
          /\ \/ /\ k - p[2] > MaxRun
                /\ code = ZRLCode
                /\ q = <<p[1], p[2] + MaxRun + 1>>
             \/ /\ k - p[2] <= MaxRun
                /\ code = ACCode(k - p[2], blocks[p[1]][k])
                /\ q = IF k = Last THEN <<p[1] + 1, 0>> ELSE <<p[1], k + 1>>

(* The bits written, in the stream or still pending; in the end, as the    *)
(* decoder sees them.                                                      *)
BitOut(n) == IF stage = "encode" /\ n > Len(stream) THEN bitbuffer[n - Len(stream)]
             ELSE StreamBit(n)

End == <<Len(blocks) + 1, 0>>
Positions == (1 .. Len(blocks)) \X (0 .. Last) \cup {End}

Trace(pos) ==
  /\ DOMAIN pos \subseteq 0 .. bitcount
  /\ \A n \in DOMAIN pos : pos[n] \in Positions
  /\ 0 \in DOMAIN pos /\ pos[0] = <<1, 0>>
  /\ bitcount \in DOMAIN pos /\ pos[bitcount] = IF stage = "encode" THEN at ELSE End
  /\ \A n \in DOMAIN pos : n < bitcount =>
       \E m \in DOMAIN pos : /\ n < m /\ pos[n] # End
                             /\ Symbol(pos[n], pos[m], [k \in 1 .. m - n |-> BitOut(n + k)])

(* The decoder has stored what the encoder coded up to a position.         *)
DecodedUpTo(p) ==
  \A b \in DOMAIN blocks, k \in 0 .. Last :
    decoded[b][k] = IF b < p[1] \/ (b = p[1] /\ k < p[2]) THEN blocks[b][k] ELSE 0

DecoderInv(pos) ==
  /\ decoded \in [DOMAIN blocks -> [0 .. Last -> Int]]
  /\ IF stage \in {"decode", "done"}
     THEN DecodedUpTo(at) /\ Consumed \in DOMAIN pos /\ pos[Consumed] = at
     ELSE DecodedUpTo(<<1, 0>>)
  /\ stage = "done" => at = End

(* Less than a byte is pending, after the last block's END only zeros; so  *)
(* output_rest() loses nothing.                                            *)
PendingInv ==
  /\ stage = "encode" =>
       /\ Len(stream) = (bitcount \div ByteBits) * ByteBits
       /\ \A k \in 1 .. Window : k > bitcount % ByteBits => bitbuffer[k] = 0
       /\ at[1] > Len(blocks) /\ NothingLost => bitbuffer = Empty
  /\ stage # "encode" /\ NothingLost => bitcount <= Len(stream)
  /\ stage \in {"encode", "start"} => shifted = 0 /\ taken = 0

CodeIInv ==
  /\ CodeTypeOK /\ PendingInv /\ WindowShowsStream
  /\ stage = "encode" \/ NothingLost =>
       stage # "outside" /\ \E pos : Trace(pos) /\ DecoderInv(pos)
=============================================================================
