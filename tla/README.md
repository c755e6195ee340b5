# A verification of the MJPEG-423 player

The program plays `.MPG` (MJPEG-423) files from an SD card on a board with two
Nios II cores, a decoding accelerator and an HDMI screen. Core 0, the *master*,
runs the user interface, decodes chroma and owns the display. Core 1, the
*slave*, reads the SD card and decodes luma. The two share memory and talk
through a pair of hardware mailboxes. There is no operating system, no lock
around any shared buffer, the caches of the two cores are not coherent, an access to
the card may fail, and the asserts are compiled out (`common/utils.h:40`):
that the player works rests on the order of messages, on the sizes of two rings, on
when an index is updated, on what is flushed when, and on retries that find the card
in whatever state it is. This directory states those arguments as TLA+
specifications, checks them with TLC and proves the central ones with TLAPS.

Paths below are relative to `src/`. `PB` is `core0/software/playback.c`, `C0` is
`core0/software/main.c`, `C1` is `core1/software/main.c`, `MB` is
`core0/software/common/mailbox/mailbox.c` (the same file as core 1's), `VC` is
`core0/software/libs/ece423_vid_ctl/ece423_vid_ctl.c`, `SD` is `core1/software/libs/ece423_sd`.

## Inventory

| Component | State | Operations | Talks to | What is hard | What makes it correct |
|---|---|---|---|---|---|
| Mailbox link: `MB`, `altera_avalon_mailbox_simple.c` | ring of 4 message slots, `counter`, the driver's `lock`, registers PTR, CMD and status | `send_*()`, `recv_msg()` | both cores, in both directions | a slot is filled before the mailbox is known to be free; messages are used in place, with no acknowledgement | no slot overwritten while in use; messages whole, in order, none lost or repeated; calls return |
| Display: `VC` | `buffer_being_displayed`, `buffer_being_written`, the DMA's FIFO | `buffer_is_available`, `register_written_buffer`, `switch_frames` | `process()`, the timer interrupt, video DMA, accelerator | `switch_frames` runs in an interrupt while the program draws; the DMA changes buffers on its own | nothing scanned is drawn over; frames in order, each once; no wait for ever |
| Master: `PB`, `C0` | `playing`, `currentFrame`, `processedFrame`, the header and table of the video | load, play, pause, fast forward, rewind; `process()` for each frame | everything | frame n + 1 is requested during frame n; the timer interrupt shares `currentFrame` | counters agree with the screen; every operation ends |
| Slave: `C1` | open file and its position, `lastFrameType`, `prevType` | four requests, two replies | master, SD card, shared buffers | serves whatever comes, unchecked | never reads past the last frame; luma decoded from the right data |
| Shared buffers (`Ybitstream`, `YDCAC`, `CbDCAC`, `CrDCAC`) | coefficients of the last decoded frame, in place | written by the cores, streamed by DMAs | | three users, no lock; a P-frame needs its predecessor | one user at a time; right predecessor |
| I-frame table: `PB:157-227` | rows (frame index, position) | choice of a row | the file's trailer | unsigned differences, rows taken for time | choice inside the table, the right distance |
| Video file: `mjpeg423_encoder.c`, `quantize.c`, `C1:38-164` | the encoder's reference and counters; the file; position and coefficients of the reader | encode a frame, write trailer and header; load, read, seek | the slave's file, the master's table | positions counted apart from what is written; references updated in place | rows lead to I-frames, never too far apart; what is decoded is what was encoded |
| Buttons: `key_controls.c` | `lastButtonPressed` | `keyIrq`, `waitForButtonPress`, `buttonHasBeenPressed` | `C0`, `PB` | interrupt between the read and the reset | a latched button is served |
| Timer: `timer.c` | running or not | start, stop, tick | `timerFunction` | tick at any instruction | (with Display and Player) |
| Accelerator: `idct_ycbcr_to_rgb_accel.c` | busy bits | start three inputs and one output, wait | `process()` | inputs and output overlap with both cores | (with Player) |
| Lossless codec: `lossless_decode.c`, `lossless_encode.c` | the encoder's pending bits, the decoder's window, zig-zag index | encode, decode | files, both cores | byte boundaries, runs, reading ahead | round trip, index in the block, an end |
| Open file: `SD/FatFileSystem.c`, `SD/FatInternal.c` | `SeekPos`, the cached `Cluster` and `ClusterSeq`, the sector last read | open, seek, read in pieces of sectors | slave, SD driver, FAT | a read may fail at any sector, with the cache moved on and the position not | bytes read are those at the position, also after failures; a read ends |
| Directory: `SD/FatFileSystem.c`, `C1:166-225` | browse handle, a long name being put together | begin, next, open by name | slave, SD driver | any error is taken for the end of the directory; two handles | videos in order and round again; one is found |
| SD driver: `SD/sd_lib.c`, `mmc.c`, `ocsdc.c` | `has_init`, `high_capacity`, address, bus width, capacity; the card's own state | initialise with retries, read blocks | FAT code, controller | a lost command and a lost answer look alike, though the card has changed state in one case only | a card taken for ready can transfer; the blocks asked for; an end |
| Shared memory and caches: `PB`, `C1`, `MB`, `SD/ocsdc.c` | two write-back caches, memory, DMAs | loads, stores, flushes, transfers | both cores | nothing is coherent; a line may be written back at any time; neighbours share lines | every read is current, no write is lost |
| mSGDMA driver: `altera_msgdma.c` | descriptor FIFO, device, wait counter | asynchronous transfer | Display, Accelerator | the accelerator does not look at the result | each transfer once, in order |
| Transforms, colour, HDMI/I2C set-up, profiling, BSP, libbmp/libnsbmp | - | - | - | straight-line arithmetic, one-time set-up, generated or vendored code | not modelled |

## Modules

    MsgChannel   one-message channel (abstract)      FrameQueue   queue of frames (abstract)
        ^  implements                                    ^  implements
    Mailbox      ring, driver, registers             Display      ring of buffers, interrupt, DMA
        ^  about                                         ^  about
    MailboxProofs                                    DisplayProofs

    IframeTable  what a table of I-frames is
        ^ extends                                        ^ extends
    SeekChoice   the choice of a row                 VideoFile    encoder and reader of a file
        ^ extends               ^ extends                     \
    Player = two MsgChannels    SeekTable  the                 CodingProofs, about both
           + one FrameQueue     loops that make               /
           + both programs,     the choice           Lossless     coding of blocks in bits
           DMAs, timer, buttons ^ about
        ^  about                SeekTableProofs
    PlayerProofs

    Playlist     the videos in turn (abstract)       ByteFile     bytes with a position (abstract)
        ^  implements                                    ^  implements
    Directory    entries, two handles                FatFile      clusters, sectors, failures
           |  SdCard   driver and card                   |
           \       |                                     /
            StorageProofs, about all three

    (MCStorage runs Directory, FatFile and SdCard, the layers of core 1's storage, each above
     a layer that may fail at any access)

    TransferQueue  transfers in order (abstract)     Caches       both cores' accesses
        ^  implements                                    ^  about
    Msgdma       FIFO, device, the driver's calls    CachesProofs
        ^  about
    MsgdmaProofs

`MCPlayer`, `MCSeekTable`, `MCLosslessSource` and `MCCaches` give the modules of the same
name their constants for TLC. Three more run parts that share no state in one run each, so that a
behaviour is one part's, with the others at rest in one of their initial states: `MCDevices` those
of core 0's devices (`Mailbox`, `Display`, `Msgdma`), `MCCoding` those of a video's coding
(`VideoFile`, `Lossless`), `MCStorage` those of core 1's storage (`Directory`, `FatFile`, `SdCard`).

### Mailbox and MsgChannel

`Mailbox` is one direction of the link. The sending core goes through a
`send_*()` function (`FillHeader`, `FillData`), `altera_avalon_mailbox_send()`
(`Acquire`: neither locked nor full, otherwise `send()` tries again; `PollFree`;
`WritePtr` and `WriteCmd`: the two register writes of the post) and the end of
`send()` (`Advance`: the lock is released, `counter` moves on). The receiving core
goes through `recv_msg()` (`BeginRecv`: the caller has no more use for its message;
`PollPending`; `ReadPtr`; `ReadCmd`, which empties the mailbox). The lock's release
and the increment of `counter` are one step, since only the sender sees either.
A slot has two halves, `header.type` and `type_data`; which fields are in
`type_data` does not matter to any property, only that they are written later.

`MsgChannel` is what callers may rely on: `Send` when empty, `Receive` when not,
and the message in use stays what it was.

### Display and FrameQueue

The main program asks for a buffer, spins until there is one, has it drawn,
registers it and, with the timer stopped (`noTimer`), moves the screen on itself.
`switch_frames()` is four steps: test for a new frame, submit a descriptor when
the FIFO has room, wait for the fill level to fall to one, update
`buffer_being_displayed`. In the timer interrupt the main program stands still
(`MainAt`); the hardware does not. The video DMA's descriptors are parked: at the
end of a frame the DMA goes on to the next descriptor if there is one and repeats
the picture if not (`EndOfScan`). The ring's indices go round by a mask in the code, which is the
remainder of `After` because `config.h:27` demands a power of two (`PowerAssumption`). `FrameQueue` is the promise: a bounded queue in
front of a screen. The buffer contents are pictures, or `torn` while being drawn.

### IframeTable, SeekChoice and SeekTable

`IframeTable` describes the table (frame 0 is in it; by the encoder's rule, rows are at
most `MAX_IFRAME_OFFSET` frames apart), `SeekChoice` the row that each search ends at.
`SeekTable` has the two `while` loops turn by turn, with the unsigned difference
of `PB:218`, and shows that they end at that row. Reading a row outside the table
ends a behaviour (`SeekFrame` requires `InTable`): nothing is known of what the C
program does then.

### VideoFile

The encoder's loop, one action per frame (`EncodeFrame`), and its end (`FinishFile`);
then the reader's three operations in any order. A picture is what the quantiser gives:
two blocks with a DC and an AC coefficient each. `quantize_I`, `quantize_P` and
`lossless_decode` are the differences from block to block and from frame to frame, and
how they are added up again; the multiplication by the quantiser's constants,
the same on either side, is left out. The lengths of the two codings of a frame are a
choice, since they depend on every bit of the picture. `file` says what begins at
which byte; `offset` is where the writes have got to, `file_position` what the encoder
believes. The reader's `next` is the player's counter: a seek sets it from the row's
frame number, the position from the row's position, and they have to agree.

### Lossless

`lossless_encode()`, then `lossless_decode()`, one symbol per action. The encoder's
`bitcount` and `bitbuffer` and the decoder's (`shifted`, `window`) are bit by bit as in the
code, since the property is about bits; the parts of a symbol go out in one
`OutputBits`, which several calls of `output_bits()` amount to. What follows the
stream in memory is `junk`, because the decoder always reads ahead. A store beyond the block
ends a behaviour (`outside`). Amplitudes are those that `encode_VLI()` has a size
for, up to 2047: quantised coefficients and their differences. Powers of two are a function
(`TwoTo`), since `2^n` means nothing to the provers.

Two of the assumptions on the widths of the fields are what the coding stands on, and the
source's numbers (4-bit runs, 4-bit sizes, bytes of 8, a window of 32) meet both: an END and
a coefficient after it fill any byte that was begun (`8 <= 4 + 4 + 1`), and the longest symbol that a
size can announce fits the window when the decoder has shifted almost a byte of it away
(`4 + 4 + 15 <= 32 - 7`).

### Player

All of `C0`, `PB`, `C1`, `key_controls.c` and the environment. `master` and `slave`
are the places in the two programs; a comment at each action names the code. A
piece of work on a shared buffer is two steps, Begin and End, so that others can come
in between; buffer contents are frame identities, `Torn` while being written and
`Bad` once anything was decoded from wrong data or without its predecessor. A
decode of frame n is right only from frame n's data, and for a P-frame only over
the coefficients of n - 1. `Streamed` reads the coefficients when the DMA *ends*, the
moment that catches every overwriting before it.

The links are `MsgChannel`s and the display is a `FrameQueue`: what `Mailbox`
and `Display` implement. Simplifications: `recv_msg()` is one step (the message
before it is not used in between); Cb and Cr, started together and waited for
together, are one chroma buffer and DMA; `switch_frames()` in the interrupt is one
step, as the main program sees it; a frame's position in the file is its number;
a request's pointers, always the same, are left out; the SD card and
the FAT system do not fail and memory is coherent: what these layers do is in
`FatFile`, `Directory`, `SdCard` and `Caches`. Videos are those whose seek choices stay in the table (`ChoiceInTable`, see
finding 1 for the others).

### FatFile and ByteFile

`Fat_FileRead()` is cut at every access to the card: the walk along the chain to the
cluster of the position (with the unsigned difference of
`FatFileSystem.c:393`, which wraps), the first partial sector, whole clusters, whole sectors,
the last partial sector. Each access may fail. A byte of the card is the pair of its sector
and its place, so that no two are equal and a wrong one is always seen. The cached sector
(`Secter_Index`, `Secter_Data`) is that of `FatInternal.c`, shared by FAT, directory and
data. `ByteFile` is the promise: a file is a sequence of bytes with a position; a read that
succeeds returns the bytes at the position and moves it, one that fails leaves it
where it was. There is one case in which it cannot promise that (`FatFails`): when a sector of the
FAT cannot be read, the code goes on with a cluster number that nobody set, and of this read, should it
succeed, and of those after it up to the next seek or open only the length is
promised (`sound`). That is a defect of the code, not of the abstraction: `SuccessGivesFile` states what
the callers rely on, and TLC finds it violated (finding 5).
Reads below the end of the file only (`FatAssumption`).

### Directory and Playlist

One step is one round of the loop over the directory's entries in
`Fat_FileBrowseNext()` and in the search of `Fat_FileOpen()`, with the entry's sector readable or not.
Entries are free, pieces of long names, short ones, or the end. `Playlist` says what core
1 makes of them: the videos in order and the first again after the last; after a failure
of the card the list may begin again or core 1 stops (its `while (1)` at a file that cannot be
opened).

### SdCard

One step is one command to the card. `Send` is the whole failure model: a command is
lost, or carried out with the answer lost, or answered; a card does not answer what is
illegal in its state. The card (`card`: kind, state, bus width, what it expects next) is
external, as the code takes it to be. The driver's `mmc_init`, `mmc_startup` with its
retries, and `mmc_bread` with its cutting into commands, address units and 32-bit sizes
are the code's. `MaxTry` is the caller's number of attempts; a new attempt meets
the card wherever the last one left it.

`MCStorage` runs the three storage modules in one run: each has the layer below it as an
environment that may fail at any access, so that nothing is gained by interleaving
them. A behaviour is one layer's, with the others at rest.

### Caches

Every load, store, flush and DMA transfer that the handlers of both cores make on what
they share, one operator per function. Contents are left out: of each copy of an object the
model keeps whether it is *current*, that is, holds what was last written anywhere. A
line may be evicted, and so written back, at any time; a write-back overwrites all objects of
its line in memory. Messages and frame buffers are in uncached memory and do
not occur. `Line` says which objects lie on one cache line: it is any layout in which only
neighbours do, which are fields of `playbackData`, the parts of the table and of the bitstream, and
`YDCAC` with `CbDCAC`. These two come from `malloc()` one after the other (`PB:331-338`), lines
have 32 bytes, and nothing aligns them. With the end of one and the beginning of the
other on one line, the two cores, which decode into them at the same time, overwrite each
other's coefficients (finding 4, `NoLostCoefficients`). `ReadsAreCurrent` and `NoLostWrite` are
checked in those layouts too, about everything but these two buffers (`Coherent`).

What is left of assumptions: that nothing else shares a line. The end of the bitstream's buffer, which
is allocated before `YDCAC`, is not used (it has room for three raw frames, `config.h:58`); the rows
are in core 1's heap (`C1:79`), among what only core 1 uses; `CrDCAC` follows `CbDCAC`, and core
0 alone uses both. What the linker puts beside `playbackData` is not known to the model.

Leaving out flushes one at a time and running TLC again settles which ones the player needs. `send()` flushes the whole data
cache before each message (`MB:20`), and with that the explicit flushes of `PB:57`,
`PB:232` and `C1:251, 259, 276, 284, 299, 321` are redundant. Needed are the one
in `send()`, the flush of the chroma coefficients before their DMA (`PB:68-69`) and the
one of the destination of a card transfer (`ocsdc.c:180`).

### Msgdma and TransferQueue

`alt_msgdma_..._async_transfer()` on standard descriptors: look at the fill level, stop the
dispatcher, write the descriptor when there is room, run again; each wait has a limit.
Between these steps the device goes on. The callers are the display, which asks
again when refused, and the accelerator, which ignores the result but has waited for
an idle device. `TransferQueue` promises that what was asked for is carried out, once and in
order, and all of it in the end. `Display` submits a descriptor in one step; that the
call behind it neither loses nor reorders anything is shown here.

## Runs

| Run | Question | Bounds, and why they are enough |
|---|---|---|
| `devices` | mailbox: `NoSlotReuse`, no slot overwritten while waiting or in use; `SendReturns`, `PostedIsReceived`; `ImplementsChannel`. Display: `NoTearing`, `FifoHasRoom`, `StillFrameHasBuffer`; `BufferBecomesAvailable`, `RegisteredIsDisplayed`; `ImplementsFrameQueue`. DMA driver: `ImplementsTransferQueue` | the source's 4 slots; 2 messages, since contents only matter as old or new. The source's 4 buffers; FIFO of 2, the smallest with which the code can work (the real one is deeper); 2 pictures. For the driver a FIFO of 3, 3 payloads, waits of up to 2 rounds: the FIFO empty, half full and full at each step of a call |
| `player` | `NoBufferRace`, `MessagesInOrder`, `SlaveStaysInFile`, `FramesInStep`, `QuietWhenWaiting`, `ScreenFollows`; `ReturnsToButtons`, `ButtonIsServed`, `PlaysToTheEnd` | 2 videos: of 6 frames (I-frames 0, 1, 3, 5, so that P-frames follow I-frames and one another's successors) and of 2 (shorter than the ring); the display's 3 waiting frames are filled, seeks occur in play and in pause, at either end, and both kinds of end of a video are reached. Skips are scaled down to 3 and 4 frames. Keys singly and in two pairs |
| `seek_table` | `LoopsFindTheRow`, `RewindStaysInTable`, `ForwardByFiveSeconds` | all legal tables of videos of 9 to 13 frames with 24, 120, 108 divided by 12: every position of rows relative to the limits occurs |
| `coding` | file: `RowsPointAtIframes`, `TrailerIsVideo`, `ReaderFindsItsPlace`, `NoDrift`. Blocks: `WindowShowsStream`, `RoundTrip`, `StaysInBuffers`, `DecodingEnds` | file: 5 frames, I-frames at most 3 apart: two P-frames in a row, I-frames by size and by distance, a P-frame at the end; 3 pictures that differ in DC and AC; sizes that need padding and one that does not. Blocks of 11 coefficients, runs up to 3, three-bit bytes, a window of 9 bits: as in the source, two runs of zeros in a block are possible and the longest symbol just fits the window, and every position in a byte occurs; up to 2 nonzero coefficients, or 3 alike, or 2 blocks |
| `storage` | file: `ImplementsByteFile`, `ReadReturns`; directory: `ImplementsPlaylist`, `VideoIsFound`; card: `ReadyMeansTransfer`, `ReadsRightBlocks`, `CardReturns` | file: two files of 3 clusters and 1, out of order and in two FAT sectors, sectors of 2 bytes, clusters of 4 sectors: reads of 1 to 18 bytes begin and end in, at and across sectors and clusters, seeks reach into either half, and 32 bits are 64 values, so that the wrapped walk comes round. Directory: a label, two long names (a video's, which is passed over, and a directory's), free entries, a directory and three videos, with up to 3 failures. Card: both kinds, 6 blocks, at most 2 per command, reads of 1 to 5 blocks, 3 attempts; limits of 1 and 2 for the source's 3 to 1000, which only repeat the same step |
| `caches` | `ReadsAreCurrent`, `NoLostWrite` | all 16 layouts `LayoutAssumption` allows, up to the names of the lines; nothing is bounded: this run is exhaustive |
| `seek_few`, `seek_many`, `lossless_rest` | findings 1 to 3 | the source's own numbers |
| `caches_shared` | finding 4, `NoLostCoefficients` | as `caches` |
| `fat_unreadable`, `sd_kind` | findings 5 and 6, `SuccessGivesFile` and `SupportsSDHC` | as `storage` |

Deadlock is checked where a run's `.cfg` does not turn it off: it does in the `seek` runs,
where a behaviour ends outside the table, and in `lossless_rest`, where it ends
with the last block (in `coding` that is a step of the run's own, `BlocksDone`). Type invariants are conjuncts of the inductive invariants that are proved, and
no run repeats what a theorem shows for every value of the constants unless it is
one of the promises in the inventory. Every property has a mutant, an operator defined beside the one it
replaces and marked as such, with which TLC finds it violated.

### Fairness

`Lossless` is one function after the other, which run on. Both cores run bare-metal loops, so each has weak fairness on its next step; a
mailbox receiver always returns to `recv_msg()`, a sender need never send. DMAs
finish (their inputs are all started). The timer, while on, ticks; a tick that finds
nothing new changes nothing. No fairness is assumed for buttons. In `Display`
there is none on the main program's wish to draw, nor on `StartTimer` and `StopTimer`.

`FatFile` and `Directory` have weak fairness on the step of the call under way (the card
driver always returns, with or without success: `CardReturns`), none on calls being
made. `SdCard` has it on the driver's next command: the controller reports the end of
every command, as the loops of `ocsdc.c:128` and `:219`, which have no limit, take for
granted. `Msgdma` has it on the driver's steps and on the device, which never stops of
itself. `Caches` and `VideoFile` state safety only. `MCDevices`, `MCCoding` and `MCStorage` put the
fairness of their parts together, each for the behaviours of its part.

## Proofs

`MailboxProofs`, for every `RingSize >= 3` and every set of messages:

* `Invariant`: `MailSpec => []MailIInv`. `NoSlotReuse` alone is not inductive: it says nothing of
  where the slots in use lie. `MailIInv` adds `RingInv` - counting back from `Posted`, the
  slot after the last one posted, come the slot in the mailbox and then the one in the
  receiver's hands - with what the sender knows (between its look at the status bit and
  its write of CMD nobody else fills the mailbox) and what the receiver knows (the
  mailbox stays full until it reads CMD; what it can reach is a whole message). At most
  two slots matter, and a third is being filled: this is where 3 comes from, and the
  source's 4 slots leave one to spare.
* `SlotSafety`, `PostsWhatWasAsked`: `NoSlotReuse` and the action property from `MailIInv`.
* `Implements`: the refinement of `MsgChannel`. `WriteCmd` is its `Send`, `BeginRecv` and
  `ReadCmd` are its own, every other step stutters; `FillIsInvisible` is the lemma that
  filling a slot changes no slot that is visible.

`DisplayProofs`, for every power of two of buffers and every FIFO depth from 2 up (the proofs use of
the number only that it is 2 or more):

* `Invariant`: `IInv` adds to the three safety properties what the FIFO holds at each
  point of `switch_frames()`, that a buffer found free stays free until it is
  registered, and that with the timer stopped at most one frame waits.
* `Implements`: the refinement of `FrameQueue`. The pictures that wait are those in the
  buffers after the scanned one up to the last registered; `RingOfFrames` is the arithmetic of
  the ring behind it, and `DrawnInv` says that what is registered has been drawn.
  `Register` is the queue's `Put`, the DMA's going on at the end of a scan its `Show`; the
  drawing and the steps of the interrupt are invisible.
* `NoTearingTheorem`, `FifoHasRoomTheorem`, `StillFrameTheorem` follow. The proof shows what
  `NoTearing` needs: `buffer_being_displayed` is updated only after the wait at
  `VC:207-213`, so that it always names a buffer at or behind the scanned one.

`PlayerProofs`, for all videos whose choices stay in the table, all capacities of the display
and all keys. None of the player's invariants is inductive: each is a fact about two programs that know of one
another only by messages. At every place of the master's program it is known which replies
are still owed to it (`Owed`), and `PipelineInv` says that these are exactly what waits in
the mailbox to the master, what the slave is working on and what is asked for in the mailbox to the slave, in
this order; the order in `playVideo()`, where two requests go out before the first reply, is
the case with most to it. With that, all else can be said of one program at a time:
`IdleInv` and `WorkInv` of what the slave has in its buffers, `MasterInv`, `QueueInv`,
`ChromaInv` and `AccelInv` of the counters, the display, the chroma and the DMAs;
`PositionInv` ties the position in the file to the master's counter, and `ReplyInv` the
replies to both.

* `Invariant`: `IInv` is the conjunction of these. There is one lemma per action.
* `InOrder`, `NoRace`, `InFile`, `InStep`, `Quiet` (`MessagesInOrder`, `NoBufferRace`, `SlaveStaysInFile`,
  `FramesInStep`, `QuietWhenWaiting`) and `Follows`: the action property `ScreenFollows`: the
  screen shows whole frames, and a P-frame only directly after the frame it was coded against.
* Of the tables the proof uses `ChoiceInTable` and nothing else: finding 1 is the only way for a
  seek to go wrong here.

`CodingProofs` is about `VideoFile` and `Lossless`, both halves of a video's coding. For every
number of frames, distance of I-frames, set of pictures and set of sizes:

* `Invariant`: `IInv` says that the frames lie end to end in the file (`ChainInv`: each is
  followed by the next, the last by the place the encoder writes at), that the table's last
  row is the last I-frame and not too far back (`TableInv`), and that the encoder's count
  and the reader's position are where they should be (`PlaceInv`).
* `RowsTheorem`, `TrailerTheorem`, `ReaderTheorem` follow. `TrailerTheorem` is the one the
  rest stands on: `IsVideo`, which `Player` and `SeekTable` assume of their tables, is
  what the encoder writes.
* `DriftTheorem` (`NoDrift`): what is decoded is what was encoded. `DriftInv` says of each frame in
  the file that it is coded from its picture, a P-frame against the picture before; and that
  the reader holds the picture of the frame before its counter, unless a seek has
  just taken it to an I-frame. The sums of DCs that the decoder forms are a recursive
  function: that it exists is shown by naming one that satisfies the recursion, the DCs
  themselves, and that it is the only one by the least block at which two would differ.

For all blocks, all numbers of coefficients and all widths of fields with the two properties above:

* `CodeInvariant`: `CodeIInv`. While the encoder works there is a *trace*: for some numbers
  of bits, the place in the blocks the encoder had got to after so many. It begins at the first coefficient
  of the first block, and from each of its entries to the next the bits are the code of one symbol
  (`Symbol`): so it says nothing of how the bits came there, only that they can be read. The decoder
  has consumed a number of bits that is in the trace, is at the place the trace gives, and has
  decoded all before it (`DecodedUpTo`).
* The lemmas under it are `OutputBitsInv` (what goes out in `output_bits()` lies behind what did before,
  across all byte boundaries), `UpdateBufferInv` (the window moves over the stream and
  shows it), `AmplitudeComesBack` (a number from its size and amplitude), and
  `TwoTo`'s arithmetic, with induction in the form of a least counterexample.
* `WindowTheorem` (`WindowShowsStream`): what the decoder reads from its window is the
  stream, though it always has bits behind the end of it in there. `RoundTripTheorem` (`RoundTrip`): if
  no pending bit is lost at the end (finding 3), what is decoded is what was encoded.
  `BuffersTheorem` (`StaysInBuffers`): the decoder stores only in the block, though it compares the
  index after its use, and reads no more than a window beyond the stream.

`SeekTableProofs`, for every set of legal videos and all `MAX_IFRAME_OFFSET` and `MinSkip` not
above `Near`:

* `Invariant`: at each turn of a loop, all rows passed over fail the loop's test. With
  the unsigned differences of the code this needs that the rewind begins at or
  before the current frame: row k is at frame `k * MAX_IFRAME_OFFSET` or earlier. `IsVideo`
  has that as a part, and `CodingProofs` shows that what the encoder writes has it, since its
  invariant carries it from row to row (`EarlyInv`).
* `LoopsTheorem`, `RewindTheorem`, `ForwardTheorem`: the loops end at the rows of `SeekChoice`, with
  which `Player` works; a rewind stays in the table and goes back at
  least to the beginning of what it should; a fast forward that stays in the table (finding
  1) skips between `MinSkip` and one distance of I-frames more.

`MsgdmaProofs`, for every FIFO depth and every set of transfers:

* `Invariant`: between the look at the fill level and the write of the descriptor only the
  device changes the level, and lowers it; the device is stopped only inside a call.
* `NeverWaits`: so the waits of `altera_msgdma.c:394-418` never turn, and their timeouts
  cannot occur.
* `Implements`: the safety part of `ImplementsTransferQueue`; the transfers are those in the
  device, in the FIFO and in the caller's hands, in this order.

`StorageProofs` is about `SdCard`, `Directory` and `FatFile`. For all cards, numbers of blocks, limits and
retries (`SdAssumption`):

* `Invariant`: a card that is not selected has a narrow bus; between attempts nothing else is
  known of the card, whose answers may all have been lost, and it is the answer
  to SELECT_CARD that ties the two together again, since only a card in stand-by that has the
  driver's address gives it. From there on the bus is as wide at the card as the
  driver's record says, except in the very step that changes it.
* `ReadyTheorem`: `ReadyMeansTransfer`. `BlocksTheorem`: `ReadsRightBlocks`, from the fact that the
  blocks got so far are a run from the first one on, wherever the read was cut, and that a card the
  driver takes for one of high capacity is one (`KindKnown`). The converse does not hold: a card
  of high capacity that was taken for the other kind (`TakenForStandard`) is excepted. That is
  finding 6, and the lemma shows that it is the only case.

For all directories (`DirectoryAssumption`) and any number of failures:

* `DirectoryInvariant`: `DirIInv`. What `Fat_FileBrowseNext()` has noted in its local variables
  depends on the entry it passed last and on nothing before it (`Noted`); while it browses no
  video has been passed over (`OnTheWay`), and while the file is opened by its name the
  second handle is still in front of it (`Found`).
* `DirectoryImplements`: the refinement of `Playlist`. The proof needed more of a directory than was
  assumed for the run: its long names must be whole, and no directory may be called
  `.MPG` (see the differences below).

For all layouts of the card, sizes of sectors, clusters and reads (`FatAssumption`):

* `FileInvariant`: `FileIInv` has the types, the cache of one sector (`CacheInv`: it holds what it
  says), the position (`FileReadInv`), and `CourseInv`: a call of `Fat_FileRead()` that began with a cluster it
  could rely on is at every step *on its course* - the next byte to copy is the
  next byte of the file, and cluster, sector and position agree - or *astray*, after a
  failed access to the FAT, and then nothing is promised of its bytes.
* `FileImplements`: the refinement of `ByteFile`: reads give the bytes at the position, or
  fail and stay, as long as the FAT can be read; failures of data sectors are part of it, an
  unreadable sector of the FAT is where `ByteFile` promises the length only (finding 5). With all arithmetic of sectors and clusters from four lemmas
  about quotients.
* `ByteFile` was too strong at first: it promised that a lost position stays lost until the next
  seek. For longer files than a run can have that is false: `ClusterSeq` moves on with
  every failed read, the difference of `FatFileSystem.c:393` wraps, and after enough failures the
  cluster may be the right one again. So a lost position may now be found again; as nothing
  was promised of it, that takes no promise back.

`CachesProofs`, for every layout of the objects on cache lines in which only neighbours share
one (`LayoutAssumption`), those with the coefficients of both cores on one line included:

* `CachesInvariant`: `CachesIInv`. But for evictions, the state is known from the places of the two
  programs, and the invariant says so: for each step of each thing core 0 does (`Works`) and each
  step of core 1's job, which replies are owed and so what is in the mailboxes
  and what core 1 is doing (`Pipeline`, the same argument as in `PlayerProofs`); of which objects a
  cache may hold copies, and copies it has written (`Holds0`, `Dirties0`, `Holds1`,
  `Dirties1`); what the accelerator may be reading (`Streams`). `Memory` says what that
  means, coefficients on a shared line left aside: a copy is of a line that may be held, all of it is
  current, and what memory lacks is dirty in the cache of the only core that writes it. There is one exception: core 1 may
  hold old frame counters, in the line of the header, which it does not use; but it holds none
  when it is told to write the header, since it begins with an empty cache.
* That the tables fit the programs is a finite check, step by step (`LoadFits` to `JobFits`). That a
  read, a write, a flush, a drop, an eviction or a transfer then keeps `Memory` is proved
  once, for arbitrary sets of objects. The two meet in `Sides`: while core 1 writes the header and the rows,
  core 0 holds nothing at all; while it reads the bitstream, core 0 holds none of it.
* `ReadsTheorem` (`ReadsAreCurrent`) and `NoLostTheorem` (`NoLostWrite`) follow. So the order of the
  messages, and the flush of everything before each, is what the code stands on; the layout
  matters for neighbours only (`Sharing`), and there through the order again. The one pair for
  which no order helps, coefficients that both cores write at the same time, is excepted
  (`Coherent`, finding 4); everything else is as it should be in these layouts as well.
* That core 0 may flush a line with the frame counters, and the timer's interrupt write
  them, at any time, is no danger only because core 1 writes the header in no other job than
  the first of a video, for which core 0 waits with the timer off.

The assumptions are the named `ASSUME`s on the constants and nothing else. Only
model-checked are the liveness properties, which TLAPS does not do here; of
`ImplementsTransferQueue` the safety part is proved. Every safety property of a passing
run is a theorem.

## Findings

1. `PB:176-192` (run `seek_few`): fast forward can read one row past the table. The
   comment at `PB:170-175` argues from 120 *frames* being left, but what is needed is
   an *I-frame* 108 or more frames ahead. 133 frames, I-frames every 24, at frame 13:
   120 frames are left, the last I-frame (120) is 107 ahead, the loop ends with
   `index == num_iframes`.
2. `PB:207-218` (run `seek_many`): rewind searches from row `currentFrame / 24`
   downwards, which is the right place only if I-frames are 24 apart. The encoder also
   makes an I-frame whenever that is smaller; then the rewind goes back much farther
   than the 4.5 to 5.5 seconds of the comment at `PB:211-216`. (It stays in the table,
   and does go back: `RewindStaysInTable`.) The forward search has no
   such fault: `ForwardByFiveSeconds`.
3. `lossless_encode.c:82` (run `lossless_rest`): `output_rest()` stores the low-order byte
   of `bitbuffer`, always 0, instead of the high-order one that holds the pending bits. It
   goes unnoticed as long as those are zeros, as after an END; if the 64th coefficient of
   the last block is not zero, that coefficient is lost. The comment at
   `lossless_encode.c:63` calls the bit output endian-independent. In all other cases the
   round trip holds: that is `NothingLost` in `RoundTrip`.

4. `PB:331-338` (run `caches_shared`): `YDCAC` and `CbDCAC` are allocated one after the other
   without regard to cache lines. `malloc()` hands out multiples of 8 bytes with 8 bytes of its own between;
   if the first begins 8 or 16 bytes into a line of 32, its last coefficients and the first of the other are on
   one line. Core 1 decodes into one, core 0 into the other, at the same time; each later flushes its
   part, with an old copy of the other's. `alt_uncached_malloc.c:49-56` rounds to lines for this
   reason, and the mailbox uses it (`MB:30`).
5. `FatInternal.c:102-115` (run `fat_unreadable`): when a sector of the FAT cannot be read,
   `fatNextCluster()` returns `NextCluster` uninitialised. The callers (`FatFileSystem.c:404, 445, 483`) take
   0 for the failure; with any other value the read goes on, and returns `TRUE` with the
   bytes of another place and the position moved (`Junk` in `FatFile`).
6. `mmc.c:825-837` (run `sd_kind`): `mmc_init()` goes on whatever `sd_send_op_cond()` returned. If only
   its last answer was lost, the card is ready, `high_capacity` stays 0, and a card of high capacity
   is sent byte addresses: reads succeed with the wrong blocks. `sd_lib.c:34` claims support of
   SDHC.

## Differences met while modelling

These the models keep away from by an assumption; no run shows them.

* `FatFileSystem.c:404, 444, 482` stop at the end of a chain only when `fatNextCluster()` returns
  0. For the last cluster it returns the end mark (`FatInternal.c:110-111`), so that a read past
  the last cluster goes on at 'cluster' 0xFFFF and succeeds with bytes of no file. Only a
  wrong size in the file leads there (`FatAssumption`: reads stay below the size).
* `FatFileSystem.c:169-170`: a long name without archive and directory attribute ends
  `Fat_FileBrowseNext()` with an error, which `C1:207-211` takes for the end of the directory: the
  videos behind it are never played (the TODO there says as much). `LongNamesWhole` excludes it.
* `FatFileSystem.c:253-265`: `Fat_CheckExtension()` looks at the name only, as does
  `Fat_FileOpen()`: a *directory* called `X.MPG` is taken for a video and opened as one. The proof of
  `DirectoryImplements` came upon this; `DirectoryAssumption` excludes it.
* `mmc.c:828` tests for `TIMEOUT`, but `ocsdc.c:135, 226` report every failure as -1: the
  branch for MMC cards is never taken.
* `mmc.c:606-607`: the capacity in bytes has 32 bits, and `mmc_bread()` refuses blocks beyond
  what is left of it from 4 GB on.
* A directory without an end entry, that is, a root directory filled to its last entry, is not
  covered: `DirectoryAssumption` wants an end. Nor is a card without a video, on which
  `findNextVideo()` searches for ever (`VideoIsFound` is about directories with one), nor a
  second entry with the name of a video, which FAT does not allow.

## Not modelled

* Of the SD driver, the commands of MMC cards (never reached) and the bus clock. Of the FAT code, mounting (the
  layout is a constant) and the functions that write or dump, which are not called.
* Of the mSGDMA driver, callbacks and interrupts, synchronous transfers, extended
  descriptors: not used.
* The edge register of the buttons between its read and its reset (`key_controls.c:26`): an edge
  lost there is not told apart from a button that was not pressed.
* The encoder's colour conversion and transforms, the decoder's, rounding: straight-line arithmetic.
* HDMI and I2C set-up, which run once; profiling, which is compiled out; the generated HAL
  and BSP; the vendored bitmap libraries.

Most lines of the repository are of the last two kinds: generated BSP code and vendored libraries, many of
them twice, once for each core. This is why the modelled code is a small share of all lines.

## Plan

Done: the link, the display, the player, the I-frame table, the video file, the lossless
coding, the storage of core 1, the caches, the mSGDMA driver; proofs about all of them. Left:

1. `Keys`: the edge register, the two steps of the interrupt handler.
2. Theorems that join modules: that the slave's `fseek`s of `Player` are calls `FatFile` promises
   something of, with the bounds of a video as `VideoFile` writes it.
