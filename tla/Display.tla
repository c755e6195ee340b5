------------------------------ MODULE Display ------------------------------
(***************************************************************************)
(* The ring of frame buffers of ece423_vid_ctl.c and its users: the main   *)
(* program of core 0, which has frames drawn into buffers and registers    *)
(* them (process() in playback.c), the timer interrupt, which moves the    *)
(* display on (timerFunction() in playback.c), the accelerator's DMA,      *)
(* which writes a buffer, and the video DMA, which reads one.              *)
(*                                                                         *)
(* The video DMA has a FIFO of descriptors.  Every descriptor is "parked": *)
(* at the end of a frame the DMA drops it if another is waiting and scans  *)
(* the same buffer again if not.  The FIFO's fill level counts the         *)
(* descriptor being scanned.                                               *)
(*                                                                         *)
(* Nothing locks a buffer.  That a buffer on the screen is never drawn     *)
(* over rests on when buffer_being_displayed is updated.                   *)
(***************************************************************************)
EXTENDS Integers, Sequences

CONSTANTS NumBuffers,  (* num_frame_buffers; NUM_OUTPUT_BUFFERS is 4        *)
          FifoDepth,   (* descriptors the video DMA can hold               *)
          Frame,       (* the pictures that can be drawn                   *)
          Black        (* the picture the buffers start with               *)

(* ece423_video_display_init() raises a smaller number to 2, so the branch  *)
(* for a single buffer (ece423_vid_ctl.c:183) is never taken.              *)
ASSUME BuffersAssumption == NumBuffers \in Nat /\ NumBuffers >= 2
(* "MUST BE A POWER OF 2" (config.h:27), since a mask is used: see After.   *)
ASSUME PowerAssumption == \E k \in 1 .. NumBuffers : NumBuffers = 2 ^ k
ASSUME FifoAssumption == FifoDepth \in Nat /\ FifoDepth >= 2
ASSUME FrameAssumption == Black \notin Frame

VARIABLES displayed,   (* buffer_being_displayed                           *)
          written,     (* buffer_being_written                             *)
          buffer,      (* what is in each frame buffer                     *)
          fifo,        (* the video DMA's descriptors, the scanned first   *)
          drawing,     (* the accelerator's DMA is writing a buffer        *)
          timerOn,     (* the frame timer is running                       *)
          main,        (* where the main program is                        *)
          switch       (* where switch_frames() is, "off" when not running *)

vars == <<displayed, written, buffer, fifo, drawing, timerOn, main, switch>>

Buffers == 0 .. NumBuffers - 1

(* (b + 1) & num_frame_buffers_mask, the mask being NumBuffers - 1: the    *)
(* remainder, by PowerAssumption.                                          *)
After(b) == (b + 1) % NumBuffers

(* Both indices stay in the ring and the FIFO is never empty: there is      *)
(* always a picture to scan (ece423_vid_ctl.c:110, 205).                   *)
TypeOK ==
  /\ displayed \in Buffers
  /\ written \in Buffers
  /\ buffer \in [Buffers -> Frame \cup {Black, "torn"}]
  /\ fifo \in Seq(Buffers)
  /\ Len(fifo) \in 1 .. FifoDepth
  /\ drawing \in BOOLEAN
  /\ timerOn \in BOOLEAN
  /\ main \in {"idle", "avail", "start", "draw", "register", "switch"}
  /\ switch \in {"off", "submit", "wait"}

(* The first descriptor has been given to the DMA.                         *)
Init ==
  /\ displayed = 0
  /\ written = 1
  /\ buffer = [b \in Buffers |-> Black]
  /\ fifo = <<0>>
  /\ drawing = FALSE
  /\ timerOn = FALSE
  /\ main = "idle"
  /\ switch = "off"

-----------------------------------------------------------------------------
(* The main program.  It does not move while an interrupt handler runs.    *)
MainAt(pc) == main = pc /\ switch = "off"

(* playVideo() starts the timer before the first frame ...                 *)
StartTimer ==
  /\ MainAt("idle")
  /\ ~timerOn
  /\ timerOn' = TRUE
  /\ UNCHANGED <<displayed, written, buffer, fifo, drawing, main, switch>>

(* ... and stops it once every frame registered has been displayed.        *)
StopTimer ==
  /\ MainAt("idle")
  /\ timerOn
  /\ After(displayed) = written
  /\ timerOn' = FALSE
  /\ UNCHANGED <<displayed, written, buffer, fifo, drawing, main, switch>>

(* loadVideo(), seekFrame() and playVideo() spin on                        *)
(* ece423_video_display_buffer_is_available() for each frame ...           *)
WantBuffer ==
  /\ MainAt("idle")
  /\ main' = "avail"
  /\ UNCHANGED <<displayed, written, buffer, fifo, drawing, timerOn, switch>>

(* ... until the buffer to write is not the one displayed.                 *)
FreeBuffer == displayed # written

BufferIsAvailable ==
  /\ MainAt("avail")
  /\ FreeBuffer
  /\ main' = "start"
  /\ UNCHANGED <<displayed, written, buffer, fifo, drawing, timerOn, switch>>

(* ycbcr_to_rgb_accel_get_results() lets the accelerator write the buffer. *)
StartDrawing ==
  /\ MainAt("start")
  /\ main' = "draw"
  /\ drawing' = TRUE
  /\ buffer' = [buffer EXCEPT ![written] = "torn"]
  /\ UNCHANGED <<displayed, written, fifo, timerOn, switch>>

(* wait_for_ycbcr_to_rgb_finsh().                                          *)
DrawingFinished ==
  /\ MainAt("draw")
  /\ ~drawing
  /\ main' = "register"
  /\ UNCHANGED <<displayed, written, buffer, fifo, drawing, timerOn, switch>>

(* Mutant: noTimer is ignored.                                             *)
RegisterOnly ==
  /\ MainAt("register")
  /\ written' = After(written)
  /\ main' = "idle"
  /\ UNCHANGED <<displayed, buffer, fifo, drawing, timerOn, switch>>

(* ece423_video_display_register_written_buffer().  Without the timer the  *)
(* main program then moves the display on by itself (noTimer).             *)
RegisterWrittenBuffer ==
  /\ MainAt("register")
  /\ written' = After(written)
  /\ main' = IF timerOn THEN "idle" ELSE "switch"
  /\ UNCHANGED <<displayed, buffer, fifo, drawing, timerOn, switch>>

MainStep == BufferIsAvailable \/ StartDrawing \/ DrawingFinished \/ RegisterWrittenBuffer

-----------------------------------------------------------------------------
(* ece423_video_display_switch_frames(), called by the timer interrupt or, *)
(* with the timer stopped, by the main program.                            *)
MaySwitch == switch = "off" /\ (timerOn \/ main = "switch")

NewFrameButOne == After(After(displayed)) # written   (* mutant: off by one *)
NewFrame == After(displayed) # written

(* There is a new frame: the descriptor of the next buffer is ready to go. *)
BeginSwitch ==
  /\ MaySwitch
  /\ NewFrame
  /\ switch' = "submit"
  /\ UNCHANGED <<displayed, written, buffer, fifo, drawing, timerOn, main>>

(* There is none: -1, "switching to the next frame failed".                *)
NothingToSwitch ==
  /\ MaySwitch
  /\ ~NewFrame
  /\ main' = IF main = "switch" THEN "idle" ELSE main
  /\ UNCHANGED <<displayed, written, buffer, fifo, drawing, timerOn, switch>>

(* async_transfer is repeated until the FIFO has room.                     *)
Submit ==
  /\ switch = "submit"
  /\ Len(fifo) < FifoDepth
  /\ fifo' = Append(fifo, After(displayed))
  /\ switch' = "wait"
  /\ UNCHANGED <<displayed, written, buffer, drawing, timerOn, main>>

(* "Wait until the last buffer is displayed", and only then give it up.    *)
DoNotWait == TRUE                     (* mutant: the loop is left out *)
FifoEmpty == Len(fifo) <= 0           (* mutant: as for a single buffer *)
LastBufferDisplayed == Len(fifo) <= 1

FinishSwitch ==
  /\ switch = "wait"
  /\ LastBufferDisplayed
  /\ displayed' = After(displayed)
  /\ switch' = "off"
  /\ main' = IF main = "switch" THEN "idle" ELSE main
  /\ UNCHANGED <<written, buffer, fifo, drawing, timerOn>>

SwitchStep == BeginSwitch \/ Submit \/ FinishSwitch

-----------------------------------------------------------------------------
(* The hardware *)

(* The accelerator has written the last pixel of a frame.                  *)
FinishDrawing(f) ==
  /\ drawing
  /\ drawing' = FALSE
  /\ buffer' = [buffer EXCEPT ![written] = f]
  /\ UNCHANGED <<displayed, written, fifo, timerOn, main, switch>>

(* The video DMA comes to the end of a frame with a descriptor waiting.    *)
EndOfScan ==
  /\ Len(fifo) > 1
  /\ fifo' = Tail(fifo)
  /\ UNCHANGED <<displayed, written, buffer, drawing, timerOn, main, switch>>

HardwareStep == (\E f \in Frame : FinishDrawing(f)) \/ EndOfScan

-----------------------------------------------------------------------------
Next == \/ StartTimer \/ StopTimer \/ WantBuffer \/ MainStep
        \/ NothingToSwitch \/ SwitchStep
        \/ HardwareStep

(* The core executes its program, the timer ticks while it runs (the       *)
(* interrupt is taken sooner or later), and the hardware finishes.         *)
Spec == /\ Init /\ [][Next]_vars
        /\ WF_vars(MainStep)
        /\ WF_vars(SwitchStep)
        /\ WF_vars(NothingToSwitch /\ main = "switch")
        /\ WF_vars(\E f \in Frame : FinishDrawing(f))
        /\ WF_vars(EndOfScan)

-----------------------------------------------------------------------------
(* Properties *)

Scanned == { fifo[i] : i \in 1 .. Len(fifo) }

(* No tearing: while process() has a buffer drawn, the video DMA neither   *)
(* scans that buffer nor has it in its FIFO (ece423_vid_ctl.c:205-214).    *)
NoTearing == main \in {"start", "draw", "register"} => written \notin Scanned

(* The retry loop of ece423_vid_ctl.c:202 never turns: the one before has   *)
(* always been taken off the FIFO by the time another is submitted.        *)
FifoHasRoom == switch = "submit" => Len(fifo) < FifoDepth

(* With the timer stopped nobody frees a buffer, so the spin loops of      *)
(* seekFrame() and loadVideo() (playback.c:145, 238) must find one free.   *)
StillFrameHasBuffer == main = "avail" /\ ~timerOn => displayed # written

(* What makes the three invariants above inductive: what the FIFO holds at *)
(* each point of switch_frames(), that a buffer once free stays free until *)
(* it is registered, and that with the timer stopped at most one frame     *)
(* waits - the one the main program is about to switch to.  For the queue  *)
(* of frames, also that what is registered has been drawn.                 *)
FifoInv ==
  /\ switch \in {"off", "submit"} => fifo = <<displayed>>
  /\ switch = "wait" => fifo \in {<<displayed, After(displayed)>>, <<After(displayed)>>}
  /\ switch # "off" => NewFrame
DrawInv ==
  main \in {"start", "draw", "register"} => FreeBuffer
StillInv ==
  /\ main = "switch" => ~timerOn
  /\ ~timerOn /\ main # "switch" => switch = "off" /\ After(displayed) = written
  /\ ~timerOn /\ main = "switch" => After(After(displayed)) = written
DrawnInv ==
  /\ drawing => main = "draw"
  /\ main \in {"draw", "register"} /\ ~drawing => buffer[written] \in Frame

IInv == TypeOK /\ FifoInv /\ DrawInv /\ StillInv /\ DrawnInv

(* The main program never spins for ever on a buffer (playback.c:281).     *)
BufferBecomesAvailable == (main = "avail") ~> (main # "avail")

(* Every frame registered is displayed, as long as the timer keeps running.*)
RegisteredIsDisplayed ==
  \A b \in Buffers :
    (written = After(b) /\ displayed # b) ~> (displayed = b \/ ~timerOn)

(* The buffers registered and not yet scanned, oldest first.               *)
Pending == [i \in 1 .. (written - Head(fifo) - 1) % NumBuffers |->
              buffer[(Head(fifo) + i) % NumBuffers]]

(* The ring and the video DMA implement the queue of frames.               *)
Frames == INSTANCE FrameQueue WITH
            Capacity <- NumBuffers - 1,
            screen <- buffer[Head(fifo)],
            queue <- Pending
ImplementsFrameQueue == Frames!Spec
=============================================================================
