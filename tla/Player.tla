------------------------------- MODULE Player -------------------------------
(***************************************************************************)
(* The whole player: the program of the master core (core0: main.c and     *)
(* playback.c), the program of the slave core (core1: main.c), the two     *)
(* mailboxes between them, the accelerator and its DMAs, the display, the  *)
(* frame timer and the push buttons.                                       *)
(*                                                                         *)
(* A frame goes through four hands.  The slave reads it from the SD card   *)
(* into `bitstream` and decodes its luma into `YDCAC`; the master decodes  *)
(* its chroma from the same `bitstream` into `CDCAC`; DMAs stream both     *)
(* into the accelerator, and another DMA writes the picture it makes into  *)
(* a buffer of the display.  The cores share the buffers without locks:    *)
(* only the order of four kinds of message keeps them apart, while frame   *)
(* n + 1 is already being read during the decoding of frame n.             *)
(*                                                                         *)
(* A buffer's contents are the identity of the frame in it, the pair of a  *)
(* video and a frame number.  A core's or a DMA's work on a buffer takes   *)
(* from one step to another, so that the work of two can overlap.          *)
(*                                                                         *)
(* The mailboxes are MsgChannels and the display is a FrameQueue: Mailbox  *)
(* and Display show that the code implements them.                         *)
(***************************************************************************)
EXTENDS SeekChoice

CONSTANTS Videos,      (* the videos on the SD card, in directory order     *)
          Capacity,    (* frames the display can hold unseen: 4 buffers - 1 *)
          Presses      (* sets of keys that the edge register can capture   *)

ASSUME VideosAssumption ==
  /\ Videos \in Seq([frames : Nat, iframes : Seq(Nat)])
  /\ Videos # <<>>
  /\ \A v \in 1 .. Len(Videos) : IsVideo(Videos[v]) /\ ChoiceInTable(Videos[v])
ASSUME CapacityAssumption == Capacity \in Nat \ {0}

Keys == {"PLAY_PAUSE", "LOAD_NEXT", "FAST_FORWARD", "REWIND"}
ASSUME PressesAssumption == Presses \subseteq (SUBSET Keys) \ {{}}

VARIABLES
  master,          (* where the master's program is                         *)
  doing,           (* which function called process(): load, seek or play   *)
  flag,            (* sendRequest: ask for the frame after this one         *)
  playing,         (* playbackData.playing                                  *)
  currentFrame,    (* playbackData.currentFrame: frames displayed           *)
  processedFrame,  (* playbackData.processedFrame: frames registered        *)
  keyPressed,      (* what waitForButtonPress() has read                    *)
  lastButtonPressed,
  timerOn,         (* the frame timer runs                                  *)
  slave,           (* where the slave's program is                          *)
  prevType,        (* type of the request the slave served last             *)
  lastFrame,       (* the frame last read: lastFrameType and its sizes      *)
  video,           (* the open file; 0 before the first                     *)
  filePos,         (* the frame at the file position                        *)
  toSlave, slaveMsg,     (* mailbox to the slave; message it works on       *)
  toMaster, masterMsg,   (* mailbox to the master; message it works on      *)
  bitstream,       (* Ybitstream: the frame's compressed data               *)
  YDCAC,           (* luma coefficients, decoded in place                   *)
  CDCAC,           (* chroma coefficients (CbDCAC and CrDCAC)               *)
  dma,             (* the DMAs that are busy                                *)
  accel,           (* what has been streamed into the accelerator           *)
  picture,         (* what the accelerator has written to the frame buffer  *)
  screen, queue    (* the display                                           *)

masterVars == <<master, doing, flag, playing, currentFrame, processedFrame, keyPressed>>
keyVars == <<lastButtonPressed>>
timerVars == <<timerOn>>
slaveVars == <<slave, prevType, lastFrame, video, filePos>>
channelVars == <<toSlave, slaveMsg, toMaster, masterMsg>>
bufferVars == <<bitstream, YDCAC, CDCAC>>
accelVars == <<dma, accel, picture>>
displayVars == <<screen, queue>>
vars == <<masterVars, keyVars, timerVars, slaveVars, channelVars, bufferVars,
          accelVars, displayVars>>

-----------------------------------------------------------------------------
(* Frames and messages *)

NoFrame == <<0, 0>>
Torn == <<0, 1>>      (* being written *)
Bad == <<0, 2>>       (* decoded from the wrong data, or mixed *)

Frames == UNION { { <<v, n>> : n \in 0 .. Videos[v].frames - 1 } : v \in 1 .. Len(Videos) }
Contents == Frames \cup {NoFrame, Torn, Bad}

(* mpegHeader.num_frames; the header is zero until the first video.        *)
NumFrames == IF video = 0 THEN 0 ELSE Videos[video].frames

IsIframe(f) == \E k \in 1 .. Len(Videos[f[1]].iframes) : Videos[f[1]].iframes[k] = f[2]

(* lossless_decode() of one component of frame f, in place over the        *)
(* coefficients of the frame before: a P-frame is a difference.            *)
Decode(coefficients, data, f) ==
  IF data = f /\ f \in Frames /\ (IsIframe(f) \/ coefficients = <<f[1], f[2] - 1>>)
  THEN f ELSE Bad

Requests == {"READ_NEXT_FILE", "SEEK_VIDEO", "OK_TO_READ_NEXT_FRAME", "OK_TO_LD_Y"}
Replies == {"DONE_READ_NEXT_FRAME", "DONE_LD_Y"}
Message(type, frame) == [type |-> type, frame |-> frame]
NoMsg == Message("NONE", NoFrame)

ToSlave == INSTANCE MsgChannel WITH
             Msg <- [type : Requests, frame : Contents],
             channel <- toSlave, inUse <- slaveMsg
ToMaster == INSTANCE MsgChannel WITH
              Msg <- [type : Replies, frame : Contents],
              channel <- toMaster, inUse <- masterMsg
Display == INSTANCE FrameQueue WITH Frame <- Contents, Black <- NoFrame

-----------------------------------------------------------------------------
MasterPlaces ==
  {"load", "avail", "request", "requestY", "flag", "recvRead", "ldC", "ldCEnd",
   "okRead", "recvLdY", "startY", "waitY", "okLdY", "waitRgb", "register",
   "switch", "availNext", "drain", "play", "waitKey", "clearKey", "dispatch"}
SlavePlaces ==
  {"recv", "load", "read", "readEnd", "doneRead", "ldY", "ldYEnd", "doneLdY"}

(* Every variable has its type, and the display never holds more frames    *)
(* than it has buffers.                                                    *)
TypeOK ==
  /\ master \in MasterPlaces
  /\ doing \in {"load", "seek", "play"}
  /\ flag \in BOOLEAN
  /\ playing \in BOOLEAN
  /\ currentFrame \in Nat
  /\ processedFrame \in Nat
  /\ keyPressed \in SUBSET Keys
  /\ lastButtonPressed \in SUBSET Keys
  /\ timerOn \in BOOLEAN
  /\ slave \in SlavePlaces
  /\ prevType \in Requests \cup {"NONE"}
  /\ lastFrame \in Contents
  /\ video \in 0 .. Len(Videos)
  /\ filePos \in Nat
  /\ ToSlave!TypeOK
  /\ ToMaster!TypeOK
  /\ bitstream \in Contents
  /\ YDCAC \in Contents
  /\ CDCAC \in Contents
  /\ dma \subseteq {"Y", "C", "out"}
  /\ accel \in [{"Y", "C"} -> Contents]
  /\ picture \in Contents
  /\ Display!TypeOK

Init ==
  /\ master = "load"
  /\ doing = "load"
  /\ flag = FALSE
  /\ playing = FALSE
  /\ currentFrame = 0
  /\ processedFrame = 0
  /\ keyPressed = {}
  /\ lastButtonPressed = {}
  /\ timerOn = FALSE
  /\ slave = "recv"
  /\ prevType = "NONE"
  /\ lastFrame = NoFrame
  /\ video = 0
  /\ filePos = 0
  /\ ToSlave!Init
  /\ ToMaster!Init
  /\ bitstream = NoFrame
  /\ YDCAC = NoFrame
  /\ CDCAC = NoFrame
  /\ dma = {}
  /\ accel = [c \in {"Y", "C"} |-> NoFrame]
  /\ picture = NoFrame
  /\ Display!Init

-----------------------------------------------------------------------------
(* The master core: main.c and playback.c *)

(* closeVideo() and loadVideo(), up to the wait for a frame buffer.        *)
LoadVideo ==
  /\ master = "load"
  /\ master' = "avail"
  /\ doing' = "load"
  /\ playing' = FALSE
  /\ currentFrame' = 0
  /\ processedFrame' = 0
  /\ UNCHANGED <<flag, keyPressed, keyVars, timerVars, slaveVars, channelVars,
                 bufferVars, accelVars, displayVars>>

(* The spin loops on ece423_video_display_buffer_is_available().           *)
FreeBuffer == Display!HasRoom

BufferIsAvailable ==
  /\ master \in {"avail", "availNext"}
  /\ FreeBuffer
  /\ master' = IF master = "avail" THEN "request" ELSE "flag"
  /\ UNCHANGED <<doing, flag, playing, currentFrame, processedFrame, keyPressed, keyVars,
                 timerVars, slaveVars, channelVars, bufferVars, accelVars, displayVars>>

(* A send_*() of the master.                                               *)
MasterSend(type, frame) ==
  /\ ToSlave!Send(Message(type, frame))
  /\ UNCHANGED <<toMaster, masterMsg>>

(* The requests that start loadVideo(), seekFrame() and playVideo().  The  *)
(* first two are answered by one frame and no more (sendRequest is 0).     *)
SendRequest ==
  /\ master = "request"
  /\ \/ /\ doing = "load"
        /\ MasterSend("READ_NEXT_FILE", NoFrame)
        /\ master' = "recvRead"
        /\ flag' = FALSE
     \/ /\ doing = "seek"
        /\ MasterSend("SEEK_VIDEO", <<video, processedFrame>>)
        /\ master' = "recvRead"
        /\ flag' = FALSE
     \/ /\ doing = "play"
        /\ MasterSend("OK_TO_READ_NEXT_FRAME", NoFrame)
        /\ master' = "requestY"
        /\ UNCHANGED flag
  /\ UNCHANGED <<doing, playing, currentFrame, processedFrame, keyPressed, keyVars,
                 timerVars, slaveVars, bufferVars, accelVars, displayVars>>

SendRequestY ==
  /\ master = "requestY"
  /\ MasterSend("OK_TO_LD_Y", NoFrame)
  /\ master' = "flag"
  /\ UNCHANGED <<doing, flag, playing, currentFrame, processedFrame, keyPressed, keyVars,
                 timerVars, slaveVars, bufferVars, accelVars, displayVars>>

(* The first half of the condition of playVideo().                         *)
AnyFramesLeft == processedFrame < NumFrames         (* mutant: off by one *)
MoreThanOneLeft == processedFrame + 2 < NumFrames   (* mutant: off by one *)
FramesLeft == processedFrame < NumFrames - 1

(* playVideo() goes on for one more frame unless this is the last or a key *)
(* has been pressed.                                                       *)
DecideToGoOn ==
  /\ master = "flag"
  /\ flag' = (FramesLeft /\ lastButtonPressed = {})
  /\ master' = "recvRead"
  /\ UNCHANGED <<doing, playing, currentFrame, processedFrame, keyPressed, keyVars,
                 timerVars, slaveVars, channelVars, bufferVars, accelVars, displayVars>>

(* The two recv_msg() of process().  The assert()s on the type that follow *)
(* are compiled out.                                                       *)
MasterReceive ==
  /\ master \in {"recvRead", "recvLdY"}
  /\ ToMaster!Receive
  /\ master' = IF master = "recvRead" THEN "ldC" ELSE "startY"
  /\ UNCHANGED <<doing, flag, playing, currentFrame, processedFrame, keyPressed, keyVars,
                 timerVars, slaveVars, toSlave, slaveMsg, bufferVars, accelVars, displayVars>>

(* ld_idct_cr_cb(): decode the chroma ...                                  *)
BeginLdChroma ==
  /\ master = "ldC"
  /\ master' = "ldCEnd"
  /\ UNCHANGED <<doing, flag, playing, currentFrame, processedFrame, keyPressed, keyVars,
                 timerVars, slaveVars, channelVars, bufferVars, accelVars, displayVars>>

(* ... and start its DMA.                                                  *)
EndLdChroma ==
  /\ master = "ldCEnd"
  /\ CDCAC' = Decode(CDCAC, bitstream, masterMsg.frame)
  /\ dma' = dma \cup {"C"}
  /\ master' = IF flag THEN "okRead" ELSE "recvLdY"
  /\ UNCHANGED <<doing, flag, playing, currentFrame, processedFrame, keyPressed, keyVars,
                 timerVars, slaveVars, channelVars, bitstream, YDCAC, accel, picture,
                 displayVars>>

SendOkToReadNextFrame ==
  /\ master = "okRead"
  /\ MasterSend("OK_TO_READ_NEXT_FRAME", NoFrame)
  /\ master' = "recvLdY"
  /\ UNCHANGED <<doing, flag, playing, currentFrame, processedFrame, keyPressed, keyVars,
                 timerVars, slaveVars, bufferVars, accelVars, displayVars>>

(* What process() does next depends on sendRequest.                        *)
AlwaysAskForLuma == "waitY"             (* mutant: OK_TO_LD_Y without a request *)
AfterStartLuma == IF flag THEN "waitY" ELSE "waitRgb"

(* The DMA of the luma, and the one that writes the picture to the buffer. *)
StartLuma ==
  /\ master = "startY"
  /\ dma' = dma \cup {"Y", "out"}
  /\ picture' = Torn
  /\ master' = AfterStartLuma
  /\ UNCHANGED <<doing, flag, playing, currentFrame, processedFrame, keyPressed, keyVars,
                 timerVars, slaveVars, channelVars, bufferVars, accel, displayVars>>

(* wait_for_idct_y_finsh().                                                *)
LumaMayBeBusy == TRUE                   (* mutant: the wait is left out *)
LumaIdle == "Y" \notin dma

LumaStreamed ==
  /\ master = "waitY"
  /\ LumaIdle
  /\ master' = "okLdY"
  /\ UNCHANGED <<doing, flag, playing, currentFrame, processedFrame, keyPressed, keyVars,
                 timerVars, slaveVars, channelVars, bufferVars, accelVars, displayVars>>

SendOkToLdY ==
  /\ master = "okLdY"
  /\ MasterSend("OK_TO_LD_Y", NoFrame)
  /\ master' = "waitRgb"
  /\ UNCHANGED <<doing, flag, playing, currentFrame, processedFrame, keyPressed, keyVars,
                 timerVars, slaveVars, bufferVars, accelVars, displayVars>>

(* wait_for_ycbcr_to_rgb_finsh().                                          *)
PictureWritten ==
  /\ master = "waitRgb"
  /\ "out" \notin dma
  /\ master' = "register"
  /\ UNCHANGED <<doing, flag, playing, currentFrame, processedFrame, keyPressed, keyVars,
                 timerVars, slaveVars, channelVars, bufferVars, accelVars, displayVars>>

(* ece423_video_display_register_written_buffer().                         *)
RegisterPicture ==
  /\ master = "register"
  /\ Display!Put(picture)
  /\ processedFrame' = processedFrame + 1
  /\ master' = IF doing # "play" THEN "switch"
               ELSE IF flag THEN "availNext" ELSE "drain"
  /\ UNCHANGED <<doing, flag, playing, currentFrame, keyPressed, keyVars, timerVars,
                 slaveVars, channelVars, bufferVars, accelVars>>

(* noTimer: the master switches frames itself, counts the frame whether or *)
(* not there was one to switch to, and loadVideo() or seekFrame() returns. *)
SwitchFrames ==
  /\ master = "switch"
  /\ \/ Display!Show
     \/ queue = <<>> /\ UNCHANGED displayVars
  /\ currentFrame' = currentFrame + 1
  /\ master' = IF doing = "seek" /\ playing THEN "play" ELSE "waitKey"
  /\ UNCHANGED <<doing, flag, playing, processedFrame, keyPressed, keyVars, timerVars,
                 slaveVars, channelVars, bufferVars, accelVars>>

(* playVideo(), up to the wait for a frame buffer.                         *)
PlayVideo ==
  /\ master = "play"
  /\ playing' = (currentFrame < NumFrames)
  /\ \/ /\ playing'
        /\ doing' = "play"
        /\ timerOn' = TRUE
        /\ master' = "avail"
     \/ /\ ~playing'
        /\ master' = "waitKey"
        /\ UNCHANGED <<doing, timerOn>>
  /\ UNCHANGED <<flag, currentFrame, processedFrame, keyPressed, keyVars, slaveVars,
                 channelVars, bufferVars, accelVars, displayVars>>

(* playVideo() returns once the timer has displayed all that was processed.*)
SomeDisplayed == TRUE                   (* mutant: the loop is left out *)
AllDisplayed == currentFrame >= processedFrame

StopPlaying ==
  /\ master = "drain"
  /\ AllDisplayed
  /\ playing' = (currentFrame < NumFrames)
  /\ timerOn' = FALSE
  /\ master' = "waitKey"
  /\ UNCHANGED <<doing, flag, currentFrame, processedFrame, keyPressed, keyVars, slaveVars,
                 channelVars, bufferVars, accelVars, displayVars>>

(* waitForButtonPress() reads the key ...                                  *)
ReadKey ==
  /\ master = "waitKey"
  /\ lastButtonPressed # {}
  /\ keyPressed' = lastButtonPressed
  /\ master' = "clearKey"
  /\ UNCHANGED <<doing, flag, playing, currentFrame, processedFrame, keyVars, timerVars,
                 slaveVars, channelVars, bufferVars, accelVars, displayVars>>

(* Mutant: lastButtonPressed is not reset.                                 *)
KeepKey ==
  /\ master = "clearKey"
  /\ master' = "dispatch"
  /\ UNCHANGED <<doing, flag, playing, currentFrame, processedFrame, keyPressed, keyVars,
                 timerVars, slaveVars, channelVars, bufferVars, accelVars, displayVars>>

(* ... and makes room for the next in a step of its own.                   *)
ClearKey ==
  /\ master = "clearKey"
  /\ lastButtonPressed' = {}
  /\ master' = "dispatch"
  /\ UNCHANGED <<doing, flag, playing, currentFrame, processedFrame, keyPressed, timerVars,
                 slaveVars, channelVars, bufferVars, accelVars, displayVars>>

(* seekFrame(), up to the wait for a frame buffer.                         *)
SeekFrame(frame) ==
  /\ currentFrame' = frame
  /\ processedFrame' = frame
  /\ doing' = "seek"
  /\ master' = "avail"
  /\ UNCHANGED playing

(* The loop of doWork(): the first of four keys that is pressed counts.    *)
Dispatch ==
  /\ master = "dispatch"
  /\ \/ /\ "PLAY_PAUSE" \in keyPressed
        /\ playing' = FALSE                       (* pauseVideo(), if it was playing *)
        /\ master' = IF playing THEN "waitKey" ELSE "play"
        /\ UNCHANGED <<doing, currentFrame, processedFrame>>
     \/ /\ "PLAY_PAUSE" \notin keyPressed
        /\ "LOAD_NEXT" \in keyPressed
        /\ master' = "load"
        /\ UNCHANGED <<doing, playing, currentFrame, processedFrame>>
     \/ /\ keyPressed \cap {"PLAY_PAUSE", "LOAD_NEXT"} = {}
        /\ "FAST_FORWARD" \in keyPressed
        /\ IF CanFastForward(Videos[video], currentFrame)
           THEN SeekFrame(frame_index(Videos[video],
                                      FastForwardIndex(Videos[video], currentFrame)))
           ELSE /\ playing' = FALSE
                /\ master' = "waitKey"
                /\ UNCHANGED <<doing, currentFrame, processedFrame>>
     \/ /\ keyPressed = {"REWIND"}
        /\ SeekFrame(frame_index(Videos[video], RewindIndex(Videos[video], currentFrame)))
  /\ UNCHANGED <<flag, keyPressed, keyVars, timerVars, slaveVars, channelVars, bufferVars,
                 accelVars, displayVars>>

MasterStep ==
  \/ LoadVideo \/ BufferIsAvailable \/ SendRequest \/ SendRequestY \/ DecideToGoOn
  \/ MasterReceive \/ BeginLdChroma \/ EndLdChroma \/ SendOkToReadNextFrame
  \/ StartLuma \/ LumaStreamed \/ SendOkToLdY \/ PictureWritten \/ RegisterPicture
  \/ SwitchFrames \/ PlayVideo \/ StopPlaying \/ ReadKey \/ ClearKey \/ Dispatch

-----------------------------------------------------------------------------
(* The slave core: doWork() of core1/software/main.c *)

(* The next request is taken and told by its type.                         *)
SlaveReceive ==
  /\ slave = "recv"
  /\ ToSlave!Receive
  /\ slave' = CASE toSlave.type = "READ_NEXT_FILE" -> "load"
                [] toSlave.type = "OK_TO_LD_Y" -> "ldY"
                [] OTHER -> "read"
  /\ filePos' = IF toSlave.type = "SEEK_VIDEO" THEN toSlave.frame[2] ELSE filePos
  /\ UNCHANGED <<masterVars, keyVars, timerVars, prevType, lastFrame, video,
                 toMaster, masterMsg, bufferVars, accelVars, displayVars>>

(* findLoadNextVideo(): the next file of the directory, from the first     *)
(* again after the last; its header and trailer become the master's.       *)
FindLoadNextVideo ==
  /\ slave = "load"
  /\ video' = (video % Len(Videos)) + 1
  /\ filePos' = 0
  /\ slave' = "read"
  /\ UNCHANGED <<masterVars, keyVars, timerVars, prevType, lastFrame, channelVars,
                 bufferVars, accelVars, displayVars>>

(* readFrameData() overwrites the bitstream ...                            *)
BeginReadFrame ==
  /\ slave = "read"
  /\ bitstream' = Torn
  /\ slave' = "readEnd"
  /\ UNCHANGED <<masterVars, keyVars, timerVars, prevType, lastFrame, video, filePos,
                 channelVars, YDCAC, CDCAC, accelVars, displayVars>>

(* ... with the frame at the file position, if there is one.               *)
EndReadFrame ==
  /\ slave = "readEnd"
  /\ filePos < NumFrames
  /\ bitstream' = <<video, filePos>>
  /\ lastFrame' = <<video, filePos>>
  /\ filePos' = filePos + 1
  /\ slave' = "doneRead"
  /\ UNCHANGED <<masterVars, keyVars, timerVars, prevType, video, channelVars,
                 YDCAC, CDCAC, accelVars, displayVars>>

SlaveSend(type, frame) ==
  /\ ToMaster!Send(Message(type, frame))
  /\ UNCHANGED <<toSlave, slaveMsg>>

(* The reply carries the sizes and the type of the frame.  A load or a     *)
(* seek goes straight on to the luma.                                      *)
SendDoneReadNextFrame ==
  /\ slave = "doneRead"
  /\ SlaveSend("DONE_READ_NEXT_FRAME", lastFrame)
  /\ IF slaveMsg.type = "OK_TO_READ_NEXT_FRAME"
     THEN slave' = "recv" /\ prevType' = "OK_TO_READ_NEXT_FRAME"
     ELSE slave' = "ldY" /\ UNCHANGED prevType
  /\ UNCHANGED <<masterVars, keyVars, timerVars, lastFrame, video, filePos, bufferVars,
                 accelVars, displayVars>>

(* lossless_decode() of the luma.                                          *)
BeginLdLuma ==
  /\ slave = "ldY"
  /\ slave' = "ldYEnd"
  /\ UNCHANGED <<masterVars, keyVars, timerVars, prevType, lastFrame, video, filePos,
                 channelVars, bufferVars, accelVars, displayVars>>

EndLdLuma ==
  /\ slave = "ldYEnd"
  /\ YDCAC' = Decode(YDCAC, bitstream, lastFrame)
  /\ slave' = "doneLdY"
  /\ UNCHANGED <<masterVars, keyVars, timerVars, prevType, lastFrame, video, filePos,
                 channelVars, bitstream, CDCAC, accelVars, displayVars>>

SendDoneLdY ==
  /\ slave = "doneLdY"
  /\ SlaveSend("DONE_LD_Y", NoFrame)
  /\ prevType' = "OK_TO_LD_Y"
  /\ slave' = "recv"
  /\ UNCHANGED <<masterVars, keyVars, timerVars, lastFrame, video, filePos, bufferVars,
                 accelVars, displayVars>>

SlaveStep ==
  \/ SlaveReceive \/ FindLoadNextVideo \/ BeginReadFrame \/ EndReadFrame
  \/ SendDoneReadNextFrame \/ BeginLdLuma \/ EndLdLuma \/ SendDoneLdY

-----------------------------------------------------------------------------
(* The accelerator, the timer and the buttons *)

(* A DMA has streamed the last coefficient of its component.               *)
Streamed(c) ==
  /\ c \in dma
  /\ dma' = dma \ {c}
  /\ accel' = [accel EXCEPT ![c] = IF c = "Y" THEN YDCAC ELSE CDCAC]
  /\ UNCHANGED <<masterVars, keyVars, timerVars, slaveVars, channelVars, bufferVars,
                 picture, displayVars>>

(* The last pixel is written.  Every pixel needs all the components.       *)
PictureDone ==
  /\ dma = {"out"}
  /\ dma' = {}
  /\ picture' = IF accel["Y"] = accel["C"] THEN accel["Y"] ELSE Bad
  /\ accel' = [c \in {"Y", "C"} |-> NoFrame]
  /\ UNCHANGED <<masterVars, keyVars, timerVars, slaveVars, channelVars, bufferVars,
                 displayVars>>

(* Mutant: the result of switch_frames() is not looked at.                 *)
CountEveryTick ==
  /\ timerOn
  /\ Display!Show \/ (queue = <<>> /\ UNCHANGED displayVars)
  /\ currentFrame' = currentFrame + 1
  /\ UNCHANGED <<master, doing, flag, playing, processedFrame, keyPressed, keyVars,
                 timerVars, slaveVars, channelVars, bufferVars, accelVars>>

(* timerFunction(): the interrupt handler, which the master's program does *)
(* not see at work.  Without a new frame it changes nothing.               *)
TimerTick ==
  /\ timerOn
  /\ Display!Show
  /\ currentFrame' = currentFrame + 1
  /\ UNCHANGED <<master, doing, flag, playing, processedFrame, keyPressed, keyVars,
                 timerVars, slaveVars, channelVars, bufferVars, accelVars>>

(* keyIrq(): buttons pressed while one waits to be served are ignored.     *)
KeyIrq(pressed) ==
  /\ lastButtonPressed = {}
  /\ lastButtonPressed' = pressed
  /\ UNCHANGED <<masterVars, timerVars, slaveVars, channelVars, bufferVars, accelVars,
                 displayVars>>

-----------------------------------------------------------------------------
Next ==
  \/ MasterStep
  \/ SlaveStep
  \/ \E c \in {"Y", "C"} : Streamed(c)
  \/ PictureDone
  \/ TimerTick
  \/ \E pressed \in Presses : KeyIrq(pressed)

(* Both cores run, every DMA finishes and the timer ticks while it is on;  *)
(* nobody has to press a button.                                           *)
Fairness ==
  /\ WF_vars(MasterStep)
  /\ WF_vars(SlaveStep)
  /\ \A c \in {"Y", "C"} : WF_vars(Streamed(c))
  /\ WF_vars(PictureDone)
  /\ WF_vars(TimerTick)

Spec == Init /\ [][Next]_vars /\ Fairness

-----------------------------------------------------------------------------
(* Properties *)

(* No buffer is written by one party while another uses it: the slave does *)
(* not read a frame into the bitstream the master decodes (playback.c:91   *)
(* sends the permission after that), and no core decodes into coefficients *)
(* a DMA is streaming (playback.c:114, 121).                               *)
NoBufferRace ==
  /\ ~(slave = "readEnd" /\ master = "ldCEnd")
  /\ ~(slave = "ldYEnd" /\ "Y" \in dma)
  /\ ~(master = "ldCEnd" /\ "C" \in dma)

(* What the asserts of core1/software/main.c:296, 315 and of playback.c:85,*)
(* 98 say of the order of the messages, and the build does not check.      *)
MessagesInOrder ==
  /\ slave = "read" /\ slaveMsg.type = "OK_TO_READ_NEXT_FRAME" => prevType = "OK_TO_LD_Y"
  /\ slave = "ldY" /\ slaveMsg.type = "OK_TO_LD_Y" => prevType = "OK_TO_READ_NEXT_FRAME"
  /\ master = "ldC" => masterMsg.type = "DONE_READ_NEXT_FRAME"
  /\ master = "startY" => masterMsg.type = "DONE_LD_Y"

(* The slave is never asked for a frame after the last: its read would     *)
(* fail and stop it for good (core1/software/main.c:154).                  *)
SlaveStaysInFile == slave = "readEnd" => filePos < NumFrames

(* The two counters say exactly what is on the screen and what waits for   *)
(* it: every frame between them, whole (luma and chroma of that frame,     *)
(* decoded from the right predecessor), in order.  They stay in the video  *)
(* and in their order, on which the unsigned subtractions of               *)
(* playback.c:163, 185 and 218 and the end of playVideo() rely.            *)
FramesInStep ==
  /\ processedFrame <= NumFrames
  /\ Len(queue) = processedFrame - currentFrame
  /\ \A i \in 1 .. Len(queue) : queue[i] = <<video, currentFrame + i - 1>>
  /\ doing = "play" \/ master \in {"waitKey", "clearKey", "dispatch", "play"} =>
       screen = <<video, currentFrame - 1>>

(* Whenever the master waits for a button everything it started has ended: *)
(* no message is under way, the slave and the DMAs are idle, the timer is  *)
(* stopped, and every frame processed has been displayed.  Load and seek   *)
(* write currentFrame and switch frames themselves relying on that.        *)
QuietWhenWaiting ==
  master \in {"waitKey", "clearKey", "dispatch"} =>
    /\ slave = "recv" /\ prevType = "OK_TO_LD_Y"
    /\ toSlave = NoMsg /\ toMaster = NoMsg
    /\ dma = {} /\ ~timerOn
    /\ queue = <<>> /\ currentFrame = processedFrame

(* The viewer sees whole frames, and a frame that is not an I-frame only   *)
(* directly after the frame it was coded against.                          *)
ScreenFollows ==
  [][screen' # screen =>
       /\ screen' \in Frames
       /\ IsIframe(screen') \/ screen' = <<screen[1], screen[2] + 1>>]_vars

(* Whatever the master does - loading, seeking, playing - it comes back to *)
(* the buttons: no wait for the slave, a DMA or a frame buffer is for ever.*)
ReturnsToButtons == (master # "waitKey") ~> (master = "waitKey")

(* A button that was latched is served, also in the middle of playing.     *)
ButtonIsServed == (lastButtonPressed # {}) ~> (lastButtonPressed = {})

(* Left alone, a video plays to its last frame.                            *)
PlaysToTheEnd ==
  (timerOn /\ lastButtonPressed = {}) ~>
     (lastButtonPressed # {} \/ currentFrame = NumFrames)
=============================================================================
