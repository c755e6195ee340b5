---------------------------- MODULE PlayerProofs ----------------------------
(***************************************************************************)
(* Proofs about Player, for all videos, all capacities of the display and  *)
(* all sets of keys: the messages of the two cores come in order, no two   *)
(* parties use a buffer at a time, the slave never reads past the end of   *)
(* a video, and the screen shows whole, rightly decoded frames in order.   *)
(*                                                                         *)
(* The argument: at every place of the master's program it is known which  *)
(* replies are still owed to it, and these are exactly what waits in the   *)
(* mailbox to the master, what the slave is working on, and what is asked  *)
(* for in the mailbox to the slave, in this order (PipelineInv).  All else *)
(* is said of the slave's place alone (IdleInv, WorkInv) or of the         *)
(* master's (MasterInv, QueueInv, ChromaInv, AccelInv); PositionInv ties   *)
(* the slave's file position to the master's counter, and ReplyInv the     *)
(* replies to both.                                                        *)
(***************************************************************************)
EXTENDS Player, TLAPS

Waiting == {"waitKey", "clearKey", "dispatch"}

(* From the wait for a frame buffer to the registration of the picture.    *)
Drawing == {"request", "requestY", "flag", "recvRead", "ldC", "ldCEnd", "okRead",
            "recvLdY", "startY", "waitY", "okLdY", "waitRgb", "register"}
Working == Drawing \cup {"avail", "availNext"}

(* Inside process(), and in its part after the chroma is decoded.          *)
Decoded == {"okRead", "recvLdY", "startY", "waitY", "okLdY", "waitRgb", "register"}
Processing == Decoded \cup {"recvRead", "ldC", "ldCEnd"}

DoneRead == "DONE_READ_NEXT_FRAME"
DoneLuma == "DONE_LD_Y"
OkToRead == "OK_TO_READ_NEXT_FRAME"
OkToLuma == "OK_TO_LD_Y"
Starts == {"READ_NEXT_FILE", "SEEK_VIDEO"}

(* The replies the master will still receive, in their order.              *)
Owed ==
  CASE master = "requestY" -> "read"
    [] master \in {"flag", "recvRead", "availNext"} -> "read, luma"
    [] master \in {"ldC", "ldCEnd", "okRead"} -> "luma"
    [] master = "recvLdY" -> IF flag THEN "luma, read" ELSE "luma"
    [] master \in {"startY", "waitY", "okLdY"} -> IF flag THEN "read" ELSE "nothing"
    [] master \in {"waitRgb", "register"} -> IF flag THEN "read, luma" ELSE "nothing"
    [] OTHER -> "nothing"

(* What the slave is doing: loading or seeking a video, it goes on from    *)
(* the reading to the luma by itself.                                      *)
Work ==
  CASE slave = "recv" -> "idle"
    [] slave \in {"ldY", "ldYEnd", "doneLdY"} -> "luma"
    [] OTHER -> IF slaveMsg.type \in Starts THEN "read, luma" ELSE "read"

(* What waits for the master, what the slave does, what waits for it.      *)
Pipeline(reply, work, request) ==
  toMaster.type = reply /\ Work = work /\ toSlave.type = request

PipelineInv ==
  /\ Owed = "nothing" => Pipeline("NONE", "idle", "NONE")
  /\ Owed = "read" => \/ Pipeline("NONE", "idle", OkToRead)
                      \/ Pipeline("NONE", "read", "NONE")
                      \/ Pipeline(DoneRead, "idle", "NONE")
  /\ Owed = "luma" => \/ doing = "play" /\ Pipeline("NONE", "idle", OkToLuma)
                      \/ Pipeline("NONE", "luma", "NONE")
                      \/ Pipeline(DoneLuma, "idle", "NONE")
  /\ Owed = "luma, read" => \/ Pipeline("NONE", "luma", OkToRead)
                            \/ Pipeline(DoneLuma, "idle", OkToRead)
                            \/ Pipeline(DoneLuma, "read", "NONE")
  /\ Owed = "read, luma" /\ doing = "play" =>
       \/ Pipeline("NONE", "read", OkToLuma)
       \/ Pipeline(DoneRead, "idle", OkToLuma)
       \/ Pipeline(DoneRead, "luma", "NONE")
  /\ Owed = "read, luma" /\ doing # "play" =>
       \/ Pipeline("NONE", "idle",
                   IF doing = "load" THEN "READ_NEXT_FILE" ELSE "SEEK_VIDEO")
       \/ Pipeline("NONE", "read, luma", "NONE")
       \/ Pipeline(DoneRead, "luma", "NONE")

(* The last request was for a frame, and the one for its luma is to come.  *)
LumaNotAsked ==
  \/ master = "requestY"
  \/ flag /\ master \in {"recvLdY", "startY", "waitY", "okLdY"}

LastRead == <<video, filePos - 1>>

(* Between two requests the slave has a whole frame in the bitstream, its  *)
(* luma decoded or about to be asked for.                                  *)
IdleInv ==
  slave = "recv" =>
    /\ prevType \in {OkToRead, OkToLuma, "NONE"}
    /\ (prevType = OkToRead) <=> \/ toSlave.type = OkToLuma
                                 \/ toSlave.type = "NONE" /\ LumaNotAsked
    /\ prevType = "NONE" =>
         /\ doing = "load"
         /\ master \in {"load", "avail", "request"} \/ toSlave.type # "NONE"
    /\ prevType # "NONE" => video # 0 /\ lastFrame = LastRead /\ bitstream = LastRead
    /\ prevType = OkToRead => YDCAC = <<video, filePos - 2>>
    /\ prevType = OkToLuma => YDCAC = LastRead

(* What the slave has in its hands while it works.  Only a frame that      *)
(* starts a video or a seek need not follow its predecessor: an I-frame.   *)
WorkInv ==
  /\ slave = "load" => slaveMsg.type = "READ_NEXT_FILE"
  /\ slave # "recv" =>
       IF slaveMsg.type \in Starts
       THEN /\ prevType # OkToRead
            /\ doing = IF slaveMsg.type = "READ_NEXT_FILE" THEN "load" ELSE "seek"
       ELSE /\ doing = "play"
            /\ IF Work = "luma" THEN slaveMsg.type = OkToLuma /\ prevType = OkToRead
               ELSE slaveMsg.type = OkToRead /\ prevType = OkToLuma
  /\ slave \in {"read", "readEnd"} =>
       /\ filePos < NumFrames
       /\ IF slaveMsg.type \in Starts THEN IsIframe(<<video, filePos>>)
          ELSE YDCAC = <<video, filePos - 1>>
  /\ slave \in {"doneRead", "ldY", "ldYEnd", "doneLdY"} =>
       video # 0 /\ lastFrame = LastRead /\ bitstream = LastRead /\ LastRead \in Frames
  /\ slave \in {"doneRead", "ldY", "ldYEnd"} =>
       IF slaveMsg.type \in Starts THEN IsIframe(LastRead)
       ELSE YDCAC = <<video, filePos - 2>>
  /\ slave = "doneLdY" => YDCAC = LastRead

(* How many frames of the video the master has asked for.                  *)
Asked ==
  CASE master \in {"requestY", "flag", "recvRead", "ldC", "ldCEnd", "okRead",
                    "availNext"} ->
         processedFrame + 1
    [] master \in {"recvLdY", "startY", "waitY", "okLdY", "waitRgb", "register"} ->
         IF flag THEN processedFrame + 2 ELSE processedFrame + 1
    [] OTHER -> processedFrame

(* A load or a seek that has not come to the slave will set the position.  *)
Relocating == \/ toSlave.type \in Starts
              \/ slave = "load"
              \/ master = "load"
              \/ doing # "play" /\ master \in {"avail", "request"}

Current == <<video, processedFrame>>

PositionInv ==
  /\ toSlave.type = "SEEK_VIDEO" => toSlave.frame = Current
  /\ ~Relocating => IF toSlave.type = OkToRead \/ slave \in {"read", "readEnd"}
                    THEN filePos = Asked - 1
                    ELSE filePos = Asked

(* A reply names the frame that was asked for.                             *)
ReplyInv ==
  /\ toMaster.type = DoneRead => toMaster.frame = LastRead
  /\ master \in {"ldC", "ldCEnd"} =>
       masterMsg.type = DoneRead /\ masterMsg.frame = Current
  /\ master = "startY" => masterMsg.type = DoneLuma

(* The master processes only frames of the video; load and seek begin with *)
(* an I-frame, all displayed and the timer stopped.                        *)
MasterInv ==
  /\ master \in Processing /\ flag =>
       doing = "play" /\ processedFrame + 1 < NumFrames
  /\ master \in {"okRead", "waitY", "okLdY"} => flag
  /\ master \in {"requestY", "flag", "availNext", "drain"} => doing = "play"
  /\ master = "switch" => doing # "play"
  /\ master \in Working /\ doing # "load" => video # 0 /\ processedFrame < NumFrames
  /\ master \in Working /\ doing = "load" => processedFrame = 0
  /\ master \in Working /\ doing = "seek" => IsIframe(Current)
  /\ master \in Working /\ doing # "play" =>
       currentFrame = processedFrame /\ ~timerOn
  /\ master = "switch" =>
       /\ currentFrame = processedFrame - 1 /\ ~timerOn
       /\ IsIframe(<<video, currentFrame>>)
  /\ master \in Waiting \cup {"play", "load"} =>
       currentFrame = processedFrame /\ ~timerOn
  /\ master \in Waiting \cup {"play", "drain", "switch"} => video # 0
  /\ master \in Drawing => Len(queue) < Capacity
  /\ doing # "load" => video # 0

(* The frames between the two counters wait, in order.                     *)
QueueInv ==
  /\ processedFrame <= NumFrames
  /\ Len(queue) = processedFrame - currentFrame
  /\ \A i \in 1 .. Len(queue) : queue[i] = <<video, currentFrame + i - 1>>
  /\ doing = "play" \/ master \in Waiting \cup {"play"} =>
       screen = <<video, currentFrame - 1>>

(* The chroma is that of the current frame, or of the one before it.       *)
ChromaInv ==
  /\ master \in Decoded => CDCAC = Current
  /\ \/ master \in Waiting \cup {"play", "switch"}
     \/ doing = "play" /\ master \notin Decoded \cup {"load"}
     => CDCAC = <<video, processedFrame - 1>>

(* What the DMAs have streamed and written is the current frame.           *)
AccelInv ==
  /\ master \notin Decoded \ {"register"} => dma = {}
  /\ master \in {"okRead", "recvLdY", "startY"} =>
       dma \subseteq {"C"} /\ ("C" \notin dma => accel["C"] = Current)
  /\ master \in {"waitY", "okLdY", "waitRgb"} =>
       IF "out" \in dma
       THEN /\ "Y" \notin dma => accel["Y"] = Current
            /\ "C" \notin dma => accel["C"] = Current
       ELSE dma = {} /\ picture = Current
  /\ "Y" \in dma => master = "waitY" \/ (master = "waitRgb" /\ ~flag)
  /\ master = "register" => picture = Current

IInv == /\ TypeOK /\ PipelineInv /\ IdleInv /\ WorkInv /\ PositionInv /\ ReplyInv
        /\ MasterInv /\ QueueInv /\ ChromaInv /\ AccelInv

-----------------------------------------------------------------------------
(* Frames, and the tables of I-frames *)

USE DEF DoneRead, DoneLuma, OkToRead, OkToLuma, Starts, masterVars, keyVars,
        timerVars, slaveVars, channelVars, bufferVars, accelVars, displayVars

(* Every video has a first frame, an I-frame, and its table lists frames.  *)
LEMMA VideoFacts ==
  ASSUME NEW v \in 1 .. Len(Videos)
  PROVE  /\ Videos[v].frames \in Nat \ {0}
         /\ Videos[v].iframes \in Seq(0 .. Videos[v].frames - 1)
         /\ IsIframe(<<v, 0>>)
  <1>1. IsVideo(Videos[v])
    BY VideosAssumption
  <1>2. 1 \in 1 .. Len(Videos[v].iframes)
    BY <1>1 DEF IsVideo
  <1>. QED
    BY <1>1, <1>2 DEF IsVideo, IsIframe

LEMMA NumFramesIsNat ==
  ASSUME TypeOK
  PROVE  /\ NumFrames \in Nat
         /\ video # 0 => video \in 1 .. Len(Videos) /\ NumFrames > 0
  <1>1. video = 0 \/ video \in 1 .. Len(Videos)
    BY VideosAssumption DEF TypeOK
  <1>2. CASE video = 0
    BY <1>2 DEF NumFrames
  <1>3. CASE video \in 1 .. Len(Videos)
    <2>1. Videos[video].frames \in Nat \ {0}
      BY <1>3, VideoFacts
    <2>. QED
      BY <1>3, <2>1 DEF NumFrames
  <1>. QED
    BY <1>1, <1>2, <1>3

LEMMA FrameOfVideo ==
  ASSUME TypeOK, video # 0, NEW n \in Nat, n < NumFrames
  PROVE  <<video, n>> \in Frames
  <1>1. video \in 1 .. Len(Videos) /\ NumFrames = Videos[video].frames
    BY NumFramesIsNat DEF NumFrames
  <1>2. n \in 0 .. Videos[video].frames - 1
    <2>1. Videos[video].frames \in Nat
      BY <1>1, VideoFacts
    <2>. QED
      BY <1>1, <2>1
  <1>. QED
    BY <1>1, <1>2 DEF Frames

(* Whatever row of the table is chosen, it has an I-frame of the video.    *)
LEMMA RowHasIframe ==
  ASSUME TypeOK, video # 0, NEW k \in 0 .. num_iframes(Videos[video]) - 1
  PROVE  /\ frame_index(Videos[video], k) \in Nat
         /\ frame_index(Videos[video], k) < NumFrames
         /\ IsIframe(<<video, frame_index(Videos[video], k)>>)
  <1>1. video \in 1 .. Len(Videos) /\ NumFrames = Videos[video].frames
    BY NumFramesIsNat DEF NumFrames
  <1>2. /\ Videos[video].frames \in Nat
        /\ Videos[video].iframes \in Seq(0 .. Videos[video].frames - 1)
    BY <1>1, VideoFacts
  <1>3. k + 1 \in 1 .. Len(Videos[video].iframes)
    BY <1>2 DEF num_iframes
  <1>4. Videos[video].iframes[k + 1] \in 0 .. Videos[video].frames - 1
    BY <1>2, <1>3
  <1>. QED
    BY <1>1, <1>2, <1>3, <1>4 DEF frame_index, IsIframe

(* The two seeks go to an I-frame of the video (playback.c:205, 226).      *)
LEMMA SeekTargets ==
  ASSUME TypeOK, video # 0, currentFrame <= NumFrames
  PROVE  /\ CanFastForward(Videos[video], currentFrame) =>
              FastForwardIndex(Videos[video], currentFrame)
                \in 0 .. num_iframes(Videos[video]) - 1
         /\ RewindIndex(Videos[video], currentFrame)
              \in 0 .. num_iframes(Videos[video]) - 1
  <1>1. video \in 1 .. Len(Videos) /\ NumFrames = Videos[video].frames
    BY NumFramesIsNat DEF NumFrames
  <1>2. ChoiceInTable(Videos[video])
    BY <1>1, VideosAssumption
  <1>3. currentFrame \in 0 .. Videos[video].frames
    BY <1>1, VideoFacts DEF TypeOK
  <1>. QED
    BY <1>2, <1>3 DEF ChoiceInTable

LEMMA ContentsFacts ==
  /\ Frames \subseteq Contents
  /\ {NoFrame, Torn, Bad} \subseteq Contents
  /\ \A c, d, f : Decode(c, d, f) \in Contents
  BY DEF Contents, Decode

(* The display: what registering and showing do to the queue.              *)
LEMMA PutFacts ==
  ASSUME TypeOK, Display!Put(picture), Len(queue) < Capacity
  PROVE  /\ Display!TypeOK'
         /\ Len(queue') = Len(queue) + 1
         /\ \A i \in 1 .. Len(queue') :
              queue'[i] = IF i <= Len(queue) THEN queue[i] ELSE picture
  BY CapacityAssumption DEF TypeOK, Display!TypeOK, Display!Put

LEMMA ShowFacts ==
  ASSUME TypeOK, Display!Show
  PROVE  /\ Display!TypeOK'
         /\ Len(queue) \in Nat \ {0}
         /\ Len(queue') = Len(queue) - 1
         /\ \A i \in 1 .. Len(queue') : queue'[i] = queue[i + 1]
         /\ screen' = queue[1]
  BY CapacityAssumption DEF TypeOK, Display!TypeOK, Display!Show

-----------------------------------------------------------------------------
(* Where the two programs are *)

LEMMA VideoIsOpen ==
  ASSUME IInv, master \in Processing \ {"recvRead"}
  PROVE  video # 0
  <1>1. CASE doing # "load"
    BY <1>1 DEF IInv, MasterInv
  <1>2. CASE doing = "load"
    <2>1. ~flag
      BY <1>2 DEF IInv, MasterInv
    <2>2. Owed = "luma" \/ Owed = "nothing"
      BY <1>2, <2>1 DEF Owed, Processing, Decoded, IInv, MasterInv
    <2>3. CASE slave = "recv"
      <3>1. master \notin {"load", "avail", "request"} /\ ~LumaNotAsked
        BY <2>1 DEF LumaNotAsked, Processing, Decoded
      <3>2. toSlave.type \in {"NONE", OkToLuma}
        BY <2>2, <2>3 DEF IInv, PipelineInv, Pipeline, Work
      <3>. QED
        BY <2>3, <3>1, <3>2 DEF IInv, IdleInv
    <2>4. CASE slave # "recv"
      <3>1. slave \in {"ldY", "ldYEnd", "doneLdY"}
        BY <2>2, <2>4 DEF IInv, PipelineInv, Pipeline, Work
      <3>. QED
        BY <3>1 DEF IInv, WorkInv
    <2>. QED
      BY <2>3, <2>4
  <1>. QED
    BY <1>1, <1>2

(* What a waiting request says of the two programs.                        *)
LEMMA RequestFacts ==
  ASSUME IInv, slave = "recv"
  PROVE  /\ toSlave.type \in Starts =>
              /\ prevType # OkToRead
              /\ doing = IF toSlave.type = "READ_NEXT_FILE" THEN "load" ELSE "seek"
              /\ master = "recvRead" /\ ~flag
         /\ toSlave.type = OkToRead =>
              /\ prevType = OkToLuma /\ doing = "play"
              /\ LumaNotAsked
         /\ toSlave.type = OkToLuma => prevType = OkToRead /\ doing = "play"
  <1>1. /\ prevType \in {OkToRead, OkToLuma, "NONE"}
        /\ toSlave.type \in Starts \cup {OkToRead} => prevType # OkToRead
        /\ toSlave.type = OkToLuma => prevType = OkToRead
        /\ prevType = "NONE" => doing = "load"
    BY DEF IInv, IdleInv
  <1>2. Work = "idle" /\ doing \in {"load", "seek", "play"}
    BY DEF Work, IInv, TypeOK
  <1>. QED
    BY <1>1, <1>2
    DEF IInv, PipelineInv, Pipeline, Owed, MasterInv, Processing, Decoded,
        LumaNotAsked

(* A video is loaded while the master waits for its first frame.           *)
LEMMA LoadFacts ==
  ASSUME IInv, slave = "load"
  PROVE  /\ master = "recvRead" /\ doing = "load" /\ ~flag
         /\ processedFrame = 0 /\ currentFrame = 0 /\ queue = <<>>
         /\ slaveMsg.type = "READ_NEXT_FILE" /\ prevType # OkToRead
         /\ toSlave.type = "NONE" /\ toMaster.type = "NONE"
  <1>1. /\ slaveMsg.type = "READ_NEXT_FILE" /\ prevType # OkToRead /\ doing = "load"
        /\ Work = "read, luma"
    BY DEF IInv, WorkInv, Work
  <1>2. /\ master = "recvRead" /\ ~flag
        /\ toSlave.type = "NONE" /\ toMaster.type = "NONE"
    BY <1>1
    DEF IInv, PipelineInv, Pipeline, Owed, MasterInv, Processing, Decoded
  <1>3. processedFrame = 0 /\ currentFrame = 0
    BY <1>1, <1>2 DEF IInv, MasterInv, Working, Drawing
  <1>4. queue = <<>>
    BY <1>3 DEF IInv, QueueInv, TypeOK, Display!TypeOK
  <1>. QED
    BY <1>1, <1>2, <1>3, <1>4

LEMMA NextVideoFacts ==
  ASSUME IInv, FindLoadNextVideo
  PROVE  /\ video' \in 1 .. Len(Videos)
         /\ (NumFrames \in Nat /\ NumFrames > 0)'
         /\ IsIframe(<<video, 0>>)'
  <1>1. video' \in 1 .. Len(Videos)
    BY VideosAssumption DEF IInv, TypeOK, FindLoadNextVideo
  <1>2. Videos[video'].frames \in Nat \ {0} /\ IsIframe(<<video', 0>>)
    BY <1>1, VideoFacts
  <1>. QED
    BY <1>1, <1>2 DEF NumFrames, IsIframe

LEMMA ReadFacts ==
  ASSUME IInv, EndReadFrame
  PROVE  video # 0 /\ filePos \in Nat /\ <<video, filePos>> \in Frames
  <1>1. video # 0 /\ filePos \in Nat /\ filePos < NumFrames
    BY DEF IInv, TypeOK, EndReadFrame, NumFrames
  <1>. QED
    BY <1>1, FrameOfVideo DEF IInv

LEMMA SeekFacts ==
  ASSUME IInv, Dispatch
  PROVE  \/ /\ master' = "avail" /\ doing' = "seek"
            /\ currentFrame' = processedFrame' /\ processedFrame' \in Nat
            /\ processedFrame' < NumFrames /\ IsIframe(<<video, processedFrame'>>)
            /\ UNCHANGED playing
         \/ /\ master' \in {"waitKey", "play", "load"} /\ playing' \in BOOLEAN
            /\ UNCHANGED <<doing, currentFrame, processedFrame>>
  <1>1. video # 0 /\ currentFrame <= NumFrames
    BY DEF IInv, MasterInv, QueueInv, Dispatch, Waiting
  <1>2. ASSUME NEW k \in 0 .. num_iframes(Videos[video]) - 1,
               SeekFrame(frame_index(Videos[video], k))
        PROVE  /\ master' = "avail" /\ doing' = "seek"
               /\ currentFrame' = processedFrame' /\ processedFrame' \in Nat
               /\ processedFrame' < NumFrames /\ IsIframe(<<video, processedFrame'>>)
               /\ UNCHANGED playing
    BY <1>1, <1>2, RowHasIframe DEF IInv, SeekFrame
  <1>3. CASE /\ keyPressed \cap {"PLAY_PAUSE", "LOAD_NEXT"} = {}
             /\ "FAST_FORWARD" \in keyPressed
             /\ CanFastForward(Videos[video], currentFrame)
             /\ SeekFrame(frame_index(Videos[video],
                                      FastForwardIndex(Videos[video], currentFrame)))
    BY <1>1, <1>2, <1>3, SeekTargets DEF IInv
  <1>4. CASE SeekFrame(frame_index(Videos[video],
                                   RewindIndex(Videos[video], currentFrame)))
    BY <1>1, <1>2, <1>4, SeekTargets DEF IInv
  <1>5. CASE /\ master' \in {"waitKey", "play", "load"}
             /\ playing' \in {playing, FALSE}
             /\ UNCHANGED <<doing, currentFrame, processedFrame>>
    BY <1>5 DEF IInv, TypeOK
  <1>. QED
    BY <1>3, <1>4, <1>5 DEF Dispatch

(* While the DMA streams the luma, the coefficients are the current ones.  *)
LEMMA LumaFacts ==
  ASSUME IInv, "Y" \in dma
  PROVE  YDCAC = Current
  <1>1. master = "waitY" \/ (master = "waitRgb" /\ ~flag)
    BY DEF IInv, AccelInv
  <1>2. ~Relocating /\ master \notin {"load", "avail", "request"}
    BY <1>1
    DEF Relocating, IInv, MasterInv, PipelineInv, Pipeline, Owed, Work, WorkInv
  <1>3. filePos \in Nat /\ processedFrame \in Nat
    BY DEF IInv, TypeOK
  <1>4. CASE flag
    <2>1. /\ doing = "play" /\ LumaNotAsked
          /\ Owed = "read" /\ Asked = processedFrame + 2
      BY <1>1, <1>4
      DEF Owed, LumaNotAsked, Asked, IInv, MasterInv, Processing, Decoded
    <2>2. CASE toSlave.type = OkToRead \/ slave \in {"read", "readEnd"}
      <3>1. filePos - 1 = processedFrame
        BY <1>2, <1>3, <2>1, <2>2 DEF IInv, PositionInv
      <3>2. YDCAC = <<video, filePos - 1>>
        BY <2>1, <2>2
        DEF IInv, PipelineInv, Pipeline, Work, IdleInv, WorkInv, LastRead
      <3>. QED
        BY <3>1, <3>2 DEF Current
    <2>3. CASE ~(toSlave.type = OkToRead \/ slave \in {"read", "readEnd"})
      <3>1. filePos - 2 = processedFrame
        BY <1>2, <1>3, <2>1, <2>3 DEF IInv, PositionInv
      <3>2. YDCAC = <<video, filePos - 2>>
        BY <2>1, <2>3
        DEF IInv, PipelineInv, Pipeline, Work, IdleInv, WorkInv, TypeOK,
            SlavePlaces
      <3>. QED
        BY <3>1, <3>2 DEF Current
    <2>. QED
      BY <2>2, <2>3
  <1>5. CASE ~flag
    <2>1. /\ ~LumaNotAsked /\ Asked = processedFrame + 1
          /\ Pipeline("NONE", "idle", "NONE")
      BY <1>1, <1>5 DEF Owed, LumaNotAsked, Asked, IInv, MasterInv, PipelineInv
    <2>2. slave = "recv" /\ toSlave.type = "NONE"
      BY <2>1 DEF Pipeline, Work
    <2>3. YDCAC = LastRead
      BY <1>2, <2>1, <2>2 DEF IInv, IdleInv
    <2>4. filePos - 1 = processedFrame
      BY <1>2, <1>3, <2>1, <2>2 DEF IInv, PositionInv
    <2>. QED
      BY <2>3, <2>4 DEF LastRead, Current
  <1>. QED
    BY <1>4, <1>5

-----------------------------------------------------------------------------
(* The steps of the master *)

(* The counters go to 0 while the queue is empty.                          *)
LEMMA LoadVideoStep ==
  ASSUME IInv, LoadVideo
  PROVE  IInv'
  <1>1. QueueInv'
    <2>1. NumFrames \in Nat /\ NumFrames' = NumFrames
      BY NumFramesIsNat DEF IInv, LoadVideo, NumFrames
    <2>2. Len(queue) = 0
      BY DEF IInv, LoadVideo, QueueInv, MasterInv, Waiting, TypeOK
    <2>. QED
      BY <2>1, <2>2 DEF LoadVideo, QueueInv, Waiting
  <1> USE DEF IInv, LoadVideo
  <1>2. TypeOK'
    BY ContentsFacts
    DEF TypeOK, ToSlave!TypeOK, ToMaster!TypeOK, Display!TypeOK, MasterPlaces
  <1>3. PipelineInv'
    BY DEF PipelineInv, Pipeline, Owed, Work
  <1>4. IdleInv'
    BY DEF IdleInv, LumaNotAsked, LastRead
  <1>5. WorkInv'
    BY DEF WorkInv, Work, LastRead, NumFrames, IsIframe, PipelineInv, Pipeline,
           Owed
  <1>6. PositionInv'
    BY DEF PositionInv, Relocating, Asked, Current, PipelineInv, Pipeline, Owed
  <1>7. ReplyInv'
    BY DEF ReplyInv, LastRead, Current
  <1>8. MasterInv'
    BY DEF MasterInv, Current, Working, Drawing, Processing, Decoded, Waiting,
           NumFrames, IsIframe
  <1>9. ChromaInv' /\ AccelInv'
    BY DEF ChromaInv, Decoded, Waiting, Current, AccelInv
  <1>. QED
    BY <1>1, <1>2, <1>3, <1>4, <1>5, <1>6, <1>7, <1>8, <1>9

(* The loop ends with a free buffer, which only the master can use up.     *)
LEMMA BufferIsAvailableStep ==
  ASSUME IInv, BufferIsAvailable
  PROVE  IInv'
  <1> USE DEF IInv, BufferIsAvailable, FreeBuffer, Display!HasRoom
  <1>1. TypeOK'
    BY ContentsFacts
    DEF TypeOK, ToSlave!TypeOK, ToMaster!TypeOK, Display!TypeOK, MasterPlaces
  <1>2. PipelineInv'
    BY DEF PipelineInv, Pipeline, Owed, Work
  <1>3. IdleInv'
    BY DEF IdleInv, LumaNotAsked, LastRead
  <1>4. WorkInv'
    BY DEF WorkInv, Work, LastRead, NumFrames, IsIframe
  <1>5. PositionInv' /\ ReplyInv'
    BY DEF PositionInv, Relocating, Asked, Current, ReplyInv, LastRead
  <1>6. MasterInv'
    BY DEF MasterInv, Current, Working, Drawing, Processing, Decoded, Waiting,
           NumFrames, IsIframe
  <1>7. QueueInv' /\ ChromaInv' /\ AccelInv'
    BY DEF QueueInv, Waiting, NumFrames, ChromaInv, Decoded, Current, AccelInv
  <1>. QED
    BY <1>1, <1>2, <1>3, <1>4, <1>5, <1>6, <1>7

(* The request joins an empty pipeline.                                    *)
LEMMA SendRequestStep ==
  ASSUME IInv, SendRequest
  PROVE  IInv'
  <1>1. TypeOK'
    <2>1. /\ toSlave'.type \in Requests /\ toSlave'.frame \in Contents
          /\ toSlave' = [type |-> toSlave'.type, frame |-> toSlave'.frame]
      <3>1. CASE doing = "seek"
        <4>1. video # 0 /\ processedFrame < NumFrames /\ processedFrame \in Nat
          BY <3>1 DEF IInv, SendRequest, MasterInv, Working, Drawing, TypeOK
        <4>2. <<video, processedFrame>> \in Contents
          BY <4>1, FrameOfVideo, ContentsFacts DEF IInv
        <4>. QED
          BY <3>1, <4>2
          DEF SendRequest, MasterSend, ToSlave!Send, Message, Requests
      <3>2. CASE doing # "seek"
        BY <3>2, ContentsFacts
        DEF SendRequest, MasterSend, ToSlave!Send, Message, Requests
      <3>. QED
        BY <3>1, <3>2
    <2>2. toSlave' \in [type : Requests, frame : Contents]
      BY <2>1
    <2>3. slaveMsg' = slaveMsg /\ toMaster' = toMaster /\ masterMsg' = masterMsg
      BY DEF SendRequest, MasterSend, ToSlave!Send
    <2>4. master' \in MasterPlaces /\ flag' \in BOOLEAN
      BY DEF IInv, TypeOK, SendRequest, MasterPlaces
    <2>. QED
      BY <2>2, <2>3, <2>4
      DEF SendRequest, IInv, TypeOK, ToSlave!TypeOK, ToMaster!TypeOK,
          Display!TypeOK
  <1> USE DEF IInv, SendRequest, MasterSend, ToSlave!Send, Message, NoMsg
  <1>2. PipelineInv'
    BY DEF PipelineInv, Pipeline, Owed, Work
  <1>3. IdleInv'
    BY DEF IdleInv, LumaNotAsked, LastRead
  <1>4. WorkInv'
    BY DEF WorkInv, Work, LastRead, NumFrames, IsIframe
  <1>5. PositionInv'
    BY DEF PositionInv, Relocating, Asked, Current, PipelineInv, Pipeline, Owed,
           Work, TypeOK
  <1>6. ReplyInv'
    BY DEF ReplyInv, LastRead, Current
  <1>7. MasterInv'
    BY DEF MasterInv, Current, Working, Drawing, Processing, Decoded, Waiting,
           NumFrames, IsIframe
  <1>8. QueueInv' /\ ChromaInv' /\ AccelInv'
    BY DEF QueueInv, Waiting, NumFrames, ChromaInv, Decoded, Current, AccelInv
  <1>. QED
    BY <1>1, <1>2, <1>3, <1>4, <1>5, <1>6, <1>7, <1>8

(* The request for the luma follows the one for the frame.                 *)
LEMMA SendRequestYStep ==
  ASSUME IInv, SendRequestY
  PROVE  IInv'
  <1>1. TypeOK'
    BY ContentsFacts
    DEF IInv, SendRequestY, MasterSend, TypeOK, ToSlave!Send, Message, NoMsg,
        ToSlave!TypeOK, ToMaster!TypeOK, Display!TypeOK, Requests, MasterPlaces
  <1> USE DEF IInv, SendRequestY, MasterSend, ToSlave!Send, Message, NoMsg
  <1>2. PipelineInv'
    BY DEF PipelineInv, Pipeline, Owed, Work, MasterInv
  <1>3. IdleInv'
    BY DEF IdleInv, LumaNotAsked, LastRead
  <1>4. WorkInv'
    BY DEF WorkInv, Work, LastRead, NumFrames, IsIframe
  <1>5. PositionInv' /\ ReplyInv'
    BY DEF PositionInv, Relocating, Asked, Current, ReplyInv, LastRead
  <1>6. MasterInv'
    BY DEF MasterInv, Current, Working, Drawing, Processing, Decoded, Waiting,
           NumFrames, IsIframe
  <1>7. QueueInv' /\ ChromaInv' /\ AccelInv'
    BY DEF QueueInv, Waiting, NumFrames, ChromaInv, Decoded, Current, AccelInv
  <1>. QED
    BY <1>1, <1>2, <1>3, <1>4, <1>5, <1>6, <1>7

(* The next frame is asked for only if there is one.                       *)
LEMMA DecideToGoOnStep ==
  ASSUME IInv, DecideToGoOn
  PROVE  IInv'
  <1>1. MasterInv'
    <2>1. NumFrames \in Nat /\ NumFrames' = NumFrames
      BY NumFramesIsNat DEF IInv, DecideToGoOn, NumFrames
    <2>2. flag' => processedFrame + 1 < NumFrames
      <3>1. flag' => FramesLeft
        BY DEF DecideToGoOn
      <3>2. processedFrame \in Nat
        BY DEF IInv, TypeOK
      <3>. QED
        BY <2>1, <3>1, <3>2 DEF FramesLeft
    <2>3. doing = "play" /\ master = "flag" /\ master' = "recvRead"
      BY DEF IInv, MasterInv, DecideToGoOn
    <2>4. UNCHANGED <<doing, processedFrame, currentFrame, video, timerOn, queue>>
      BY DEF DecideToGoOn
    <2>. QED
    BY <2>1, <2>2, <2>3, <2>4
    DEF IInv, MasterInv, Current, Working, Drawing, Processing, Decoded, Waiting
  <1> USE DEF IInv, DecideToGoOn, FramesLeft
  <1>2. TypeOK'
    BY ContentsFacts
    DEF TypeOK, ToSlave!TypeOK, ToMaster!TypeOK, Display!TypeOK, MasterPlaces
  <1>3. PipelineInv'
    BY DEF PipelineInv, Pipeline, Owed, Work
  <1>4. IdleInv'
    BY DEF IdleInv, LumaNotAsked, LastRead
  <1>5. WorkInv'
    BY DEF WorkInv, Work, LastRead, NumFrames, IsIframe
  <1>6. PositionInv' /\ ReplyInv'
    BY DEF PositionInv, Relocating, Asked, Current, ReplyInv, LastRead
  <1>7. QueueInv' /\ ChromaInv' /\ AccelInv'
    BY DEF QueueInv, Waiting, NumFrames, ChromaInv, Decoded, Current, AccelInv
  <1>. QED
    BY <1>1, <1>2, <1>3, <1>4, <1>5, <1>6, <1>7

(* The reply is the one that is owed first.                                *)
LEMMA MasterReceiveStep ==
  ASSUME IInv, MasterReceive
  PROVE  IInv'
  <1> USE DEF IInv, MasterReceive, ToMaster!Receive, NoMsg, Message
  <1>1. TypeOK'
    BY ContentsFacts
    DEF TypeOK, ToSlave!TypeOK, ToMaster!TypeOK, Display!TypeOK, MasterPlaces
  <1>2. PipelineInv'
    BY DEF PipelineInv, Pipeline, Owed, Work, TypeOK, ToMaster!TypeOK, Replies
  <1>3. IdleInv'
    BY DEF IdleInv, LumaNotAsked, LastRead
  <1>4. WorkInv'
    BY DEF WorkInv, Work, LastRead, NumFrames, IsIframe
  <1>5. PositionInv'
    BY DEF PositionInv, Relocating, Asked, Current
  <1>6. ReplyInv'
    BY DEF ReplyInv, LastRead, Current, PipelineInv, Pipeline, Owed, Work,
           TypeOK, ToMaster!TypeOK, PositionInv, Relocating, Asked, Replies
  <1>7. MasterInv'
    BY DEF MasterInv, Current, Working, Drawing, Processing, Decoded, Waiting,
           NumFrames, IsIframe
  <1>8. QueueInv' /\ ChromaInv' /\ AccelInv'
    BY DEF QueueInv, Waiting, NumFrames, ChromaInv, Decoded, Current, AccelInv
  <1>. QED
    BY <1>1, <1>2, <1>3, <1>4, <1>5, <1>6, <1>7, <1>8

(* Nothing but the place in the program changes.                           *)
LEMMA BeginLdChromaStep ==
  ASSUME IInv, BeginLdChroma
  PROVE  IInv'
  <1> USE DEF IInv, BeginLdChroma
  <1>1. TypeOK'
    BY ContentsFacts
    DEF TypeOK, ToSlave!TypeOK, ToMaster!TypeOK, Display!TypeOK, MasterPlaces
  <1>2. PipelineInv'
    BY DEF PipelineInv, Pipeline, Owed, Work
  <1>3. IdleInv'
    BY DEF IdleInv, LumaNotAsked, LastRead
  <1>4. WorkInv'
    BY DEF WorkInv, Work, LastRead, NumFrames, IsIframe
  <1>5. PositionInv' /\ ReplyInv'
    BY DEF PositionInv, Relocating, Asked, Current, ReplyInv, LastRead
  <1>6. MasterInv'
    BY DEF MasterInv, Current, Working, Drawing, Processing, Decoded, Waiting,
           NumFrames, IsIframe
  <1>7. QueueInv' /\ ChromaInv' /\ AccelInv'
    BY DEF QueueInv, Waiting, NumFrames, ChromaInv, Decoded, Current, AccelInv
  <1>. QED
    BY <1>1, <1>2, <1>3, <1>4, <1>5, <1>6, <1>7

(* The bitstream holds the frame and the coefficients its predecessor.     *)
LEMMA EndLdChromaStep ==
  ASSUME IInv, EndLdChroma
  PROVE  IInv'
  <1>1. ChromaInv'
    <2>1. masterMsg.frame = Current
      BY DEF IInv, ReplyInv, EndLdChroma
    <2>2. bitstream = Current
      BY DEF IInv, EndLdChroma, PipelineInv, IdleInv, WorkInv, PositionInv,
             Asked, Relocating, Pipeline, Owed, Work, Current, LastRead, TypeOK,
             LumaNotAsked
    <2>3. Current \in Frames
      <3>1. video # 0 /\ master = "ldCEnd"
        BY VideoIsOpen DEF EndLdChroma, Processing
      <3>2. processedFrame \in Nat /\ processedFrame < NumFrames
        BY <3>1, NumFramesIsNat DEF IInv, MasterInv, Working, Drawing, TypeOK
      <3>. QED
        BY <3>1, <3>2, FrameOfVideo DEF IInv, Current
    <2>4. IsIframe(Current) \/ CDCAC = <<video, processedFrame - 1>>
      <3>1. CASE doing = "load"
        <4>1. processedFrame = 0 /\ video \in 1 .. Len(Videos)
          BY <3>1, VideoIsOpen, NumFramesIsNat
          DEF IInv, MasterInv, Working, Drawing, EndLdChroma, Processing
        <4>. QED
          BY <4>1, VideoFacts DEF Current
      <3>2. CASE doing # "load"
        BY <3>2
        DEF IInv, TypeOK, EndLdChroma, MasterInv, ChromaInv, Working, Drawing,
            Decoded
      <3>. QED
        BY <3>1, <3>2
    <2>5. CDCAC' = Current
      BY <2>1, <2>2, <2>3, <2>4 DEF EndLdChroma, Decode, Current
    <2>. QED
      BY <2>5 DEF EndLdChroma, ChromaInv, Decoded, Waiting, Current
  <1> USE DEF IInv, EndLdChroma, Decode
  <1>2. TypeOK'
    BY ContentsFacts
    DEF TypeOK, ToSlave!TypeOK, ToMaster!TypeOK, Display!TypeOK, MasterPlaces
  <1>3. PipelineInv'
    BY DEF PipelineInv, Pipeline, Owed, Work
  <1>4. IdleInv'
    BY DEF IdleInv, LumaNotAsked, LastRead
  <1>5. WorkInv'
    BY DEF WorkInv, Work, LastRead, NumFrames, IsIframe
  <1>6. PositionInv' /\ ReplyInv'
    BY DEF PositionInv, Relocating, Asked, Current, ReplyInv, LastRead
  <1>7. MasterInv'
    BY DEF MasterInv, Current, Working, Drawing, Processing, Decoded, Waiting,
           NumFrames, IsIframe
  <1>8. QueueInv' /\ AccelInv'
    BY DEF QueueInv, Waiting, NumFrames, AccelInv, Decoded, Current
  <1>. QED
    BY <1>1, <1>2, <1>3, <1>4, <1>5, <1>6, <1>7, <1>8

(* From now on the slave may overwrite the bitstream.                      *)
LEMMA SendOkToReadNextFrameStep ==
  ASSUME IInv, SendOkToReadNextFrame
  PROVE  IInv'
  <1> USE DEF IInv, SendOkToReadNextFrame, MasterSend, ToSlave!Send, Message, NoMsg
  <1>1. TypeOK'
    BY ContentsFacts
    DEF TypeOK, ToSlave!TypeOK, ToMaster!TypeOK, Display!TypeOK, MasterPlaces,
        Requests, Replies
  <1>2. PipelineInv'
    BY DEF PipelineInv, Pipeline, Owed, Work, MasterInv
  <1>3. IdleInv'
    BY DEF IdleInv, LumaNotAsked, LastRead
  <1>4. WorkInv'
    BY DEF WorkInv, Work, LastRead, NumFrames, IsIframe
  <1>5. PositionInv'
    BY DEF PositionInv, Relocating, Asked, Current, PipelineInv, Pipeline, Owed,
           Work, TypeOK, MasterInv
  <1>6. ReplyInv'
    BY DEF ReplyInv, LastRead, Current
  <1>7. MasterInv'
    BY DEF MasterInv, Current, Working, Drawing, Processing, Decoded, Waiting,
           NumFrames, IsIframe
  <1>8. QueueInv' /\ ChromaInv' /\ AccelInv'
    BY DEF QueueInv, Waiting, NumFrames, ChromaInv, Decoded, Current, AccelInv
  <1>. QED
    BY <1>1, <1>2, <1>3, <1>4, <1>5, <1>6, <1>7, <1>8

(* Both DMAs start when the luma is there.                                 *)
LEMMA StartLumaStep ==
  ASSUME IInv, StartLuma
  PROVE  IInv'
  <1> USE DEF IInv, StartLuma, AfterStartLuma
  <1>1. TypeOK'
    BY ContentsFacts
    DEF TypeOK, ToSlave!TypeOK, ToMaster!TypeOK, Display!TypeOK, MasterPlaces
  <1>2. PipelineInv'
    BY DEF PipelineInv, Pipeline, Owed, Work
  <1>3. IdleInv'
    BY DEF IdleInv, LumaNotAsked, LastRead
  <1>4. WorkInv'
    BY DEF WorkInv, Work, LastRead, NumFrames, IsIframe
  <1>5. PositionInv' /\ ReplyInv'
    BY DEF PositionInv, Relocating, Asked, Current, ReplyInv, LastRead
  <1>6. MasterInv'
    BY DEF MasterInv, Current, Working, Drawing, Processing, Decoded, Waiting,
           NumFrames, IsIframe
  <1>7. QueueInv' /\ ChromaInv' /\ AccelInv'
    BY DEF QueueInv, Waiting, NumFrames, ChromaInv, Decoded, Current, AccelInv
  <1>. QED
    BY <1>1, <1>2, <1>3, <1>4, <1>5, <1>6, <1>7

(* Nothing but the place in the program changes.                           *)
LEMMA LumaStreamedStep ==
  ASSUME IInv, LumaStreamed
  PROVE  IInv'
  <1> USE DEF IInv, LumaStreamed, LumaIdle
  <1>1. TypeOK'
    BY ContentsFacts
    DEF TypeOK, ToSlave!TypeOK, ToMaster!TypeOK, Display!TypeOK, MasterPlaces
  <1>2. PipelineInv'
    BY DEF PipelineInv, Pipeline, Owed, Work
  <1>3. IdleInv'
    BY DEF IdleInv, LumaNotAsked, LastRead
  <1>4. WorkInv'
    BY DEF WorkInv, Work, LastRead, NumFrames, IsIframe
  <1>5. PositionInv' /\ ReplyInv'
    BY DEF PositionInv, Relocating, Asked, Current, ReplyInv, LastRead
  <1>6. MasterInv'
    BY DEF MasterInv, Current, Working, Drawing, Processing, Decoded, Waiting,
           NumFrames, IsIframe
  <1>7. QueueInv' /\ ChromaInv' /\ AccelInv'
    BY DEF QueueInv, Waiting, NumFrames, ChromaInv, Decoded, Current, AccelInv
  <1>. QED
    BY <1>1, <1>2, <1>3, <1>4, <1>5, <1>6, <1>7

(* From now on the slave may overwrite the luma.                           *)
LEMMA SendOkToLdYStep ==
  ASSUME IInv, SendOkToLdY
  PROVE  IInv'
  <1> USE DEF IInv, SendOkToLdY, MasterSend, ToSlave!Send, Message, NoMsg
  <1>1. TypeOK'
    BY ContentsFacts
    DEF TypeOK, ToSlave!TypeOK, ToMaster!TypeOK, Display!TypeOK, MasterPlaces,
        Requests, Replies
  <1>2. PipelineInv'
    BY DEF PipelineInv, Pipeline, Owed, Work, MasterInv, Processing, Decoded
  <1>3. IdleInv'
    BY DEF IdleInv, LumaNotAsked, LastRead, MasterInv
  <1>4. WorkInv'
    BY DEF WorkInv, Work, LastRead, NumFrames, IsIframe
  <1>5. PositionInv' /\ ReplyInv'
    BY DEF PositionInv, Relocating, Asked, Current, ReplyInv, LastRead
  <1>6. MasterInv'
    BY DEF MasterInv, Current, Working, Drawing, Processing, Decoded, Waiting,
           NumFrames, IsIframe
  <1>7. QueueInv' /\ ChromaInv' /\ AccelInv'
    BY DEF QueueInv, Waiting, NumFrames, ChromaInv, Decoded, Current, AccelInv
  <1>. QED
    BY <1>1, <1>2, <1>3, <1>4, <1>5, <1>6, <1>7

(* The picture is that of the frame in process.                            *)
LEMMA PictureWrittenStep ==
  ASSUME IInv, PictureWritten
  PROVE  IInv'
  <1> USE DEF IInv, PictureWritten
  <1>1. TypeOK'
    BY ContentsFacts
    DEF TypeOK, ToSlave!TypeOK, ToMaster!TypeOK, Display!TypeOK, MasterPlaces
  <1>2. PipelineInv'
    BY DEF PipelineInv, Pipeline, Owed, Work
  <1>3. IdleInv'
    BY DEF IdleInv, LumaNotAsked, LastRead
  <1>4. WorkInv'
    BY DEF WorkInv, Work, LastRead, NumFrames, IsIframe
  <1>5. PositionInv' /\ ReplyInv'
    BY DEF PositionInv, Relocating, Asked, Current, ReplyInv, LastRead
  <1>6. MasterInv'
    BY DEF MasterInv, Current, Working, Drawing, Processing, Decoded, Waiting,
           NumFrames, IsIframe
  <1>7. QueueInv' /\ ChromaInv' /\ AccelInv'
    BY DEF QueueInv, Waiting, NumFrames, ChromaInv, Decoded, Current, AccelInv
  <1>. QED
    BY <1>1, <1>2, <1>3, <1>4, <1>5, <1>6, <1>7

(* The picture is the frame the queue expects next.                        *)
LEMMA RegisterPictureStep ==
  ASSUME IInv, RegisterPicture
  PROVE  IInv'
  <1>1. TypeOK'
    <2>1. Display!TypeOK'
      BY PutFacts DEF IInv, MasterInv, RegisterPicture, Drawing
    <2>2. processedFrame' \in Nat /\ master' \in MasterPlaces
      BY DEF RegisterPicture, MasterPlaces, IInv, TypeOK
    <2>. QED
        BY <2>1, <2>2
        DEF RegisterPicture, IInv, TypeOK, ToSlave!TypeOK, ToMaster!TypeOK
  <1>2. MasterInv'
    <2>1. NumFrames \in Nat /\ NumFrames' = NumFrames
      BY NumFramesIsNat DEF IInv, RegisterPicture, NumFrames
    <2>2. /\ UNCHANGED <<doing, flag, currentFrame, video, timerOn>>
          /\ processedFrame' = processedFrame + 1 /\ processedFrame \in Nat
      BY DEF RegisterPicture, IInv, TypeOK
    <2>3. video # 0
      BY VideoIsOpen DEF IInv, RegisterPicture, Decoded, Processing
    <2>4. CASE doing # "play"
      <3>1. master' = "switch" /\ doing # "play"
        BY <2>4 DEF RegisterPicture
      <3>2. currentFrame = processedFrame /\ ~timerOn
        BY <2>4 DEF IInv, MasterInv, RegisterPicture, Working, Drawing
      <3>3. IsIframe(<<video, currentFrame>>)
        <4>1. CASE doing = "seek"
          BY <4>1, <3>2
          DEF IInv, MasterInv, RegisterPicture, Working, Drawing, Current
        <4>2. CASE doing = "load"
          <5>1. processedFrame = 0 /\ video \in 1 .. Len(Videos)
            BY <4>2, <2>3, NumFramesIsNat
            DEF IInv, MasterInv, RegisterPicture, Working, Drawing
          <5>. QED
            BY <5>1, <3>2, VideoFacts
        <4>. QED
          BY <2>4, <4>1, <4>2 DEF IInv, TypeOK
      <3>4. IsIframe(<<video, currentFrame>>)'
        BY <2>2, <3>3 DEF IsIframe
      <3>. QED
        BY <2>2, <2>3, <3>1, <3>2, <3>4
        DEF MasterInv, Waiting, Working, Drawing, Processing, Decoded
    <2>5. CASE doing = "play"
      <3>1. master' \in {"availNext", "drain"} /\ (master' = "availNext" => flag)
        BY <2>5 DEF RegisterPicture
      <3>2. flag => processedFrame + 1 < NumFrames
        BY DEF IInv, MasterInv, RegisterPicture, Processing, Decoded
      <3>. QED
        BY <2>1, <2>2, <2>3, <2>5, <3>1, <3>2
        DEF MasterInv, Waiting, Working, Drawing, Processing, Decoded
    <2>. QED
      BY <2>4, <2>5
  <1>3. QueueInv'
    <2>1. /\ Len(queue') = Len(queue) + 1
           /\ \A i \in 1 .. Len(queue') :
                queue'[i] = IF i <= Len(queue) THEN queue[i] ELSE picture
      BY PutFacts DEF IInv, MasterInv, RegisterPicture, Drawing
    <2>2. picture = <<video, processedFrame>> /\ processedFrame < NumFrames
      BY NumFramesIsNat, VideoIsOpen
      DEF IInv, AccelInv, RegisterPicture, MasterInv, Working, Drawing,
          Processing, Decoded, Current
    <2>3. NumFrames \in Nat /\ NumFrames' = NumFrames
      BY NumFramesIsNat DEF IInv, RegisterPicture, NumFrames
    <2>4. /\ processedFrame' <= NumFrames'
          /\ Len(queue') = processedFrame' - currentFrame'
      BY <2>1, <2>2, <2>3 DEF IInv, QueueInv, RegisterPicture, TypeOK
    <2>5. ASSUME NEW i \in 1 .. Len(queue')
          PROVE  queue'[i] = <<video, currentFrame + i - 1>>
      <3>1. Len(queue) \in Nat /\ Len(queue) = processedFrame - currentFrame
            /\ processedFrame \in Nat /\ currentFrame \in Nat
        BY DEF IInv, TypeOK, QueueInv
      <3>2. CASE i <= Len(queue)
        <4>1. queue'[i] = queue[i]
          BY <2>1, <3>2
        <4>2. queue[i] = <<video, currentFrame + i - 1>>
          BY <3>1, <3>2 DEF IInv, QueueInv
        <4>. QED
          BY <4>1, <4>2
      <3>3. CASE ~(i <= Len(queue))
        <4>1. queue'[i] = picture
          BY <2>1, <3>3
        <4>2. currentFrame + i - 1 = processedFrame
          BY <2>1, <3>1, <3>3
        <4>. QED
          BY <2>2, <4>1, <4>2
      <3>. QED
        BY <3>2, <3>3
    <2>6. doing = "play" => screen = <<video, currentFrame - 1>>
      BY DEF IInv, QueueInv
    <2>7. /\ UNCHANGED <<video, currentFrame, screen, doing>>
          /\ master' \notin Waiting \cup {"play"}
      <3>1. UNCHANGED <<video, currentFrame, screen, doing>>
        BY DEF RegisterPicture, Display!Put
      <3>2. master' \in {"switch", "availNext", "drain"}
        BY DEF RegisterPicture
      <3>. QED
        BY <3>1, <3>2 DEF Waiting
    <2>. QED
      BY <2>4, <2>5, <2>6, <2>7 DEF QueueInv
  <1> USE DEF IInv, RegisterPicture, Display!Put
  <1>4. PipelineInv'
    BY DEF PipelineInv, Pipeline, Owed, Work, MasterInv, Processing, Decoded
  <1>5. IdleInv'
    BY DEF IdleInv, LumaNotAsked, LastRead
  <1>6. WorkInv'
    BY DEF WorkInv, Work, LastRead, NumFrames, IsIframe
  <1>7. PositionInv'
    BY DEF PositionInv, Relocating, Asked, Current, PipelineInv, Pipeline, Owed,
           Work, TypeOK, ToSlave!TypeOK, ToMaster!TypeOK, MasterInv, Processing,
           Decoded
  <1>8. ReplyInv'
    BY DEF ReplyInv, LastRead, Current
  <1>9. ChromaInv'
    BY DEF ChromaInv, Decoded, Waiting, Current, TypeOK
  <1>10. AccelInv'
    BY DEF AccelInv, Decoded, Current
  <1>. QED
    BY <1>1, <1>2, <1>3, <1>4, <1>5, <1>6, <1>7, <1>8, <1>9, <1>10

(* The one frame in the queue comes on the screen.                         *)
LEMMA SwitchFramesStep ==
  ASSUME IInv, SwitchFrames
  PROVE  IInv'
  <1>1. TypeOK'
    <2>1. Display!TypeOK'
      <3>1. CASE Display!Show
        BY <3>1, ShowFacts DEF IInv
      <3>2. CASE UNCHANGED displayVars
        BY <3>2 DEF IInv, TypeOK, Display!TypeOK
      <3>. QED
        BY <3>1, <3>2 DEF SwitchFrames
    <2>2. currentFrame' \in Nat /\ master' \in MasterPlaces
      BY DEF SwitchFrames, MasterPlaces, IInv, TypeOK
    <2>. QED
        BY <2>1, <2>2
        DEF SwitchFrames, IInv, TypeOK, ToSlave!TypeOK, ToMaster!TypeOK
  <1>2. QueueInv'
    <2>1. /\ Len(queue) = 1 /\ currentFrame = processedFrame - 1
          /\ processedFrame \in Nat /\ currentFrame \in Nat
      BY DEF SwitchFrames, IInv, MasterInv, QueueInv, TypeOK
    <2>2. Display!Show
      BY <2>1 DEF SwitchFrames
    <2>3. screen' = <<video, currentFrame>> /\ Len(queue') = 0
      <3>1. queue[1] = <<video, currentFrame>>
        BY <2>1 DEF IInv, QueueInv
      <3>. QED
        BY <2>1, <2>2, <3>1, ShowFacts DEF IInv
    <2>4. /\ UNCHANGED <<video, processedFrame>> /\ currentFrame' = currentFrame + 1
          /\ processedFrame <= NumFrames
      BY DEF SwitchFrames, IInv, QueueInv
    <2>. QED
      BY <2>1, <2>3, <2>4 DEF QueueInv, NumFrames
  <1> USE DEF IInv, SwitchFrames, Display!Show
  <1>3. PipelineInv'
    BY DEF PipelineInv, Pipeline, Owed, Work
  <1>4. IdleInv'
    BY DEF IdleInv, LumaNotAsked, LastRead
  <1>5. WorkInv'
    BY DEF WorkInv, Work, LastRead, NumFrames, IsIframe
  <1>6. PositionInv' /\ ReplyInv'
    BY DEF PositionInv, Relocating, Asked, Current, ReplyInv, LastRead
  <1>7. MasterInv'
    BY DEF MasterInv, Current, Working, Drawing, Processing, Decoded, Waiting,
           NumFrames, IsIframe, TypeOK
  <1>8. ChromaInv' /\ AccelInv'
    BY DEF ChromaInv, Decoded, Waiting, Current, AccelInv
  <1>. QED
    BY <1>1, <1>2, <1>3, <1>4, <1>5, <1>6, <1>7, <1>8

(* The timer starts only if there are frames left.                         *)
LEMMA PlayVideoStep ==
  ASSUME IInv, PlayVideo
  PROVE  IInv'
  <1>1. TypeOK'
    <2>1. playing' \in BOOLEAN
      BY DEF PlayVideo
    <2>2. /\ doing' \in {"load", "seek", "play"}
          /\ timerOn' \in BOOLEAN /\ master' \in MasterPlaces
      BY DEF PlayVideo, IInv, TypeOK, MasterPlaces
    <2>3. UNCHANGED <<flag, currentFrame, processedFrame, keyPressed, keyVars,
                      slaveVars, channelVars, bufferVars, accelVars, displayVars>>
      BY DEF PlayVideo
    <2>. QED
        BY <2>1, <2>2, <2>3
        DEF IInv, TypeOK, ToSlave!TypeOK, ToMaster!TypeOK, Display!TypeOK
  <1> USE DEF IInv, PlayVideo
  <1>2. PipelineInv'
    BY DEF PipelineInv, Pipeline, Owed, Work
  <1>3. IdleInv' /\ WorkInv'
    BY DEF IdleInv, LumaNotAsked, LastRead, PipelineInv, Pipeline, Owed,
           WorkInv, Work, NumFrames, IsIframe
  <1>4. PositionInv' /\ ReplyInv'
    BY DEF PositionInv, Relocating, Asked, Current, ReplyInv, LastRead
  <1>5. MasterInv'
    BY DEF MasterInv, Current, Working, Drawing, Processing, Decoded, Waiting,
           NumFrames, IsIframe, TypeOK
  <1>6. QueueInv' /\ ChromaInv' /\ AccelInv'
    BY DEF QueueInv, Waiting, NumFrames, ChromaInv, Decoded, Current, AccelInv
  <1>. QED
    BY <1>1, <1>2, <1>3, <1>4, <1>5, <1>6

(* All that was processed has been displayed: the queue is empty.          *)
LEMMA StopPlayingStep ==
  ASSUME IInv, StopPlaying
  PROVE  IInv'
  <1>1. TypeOK'
    <2>1. playing' \in BOOLEAN
      BY DEF StopPlaying
    <2>2. timerOn' \in BOOLEAN /\ master' \in MasterPlaces
      BY DEF StopPlaying, MasterPlaces
    <2>3. UNCHANGED <<doing, flag, currentFrame, processedFrame, keyPressed,
                      keyVars, slaveVars, channelVars, bufferVars, accelVars,
                      displayVars>>
      BY DEF StopPlaying
    <2>. QED
        BY <2>1, <2>2, <2>3
        DEF IInv, TypeOK, ToSlave!TypeOK, ToMaster!TypeOK, Display!TypeOK
  <1> USE DEF IInv, StopPlaying, AllDisplayed
  <1>2. PipelineInv'
    BY DEF PipelineInv, Pipeline, Owed, Work
  <1>3. IdleInv'
    BY DEF IdleInv, LumaNotAsked, LastRead
  <1>4. WorkInv'
    BY DEF WorkInv, Work, LastRead, NumFrames, IsIframe
  <1>5. PositionInv' /\ ReplyInv'
    BY DEF PositionInv, Relocating, Asked, Current, ReplyInv, LastRead
  <1>6. MasterInv'
    BY DEF MasterInv, Current, Working, Drawing, Processing, Decoded, Waiting,
           NumFrames, IsIframe, QueueInv, TypeOK
  <1>7. QueueInv' /\ ChromaInv'
    BY DEF QueueInv, Waiting, NumFrames, MasterInv, ChromaInv, Decoded, Current
  <1>8. AccelInv'
    BY DEF AccelInv, Decoded, Current
  <1>. QED
    BY <1>1, <1>2, <1>3, <1>4, <1>5, <1>6, <1>7, <1>8

(* The keys do not touch the rest.                                         *)
LEMMA ReadKeyStep ==
  ASSUME IInv, ReadKey
  PROVE  IInv'
  <1> USE DEF IInv, ReadKey
  <1>1. TypeOK'
    BY ContentsFacts
    DEF TypeOK, ToSlave!TypeOK, ToMaster!TypeOK, Display!TypeOK, MasterPlaces
  <1>2. PipelineInv'
    BY DEF PipelineInv, Pipeline, Owed, Work
  <1>3. IdleInv'
    BY DEF IdleInv, LumaNotAsked, LastRead
  <1>4. WorkInv'
    BY DEF WorkInv, Work, LastRead, NumFrames, IsIframe
  <1>5. PositionInv' /\ ReplyInv'
    BY DEF PositionInv, Relocating, Asked, Current, ReplyInv, LastRead
  <1>6. MasterInv'
    BY DEF MasterInv, Current, Working, Drawing, Processing, Decoded, Waiting,
           NumFrames, IsIframe
  <1>7. QueueInv' /\ ChromaInv' /\ AccelInv'
    BY DEF QueueInv, Waiting, NumFrames, ChromaInv, Decoded, Current, AccelInv
  <1>. QED
    BY <1>1, <1>2, <1>3, <1>4, <1>5, <1>6, <1>7

(* The keys do not touch the rest.                                         *)
LEMMA ClearKeyStep ==
  ASSUME IInv, ClearKey
  PROVE  IInv'
  <1> USE DEF IInv, ClearKey
  <1>1. TypeOK'
    BY ContentsFacts
    DEF TypeOK, ToSlave!TypeOK, ToMaster!TypeOK, Display!TypeOK, MasterPlaces
  <1>2. PipelineInv'
    BY DEF PipelineInv, Pipeline, Owed, Work
  <1>3. IdleInv'
    BY DEF IdleInv, LumaNotAsked, LastRead
  <1>4. WorkInv'
    BY DEF WorkInv, Work, LastRead, NumFrames, IsIframe
  <1>5. PositionInv' /\ ReplyInv'
    BY DEF PositionInv, Relocating, Asked, Current, ReplyInv, LastRead
  <1>6. MasterInv'
    BY DEF MasterInv, Current, Working, Drawing, Processing, Decoded, Waiting,
           NumFrames, IsIframe
  <1>7. QueueInv' /\ ChromaInv' /\ AccelInv'
    BY DEF QueueInv, Waiting, NumFrames, ChromaInv, Decoded, Current, AccelInv
  <1>. QED
    BY <1>1, <1>2, <1>3, <1>4, <1>5, <1>6, <1>7

(* A seek moves both counters to an I-frame, with nothing in the queue.    *)
LEMMA DispatchStep ==
  ASSUME IInv, Dispatch
  PROVE  IInv'
  <1>1. TypeOK'
    <2>1. /\ master' \in MasterPlaces /\ doing' \in {"load", "seek", "play"}
          /\ playing' \in BOOLEAN /\ currentFrame' \in Nat /\ processedFrame' \in Nat
      BY SeekFacts DEF IInv, TypeOK, MasterPlaces
    <2>. QED
        BY <2>1
        DEF Dispatch, IInv, TypeOK, ToSlave!TypeOK, ToMaster!TypeOK,
            Display!TypeOK
  <1>2. MasterInv'
    <2>1. video # 0 /\ ~timerOn /\ currentFrame = processedFrame
      BY DEF IInv, MasterInv, Dispatch, Waiting
    <2>2. UNCHANGED <<flag, video, timerOn>>
      BY DEF Dispatch
    <2>. QED
      BY <2>1, <2>2, SeekFacts
      DEF MasterInv, Waiting, Working, Drawing, Processing, Decoded, Current,
          NumFrames, IsIframe
  <1>3. QueueInv'
    <2>1. Len(queue) = 0 /\ NumFrames \in Nat
      BY NumFramesIsNat DEF IInv, MasterInv, QueueInv, Dispatch, Waiting, TypeOK
    <2>2. UNCHANGED <<screen, queue, video>>
      BY DEF Dispatch
    <2>3. screen = <<video, currentFrame - 1>> /\ master \notin {"play"}
      BY DEF IInv, QueueInv, Dispatch, Waiting
    <2>. QED
      BY <2>1, <2>2, <2>3, SeekFacts
      DEF IInv, TypeOK, QueueInv, Waiting, NumFrames
  <1> USE DEF IInv, Dispatch, SeekFrame
  <1>4. PipelineInv'
    BY DEF PipelineInv, Pipeline, Owed, Work
  <1>5. IdleInv' /\ WorkInv'
    BY DEF IdleInv, LumaNotAsked, LastRead, PipelineInv, Pipeline, Owed,
           WorkInv, Work, NumFrames, IsIframe
  <1>6. PositionInv'
    BY DEF PositionInv, Relocating, Asked, Current, PipelineInv, Pipeline, Owed
  <1>7. ReplyInv'
    BY DEF ReplyInv, LastRead, Current
  <1>8. ChromaInv' /\ AccelInv'
    BY DEF ChromaInv, Decoded, Waiting, Current, AccelInv
  <1>. QED
    BY <1>1, <1>2, <1>3, <1>4, <1>5, <1>6, <1>7, <1>8

-----------------------------------------------------------------------------
(* The steps of the slave *)

(* The request is served in the state its sender relies on.                *)
LEMMA SlaveReceiveStep ==
  ASSUME IInv, SlaveReceive
  PROVE  IInv'
  <1>1. TypeOK'
    <2>1. /\ slaveMsg' = toSlave /\ toSlave' = NoMsg
          /\ toSlave \in [type : Requests, frame : Contents]
      BY DEF IInv, TypeOK, SlaveReceive, ToSlave!TypeOK, ToSlave!Receive
    <2>2. filePos' \in Nat
      BY DEF IInv, TypeOK, SlaveReceive, PositionInv, Current
    <2>3. slave' \in SlavePlaces
      BY DEF SlaveReceive, SlavePlaces
    <2>. QED
      BY <2>1, <2>2, <2>3
      DEF SlaveReceive, IInv, TypeOK, ToSlave!TypeOK, ToMaster!TypeOK,
          Display!TypeOK
  <1>2. WorkInv'
    <2>1. slaveMsg' = toSlave /\ toSlave.type \in Requests
      BY DEF IInv, TypeOK, SlaveReceive, ToSlave!TypeOK, ToSlave!Receive
    <2>2. /\ slave = "recv"
          /\ slave' = CASE toSlave.type = "READ_NEXT_FILE" -> "load"
                  [] toSlave.type = "OK_TO_LD_Y" -> "ldY"
                  [] OTHER -> "read"
          /\ UNCHANGED <<masterVars, prevType, lastFrame, video, YDCAC, bitstream>>
      BY DEF SlaveReceive
    <2>3. CASE toSlave.type = "READ_NEXT_FILE"
      <3>1. prevType # OkToRead /\ doing = "load" /\ slave' = "load"
        BY <2>2, <2>3 DEF IInv, PipelineInv, Pipeline, Owed, IdleInv, Work
      <3>. QED
        BY <2>1, <2>2, <2>3, <3>1 DEF WorkInv
    <2>4. CASE toSlave.type = "SEEK_VIDEO"
      <3>1. /\ prevType # OkToRead /\ doing = "seek" /\ master = "recvRead"
            /\ slave' = "read"
        BY <2>2, <2>4, RequestFacts
      <3>2. filePos' = processedFrame
        BY <2>4 DEF IInv, PositionInv, SlaveReceive, Current
      <3>3. processedFrame < NumFrames /\ IsIframe(<<video, processedFrame>>)
        BY <3>1 DEF IInv, MasterInv, Working, Drawing, Current
      <3>4. (filePos < NumFrames)' /\ IsIframe(<<video, filePos>>)'
        BY <2>2, <3>2, <3>3 DEF NumFrames, IsIframe
      <3>. QED
        BY <2>1, <2>2, <2>4, <3>1, <3>4 DEF WorkInv
    <2>5. CASE toSlave.type = OkToRead
      <3>1. /\ prevType = OkToLuma /\ doing = "play" /\ LumaNotAsked
            /\ slave' = "read" /\ filePos' = filePos
        BY <2>2, <2>5, RequestFacts DEF SlaveReceive
      <3>2. filePos < NumFrames
        <4>1. master \in Working /\ processedFrame \in Nat /\ NumFrames \in Nat
          BY <3>1, NumFramesIsNat
          DEF LumaNotAsked, Working, Drawing, IInv, TypeOK
        <4>2. filePos = Asked - 1
          BY <2>2, <2>5, <3>1 DEF IInv, PositionInv, Relocating, LumaNotAsked
        <4>3. Asked - 1 = IF flag /\ master # "requestY"
                          THEN processedFrame + 1 ELSE processedFrame
          BY <3>1, <4>1 DEF LumaNotAsked, Asked
        <4>4. /\ processedFrame < NumFrames
              /\ flag /\ master # "requestY" => processedFrame + 1 < NumFrames
          BY <3>1, <4>1 DEF IInv, MasterInv, LumaNotAsked, Processing, Decoded
        <4>. QED
          BY <4>1, <4>2, <4>3, <4>4
      <3>3. (filePos < NumFrames)' /\ YDCAC' = <<video', filePos' - 1>>
        BY <2>2, <2>5, <3>1, <3>2 DEF NumFrames, IInv, IdleInv, LastRead
      <3>. QED
        BY <2>1, <2>2, <2>5, <3>1, <3>3 DEF WorkInv, Work
    <2>6. CASE toSlave.type = OkToLuma
      <3>1. /\ prevType = OkToRead /\ doing = "play"
            /\ slave' = "ldY" /\ filePos' = filePos
        BY <2>2, <2>6, RequestFacts DEF SlaveReceive
      <3>2. /\ video # 0 /\ lastFrame = LastRead /\ bitstream = LastRead
            /\ YDCAC = <<video, filePos - 2>>
        BY <2>2, <3>1 DEF IInv, IdleInv
      <3>3. LastRead \in Frames
        BY <3>2 DEF IInv, TypeOK, Contents, NoFrame, Torn, Bad, LastRead
      <3>. QED
        BY <2>1, <2>2, <2>6, <3>1, <3>2, <3>3 DEF WorkInv, Work, LastRead
    <2>. QED
      BY <2>1, <2>3, <2>4, <2>5, <2>6 DEF Requests
  <1> USE DEF IInv, SlaveReceive, ToSlave!Receive, NoMsg, Message
  <1>3. PipelineInv'
    BY DEF PipelineInv, Pipeline, Owed, Work, TypeOK, ToSlave!TypeOK, Requests
  <1>4. IdleInv'
    BY DEF IdleInv, LumaNotAsked, LastRead
  <1>5. PositionInv'
    BY DEF PositionInv, Relocating, Asked, Current, PipelineInv, Pipeline, Owed,
           Work, TypeOK, ToSlave!TypeOK, MasterInv, Processing, Decoded,
           Requests
  <1>6. ReplyInv'
    BY DEF ReplyInv, LastRead, Current, PipelineInv, Pipeline, Owed, Work
  <1>7. MasterInv' /\ QueueInv' /\ ChromaInv' /\ AccelInv'
    BY DEF MasterInv, Current, Working, Drawing, Processing, Decoded, Waiting,
           NumFrames, IsIframe, QueueInv, ChromaInv, AccelInv
  <1>. QED
    BY <1>1, <1>2, <1>3, <1>4, <1>5, <1>6, <1>7

(* The next video begins with an I-frame, and nothing of the last is left. *)
LEMMA FindLoadNextVideoStep ==
  ASSUME IInv, FindLoadNextVideo
  PROVE  IInv'
  <1>1. TypeOK'
    <2>1. video' \in 0 .. Len(Videos)
      BY NextVideoFacts
    <2>2. slave' \in SlavePlaces /\ filePos' \in Nat
      BY DEF FindLoadNextVideo, SlavePlaces
    <2>. QED
      BY <2>1, <2>2
      DEF FindLoadNextVideo, IInv, TypeOK, ToSlave!TypeOK, ToMaster!TypeOK,
          Display!TypeOK
  <1>2. WorkInv'
    BY LoadFacts, NextVideoFacts DEF WorkInv, FindLoadNextVideo
  <1>3. MasterInv'
    BY LoadFacts, NextVideoFacts
    DEF IInv, MasterInv, FindLoadNextVideo, Waiting, Working, Drawing,
        Processing, Decoded
  <1>4. QueueInv'
    BY LoadFacts, NextVideoFacts DEF IInv, QueueInv, FindLoadNextVideo, Waiting
  <1> USE DEF IInv, FindLoadNextVideo
  <1>5. PipelineInv'
    BY DEF PipelineInv, Pipeline, Owed, Work
  <1>6. IdleInv'
    BY DEF IdleInv, LumaNotAsked, LastRead
  <1>7. PositionInv' /\ ReplyInv' /\ ChromaInv' /\ AccelInv'
    BY LoadFacts
    DEF PositionInv, Relocating, Asked, Current, ReplyInv, LastRead, ChromaInv,
        Decoded, Waiting, AccelInv
  <1>. QED
    BY <1>1, <1>2, <1>3, <1>4, <1>5, <1>6, <1>7

(* Nobody else uses the bitstream.                                         *)
LEMMA BeginReadFrameStep ==
  ASSUME IInv, BeginReadFrame
  PROVE  IInv'
  <1> USE DEF IInv, BeginReadFrame
  <1>1. TypeOK'
    BY ContentsFacts
    DEF TypeOK, ToSlave!TypeOK, ToMaster!TypeOK, Display!TypeOK, SlavePlaces
  <1>2. PipelineInv'
    BY DEF PipelineInv, Pipeline, Owed, Work
  <1>3. IdleInv' /\ WorkInv'
    BY DEF IdleInv, LumaNotAsked, LastRead, WorkInv, Work, NumFrames, IsIframe
  <1>4. PositionInv'
    BY DEF PositionInv, Relocating, Asked, Current
  <1>5. /\ ReplyInv' /\ MasterInv' /\ QueueInv'
        /\ ChromaInv' /\ AccelInv'
    BY DEF ReplyInv, LastRead, Current, MasterInv, Working, Drawing, Processing,
           Decoded, Waiting, NumFrames, IsIframe, QueueInv, ChromaInv, AccelInv
  <1>. QED
    BY <1>1, <1>2, <1>3, <1>4, <1>5

(* The frame at the file position becomes the last one read.               *)
LEMMA EndReadFrameStep ==
  ASSUME IInv, EndReadFrame
  PROVE  IInv'
  <1>1. TypeOK'
    <2>1. <<video, filePos>> \in Contents /\ filePos + 1 \in Nat
      BY ReadFacts, ContentsFacts
    <2>. QED
      BY <2>1
      DEF EndReadFrame, SlavePlaces, IInv, TypeOK, ToSlave!TypeOK,
          ToMaster!TypeOK, Display!TypeOK
  <1>2. WorkInv'
    <2>1. /\ LastRead' = <<video, filePos>> /\ LastRead' \in Frames
          /\ filePos' - 2 = filePos - 1
      BY ReadFacts DEF EndReadFrame, LastRead
    <2>2. (IsIframe(LastRead))' <=> IsIframe(<<video, filePos>>)
      BY <2>1 DEF IsIframe
    <2>3. slaveMsg.type \notin Starts => YDCAC = <<video, filePos - 1>>
      BY DEF IInv, WorkInv, EndReadFrame
    <2>. QED
      BY <2>1, <2>2, <2>3, ReadFacts DEF IInv, WorkInv, EndReadFrame, Work
  <1> USE DEF IInv, EndReadFrame
  <1>3. PipelineInv'
    BY DEF PipelineInv, Pipeline, Owed, Work
  <1>4. IdleInv'
    BY DEF IdleInv, LumaNotAsked, LastRead
  <1>5. PositionInv'
    BY DEF PositionInv, Relocating, Asked, Current, PipelineInv, Pipeline, Owed,
           Work, TypeOK
  <1>6. ReplyInv'
    BY DEF ReplyInv, LastRead, Current, PipelineInv, Pipeline, Owed, Work
  <1>7. MasterInv' /\ QueueInv' /\ ChromaInv' /\ AccelInv'
    BY DEF MasterInv, Current, Working, Drawing, Processing, Decoded, Waiting,
           NumFrames, IsIframe, QueueInv, ChromaInv, AccelInv
  <1>. QED
    BY <1>1, <1>2, <1>3, <1>4, <1>5, <1>6, <1>7

(* The reply names the frame; a load or a seek goes on with the luma.      *)
LEMMA SendDoneReadNextFrameStep ==
  ASSUME IInv, SendDoneReadNextFrame
  PROVE  IInv'
  <1>1. TypeOK'
    BY ContentsFacts
    DEF IInv, SendDoneReadNextFrame, SlaveSend, TypeOK, ToMaster!Send, Message,
        NoMsg, ToSlave!TypeOK, ToMaster!TypeOK, Display!TypeOK, Requests,
        Replies, SlavePlaces
  <1> USE DEF IInv, SendDoneReadNextFrame, SlaveSend, ToMaster!Send, Message, NoMsg
  <1>2. PipelineInv'
    BY DEF PipelineInv, Pipeline, Owed, Work, WorkInv
  <1>3. IdleInv'
    BY DEF IdleInv, LumaNotAsked, LastRead, PipelineInv, Pipeline, Owed, Work,
           WorkInv
  <1>4. WorkInv'
    BY DEF WorkInv, Work, LastRead, NumFrames, IsIframe
  <1>5. PositionInv'
    BY DEF PositionInv, Relocating, Asked, Current
  <1>6. ReplyInv'
    BY DEF ReplyInv, LastRead, Current, WorkInv
  <1>7. MasterInv' /\ QueueInv' /\ ChromaInv' /\ AccelInv'
    BY DEF MasterInv, Current, Working, Drawing, Processing, Decoded, Waiting,
           NumFrames, IsIframe, QueueInv, ChromaInv, AccelInv
  <1>. QED
    BY <1>1, <1>2, <1>3, <1>4, <1>5, <1>6, <1>7

(* Nothing but the place in the program changes.                           *)
LEMMA BeginLdLumaStep ==
  ASSUME IInv, BeginLdLuma
  PROVE  IInv'
  <1> USE DEF IInv, BeginLdLuma
  <1>1. TypeOK'
    BY ContentsFacts
    DEF TypeOK, ToSlave!TypeOK, ToMaster!TypeOK, Display!TypeOK, SlavePlaces
  <1>2. PipelineInv'
    BY DEF PipelineInv, Pipeline, Owed, Work
  <1>3. IdleInv' /\ WorkInv'
    BY DEF IdleInv, LumaNotAsked, LastRead, WorkInv, Work, NumFrames, IsIframe
  <1>4. PositionInv'
    BY DEF PositionInv, Relocating, Asked, Current
  <1>5. /\ ReplyInv' /\ MasterInv' /\ QueueInv'
        /\ ChromaInv' /\ AccelInv'
    BY DEF ReplyInv, LastRead, Current, MasterInv, Working, Drawing, Processing,
           Decoded, Waiting, NumFrames, IsIframe, QueueInv, ChromaInv, AccelInv
  <1>. QED
    BY <1>1, <1>2, <1>3, <1>4, <1>5

(* The bitstream holds the frame and the coefficients its predecessor.     *)
LEMMA EndLdLumaStep ==
  ASSUME IInv, EndLdLuma
  PROVE  IInv'
  <1>1. WorkInv'
    <2>1. lastFrame = LastRead /\ bitstream = LastRead /\ LastRead \in Frames
      BY DEF IInv, WorkInv, EndLdLuma
    <2>2. IsIframe(LastRead) \/ YDCAC = <<LastRead[1], LastRead[2] - 1>>
      <3>1. video \in Nat /\ filePos \in Nat
        BY VideosAssumption DEF IInv, TypeOK
      <3>2. LastRead[1] = video /\ LastRead[2] - 1 = filePos - 2
        BY <3>1 DEF LastRead
      <3>. QED
        BY <3>2 DEF IInv, WorkInv, EndLdLuma
    <2>3. YDCAC' = LastRead
      BY <2>1, <2>2 DEF EndLdLuma, Decode
    <2>. QED
      BY <2>3 DEF IInv, WorkInv, EndLdLuma, LastRead, Work
  <1> USE DEF IInv, EndLdLuma, Decode
  <1>2. TypeOK'
    BY ContentsFacts
    DEF TypeOK, ToSlave!TypeOK, ToMaster!TypeOK, Display!TypeOK, SlavePlaces
  <1>3. PipelineInv'
    BY DEF PipelineInv, Pipeline, Owed, Work
  <1>4. IdleInv'
    BY DEF IdleInv, LumaNotAsked, LastRead
  <1>5. PositionInv'
    BY DEF PositionInv, Relocating, Asked, Current
  <1>6. /\ ReplyInv' /\ MasterInv' /\ QueueInv'
        /\ ChromaInv' /\ AccelInv'
    BY DEF ReplyInv, LastRead, Current, MasterInv, Working, Drawing, Processing,
           Decoded, Waiting, NumFrames, IsIframe, QueueInv, ChromaInv, AccelInv
  <1>. QED
    BY <1>1, <1>2, <1>3, <1>4, <1>5, <1>6

(* The slave has the luma of the last frame read.                          *)
LEMMA SendDoneLdYStep ==
  ASSUME IInv, SendDoneLdY
  PROVE  IInv'
  <1>1. TypeOK'
    BY ContentsFacts
    DEF IInv, SendDoneLdY, SlaveSend, TypeOK, ToMaster!Send, Message, NoMsg,
        ToSlave!TypeOK, ToMaster!TypeOK, Display!TypeOK, Requests, Replies,
        SlavePlaces
  <1> USE DEF IInv, SendDoneLdY, SlaveSend, ToMaster!Send, Message, NoMsg
  <1>2. PipelineInv'
    BY DEF PipelineInv, Pipeline, Owed, Work
  <1>3. IdleInv'
    BY DEF IdleInv, LumaNotAsked, LastRead, PipelineInv, Pipeline, Owed, Work,
           WorkInv
  <1>4. WorkInv'
    BY DEF WorkInv, Work, LastRead, NumFrames, IsIframe
  <1>5. PositionInv' /\ ReplyInv'
    BY DEF PositionInv, Relocating, Asked, Current, ReplyInv, LastRead
  <1>6. MasterInv' /\ QueueInv' /\ ChromaInv' /\ AccelInv'
    BY DEF MasterInv, Current, Working, Drawing, Processing, Decoded, Waiting,
           NumFrames, IsIframe, QueueInv, ChromaInv, AccelInv
  <1>. QED
    BY <1>1, <1>2, <1>3, <1>4, <1>5, <1>6

-----------------------------------------------------------------------------
(* The DMAs, the timer and the buttons *)

(* What is streamed is the current frame.                                  *)
LEMMA StreamedStep ==
  ASSUME IInv, NEW c \in {"Y", "C"}, Streamed(c)
  PROVE  IInv'
  <1>1. AccelInv'
    <2>1. c = "Y" => YDCAC = Current
      BY LumaFacts DEF Streamed
    <2>2. "Y" \in dma \/ (master \in Decoded) => CDCAC = Current
      BY DEF IInv, ChromaInv, AccelInv, Decoded
    <2>3. dma # {} => master \in Decoded
      BY DEF IInv, AccelInv, Decoded
    <2>4. accel'[c] = Current /\ \A d \in {"Y", "C"} \ {c} : accel'[d] = accel[d]
      BY <2>1, <2>2, <2>3 DEF Streamed, IInv, TypeOK
    <2>. QED
      BY <2>3, <2>4 DEF IInv, AccelInv, Streamed, Decoded, Current
  <1> USE DEF IInv, Streamed
  <1>2. TypeOK'
    BY ContentsFacts DEF TypeOK, ToSlave!TypeOK, ToMaster!TypeOK, Display!TypeOK
  <1>3. /\ PipelineInv' /\ IdleInv' /\ WorkInv' /\ PositionInv'
        /\ ReplyInv' /\ MasterInv' /\ QueueInv' /\ ChromaInv'
    BY DEF PipelineInv, Pipeline, Owed, Work, IdleInv, LumaNotAsked, LastRead,
           WorkInv, NumFrames, IsIframe, PositionInv, Relocating, Asked,
           Current, ReplyInv, MasterInv, Working, Drawing, Processing, Decoded,
           Waiting, QueueInv, ChromaInv
  <1>. QED
    BY <1>1, <1>2, <1>3

(* Both components in the accelerator are of the current frame.            *)
LEMMA PictureDoneStep ==
  ASSUME IInv, PictureDone
  PROVE  IInv'
  <1> USE DEF IInv, PictureDone
  <1>1. TypeOK'
    BY ContentsFacts DEF TypeOK, ToSlave!TypeOK, ToMaster!TypeOK, Display!TypeOK
  <1>2. /\ PipelineInv' /\ IdleInv' /\ WorkInv' /\ PositionInv'
        /\ ReplyInv' /\ MasterInv' /\ QueueInv' /\ ChromaInv'
    BY DEF PipelineInv, Pipeline, Owed, Work, IdleInv, LumaNotAsked, LastRead,
           WorkInv, NumFrames, IsIframe, PositionInv, Relocating, Asked,
           Current, ReplyInv, MasterInv, Working, Drawing, Processing, Decoded,
           Waiting, QueueInv, ChromaInv
  <1>3. AccelInv'
    BY DEF AccelInv, Decoded, Current
  <1>. QED
    BY <1>1, <1>2, <1>3

(* The first frame of the queue comes on the screen.                       *)
LEMMA TimerTickStep ==
  ASSUME IInv, TimerTick
  PROVE  IInv'
  <1>1. TypeOK'
    <2>1. Display!TypeOK'
        BY ShowFacts DEF IInv, TimerTick
    <2>2. currentFrame' \in Nat
      BY DEF TimerTick, IInv, TypeOK
    <2>. QED
        BY <2>1, <2>2
        DEF TimerTick, IInv, TypeOK, ToSlave!TypeOK, ToMaster!TypeOK
  <1>2. MasterInv'
    <2>1. /\ Len(queue) \in Nat /\ Len(queue') \in Nat
          /\ Len(queue') < Len(queue) /\ Len(queue) <= Capacity
        BY ShowFacts DEF IInv, TimerTick, TypeOK, Display!TypeOK
    <2>2. /\ master \notin Waiting \cup {"play", "load", "switch"}
          /\ master \in Working => doing = "play"
      BY DEF TimerTick, IInv, MasterInv
    <2>3. UNCHANGED <<master, doing, flag, processedFrame, video, timerOn>>
      BY DEF TimerTick
    <2>. QED
      BY <2>1, <2>2, <2>3, CapacityAssumption
      DEF IInv, MasterInv, Working, Drawing, Waiting, Processing, Decoded,
          Current, NumFrames, IsIframe
  <1>3. QueueInv'
    <2>1.  /\ Len(queue) \in Nat \ {0}
           /\ Len(queue') = Len(queue) - 1
           /\ \A i \in 1 .. Len(queue') : queue'[i] = queue[i + 1]
           /\ screen' = queue[1]
      BY ShowFacts DEF IInv, TimerTick
    <2>2. processedFrame \in Nat /\ currentFrame \in Nat
      BY DEF IInv, TypeOK
    <2>. QED
      BY <2>1, <2>2 DEF IInv, TimerTick, QueueInv, NumFrames, MasterInv
  <1> USE DEF IInv, TimerTick, Display!Show
  <1>4. /\ PipelineInv' /\ IdleInv' /\ WorkInv' /\ PositionInv'
        /\ ReplyInv' /\ ChromaInv' /\ AccelInv'
    BY DEF PipelineInv, Pipeline, Owed, Work, IdleInv, LumaNotAsked, LastRead,
           WorkInv, NumFrames, IsIframe, PositionInv, Relocating, Asked,
           Current, ReplyInv, ChromaInv, Decoded, Waiting, AccelInv
  <1>. QED
    BY <1>1, <1>2, <1>3, <1>4

(* The keys do not touch the rest.                                         *)
LEMMA KeyIrqStep ==
  ASSUME IInv, NEW pressed \in Presses, KeyIrq(pressed)
  PROVE  IInv'
  <1> USE DEF IInv, KeyIrq
  <1>1. TypeOK'
    BY ContentsFacts, PressesAssumption
    DEF TypeOK, ToSlave!TypeOK, ToMaster!TypeOK, Display!TypeOK, Keys
  <1>2. /\ PipelineInv' /\ IdleInv' /\ WorkInv' /\ PositionInv' /\ ReplyInv'
        /\ MasterInv' /\ QueueInv' /\ ChromaInv' /\ AccelInv'
    BY DEF PipelineInv, Pipeline, Owed, Work, IdleInv, LumaNotAsked, LastRead,
           WorkInv, NumFrames, IsIframe, PositionInv, Relocating, Asked,
           Current, ReplyInv, MasterInv, Working, Drawing, Processing, Decoded,
           Waiting, QueueInv, ChromaInv, AccelInv
  <1>. QED
    BY <1>1, <1>2

(* Nothing changes.                                                        *)
LEMMA StutterStep ==
  ASSUME IInv, UNCHANGED vars
  PROVE  IInv'
  <1> USE DEF IInv, vars
  <1>1. TypeOK'
    BY ContentsFacts DEF TypeOK, ToSlave!TypeOK, ToMaster!TypeOK, Display!TypeOK
  <1>2. /\ PipelineInv' /\ IdleInv' /\ WorkInv' /\ PositionInv' /\ ReplyInv'
        /\ MasterInv' /\ QueueInv' /\ ChromaInv' /\ AccelInv'
    BY DEF PipelineInv, Pipeline, Owed, Work, IdleInv, LumaNotAsked, LastRead,
           WorkInv, NumFrames, IsIframe, PositionInv, Relocating, Asked,
           Current, ReplyInv, MasterInv, Working, Drawing, Processing, Decoded,
           Waiting, QueueInv, ChromaInv, AccelInv
  <1>. QED
    BY <1>1, <1>2

-----------------------------------------------------------------------------
(* The invariant *)

LEMMA InitIInv == Init => IInv
  <1> SUFFICES ASSUME Init PROVE IInv
    OBVIOUS
  <1> USE DEF Init, ToSlave!Init, ToMaster!Init, Display!Init, NoMsg, Message
  <1>1. TypeOK
    <2>1. Display!TypeOK
      BY CapacityAssumption, ContentsFacts DEF Display!TypeOK
    <2>2. video \in 0 .. Len(Videos)
      BY VideosAssumption
    <2>3. NoFrame \in Contents /\ accel \in [{"Y", "C"} -> Contents]
      BY ContentsFacts
    <2>. QED
      BY <2>1, <2>2, <2>3
      DEF TypeOK, ToSlave!TypeOK, ToMaster!TypeOK, MasterPlaces, SlavePlaces
  <1>2. PipelineInv /\ IdleInv /\ WorkInv
    BY DEF PipelineInv, Pipeline, Owed, Work, IdleInv, LumaNotAsked, WorkInv
  <1>3. PositionInv /\ ReplyInv
    BY DEF PositionInv, Relocating, ReplyInv
  <1>4. MasterInv
    BY DEF MasterInv, Working, Drawing, Processing, Decoded, Waiting
  <1>5. QueueInv /\ ChromaInv /\ AccelInv
    BY DEF QueueInv, NumFrames, ChromaInv, AccelInv, Decoded, Waiting
  <1>. QED
    BY <1>1, <1>2, <1>3, <1>4, <1>5 DEF IInv

LEMMA NextIInv == IInv /\ [Next]_vars => IInv'
  <1> SUFFICES ASSUME IInv, [Next]_vars PROVE IInv'
    OBVIOUS
  <1>1. CASE MasterStep
    BY <1>1, LoadVideoStep, BufferIsAvailableStep, SendRequestStep,
       SendRequestYStep, DecideToGoOnStep, MasterReceiveStep, BeginLdChromaStep,
       EndLdChromaStep,
       SendOkToReadNextFrameStep, StartLumaStep, LumaStreamedStep, SendOkToLdYStep,
       PictureWrittenStep, RegisterPictureStep, SwitchFramesStep, PlayVideoStep,
       StopPlayingStep, ReadKeyStep, ClearKeyStep, DispatchStep
    DEF MasterStep
  <1>2. CASE SlaveStep
    BY <1>2, SlaveReceiveStep, FindLoadNextVideoStep, BeginReadFrameStep,
       EndReadFrameStep, SendDoneReadNextFrameStep, BeginLdLumaStep, EndLdLumaStep,
       SendDoneLdYStep
    DEF SlaveStep
  <1>3. CASE \E c \in {"Y", "C"} : Streamed(c)
    BY <1>3, StreamedStep
  <1>4. CASE PictureDone
    BY <1>4, PictureDoneStep
  <1>5. CASE TimerTick
    BY <1>5, TimerTickStep
  <1>6. CASE \E pressed \in Presses : KeyIrq(pressed)
    BY <1>6, KeyIrqStep
  <1>7. CASE UNCHANGED vars
    BY <1>7, StutterStep
  <1>. QED
    BY <1>1, <1>2, <1>3, <1>4, <1>5, <1>6, <1>7 DEF Next

(* The invariant holds of every behaviour of the player (main.c and        *)
(* playback.c of core 0, main.c of core 1).                                *)
THEOREM Invariant == Spec => []IInv
  <1>. QED
    BY InitIInv, NextIInv, PTL DEF Spec

(* Every variable has its type, and the display never holds more frames    *)
(* than it has buffers (ece423_vid_ctl.c).                                 *)
THEOREM Types == Spec => []TypeOK
  <1>1. IInv => TypeOK
    BY DEF IInv
  <1>. QED
    BY <1>1, Invariant, PTL

-----------------------------------------------------------------------------
(* What follows from it *)

(* No two parties use a buffer at a time: the slave does not read into the *)
(* bitstream while the master decodes from it, nor does a core decode into *)
(* coefficients that a DMA streams (playback.c:91, 114, 121).              *)
THEOREM NoRace == Spec => []NoBufferRace
  <1>1. IInv => NoBufferRace
    <2> SUFFICES ASSUME IInv PROVE NoBufferRace
      OBVIOUS
    <2>1. ~(slave = "readEnd" /\ master = "ldCEnd")
      BY DEF IInv, PipelineInv, Pipeline, Owed, Work
    <2>2. ~(slave = "ldYEnd" /\ "Y" \in dma)
      BY DEF IInv, PipelineInv, Pipeline, Owed, Work, AccelInv
    <2>3. ~(master = "ldCEnd" /\ "C" \in dma)
      BY DEF IInv, AccelInv, Decoded
    <2>. QED
      BY <2>1, <2>2, <2>3 DEF NoBufferRace
  <1>. QED
    BY <1>1, Invariant, PTL

(* The asserts on the order of the messages (core1/software/main.c:296,    *)
(* 315; playback.c:85, 98), which the build leaves out, would never fail.  *)
THEOREM InOrder == Spec => []MessagesInOrder
  <1>1. IInv => MessagesInOrder
    BY DEF IInv, WorkInv, Work, ReplyInv, MessagesInOrder
  <1>. QED
    BY <1>1, Invariant, PTL

(* The slave is never asked for a frame after the last one of the video    *)
(* (core1/software/main.c:154).                                            *)
THEOREM InFile == Spec => []SlaveStaysInFile
  <1>1. IInv => SlaveStaysInFile
    BY DEF IInv, WorkInv, SlaveStaysInFile
  <1>. QED
    BY <1>1, Invariant, PTL

(* The counters of frames processed and displayed say exactly which frames *)
(* wait and which one is on the screen (playback.c:163, 185, 218).         *)
THEOREM InStep == Spec => []FramesInStep
  <1>1. IInv => FramesInStep
    BY DEF IInv, QueueInv, FramesInStep, Waiting
  <1>. QED
    BY <1>1, Invariant, PTL

(* All that the master has started has ended when it waits for a button    *)
(* (waitForButtonPress(), core0/software/main.c).                          *)
THEOREM Quiet == Spec => []QuietWhenWaiting
  <1>1. IInv => QuietWhenWaiting
    <2> SUFFICES ASSUME IInv, master \in Waiting PROVE QuietWhenWaiting
      BY DEF QuietWhenWaiting, Waiting
    <2>1. /\ toSlave.type = "NONE" /\ toMaster.type = "NONE"
          /\ slave = "recv"
      BY DEF IInv, PipelineInv, Pipeline, Owed, Work, Waiting
    <2>2. toSlave = NoMsg /\ toMaster = NoMsg
      BY <2>1 DEF IInv, TypeOK, ToSlave!TypeOK, ToMaster!TypeOK, Requests, Replies
    <2>3. prevType = "OK_TO_LD_Y"
      BY <2>1 DEF IInv, IdleInv, LumaNotAsked, Waiting
    <2>4. dma = {} /\ ~timerOn /\ currentFrame = processedFrame
      BY DEF IInv, AccelInv, MasterInv, Decoded, Waiting
    <2>5. queue = <<>>
      BY <2>4 DEF IInv, QueueInv, TypeOK, Display!TypeOK
    <2>. QED
      BY <2>1, <2>2, <2>3, <2>4, <2>5 DEF QuietWhenWaiting
  <1>. QED
    BY <1>1, Invariant, PTL

(* The frame that the display shows next.                                  *)
LEMMA NextOnScreen ==
  ASSUME IInv, Display!Show
  PROVE  screen' = <<video, currentFrame>> /\ screen' \in Frames
  <1>1. Len(queue) \in Nat \ {0} /\ screen' = queue[1]
    BY ShowFacts DEF IInv
  <1>2. currentFrame \in Nat /\ processedFrame \in Nat /\ NumFrames \in Nat
    BY NumFramesIsNat DEF IInv, TypeOK
  <1>3. queue[1] = <<video, currentFrame>> /\ currentFrame < NumFrames
    BY <1>1, <1>2 DEF IInv, QueueInv
  <1>4. video # 0
    BY <1>2, <1>3 DEF NumFrames
  <1>. QED
    BY <1>1, <1>2, <1>3, <1>4, FrameOfVideo DEF IInv

(* A frame on the screen is whole and rightly decoded, and a P-frame comes *)
(* directly after the frame it was coded against, whether timerFunction()  *)
(* or the end of loadVideo() and seekFrame() shows it (playback.c).        *)
THEOREM Follows == Spec => ScreenFollows
  <1>1. ASSUME IInv, TimerTick
        PROVE  screen' \in Frames /\ screen' = <<screen[1], screen[2] + 1>>
    <2>1. doing = "play" /\ timerOn
      BY <1>1 DEF TimerTick, IInv, TypeOK, MasterPlaces, MasterInv, Waiting,
                  Working, Drawing
    <2>2. screen = <<video, currentFrame - 1>>
      BY <1>1, <2>1 DEF IInv, QueueInv
    <2>3. currentFrame \in Nat
      BY <1>1 DEF IInv, TypeOK
    <2>4. screen' = <<video, currentFrame>> /\ screen' \in Frames
      BY <1>1, NextOnScreen DEF TimerTick
    <2>. QED
      BY <2>2, <2>3, <2>4
  <1>2. ASSUME IInv, SwitchFrames, screen' # screen
        PROVE  screen' \in Frames /\ IsIframe(screen')
    <2>1. Display!Show
      BY <1>2 DEF SwitchFrames
    <2>2. IsIframe(<<video, currentFrame>>)
      BY <1>2 DEF IInv, MasterInv, SwitchFrames
    <2>. QED
      BY <1>2, <2>1, <2>2, NextOnScreen
  <1>3. ASSUME Next, screen' # screen
        PROVE  TimerTick \/ SwitchFrames
    <2>1. MasterStep => SwitchFrames
      BY <1>3
      DEF MasterStep, LoadVideo, BufferIsAvailable, SendRequest, SendRequestY,
          DecideToGoOn, MasterReceive, BeginLdChroma, EndLdChroma,
          SendOkToReadNextFrame, StartLuma, LumaStreamed, SendOkToLdY,
          PictureWritten, RegisterPicture, Display!Put, PlayVideo, StopPlaying,
          ReadKey, ClearKey, Dispatch
    <2>2. ~SlaveStep
      BY <1>3
      DEF SlaveStep, SlaveReceive, FindLoadNextVideo, BeginReadFrame, EndReadFrame,
          SendDoneReadNextFrame, BeginLdLuma, EndLdLuma, SendDoneLdY
    <2>. QED
      BY <1>3, <2>1, <2>2 DEF Next, Streamed, PictureDone, KeyIrq
  <1>4. IInv /\ [Next]_vars =>
          [screen' # screen =>
             /\ screen' \in Frames
             /\ IsIframe(screen') \/ screen' = <<screen[1], screen[2] + 1>>]_vars
    BY <1>1, <1>2, <1>3
  <1>. QED
    BY <1>4, Invariant, PTL DEF Spec, ScreenFollows
=============================================================================
