------------------------------- MODULE Caches -------------------------------
(***************************************************************************)
(* The two cores share memory through data caches that nothing keeps       *)
(* coherent.  This module runs what the handlers of both cores do to the   *)
(* shared objects (playback.c, main.c of core 1, mailbox.c, ocsdc.c)       *)
(* against two write-back caches, the DMA of the card controller, which    *)
(* writes memory, and that of the accelerator, which reads it.             *)
(*                                                                         *)
(* Contents are left out.  Of every copy of an object the model keeps only *)
(* whether it is current, that is, holds what was last written anywhere.   *)
(* Messages and frame buffers are in uncached memory and do not occur.     *)
(***************************************************************************)
EXTENDS Integers, Sequences

CONSTANT Layouts  (* how the objects may lie on cache lines                *)

(* header: mpegHeader and mpegTrailer; frame: playing, currentFrame and    *)
(* processedFrame, beside them in playbackData; rows and moreRows, copied  *)
(* and direct: the parts of iframe_info and of Ybitstream that             *)
(* Fat_FileRead copies through the cache, and those that the card          *)
(* controller writes; yDCAC and cDCAC: YDCAC, and CbDCAC and CrDCAC.       *)
Objects == {"header", "frame", "rows", "moreRows", "copied", "direct",
            "yDCAC", "cDCAC"}

(* Only neighbours share lines: fields of playbackData, parts of a buffer, *)
(* and YDCAC and CbDCAC, which malloc puts one behind the other.           *)
Neighbours == {{"header", "frame"}, {"rows", "moreRows"}, {"copied", "direct"},
               {"yDCAC", "cDCAC"}}

ASSUME LayoutAssumption ==
  \A layout \in Layouts :
    /\ DOMAIN layout = Objects
    /\ \A v, w \in Objects :
         layout[v] = layout[w] => v = w \/ {v, w} \in Neighbours

Cores == {0, 1}

VARIABLES
  Line,   (* Line[w]: the cache lines that hold object w; never changes    *)
  mem,    (* the objects whose copy in memory is current                   *)
  cache,  (* cache[c][l]: the copy of line l in the cache of core c        *)
  dma,    (* the objects the accelerator is reading                        *)
  mail,   (* mail[c]: the message in the mailbox to core c                 *)
  todo,   (* todo[c]: the steps core c is about to do                      *)
  timer   (* the timer of core 0 runs                                      *)

vars == <<Line, mem, cache, dma, mail, todo, timer>>

Step(what, w) == [do |-> what, of |-> w]
Read(w) == Step("read", w)
Write(w) == Step("write", w)
Flush(w) == Step("flush", w)
Post(m) == Step("post", m)
Recv(m) == Step("recv", m)
Wait(ws) == Step("wait", ws)

Everything == "everything"

Lines == {Line[w] : w \in Objects}

On(l) == {w \in Objects : Line[w] = l}

-----------------------------------------------------------------------------
(* What the code does, one operator per function.                          *)

(* mailbox.c: send().                                                      *)
SendOnly(m) == <<Post(m)>>             (* mutant: nothing is flushed *)
send(m) == <<Flush(Everything), Post(m)>>

(* Core 1.  Parts of sectors are copied, whole ones go to memory, for      *)
(* which ocsdc.c flushes the destination first.                            *)
NoFlushBeforeTransfer ==               (* mutant                     *)
  <<Write("copied"), Step("transfer", "direct"), Write("copied")>>
readFrameData ==
  <<Write("copied"), Flush("direct"), Step("transfer", "direct"), Write("copied")>>

ReadFrame == readFrameData \o <<Flush("copied"), Flush("direct")>>
             \o send("DONE_READ_NEXT_FRAME")

LdLuma == <<Read("header"), Read("copied"), Read("direct"), Read("yDCAC"),
            Write("yDCAC"), Flush("yDCAC")>>
          \o send("DONE_LD_Y")

loadVideoSlave ==
  <<Write("header"), Read("header"), Write("header"),
    Write("rows"), Flush("moreRows"), Step("transfer", "moreRows"), Write("rows")>>

Handler(m) == CASE m = "READ_NEXT_FILE" -> loadVideoSlave \o ReadFrame \o LdLuma
                [] m = "SEEK_VIDEO" -> ReadFrame \o LdLuma
                [] m = "OK_TO_READ_NEXT_FRAME" -> ReadFrame
                [] m = "OK_TO_LD_Y" -> LdLuma

(* Core 0.  The bitstream is dropped from the cache, not written back.     *)
ld_idct_cr_cb == <<Step("drop", "direct"), Read("copied"), Read("direct"),
                   Read("cDCAC"), Write("cDCAC"), Flush("cDCAC"),
                   Step("start", "cDCAC")>>

process(sendRequest) ==
  <<Recv("DONE_READ_NEXT_FRAME")>> \o ld_idct_cr_cb
  \o (IF sendRequest THEN send("OK_TO_READ_NEXT_FRAME") ELSE <<>>)
  \o <<Recv("DONE_LD_Y"), Step("start", "yDCAC")>>
  \o (IF sendRequest THEN <<Wait({"yDCAC"})>> \o send("OK_TO_LD_Y") ELSE <<>>)
  \o <<Wait({"yDCAC", "cDCAC"}), Read("frame"), Write("frame")>>

loadVideo ==
  <<Flush(Everything), Write("frame")>> \o send("READ_NEXT_FILE") \o process(FALSE)

(* fastForwardVideo, rewindVideo and seekFrame.                            *)
seekVideo == <<Read("frame"), Read("header"), Read("rows"), Read("moreRows"),
               Write("frame")>>
             \o send("SEEK_VIDEO") \o process(FALSE)

(* playVideo, up to its loop, a round of it, and from its loop.            *)
playVideo == <<Read("header"), Read("frame"), Write("frame"), Step("timer", TRUE)>>
             \o send("OK_TO_READ_NEXT_FRAME") \o send("OK_TO_LD_Y")
             \o <<Step("round", TRUE)>>

Round(flag) == <<Read("frame"), Read("header")>> \o process(flag)

playVideoEnd == <<Read("frame"), Read("header"), Write("frame"), Step("timer", FALSE)>>

-----------------------------------------------------------------------------
(* The memory.                                                             *)
Miss == [held |-> FALSE, dirty |-> FALSE, current |-> {}]

Init == /\ Line \in Layouts
        /\ mem = Objects
        /\ cache = [c \in Cores |-> [l \in Lines |-> Miss]]
        /\ dma = {}
        /\ mail = [c \in Cores |-> <<>>]
        /\ todo = [c \in Cores |-> IF c = 0 THEN loadVideo ELSE <<>>]
        /\ timer = FALSE

Filled(c, l) == IF cache[c][l].held THEN cache[c][l]
                ELSE [held |-> TRUE, dirty |-> FALSE, current |-> mem \cap On(l)]

(* Whatever core c has of lines ls is dropped, written back where dirty.   *)
WriteBack(c, ls) ==
  LET dirty == {l \in ls : cache[c][l].dirty}
  IN  mem' = (mem \ UNION {On(l) : l \in dirty})
             \cup UNION {cache[c][l].current : l \in dirty}

Drop(c, ls) ==
  cache' = [cache EXCEPT ![c] = [l \in Lines |-> IF l \in ls THEN Miss ELSE @[l]]]

(* All other copies of w are old once core c has written it.               *)
Store(c, w) ==
  LET l == Line[w]
      old == [d \in Cores |-> [cache[d] EXCEPT ![l].current = @ \ {w}]]
  IN  /\ mem' = mem \ {w}
      /\ cache' = [old EXCEPT ![c][l] =
                     [Filled(c, l) EXCEPT !.dirty = TRUE, !.current = @ \cup {w}]]

(* Any line may have to make room for another at any time.                 *)
Evict(c, l) == /\ cache[c][l].held
               /\ WriteBack(c, {l})
               /\ Drop(c, {l})
               /\ UNCHANGED <<dma, mail, todo, timer>>

-----------------------------------------------------------------------------
(* The steps.                                                              *)
Begins(c, what) == /\ todo[c] # <<>>
                  /\ Head(todo[c]).do = what

Arg(c) == Head(todo[c]).of

Done(c) == todo' = [todo EXCEPT ![c] = Tail(@)]

DoRead(c) ==
  /\ Begins(c, "read")
  /\ cache' = [cache EXCEPT ![c][Line[Arg(c)]] = Filled(c, Line[Arg(c)])]
  /\ Done(c)
  /\ UNCHANGED <<mem, dma, mail, timer>>

DoWrite(c) ==
  /\ Begins(c, "write")
  /\ Store(c, Arg(c))
  /\ Done(c)
  /\ UNCHANGED <<dma, mail, timer>>

(* alt_dcache_flush and alt_dcache_flush_all.                              *)
DoFlush(c) ==
  /\ Begins(c, "flush")
  /\ LET ls == IF Arg(c) = Everything THEN Lines ELSE {Line[Arg(c)]}
     IN  WriteBack(c, ls) /\ Drop(c, ls)
  /\ Done(c)
  /\ UNCHANGED <<dma, mail, timer>>

(* alt_dcache_flush_no_writeback.                                          *)
DoDrop(c) ==
  /\ Begins(c, "drop")
  /\ Drop(c, {Line[Arg(c)]})
  /\ Done(c)
  /\ UNCHANGED <<mem, dma, mail, timer>>

(* The card controller writes memory.                                      *)
DoTransfer(c) ==
  /\ Begins(c, "transfer")
  /\ mem' = mem \cup {Arg(c)}
  /\ cache' = [d \in Cores |-> [cache[d] EXCEPT ![Line[Arg(c)]].current = @ \ {Arg(c)}]]
  /\ Done(c)
  /\ UNCHANGED <<dma, mail, timer>>

(* A mailbox holds one message; the sender waits until it is empty.        *)
DoPost(c) ==
  /\ Begins(c, "post")
  /\ mail[1 - c] = <<>>
  /\ mail' = [mail EXCEPT ![1 - c] = <<Arg(c)>>]
  /\ Done(c)
  /\ UNCHANGED <<mem, cache, dma, timer>>

DoRecv(c) ==
  /\ Begins(c, "recv")
  /\ mail[c] = <<Arg(c)>>
  /\ mail' = [mail EXCEPT ![c] = <<>>]
  /\ Done(c)
  /\ UNCHANGED <<mem, cache, dma, timer>>

DoStart(c) ==
  /\ Begins(c, "start")
  /\ dma' = dma \cup {Arg(c)}
  /\ Done(c)
  /\ UNCHANGED <<mem, cache, mail, timer>>

(* The accelerator has read an object.                                     *)
Finish(w) == /\ w \in dma
             /\ dma' = dma \ {w}
             /\ UNCHANGED <<mem, cache, mail, todo, timer>>

DoWait(c) ==
  /\ Begins(c, "wait")
  /\ dma \cap Arg(c) = {}
  /\ Done(c)
  /\ UNCHANGED <<mem, cache, dma, mail, timer>>

DoTimer(c) ==
  /\ Begins(c, "timer")
  /\ timer' = Arg(c)
  /\ Done(c)
  /\ UNCHANGED <<mem, cache, dma, mail>>

(* The loop of playVideo goes on, or a button or the end of the video ends *)
(* it after one more frame.                                                *)
DoRound(c) ==
  /\ Begins(c, "round")
  /\ \/ todo' = [todo EXCEPT ![c] = Round(TRUE) \o <<Step("round", TRUE)>>]
     \/ todo' = [todo EXCEPT ![c] = Round(FALSE) \o playVideoEnd]
  /\ UNCHANGED <<mem, cache, dma, mail, timer>>

(* doWork of core 1.                                                       *)
Serve ==
  /\ todo[1] = <<>>
  /\ mail[1] # <<>>
  /\ todo' = [todo EXCEPT ![1] = Handler(Head(mail[1]))]
  /\ mail' = [mail EXCEPT ![1] = <<>>]
  /\ UNCHANGED <<mem, cache, dma, timer>>

(* A button: another video, another place, or play on.                     *)
Button ==
  /\ todo[0] = <<>>
  /\ \E work \in {loadVideo, seekVideo, playVideo} : todo' = [todo EXCEPT ![0] = work]
  /\ UNCHANGED <<mem, cache, dma, mail, timer>>

(* timerFunction, the interrupt handler, counts currentFrame up.           *)
Tick ==
  /\ timer
  /\ Store(0, "frame")
  /\ UNCHANGED <<dma, mail, todo, timer>>

Next == /\ UNCHANGED Line
        /\ \/ \E c \in Cores : \/ DoRead(c) \/ DoWrite(c) \/ DoFlush(c) \/ DoDrop(c)
                               \/ DoTransfer(c) \/ DoPost(c) \/ DoRecv(c)
                               \/ DoStart(c) \/ DoWait(c) \/ DoTimer(c) \/ DoRound(c)
                               \/ \E l \in Lines : Evict(c, l)
           \/ \E w \in dma : Finish(w)
           \/ Serve
           \/ Button
           \/ Tick

Spec == Init /\ [][Next]_vars

-----------------------------------------------------------------------------
(* Both cores write the coefficients, at the same time and through caches. *)
SharedCoefficients ==
  IF Line["yDCAC"] = Line["cDCAC"] THEN {"yDCAC", "cDCAC"} ELSE {}

Coherent == Objects \ SharedCoefficients

(* What a core or the accelerator reads is what was last written, by       *)
(* whichever core or device, whatever the caches held and wrote back in    *)
(* between, and is not written meanwhile: for every object but             *)
(* coefficients of which both cores have a part on one line.               *)
ReadsAreCurrent ==
  /\ \A c \in Cores :
       Begins(c, "read") /\ Arg(c) \in Coherent =>
         LET w == Arg(c)
             copy == cache[c][Line[w]]
         IN  w \in IF copy.held THEN copy.current ELSE mem
  /\ dma \cap Coherent \subseteq mem

Kept(w) ==
  w \notin mem =>
    \E c \in Cores : cache[c][Line[w]].dirty /\ w \in cache[c][Line[w]].current

(* What was last written is never lost: it is in memory, or on its way in  *)
(* a cache.  Old copies of the neighbours in a line do not overwrite it,   *)
(* except among coefficients on one line (NoLostCoefficients).             *)
NoLostWrite == \A w \in Coherent : Kept(w)

(* "Any dirty lines in the data cache are written back to memory"          *)
(* (alt_dcache_flush.c:43), which is how each core hands its coefficients  *)
(* to the accelerator.  A line of both holds an old copy of the other's,   *)
(* and is written back with it: nothing rounds the buffers of              *)
(* playback.c:331-338 up to lines, as alt_uncached_malloc.c:49-56 does.    *)
NoLostCoefficients == \A w \in {"yDCAC", "cDCAC"} : Kept(w)
=============================================================================
