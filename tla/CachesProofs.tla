---------------------------- MODULE CachesProofs ----------------------------
(***************************************************************************)
(* Proofs about Caches, for every way the shared objects may lie on cache  *)
(* lines: no core and no DMA reads an old copy, and no write is lost -     *)
(* but for coefficients of which the two cores share a line, the one case  *)
(* in which the code fails (NoLostCoefficients of Caches).                 *)
(*                                                                         *)
(* The argument: the state is known, but for evictions, from the places of *)
(* the two programs.  Core 0 is at step k of one of its works (load, seek, *)
(* play, a round of the loop and the last one), core 1 at step j of its    *)
(* job.  At each pair of places CachesIInv says                            *)
(*   - which replies core 0 is owed, and with them what the mailboxes hold *)
(*     and what core 1 is doing (Pipeline);                                *)
(*   - of which objects each cache may have copies, and written ones       *)
(*     (Holds0, Dirties0, Holds1, Dirties1), which the flushes before each *)
(*     message keep small;                                                 *)
(*   - what the accelerator may be reading (Streams);                      *)
(*   - and that copies are whole and what memory lacks is dirty in the     *)
(*     cache of its only writer (Memory).                                  *)
(* That a place allows what is done there is the business of the operators *)
(* Fits..., a finite check for each program; that a read, a write, a flush *)
(* and the rest then keep Memory is proved once, for any sets of objects.  *)
(* Sides is where the two meet: what the one core works on, the other has  *)
(* neither read nor written since the last flush, however far it has run.  *)
(***************************************************************************)
EXTENDS Caches, SequenceTheorems, TLAPS

(* Which core writes an object; the card controller writes for core 1.     *)
Owner(w) == IF w \in {"frame", "cDCAC"} THEN 0 ELSE 1

Copies == [held : BOOLEAN, dirty : BOOLEAN, current : SUBSET Objects]

(* A copy of line l in the cache of core c is of one of the objects        *)
(* `holds', and written only if it is of one of `dirties'.  It is whole,   *)
(* all of the line current in it; but core 1 may have old frame counters,  *)
(* which it does not use, unless it begins a video or a place in one.      *)
GoodCopy(copy, c, l, holds, dirties, doing) ==
  /\ copy.held => /\ \E w \in holds : Line[w] = l
                  /\ copy.current \subseteq On(l)
                  /\ On(l) \ {"frame"} \subseteq copy.current
                  /\ c = 0 \/ doing = "start" => copy.current = On(l)
  /\ copy.dirty => /\ \E w \in dirties : Line[w] = l
                   /\ copy.current = On(l)
  /\ ~copy.held => copy = Miss

(* A line with coefficients of both cores, of which nothing is known.      *)
Mixed(l) == l = Line["yDCAC"] /\ l = Line["cDCAC"]

(* What is not current in memory is so in the cache of its owner.  Core 1  *)
(* holds nothing of the lines of `clear'.                                  *)
Memory(holds, dirties, clear, doing) ==
  /\ Line \in Layouts
  /\ mem \subseteq Objects
  /\ cache \in [Cores -> [Lines -> Copies]]
  /\ \A c \in Cores, l \in Lines :
       Mixed(l) \/ GoodCopy(cache[c][l], c, l, holds[c], dirties[c], doing)
  /\ \A w \in clear : w \in Objects /\ ~cache[1][Line[w]].held
  /\ \A w \in Coherent \ mem : cache[Owner(w)][Line[w]].dirty

-----------------------------------------------------------------------------
(* The programs: core 0 is at step k of one of Works, core 1 at step j of  *)
(* its job, of which it does the steps up to e.                            *)
TimerOn == Step("timer", TRUE)
TimerOff == Step("timer", FALSE)
NextRound == Step("round", TRUE)
ProcessMore == process(TRUE)
ProcessLast == process(FALSE)
RoundMore == Round(TRUE)
RoundLast == Round(FALSE)
WaitAndSend == <<Wait({"yDCAC"})>> \o send("OK_TO_LD_Y")

(* A round of the loop of playVideo that is followed by another one, and   *)
(* the last one.                                                           *)
More == RoundMore \o <<NextRound>>
Last == RoundLast \o playVideoEnd

Works == {"load", "seek", "play", "more", "last"}

Work(n) == CASE n = "load" -> loadVideo
             [] n = "seek" -> seekVideo
             [] n = "play" -> playVideo
             [] n = "more" -> More
             [] n = "last" -> Last

(* Where it ends: for core 0, beyond its last step, or at the end of a     *)
(* round, where another one begins.                                        *)
End(n) == CASE n = "load" -> 18
            [] n = "seek" -> 21
            [] n = "play" -> 9
            [] n = "more" -> 21
            [] n = "last" -> 20

(* Whatever core 1 is asked for is a part of this: a frame only, up to     *)
(* step 15, or not.                                                        *)
Job == Handler("READ_NEXT_FILE")

Begin(e) == IF e = 15 THEN 8 ELSE 1

Messages == {"READ_NEXT_FILE", "SEEK_VIDEO", "OK_TO_READ_NEXT_FRAME", "OK_TO_LD_Y",
             "DONE_READ_NEXT_FRAME", "DONE_LD_Y"}

(* The replies core 0 will still receive.                                  *)
Owed(n, k) ==
  CASE n = "load" -> (IF k = 5 THEN "start" ELSE IF k \in 6 .. 13 THEN "luma"
                      ELSE "nothing")
    [] n = "seek" -> (IF k = 8 THEN "start" ELSE IF k \in 9 .. 16 THEN "luma"
                      ELSE "nothing")
    [] n = "play" -> (IF k \in 7 .. 8 THEN "read" ELSE IF k = 9 THEN "read, luma"
                      ELSE "nothing")
    [] n = "more" -> (IF k \in 4 .. 12 THEN "luma"
                      ELSE IF k = 13 THEN "luma, read"
                      ELSE IF k \in 14 .. 17 THEN "read" ELSE "read, luma")
    [] n = "last" -> (IF k \in 1 .. 3 THEN "read, luma"
                      ELSE IF k \in 4 .. 11 THEN "luma"
                      ELSE "nothing")

(* What core 1 is doing.                                                   *)
Doing(j, e) == IF j = e + 1 THEN "nothing"
               ELSE IF e = 15 THEN "read"
               ELSE IF j <= 15 THEN "start" ELSE "luma"

DoneRead == <<"DONE_READ_NEXT_FRAME">>
DoneLuma == <<"DONE_LD_Y">>
OkToRead == <<"OK_TO_READ_NEXT_FRAME">>
OkToLuma == <<"OK_TO_LD_Y">>

(* The reply in the mailbox to core 0, what core 1 is doing, and the       *)
(* request in the mailbox to it.                                           *)
PipelineIs(doing, reply, done, request) ==
  mail[0] = reply /\ doing = done /\ mail[1] = request

Pipeline(owed, doing) ==
  /\ owed = "nothing" => PipelineIs(doing, <<>>, "nothing", <<>>)
  /\ owed = "start" => \/ PipelineIs(doing, <<>>, "nothing", <<"READ_NEXT_FILE">>)
                       \/ PipelineIs(doing, <<>>, "nothing", <<"SEEK_VIDEO">>)
                       \/ PipelineIs(doing, <<>>, "start", <<>>)
                       \/ PipelineIs(doing, DoneRead, "luma", <<>>)
  /\ owed = "read" => \/ PipelineIs(doing, <<>>, "nothing", OkToRead)
                      \/ PipelineIs(doing, <<>>, "read", <<>>)
                      \/ PipelineIs(doing, DoneRead, "nothing", <<>>)
  /\ owed = "luma" => \/ PipelineIs(doing, <<>>, "nothing", OkToLuma)
                      \/ PipelineIs(doing, <<>>, "luma", <<>>)
                      \/ PipelineIs(doing, DoneLuma, "nothing", <<>>)
  /\ owed = "luma, read" => \/ PipelineIs(doing, <<>>, "luma", OkToRead)
                            \/ PipelineIs(doing, DoneLuma, "nothing", OkToRead)
                            \/ PipelineIs(doing, DoneLuma, "read", <<>>)
  /\ owed = "read, luma" => \/ PipelineIs(doing, <<>>, "read", OkToLuma)
                            \/ PipelineIs(doing, DoneRead, "nothing", OkToLuma)
                            \/ PipelineIs(doing, DoneRead, "luma", <<>>)

(* Core 0 has flushed everything, to ask for a video or a place in it.     *)
Cleaned(n, k) == \/ n = "load" /\ k \in 4 .. 5
                 \/ n = "seek" /\ k \in 7 .. 8

(* It has asked for a frame, or is about to: it reads no bitstream.        *)
Waits(n, k) == \/ n = "play" /\ k >= 6
               \/ n = "more" /\ (k <= 3 \/ k >= 12)
               \/ n = "last" /\ k <= 3

(* It has written the chroma, and is about to flush it.                    *)
Decodes(n, k) == \/ n = "load" /\ k = 11
                 \/ n = "seek" /\ k = 14
                 \/ n \in {"more", "last"} /\ k = 9

(* What the cache of core 0 may hold, and hold written.                    *)
Holds0(n, k) ==
  IF Cleaned(n, k) THEN {}
  ELSE {"header", "frame", "rows", "moreRows", "cDCAC"}
       \cup (IF Waits(n, k) THEN {} ELSE {"copied", "direct"})

Dirties0(n, k) ==
  IF Cleaned(n, k) THEN {}
  ELSE IF Decodes(n, k) THEN {"frame", "cDCAC"} ELSE {"frame"}

(* What the cache of core 1 may hold, and hold written.                    *)
Holds1(j) ==
  IF j \in {1, 15, 16, 23, 24} THEN {}
  ELSE IF j \in 2 .. 8 \/ j \in 13 .. 14 THEN {"header", "rows"}
  ELSE IF j \in 9 .. 12 THEN {"header", "rows", "copied"}
  ELSE {"header", "copied", "direct", "yDCAC"}

Dirties1(j, e) ==
  (IF e = 23 /\ j \in 2 .. 14 THEN {"header", "rows"} ELSE {})
  \cup (IF j \in 9 .. 12 THEN {"copied"} ELSE {})
  \cup (IF j = 21 THEN {"yDCAC"} ELSE {})

(* What core 1 has flushed, for a transfer to it.                          *)
Clear(j) == IF j = 6 THEN {"moreRows"} ELSE IF j = 10 THEN {"direct"} ELSE {}

Holds(n, k, j) == [c \in Cores |-> IF c = 0 THEN Holds0(n, k) ELSE Holds1(j)]
Dirties(n, k, j, e) ==
  [c \in Cores |-> IF c = 0 THEN Dirties0(n, k) ELSE Dirties1(j, e)]

(* What the accelerator may be reading.                                    *)
Streams(n, k) ==
  (IF \/ n = "load" /\ k \in 13 .. 15
      \/ n = "seek" /\ k \in 16 .. 18
      \/ n = "more" /\ k \in 11 .. 18
      \/ n = "last" /\ k \in 11 .. 13
   THEN {"cDCAC"} ELSE {})
  \cup (IF \/ n \in {"load", "more"} /\ k = 15
           \/ n = "seek" /\ k = 18
           \/ n = "last" /\ k = 13
        THEN {"yDCAC"} ELSE {})

(* Where the timer may run.                                                *)
Ticks(n, k) == n \in {"play", "more"} \/ (n = "last" /\ k <= 19)

(* The two programs are there.                                             *)
Places(n, k, j, e) ==
  /\ todo = [c \in Cores |-> todo[c]]
  /\ todo[0] = SubSeq(Work(n), k, Len(Work(n)))
  /\ todo[1] = SubSeq(Job, j, e)

(* All that is known of the two places.                                    *)
At(n, k, j, e) ==
  /\ Places(n, k, j, e)
  /\ mail \in [Cores -> {<<>>} \cup {<<m>> : m \in Messages}]
  /\ Pipeline(Owed(n, k), Doing(j, e))
  /\ timer \in BOOLEAN /\ (timer => Ticks(n, k))
  /\ dma \subseteq Streams(n, k)
  /\ Memory(Holds(n, k, j), Dirties(n, k, j, e), Clear(j), Doing(j, e))

(* The two programs are somewhere, and everything is as it is there.       *)
CachesIInv ==
  \E n \in Works, e \in {15, 23} :
    \E k \in 1 .. End(n), j \in Begin(e) .. e + 1 : At(n, k, j, e)

-----------------------------------------------------------------------------
(* What is said of the two places fits each step of the programs.          *)

(* Nothing is asked for or received, nothing comes to an end.              *)
Flows(n, k) == /\ k + 1 \in 1 .. End(n)
               /\ Ticks(n, k) => Ticks(n, k + 1)

Quiet(n, k) == Flows(n, k) /\ Owed(n, k + 1) = Owed(n, k)

Keeps(n, k) == Holds0(n, k) \subseteq Holds0(n, k + 1)
               /\ Dirties0(n, k) \subseteq Dirties0(n, k + 1)

FitsRead(n, k, w) ==
  /\ Quiet(n, k) /\ Keeps(n, k) /\ Owed(n, k) # "start"
  /\ Streams(n, k) \subseteq Streams(n, k + 1)
  /\ w \in Objects \ {"yDCAC"}
  /\ w \in {"copied", "direct"} => ~Waits(n, k)
  /\ w \in Holds0(n, k + 1)

FitsWrite(n, k, w) ==
  /\ Quiet(n, k) /\ Keeps(n, k) /\ Owed(n, k) # "start"
  /\ Streams(n, k) \subseteq Streams(n, k + 1)
  /\ w \in {"frame", "cDCAC"}
  /\ w \in Holds0(n, k + 1) /\ w \in Dirties0(n, k + 1)

FitsFlush(n, k, w) ==
  /\ Quiet(n, k)
  /\ Streams(n, k) \subseteq Streams(n, k + 1)
  /\ w \in {"cDCAC", Everything}
  /\ w = "cDCAC" => /\ Holds0(n, k) \subseteq Holds0(n, k + 1)
                    /\ Dirties0(n, k) \ {w} \subseteq Dirties0(n, k + 1)

FitsDrop(n, k, w) ==
  /\ Quiet(n, k) /\ Keeps(n, k)
  /\ Streams(n, k) \subseteq Streams(n, k + 1)
  /\ w = "direct" /\ Dirties0(n, k) = {"frame"}

FitsStart(n, k, w) ==
  /\ Quiet(n, k) /\ Keeps(n, k)
  /\ Streams(n, k) \cup {w} \subseteq Streams(n, k + 1)

FitsWait(n, k, ws) ==
  /\ Quiet(n, k) /\ Keeps(n, k)
  /\ Streams(n, k) \ ws \subseteq Streams(n, k + 1)

FitsTimer(n, k, on) ==
  /\ k + 1 \in 1 .. End(n) /\ Owed(n, k + 1) = Owed(n, k) /\ Keeps(n, k)
  /\ Streams(n, k) \subseteq Streams(n, k + 1)
  /\ on \in BOOLEAN /\ (on => Ticks(n, k + 1))

FitsPost(n, k, m) ==
  /\ Flows(n, k) /\ Keeps(n, k)
  /\ Streams(n, k) \subseteq Streams(n, k + 1)
  /\ m \in Messages
  /\ \/ /\ Owed(n, k) = "nothing" /\ m \in {"READ_NEXT_FILE", "SEEK_VIDEO"}
        /\ Owed(n, k + 1) = "start"
     \/ /\ Owed(n, k) = "nothing" /\ m = "OK_TO_READ_NEXT_FRAME"
        /\ Owed(n, k + 1) = "read"
     \/ /\ Owed(n, k) = "read" /\ m = "OK_TO_LD_Y"
        /\ Owed(n, k + 1) = "read, luma"
     \/ /\ Owed(n, k) = "luma" /\ m = "OK_TO_READ_NEXT_FRAME"
        /\ Owed(n, k + 1) = "luma, read"

FitsRecv(n, k, m) ==
  /\ Flows(n, k) /\ Keeps(n, k)
  /\ Streams(n, k) \subseteq Streams(n, k + 1)
  /\ \/ /\ Owed(n, k) \in {"start", "read, luma"} /\ m = "DONE_READ_NEXT_FRAME"
        /\ Owed(n, k + 1) = "luma"
     \/ /\ Owed(n, k) = "luma" /\ m = "DONE_LD_Y" /\ Owed(n, k + 1) = "nothing"
     \/ /\ Owed(n, k) = "luma, read" /\ m = "DONE_LD_Y" /\ Owed(n, k + 1) = "read"

FitsRound(n, k) ==
  /\ Owed(n, k) = "read, luma" /\ Streams(n, k) = {}
  /\ Holds0(n, k) = {"header", "frame", "rows", "moreRows", "cDCAC"}
  /\ Dirties0(n, k) = {"frame"}

(* The step s of core 0 at step k of work n, by what it does.              *)
Fits0(n, k, s) ==
  \/ s.do = "read" /\ FitsRead(n, k, s.of)
  \/ s.do = "write" /\ FitsWrite(n, k, s.of)
  \/ s.do = "flush" /\ FitsFlush(n, k, s.of)
  \/ s.do = "drop" /\ FitsDrop(n, k, s.of)
  \/ s.do = "start" /\ FitsStart(n, k, s.of)
  \/ s.do = "wait" /\ FitsWait(n, k, s.of)
  \/ s.do = "timer" /\ FitsTimer(n, k, s.of)
  \/ s.do = "post" /\ FitsPost(n, k, s.of)
  \/ s.do = "recv" /\ FitsRecv(n, k, s.of)
  \/ s.do = "round" /\ FitsRound(n, k)

(* The same for core 1.                                                    *)
Quiet1(j, e) == Doing(j + 1, e) = Doing(j, e)

Keeps1(j, e) == /\ Holds1(j) \subseteq Holds1(j + 1)
                /\ Dirties1(j, e) \subseteq Dirties1(j + 1, e)
                /\ Clear(j + 1) = {}

FitsRead1(j, e, w) ==
  /\ Quiet1(j, e) /\ Keeps1(j, e)
  /\ w \in {"header", "copied", "direct", "yDCAC"} /\ w \in Holds1(j + 1)

FitsWrite1(j, e, w) ==
  /\ Quiet1(j, e) /\ Keeps1(j, e)
  /\ w \in {"header", "rows", "copied", "yDCAC"}
  /\ w \in {"header", "rows"} => Doing(j, e) = "start"
  /\ w = "copied" => Doing(j, e) \in {"start", "read"}
  /\ w \in Holds1(j + 1) /\ w \in Dirties1(j + 1, e)

FitsFlush1(j, e, w) ==
  /\ Quiet1(j, e)
  /\ w \in {"moreRows", "copied", "direct", "yDCAC", Everything}
  /\ w # Everything => /\ Holds1(j) \ {w} \subseteq Holds1(j + 1)
                       /\ Dirties1(j, e) \ {w} \subseteq Dirties1(j + 1, e)
  /\ Clear(j + 1) \subseteq {w} \ {Everything}

FitsTransfer1(j, e, w) ==
  /\ Quiet1(j, e) /\ Keeps1(j, e) /\ w \in {"moreRows", "direct"}
  /\ w = "moreRows" => Doing(j, e) = "start"
  /\ w = "direct" => Doing(j, e) \in {"start", "read"}
  /\ w \in Clear(j)

FitsPost1(j, e, m) ==
  /\ Keeps1(j, e) /\ Holds1(j) = {}
  /\ \/ /\ Doing(j, e) = "start" /\ m = "DONE_READ_NEXT_FRAME"
        /\ Doing(j + 1, e) = "luma"
     \/ /\ Doing(j, e) = "read" /\ m = "DONE_READ_NEXT_FRAME"
        /\ Doing(j + 1, e) = "nothing"
     \/ Doing(j, e) = "luma" /\ m = "DONE_LD_Y" /\ Doing(j + 1, e) = "nothing"

Fits1(j, e, s) ==
  \/ s.do = "read" /\ FitsRead1(j, e, s.of)
  \/ s.do = "write" /\ FitsWrite1(j, e, s.of)
  \/ s.do = "flush" /\ FitsFlush1(j, e, s.of)
  \/ s.do = "transfer" /\ FitsTransfer1(j, e, s.of)
  \/ s.do = "post" /\ FitsPost1(j, e, s.of)

(* What may share a line with what.                                        *)
LEMMA Sharing ==
  ASSUME Line \in Layouts, NEW w \in Objects
  PROVE  /\ Line[w] = Line["frame"] => w \in {"frame", "header"}
         /\ Line[w] = Line["header"] => w \in {"frame", "header"}
         /\ Line[w] = Line["copied"] => w \in {"copied", "direct"}
         /\ Line[w] = Line["direct"] => w \in {"copied", "direct"}
         /\ Line[w] = Line["rows"] => w \in {"rows", "moreRows"}
         /\ Line[w] = Line["moreRows"] => w \in {"rows", "moreRows"}
         /\ Line[w] = Line["yDCAC"] => w = "yDCAC" \/ (w = "cDCAC" /\ Mixed(Line[w]))
         /\ Line[w] = Line["cDCAC"] => w = "cDCAC" \/ (w = "yDCAC" /\ Mixed(Line[w]))
<1>1. ASSUME NEW v \in Objects, Line[w] = Line[v]
      PROVE  v = w \/ {w, v} \in Neighbours
  BY <1>1, LayoutAssumption
<1> QED
  BY <1>1 DEF Objects, Neighbours, Mixed

(* The coherent objects are those that are on no mixed line.               *)
LEMMA CoherentIs ==
  ASSUME Line \in Layouts, NEW w \in Objects
  PROVE  w \in Coherent <=> ~Mixed(Line[w])
<1>1. Mixed(Line[w]) => w \in {"yDCAC", "cDCAC"} /\ Line["yDCAC"] = Line["cDCAC"]
  BY Sharing DEF Mixed
<1>2. w \in {"yDCAC", "cDCAC"} /\ Line["yDCAC"] = Line["cDCAC"] => Mixed(Line[w])
  BY DEF Mixed
<1> QED
  BY <1>1, <1>2 DEF Coherent, SharedCoefficients

(* Objects lie on lines.                                                   *)
LEMMA LinesOfObjects ==
  ASSUME NEW w \in Objects
  PROVE  Line[w] \in Lines /\ w \in On(Line[w]) /\ On(Line[w]) \subseteq Objects
  BY DEF Lines, On

(* The other core has written nothing on the line of w.                    *)
Apart(c, w, dirties, doing) ==
  \A v \in dirties[1 - c] :
    v \in Objects /\ (Line[v] = Line[w] => c = 1 /\ doing # "start" /\ v = "frame")

(* A copy with all of the line that its core uses.                         *)
WholeCopy(copy, c, l, doing) ==
  /\ copy \in [held : {TRUE}, dirty : BOOLEAN, current : SUBSET Objects]
  /\ copy.dirty = cache[c][l].dirty
  /\ copy.current \subseteq On(l)
  /\ On(l) \ {"frame"} \subseteq copy.current
  /\ c = 0 \/ doing = "start" \/ l # Line["frame"] => copy.current = On(l)

(* A line that a core does not hold comes from memory, and that is whole   *)
(* unless the other core holds what is newer.                              *)
LEMMA FillIsWhole ==
  ASSUME NEW h, NEW d, NEW r, NEW s, Memory(h, d, r, s),
         NEW c \in Cores, NEW w \in Objects, ~Mixed(Line[w]), Apart(c, w, d, s)
  PROVE  WholeCopy(Filled(c, Line[w]), c, Line[w], s)
<1> DEFINE l == Line[w]
           copy == cache[c][l]
<1>1. l \in Lines /\ l = Line[w] /\ On(l) \subseteq Objects
      /\ mem \subseteq Objects
  BY LinesOfObjects DEF Memory
<1>2. copy \in [held : BOOLEAN, dirty : BOOLEAN, current : SUBSET Objects]
  BY <1>1 DEF Memory, Copies
<1>3. /\ copy.held => /\ copy.current \subseteq On(l)
                      /\ On(l) \ {"frame"} \subseteq copy.current
                      /\ c = 0 \/ s = "start" => copy.current = On(l)
      /\ ~copy.held => copy = Miss
  BY <1>1 DEF Memory, GoodCopy
<1>4. CASE copy.held
  <2>1. Filled(c, l) = copy
    BY <1>4 DEF Filled
  <2>2. Line[w] # Line["frame"] => "frame" \notin On(l)
    BY DEF On
  <2> HIDE DEF l, copy
  <2>3. /\ copy.current \subseteq On(l)
        /\ On(l) \ {"frame"} \subseteq copy.current
        /\ c = 0 \/ s = "start" => copy.current = On(l)
    BY <1>3, <1>4
  <2>4. copy \in [held : {TRUE}, dirty : BOOLEAN, current : SUBSET Objects]
    BY <1>2, <1>4
  <2>5. copy.dirty = cache[c][l].dirty
    BY DEF copy
  <2>6. c = 0 \/ s = "start" \/ Line[w] # Line["frame"] => copy.current = On(l)
    BY <2>2, <2>3
  <2> QED
    BY <1>1, <2>1, <2>3, <2>4, <2>5, <2>6 DEF WholeCopy
<1>5. CASE ~copy.held
  <2>1. Filled(c, l) = [held |-> TRUE, dirty |-> FALSE, current |-> mem \cap On(l)]
    BY <1>5 DEF Filled
  <2>2. copy.dirty = FALSE
    BY <1>3, <1>5 DEF Miss
  <2>3. ASSUME NEW v \in On(l), v \notin mem
        PROVE  c = 1 /\ s # "start" /\ v = "frame"
    <3>0. v \in Objects /\ Line[v] = l
      BY DEF On
    <3>1. v \in Coherent /\ v \in Objects /\ Line[v] = l
      BY <3>0, CoherentIs DEF Memory
    <3>2. cache[Owner(v)][l].dirty
      BY <2>3, <3>1 DEF Memory
    <3>3. Owner(v) = 1 - c
      BY <2>2, <3>2 DEF Owner, Cores
    <3>4. 1 - c \in Cores
      BY DEF Cores
    <3>5. PICK x \in d[1 - c] : Line[x] = l
      BY <1>1, <3>2, <3>3, <3>4 DEF Memory, GoodCopy
    <3>6. c = 1 /\ s # "start" /\ Line[v] = Line["frame"]
      BY <3>1, <3>5 DEF Apart
    <3>7. v \in {"frame", "header"}
      BY <3>1, <3>6, Sharing DEF Memory
    <3> QED
      BY <3>3, <3>6, <3>7 DEF Owner
  <2> DEFINE new == mem \cap On(l)
  <2>4. new \subseteq On(l) /\ On(l) \ {"frame"} \subseteq new
    BY <2>3
  <2>5. c = 0 \/ s = "start" \/ Line[w] # Line["frame"] => new = On(l)
    BY <2>3 DEF On
  <2> HIDE DEF new
  <2>6. PICK f : f = [held |-> TRUE, dirty |-> FALSE, current |-> new]
    OBVIOUS
  <2>7. f.held = TRUE /\ f.dirty = FALSE /\ f.current = new
    BY <2>6
  <2>8. f \in [held : {TRUE}, dirty : BOOLEAN, current : SUBSET Objects]
    BY <1>1, <2>4, <2>6
  <2>9. Filled(c, Line[w]) = f
    BY <2>1, <2>6 DEF new
  <2> QED
    BY <2>2, <2>4, <2>5, <2>7, <2>8, <2>9 DEF WholeCopy
<1> QED
  BY <1>4, <1>5

(* A copy stays good when more may be held and written.                    *)
LEMMA GoodCopyStays ==
  ASSUME NEW copy, NEW c, NEW l, NEW h, NEW d, NEW s,
         GoodCopy(copy, c, l, h, d, s),
         NEW H, NEW D, NEW S, h \subseteq H, d \subseteq D, S = "start" => s = "start"
  PROVE  GoodCopy(copy, c, l, H, D, S)
  BY DEF GoodCopy

(* A read keeps memory and caches as they should be.                       *)
LEMMA ReadMemory ==
  ASSUME NEW h, NEW d, NEW r, NEW s, Memory(h, d, r, s),
         NEW c \in Cores, NEW w \in Objects, ~Mixed(Line[w]) => Apart(c, w, d, s),
         mem' = mem, Line' = Line,
         cache' = [cache EXCEPT ![c][Line[w]] = Filled(c, Line[w])],
         NEW H, NEW D, \A b \in Cores : h[b] \subseteq H[b] /\ d[b] \subseteq D[b],
         w \in H[c], NEW R, R \subseteq r, c = 0 \/ R = {}
  PROVE  Memory(H, D, R, s)'
<1> DEFINE l == Line[w]
           f == Filled(c, l)
<1>1. f = Filled(c, Line[w])
  OBVIOUS
<1>2. l = Line[w]
  OBVIOUS
<1>3. /\ l \in Lines /\ cache \in [Cores -> [Lines -> Copies]]
      /\ f \in Copies
      /\ ~Mixed(l) =>
           /\ f \in [held : {TRUE}, dirty : BOOLEAN, current : SUBSET Objects]
           /\ f.dirty = cache[c][l].dirty
           /\ f.current \subseteq On(l)
           /\ On(l) \ {"frame"} \subseteq f.current
           /\ c = 0 \/ s = "start" \/ l # Line["frame"] => f.current = On(l)
  <2>1. l \in Lines /\ cache \in [Cores -> [Lines -> Copies]] /\ mem \subseteq Objects
    BY LinesOfObjects DEF Memory
  <2>2. ~Mixed(l) => WholeCopy(f, c, l, s)
    BY FillIsWhole
  <2>3. f \in Copies
    BY <2>1 DEF Filled, Copies
  <2> HIDE DEF f, l
  <2> QED
    BY <2>1, <2>2, <2>3 DEF WholeCopy
<1> HIDE DEF f, l
<1>4. ~Mixed(l) => f \in Copies /\ f.held = TRUE
  BY <1>3 DEF Copies
<1>5. cache' \in [Cores -> [Lines -> Copies]]
  BY <1>1, <1>2, <1>3
<1>6. \A b \in Cores, k \in Lines :
        cache'[b][k] = IF b = c /\ k = l THEN f ELSE cache[b][k]
  BY <1>1, <1>2, <1>3
<1>7. Lines' = Lines /\ \A k : On(k)' = On(k) /\ Mixed(k)' = Mixed(k)
  BY DEF Lines, On, Mixed
<1>8. ASSUME NEW b \in Cores, NEW k \in Lines, ~Mixed(k)
      PROVE  GoodCopy(cache[b][k], b, k, H[b], D[b], s)
  <2>1. GoodCopy(cache[b][k], b, k, h[b], d[b], s)
    BY <1>8 DEF Memory
  <2> QED
    BY <2>1, GoodCopyStays
<1>9. ASSUME ~Mixed(l) PROVE GoodCopy(f, c, l, H[c], D[c], s)
  <2>1. f.dirty => (\E v \in D[c] : Line[v] = l) /\ f.current = On(l)
    <3>1. GoodCopy(cache[c][l], c, l, H[c], D[c], s)
      BY <1>3, <1>8, <1>9
    <3>2. f.dirty => cache[c][l].held
      <4>1. PICK x : x = cache[c][l]
        OBVIOUS
      <4>2. ~x.held => x = Miss
        BY <3>1, <4>1 DEF GoodCopy
      <4>3. ~x.held => x.dirty = FALSE
        BY <4>2 DEF Miss
      <4> QED
        BY <1>3, <1>9, <4>1, <4>3
    <3>3. cache[c][l].held => f = cache[c][l]
      BY <1>1, <1>2 DEF Filled
    <3> QED
      BY <1>3, <1>9, <3>1, <3>2, <3>3 DEF GoodCopy
  <2> QED
    BY <1>2, <1>3, <1>4, <1>9, <2>1 DEF GoodCopy
<1>10. ASSUME NEW b \in Cores, NEW k \in Lines, ~Mixed(k)
       PROVE  GoodCopy(cache[b][k], b, k, H[b], D[b], s)'
  <2>1. PICK x : x = cache'[b][k]
    OBVIOUS
  <2>2. GoodCopy(x, b, k, H[b], D[b], s)
    BY <1>6, <1>8, <1>9, <1>10, <2>1
  <2> QED
    BY <1>7, <2>1, <2>2 DEF GoodCopy, Miss
<1>11. \A v \in Coherent' \ mem' : cache'[Owner(v)][Line'[v]].dirty
  <2>1. ASSUME NEW v \in Coherent \ mem
        PROVE  cache'[Owner(v)][Line[v]].dirty
    <3>1. Owner(v) \in Cores /\ Line[v] \in Lines /\ ~Mixed(Line[v])
      BY LinesOfObjects, CoherentIs DEF Owner, Cores, Memory, Coherent
    <3>2. cache[Owner(v)][Line[v]].dirty
      BY DEF Memory
    <3> QED
      BY <1>3, <1>6, <3>1, <3>2
  <2> QED
    BY <2>1 DEF Coherent, SharedCoefficients
<1>12. \A v \in R : v \in Objects /\ ~cache'[1][Line'[v]].held
  <2>1. ASSUME NEW v \in R PROVE v \in Objects /\ ~cache'[1][Line[v]].held
    <3>1. c = 0 /\ v \in Objects /\ ~cache[1][Line[v]].held
      BY DEF Memory
    <3>2. Line[v] \in Lines /\ 1 \in Cores
      BY <3>1, LinesOfObjects DEF Cores
    <3> QED
      BY <1>6, <3>1, <3>2
  <2> QED
    BY <2>1
<1> QED
  BY <1>5, <1>7, <1>10, <1>11, <1>12 DEF Memory, Copies

(* There is nothing in a miss that could become old.                       *)
LEMMA MissStays ==
  ASSUME NEW w, NEW x, x = Miss
  PROVE  [x EXCEPT !.current = @ \ {w}] = x
  BY DEF Miss

(* A write: the other core has nothing on the line that matters.           *)
Alone(c, w, holds, dirties, doing) ==
  /\ \A v \in dirties[1 - c] : v \in Objects /\ Line[v] # Line[w]
  /\ \A v \in holds[1 - c] :
       Line[v] = Line[w] => c = 0 /\ doing # "start" /\ w = "frame"
  /\ c = 0 \/ doing = "start" \/ Line[w] # Line["frame"]

(* A write that nothing stands against keeps memory and caches as they     *)
(* should be.                                                              *)
LEMMA StoreMemory ==
  ASSUME NEW h, NEW d, NEW r, NEW s, Memory(h, d, r, s),
         NEW c \in Cores, NEW w \in Objects,
         Owner(w) = c, ~Mixed(Line[w]) => Alone(c, w, h, d, s), Line' = Line, Store(c, w),
         NEW H, NEW D, \A b \in Cores : h[b] \subseteq H[b] /\ d[b] \subseteq D[b],
         w \in H[c], w \in D[c], NEW R, R \subseteq r, c = 0 \/ R = {}
  PROVE  Memory(H, D, R, s)'
<1> DEFINE l == Line[w]
           o == 1 - c
           f == Filled(c, l)
           g == [f EXCEPT !.dirty = TRUE, !.current = @ \cup {w}]
           x == cache[o][l]
           y == [x EXCEPT !.current = @ \ {w}]
           old == [b \in Cores |-> [cache[b] EXCEPT ![l].current = @ \ {w}]]
<1>1. /\ l \in Lines /\ cache \in [Cores -> [Lines -> Copies]] /\ l = Line[w]
      /\ o \in Cores /\ o # c /\ (\A b \in Cores : b = c \/ b = o)
      /\ w \in On(l) /\ On(l) \subseteq Objects
  BY LinesOfObjects DEF Memory, Cores
<1>2. ~Mixed(l) => WholeCopy(f, c, l, s)
  <2>1. ~Mixed(l) => Apart(c, w, d, s)
    BY DEF Alone, Apart
  <2> QED
    BY <2>1, FillIsWhole
<1>3. mem' = mem \ {w} /\ cache' = [old EXCEPT ![c][l] = g]
  BY DEF Store
<1>4. x \in Copies
  BY <1>1
<1>5. /\ \A b \in Cores : old[b] \in [Lines -> Copies]
      /\ old[o][l] = y
      /\ \A b \in Cores, k \in Lines : k # l => old[b][k] = cache[b][k]
      /\ old = [b \in Cores |-> old[b]]
  <2>1. ASSUME NEW b \in Cores PROVE old[b] \in [Lines -> Copies]
    <3>1. old[b] = [cache[b] EXCEPT ![l].current = @ \ {w}]
      OBVIOUS
    <3>2. cache[b] \in [Lines -> Copies]
      BY <1>1
    <3> HIDE DEF old, l
    <3>3. [cache[b][l] EXCEPT !.current = @ \ {w}] \in Copies
      BY <1>1, <3>2 DEF Copies
    <3> QED
      BY <1>1, <3>1, <3>2, <3>3
  <2>2. old[o] = [cache[o] EXCEPT ![l].current = @ \ {w}]
        /\ cache[o] \in [Lines -> Copies]
    BY <1>1
  <2>3. old[o][l] = y
    BY <1>1, <2>2
  <2>4. ASSUME NEW b \in Cores, NEW k \in Lines, k # l PROVE old[b][k] = cache[b][k]
    BY <1>1, <2>4
  <2> QED
    BY <2>1, <2>3, <2>4
<1>6. /\ f \in Copies
      /\ ~Mixed(l) => f.held = TRUE /\ f.current = On(l)
  <2>1. f \in Copies
    BY <1>1 DEF Filled, Copies, Memory
  <2> QED
    BY <1>1, <1>2, <2>1 DEF WholeCopy, Copies, Alone
<1> HIDE DEF f, l, o, x, old
<1>7. /\ g \in Copies
      /\ ~Mixed(l) => g.held = TRUE /\ g.dirty = TRUE /\ g.current = On(l)
  BY <1>1, <1>6 DEF Copies
<1>8. y \in Copies /\ y.held = x.held /\ y.dirty = x.dirty
      /\ y.current = x.current \ {w}
  BY <1>4 DEF Copies
<1> HIDE DEF g, y
<1>9. /\ cache' \in [Cores -> [Lines -> Copies]]
      /\ cache'[c][l] = g /\ cache'[o][l] = y
      /\ \A b \in Cores, k \in Lines : k # l => cache'[b][k] = cache[b][k]
  BY <1>1, <1>3, <1>5, <1>7
<1>10. Lines' = Lines /\ \A k : On(k)' = On(k) /\ Mixed(k)' = Mixed(k)
  BY DEF Lines, On, Mixed
<1>11. ASSUME NEW b \in Cores, NEW k \in Lines, ~Mixed(k)
       PROVE  GoodCopy(cache[b][k], b, k, H[b], D[b], s)
              /\ GoodCopy(cache[b][k], b, k, h[b], d[b], s)
  <2>1. GoodCopy(cache[b][k], b, k, h[b], d[b], s)
    BY <1>11 DEF Memory
  <2> QED
    BY <2>1, GoodCopyStays
<1>12. ~Mixed(l) => GoodCopy(g, c, l, H[c], D[c], s)
  BY <1>1, <1>7 DEF GoodCopy
<1>13. ~Mixed(l) => ~x.dirty
  <2>1. ASSUME ~Mixed(l) PROVE GoodCopy(x, o, l, h[o], d[o], s)
    BY <1>1, <1>11, <2>1 DEF x
  <2> QED
    BY <1>1, <2>1 DEF GoodCopy, Alone, o
<1>14. ASSUME ~Mixed(l) PROVE GoodCopy(y, o, l, H[o], D[o], s)
  <2>1. GoodCopy(x, o, l, h[o], d[o], s) /\ GoodCopy(x, o, l, H[o], D[o], s)
    BY <1>1, <1>11, <1>14 DEF x
  <2>2. CASE ~x.held
    <3>1. x = Miss
      BY <2>1, <2>2 DEF GoodCopy
    <3>2. y = Miss
      BY <3>1, MissStays DEF y
    <3> QED
      BY <3>2 DEF GoodCopy, Miss
  <2>3. CASE x.held
    <3>1. PICK v \in h[o] : Line[v] = l
      BY <2>1, <2>3 DEF GoodCopy
    <3>2. c = 0 /\ s # "start" /\ w = "frame"
      BY <1>1, <1>14, <3>1 DEF Alone, o
    <3>3. o = 1
      BY <3>2 DEF o
    <3> QED
      BY <1>8, <1>13, <1>14, <2>1, <2>3, <3>2, <3>3 DEF GoodCopy
  <2> QED
    BY <2>2, <2>3
<1>15. ASSUME NEW b \in Cores, NEW k \in Lines, ~Mixed(k)
       PROVE  GoodCopy(cache[b][k], b, k, H[b], D[b], s)'
  <2>1. PICK z : z = cache'[b][k]
    OBVIOUS
  <2>2. GoodCopy(z, b, k, H[b], D[b], s)
    BY <1>1, <1>9, <1>11, <1>12, <1>14, <1>15, <2>1
  <2> QED
    BY <1>10, <2>1, <2>2 DEF GoodCopy, Miss
<1>16. \A v \in Coherent' \ mem' : cache'[Owner(v)][Line'[v]].dirty
  <2>1. ASSUME NEW v \in Coherent, v \notin mem
        PROVE  cache'[Owner(v)][Line[v]].dirty
    <3>1. Owner(v) \in Cores /\ Line[v] \in Lines /\ ~Mixed(Line[v])
      BY LinesOfObjects, CoherentIs DEF Owner, Cores, Memory, Coherent
    <3>2. cache[Owner(v)][Line[v]].dirty
      BY <2>1 DEF Memory
    <3>3. CASE Line[v] = l
      <4>1. Owner(v) = c
        BY <1>1, <1>13, <3>1, <3>2, <3>3 DEF x
      <4> QED
        BY <1>7, <1>9, <3>1, <3>3, <4>1
    <3> QED
      BY <1>9, <3>1, <3>2, <3>3
  <2>2. w \in Coherent => cache'[Owner(w)][Line[w]].dirty
    BY <1>1, <1>7, <1>9, CoherentIs DEF Memory
  <2> QED
    BY <1>3, <2>1, <2>2 DEF Coherent, SharedCoefficients
<1>17. mem' \subseteq Objects
  BY <1>3 DEF Memory
<1>18. \A v \in R : v \in Objects /\ ~cache'[1][Line'[v]].held
  <2>1. ASSUME NEW v \in R PROVE v \in Objects /\ ~cache'[1][Line[v]].held
    <3>1. c = 0 /\ v \in Objects /\ ~cache[1][Line[v]].held
      BY DEF Memory
    <3>2. Line[v] \in Lines /\ 1 \in Cores /\ o = 1
      BY <3>1, LinesOfObjects DEF Cores, o
    <3> QED
      BY <1>8, <1>9, <3>1, <3>2 DEF x
  <2> QED
    BY <2>1
<1> QED
  BY <1>9, <1>10, <1>15, <1>16, <1>17, <1>18 DEF Memory, Copies

(* Lines are dropped, whose dirty copies memory has got.                   *)
LEMMA DropMemory ==
  ASSUME NEW h, NEW d, NEW r, NEW s, Memory(h, d, r, s), NEW c \in Cores, NEW ls,
         Line' = Line, Drop(c, ls), mem \cap Coherent \subseteq mem',
         mem' \subseteq Objects,
         \A v \in Coherent \ mem' : Owner(v) = c => Line[v] \notin ls,
         NEW H, NEW D,
         \A b \in Cores : b # c => h[b] \subseteq H[b] /\ d[b] \subseteq D[b],
         \A v \in h[c] : Line[v] \in ls \/ v \in H[c],
         \A v \in d[c] : Line[v] \in ls \/ v \in D[c],
         NEW R, R \subseteq Objects, \A v \in R : v \in r \/ (c = 1 /\ Line[v] \in ls)
  PROVE  Memory(H, D, R, s)'
<1>1. /\ cache \in [Cores -> [Lines -> Copies]]
      /\ Miss \in Copies /\ ~Miss.held /\ ~Miss.dirty
  BY DEF Memory, Copies, Miss
<1> DEFINE row == [l \in Lines |-> IF l \in ls THEN Miss ELSE cache[c][l]]
<1>2. row \in [Lines -> Copies]
  BY <1>1
<1>3. cache' = [cache EXCEPT ![c] = row]
  BY DEF Drop
<1>4. \A l \in Lines : row[l] = IF l \in ls THEN Miss ELSE cache[c][l]
  OBVIOUS
<1> HIDE DEF row
<1>5. /\ cache' \in [Cores -> [Lines -> Copies]]
      /\ \A b \in Cores, k \in Lines :
           cache'[b][k] = IF b = c /\ k \in ls THEN Miss ELSE cache[b][k]
  BY <1>1, <1>2, <1>3, <1>4
<1>6. Lines' = Lines /\ \A k : On(k)' = On(k) /\ Mixed(k)' = Mixed(k)
  BY DEF Lines, On, Mixed
<1>7. ASSUME NEW b \in Cores, NEW k \in Lines, ~Mixed(k)
      PROVE  GoodCopy(cache[b][k], b, k, H[b], D[b], s)'
  <2>1. PICK z : z = cache'[b][k]
    OBVIOUS
  <2>2. GoodCopy(cache[b][k], b, k, h[b], d[b], s)
    BY <1>7 DEF Memory
  <2>3. GoodCopy(z, b, k, H[b], D[b], s)
    <3>1. CASE b # c
      BY <1>5, <2>1, <2>2, <3>1, GoodCopyStays
    <3>2. CASE b = c /\ k \in ls
      BY <1>1, <1>5, <2>1, <3>2 DEF GoodCopy
    <3>3. CASE b = c /\ k \notin ls
      <4>1. z = cache[b][k]
        BY <1>5, <2>1, <3>3
      <4> QED
        BY <2>2, <3>3, <4>1 DEF GoodCopy
    <3> QED
      BY <3>1, <3>2, <3>3
  <2> QED
    BY <1>6, <2>1, <2>3 DEF GoodCopy, Miss
<1>8. ASSUME NEW v \in Coherent, v \notin mem'
      PROVE  cache'[Owner(v)][Line[v]].dirty
  <2>1. Owner(v) \in Cores /\ Line[v] \in Lines
    BY LinesOfObjects DEF Owner, Cores, Coherent
  <2>2. cache[Owner(v)][Line[v]].dirty
    BY <1>8 DEF Memory
  <2> QED
    BY <1>5, <1>8, <2>1, <2>2
<1>9. ASSUME NEW v \in R PROVE v \in Objects /\ ~cache'[1][Line[v]].held
  <2>1. v \in Objects /\ Line[v] \in Lines /\ 1 \in Cores
    BY LinesOfObjects DEF Cores
  <2>2. v \in r => ~cache[1][Line[v]].held
    BY DEF Memory
  <2> QED
    BY <1>1, <1>5, <2>1, <2>2
<1>10. Coherent' = Coherent
  BY DEF Coherent, SharedCoefficients
<1> QED
  BY <1>5, <1>6, <1>7, <1>8, <1>9, <1>10 DEF Memory, Copies

(* A write-back loses nothing, since dirty copies are whole.               *)
LEMMA WriteBackKeeps ==
  ASSUME NEW h, NEW d, NEW r, NEW s, Memory(h, d, r, s), NEW c \in Cores,
         NEW ls, ls \subseteq Lines, WriteBack(c, ls)
  PROVE  /\ mem \cap Coherent \subseteq mem' /\ mem' \subseteq Objects
         /\ \A v \in Coherent \ mem' : Owner(v) = c => Line[v] \notin ls
<1> DEFINE dirty == {l \in ls : cache[c][l].dirty}
<1>1. mem' = (mem \ UNION {On(l) : l \in dirty})
      \cup UNION {cache[c][l].current : l \in dirty}
  BY DEF WriteBack
<1>2. \A l \in dirty : Mixed(l) \/ cache[c][l].current = On(l)
  BY DEF Memory, GoodCopy
<1>3. mem \subseteq Objects /\ \A l \in dirty : cache[c][l].current \subseteq Objects
  BY DEF Memory, Copies
<1>4. ASSUME NEW v \in Coherent, NEW l \in dirty, v \in On(l)
      PROVE  v \in mem'
  <2>1. v \in Objects /\ Line[v] = l
    BY <1>4 DEF On
  <2>2. ~Mixed(l)
    BY <2>1, CoherentIs DEF Memory
  <2>3. v \in cache[c][l].current
    BY <1>2, <1>4, <2>2
  <2> HIDE DEF dirty
  <2> QED
    BY <1>1, <2>3
<1>5. ASSUME NEW v \in Coherent, v \notin mem', Owner(v) = c, Line[v] \in ls
      PROVE  FALSE
  <2>1. v \in Objects /\ v \in On(Line[v])
    BY DEF On, Coherent
  <2>2. Line[v] \notin dirty
    BY <1>4, <1>5, <2>1
  <2>3. v \notin mem
    <3> HIDE DEF dirty
    <3>1. \A l \in dirty : v \notin On(l)
      BY <1>4, <1>5
    <3> QED
      BY <1>1, <1>5, <3>1
  <2>4. cache[c][Line[v]].dirty
    BY <1>5, <2>3 DEF Memory
  <2> QED
    BY <1>5, <2>2, <2>4
<1>6. mem \cap Coherent \subseteq mem'
  <2> HIDE DEF dirty
  <2> QED
    BY <1>1, <1>4
<1>7. mem' \subseteq Objects
  <2> HIDE DEF dirty
  <2> QED
    BY <1>1, <1>3
<1> QED
  BY <1>5, <1>6, <1>7

(* Flushes and evictions.                                                  *)
LEMMA FlushMemory ==
  ASSUME NEW h, NEW d, NEW r, NEW s, Memory(h, d, r, s), NEW c \in Cores,
         NEW ls, ls \subseteq Lines, Line' = Line, WriteBack(c, ls), Drop(c, ls),
         NEW H, NEW D,
         \A b \in Cores : b # c => h[b] \subseteq H[b] /\ d[b] \subseteq D[b],
         \A v \in h[c] : Line[v] \in ls \/ v \in H[c],
         \A v \in d[c] : Line[v] \in ls \/ v \in D[c],
         NEW R, R \subseteq Objects, \A v \in R : v \in r \/ (c = 1 /\ Line[v] \in ls)
  PROVE  Memory(H, D, R, s)'
<1>1. /\ mem \cap Coherent \subseteq mem' /\ mem' \subseteq Objects
      /\ \A v \in Coherent \ mem' : Owner(v) = c => Line[v] \notin ls
  BY WriteBackKeeps
<1> QED
  BY <1>1, DropMemory

(* A drop without write-back, of what has not been written.                *)
LEMMA NoWriteBackMemory ==
  ASSUME NEW h, NEW d, NEW r, NEW s, Memory(h, d, r, s), NEW c \in Cores,
         NEW ls, Line' = Line, mem' = mem, Drop(c, ls),
         \A v \in d[c] : Line[v] \notin ls,
         NEW H, NEW D, \A b \in Cores : h[b] \subseteq H[b] /\ d[b] \subseteq D[b]
  PROVE  Memory(H, D, r, s)'
<1>1. ASSUME NEW v \in Coherent \ mem', Owner(v) = c PROVE Line[v] \notin ls
  <2>1. cache[c][Line[v]].dirty /\ Line[v] \in Lines /\ ~Mixed(Line[v])
    BY <1>1, LinesOfObjects, CoherentIs DEF Memory, Coherent
  <2>2. PICK u \in d[c] : Line[u] = Line[v]
    BY <2>1 DEF Memory, GoodCopy
  <2> QED
    BY <2>2
<1>2. mem \cap Coherent \subseteq mem' /\ mem' \subseteq Objects /\ r \subseteq Objects
  BY DEF Memory
<1> QED
  BY <1>1, <1>2, DropMemory

(* A transfer to memory, past the caches, that have nothing of it.         *)
LEMMA TransferMemory ==
  ASSUME NEW h, NEW d, NEW r, NEW s, Memory(h, d, r, s), NEW w \in Objects,
         ~Mixed(Line[w]), w \in r,
         Line' = Line, mem' = mem \cup {w},
         cache' = [b \in Cores |-> [cache[b] EXCEPT ![Line[w]].current = @ \ {w}]],
         \A v \in h[0] : Line[v] # Line[w],
         NEW H, NEW D, \A b \in Cores : h[b] \subseteq H[b] /\ d[b] \subseteq D[b]
  PROVE  Memory(H, D, {}, s)'
<1>1. cache \in [Cores -> [Lines -> Copies]] /\ Line[w] \in Lines
      /\ \A b \in Cores : b = 0 \/ b = 1
  BY LinesOfObjects DEF Memory, Cores
<1>2. ASSUME NEW b \in Cores
      PROVE  [cache[b] EXCEPT ![Line[w]].current = @ \ {w}] = cache[b]
  <2>0. GoodCopy(cache[b][Line[w]], b, Line[w], h[b], d[b], s)
    BY <1>1 DEF Memory
  <2>1. ~cache[b][Line[w]].held
    <3>1. CASE b = 0
      BY <2>0, <3>1 DEF GoodCopy
    <3>2. CASE b = 1
      BY <3>2 DEF Memory
    <3> QED
      BY <1>1, <3>1, <3>2
  <2>2. cache[b][Line[w]] = Miss
    BY <2>0, <2>1 DEF GoodCopy
  <2>3. [cache[b][Line[w]] EXCEPT !.current = @ \ {w}] = cache[b][Line[w]]
    BY <2>2, MissStays
  <2>4. cache[b] \in [Lines -> Copies]
    BY <1>1
  <2> QED
    BY <2>3, <2>4
<1>3. cache' = cache
  BY <1>1, <1>2
<1>4. /\ Lines' = Lines /\ \A k : On(k)' = On(k) /\ Mixed(k)' = Mixed(k)
      /\ Coherent' = Coherent
  BY DEF Lines, On, Mixed, Coherent, SharedCoefficients
<1>5. ASSUME NEW b \in Cores, NEW k \in Lines, ~Mixed(k)
      PROVE  GoodCopy(cache[b][k], b, k, H[b], D[b], s)'
  <2>1. GoodCopy(cache[b][k], b, k, h[b], d[b], s)
    BY <1>5 DEF Memory
  <2>2. GoodCopy(cache[b][k], b, k, H[b], D[b], s)
    BY <2>1, GoodCopyStays
  <2> QED
    BY <1>3, <1>4, <2>2 DEF GoodCopy, Miss
<1>6. mem' \subseteq Objects /\ \A v \in Coherent \ mem' : cache[Owner(v)][Line[v]].dirty
  BY DEF Memory
<1> QED
  BY <1>1, <1>3, <1>4, <1>5, <1>6 DEF Memory, Copies

(* Nothing moves.  With nothing in its cache, core 1 may begin a video: it *)
(* has no old frame counters.                                              *)
LEMMA SameMemory ==
  ASSUME NEW h, NEW d, NEW r, NEW s, Memory(h, d, r, s), UNCHANGED <<Line, mem, cache>>,
         NEW H, NEW D, NEW R, R \subseteq r,
         NEW S, S = "start" => s = "start" \/ h[1] = {},
         \A b \in Cores : h[b] \subseteq H[b] /\ d[b] \subseteq D[b]
  PROVE  Memory(H, D, R, S)'
<1>1. /\ Lines' = Lines /\ \A k : On(k)' = On(k) /\ Mixed(k)' = Mixed(k)
      /\ Coherent' = Coherent
  BY DEF Lines, On, Mixed, Coherent, SharedCoefficients
<1>2. ASSUME NEW b \in Cores, NEW k \in Lines, ~Mixed(k)
      PROVE  GoodCopy(cache[b][k], b, k, H[b], D[b], S)'
  <2>1. GoodCopy(cache[b][k], b, k, h[b], d[b], s)
    BY <1>2 DEF Memory
  <2>2. b = 0 \/ b = 1
    BY DEF Cores
  <2>3. GoodCopy(cache[b][k], b, k, H[b], D[b], S)
    BY <2>1, <2>2 DEF GoodCopy
  <2> QED
    BY <1>1, <2>3 DEF GoodCopy, Miss
<1> QED
  BY <1>1, <1>2 DEF Memory, Copies

(* The steps of the two programs.                                          *)
Steps ==
  {Read(w) : w \in Objects} \cup {Write(w) : w \in Objects}
  \cup {Flush(w) : w \in Objects \cup {Everything}}
  \cup {Post(m) : m \in Messages} \cup {Recv(m) : m \in Messages}
  \cup {Wait({"yDCAC"}), Wait({"yDCAC", "cDCAC"}), Step("transfer", "direct"),
        Step("transfer", "moreRows"), Step("drop", "direct"),
        Step("start", "yDCAC"), Step("start", "cDCAC"),
        TimerOn, TimerOff, NextRound}

(* All that the programs do are steps.                                     *)
LEMMA StepsAre ==
  /\ \A w \in Objects : Read(w) \in Steps /\ Write(w) \in Steps /\ Flush(w) \in Steps
  /\ \A m \in Messages : Post(m) \in Steps /\ Recv(m) \in Steps
  /\ Flush(Everything) \in Steps /\ Wait({"yDCAC"}) \in Steps
  /\ Wait({"yDCAC", "cDCAC"}) \in Steps
  /\ Step("transfer", "direct") \in Steps /\ Step("transfer", "moreRows") \in Steps
  /\ Step("drop", "direct") \in Steps
  /\ Step("start", "yDCAC") \in Steps /\ Step("start", "cDCAC") \in Steps
  /\ TimerOn \in Steps /\ TimerOff \in Steps
  /\ NextRound \in Steps
  BY DEF Steps

Joined(u, s, t) ==
  /\ u \in Seq(Steps) /\ Len(u) = Len(s) + Len(t)
  /\ \A k \in 1 .. Len(s) + Len(t) : u[k] = IF k <= Len(s) THEN s[k] ELSE t[k - Len(s)]

(* Two sequences in a row.                                                 *)
LEMMA Join ==
  ASSUME NEW s \in Seq(Steps), NEW t \in Seq(Steps)
  PROVE  Joined(s \o t, s, t)
  BY ConcatProperties DEF Joined

(* Each message is posted after a flush of the whole cache.                *)
LEMMA SendIs ==
  ASSUME NEW m \in Messages
  PROVE  /\ send(m) \in Seq(Steps) /\ Len(send(m)) = 2
         /\ send(m)[1] = Flush(Everything) /\ send(m)[2] = Post(m)
<1>1. Flush(Everything) \in Steps /\ Post(m) \in Steps
  BY StepsAre
<1> QED
  BY <1>1 DEF send

(* What core 1 does to read a frame.                                       *)
LEMMA ReadFrameIs ==
  /\ ReadFrame \in Seq(Steps) /\ Len(ReadFrame) = 8
  /\ ReadFrame[1] = Write("copied") /\ ReadFrame[2] = Flush("direct")
  /\ ReadFrame[3] = Step("transfer", "direct")
  /\ ReadFrame[4] = Write("copied") /\ ReadFrame[5] = Flush("copied")
  /\ ReadFrame[6] = Flush("direct") /\ ReadFrame[7] = Flush(Everything)
  /\ ReadFrame[8] = Post("DONE_READ_NEXT_FRAME")
<1> DEFINE s1 == readFrameData
           s2 == <<Flush("copied"), Flush("direct")>>
           s3 == send("DONE_READ_NEXT_FRAME")
<1>1. /\ s1 \in Seq(Steps) /\ Len(s1) = 4
      /\ s1[1] = Write("copied") /\ s1[2] = Flush("direct")
      /\ s1[3] = Step("transfer", "direct") /\ s1[4] = Write("copied")
  BY StepsAre DEF readFrameData, Objects
<1>2. /\ s2 \in Seq(Steps) /\ Len(s2) = 2
      /\ s2[1] = Flush("copied") /\ s2[2] = Flush("direct")
  BY StepsAre DEF Objects, Messages
<1>3. /\ s3 \in Seq(Steps) /\ Len(s3) = 2
      /\ s3[1] = Flush(Everything) /\ s3[2] = Post("DONE_READ_NEXT_FRAME")
  BY SendIs DEF Messages
<1>4. ReadFrame = s1 \o s2 \o s3
  BY DEF ReadFrame
<1> HIDE DEF s1, s2, s3
<1>5. /\ s1 \in Seq(Steps) /\ Len(s1) = 4
      /\ s2 \in Seq(Steps) /\ Len(s2) = 2
      /\ s3 \in Seq(Steps) /\ Len(s3) = 2
  BY <1>1, <1>2, <1>3
<1>6. s1 \in Seq(Steps) /\ s2 \in Seq(Steps) /\ s3 \in Seq(Steps)
  BY <1>5
<1>7. PICK t2 : t2 = s1 \o s2
  OBVIOUS
<1>8. ReadFrame = t2 \o s3
  BY <1>4, <1>7
<1>9. Joined(t2, s1, s2)
  BY <1>6, <1>7, Join
<1>10. Joined(ReadFrame, t2, s3)
  BY <1>6, <1>8, <1>9, Join DEF Joined
<1>11. /\ t2 \in Seq(Steps) /\ Len(t2) = 6
      /\ \A k \in 1 .. 6 : t2[k] = IF k <= 4 THEN s1[k] ELSE s2[k - 4]
  BY <1>5, <1>9 DEF Joined
<1>12. /\ ReadFrame \in Seq(Steps) /\ Len(ReadFrame) = 8
      /\ \A k \in 1 .. 8 : ReadFrame[k] = IF k <= 6 THEN t2[k] ELSE s3[k - 6]
  BY <1>5, <1>11, <1>10 DEF Joined
<1> QED
  BY <1>1, <1>2, <1>3, <1>11, <1>12

(* What core 1 does to decode the luma of a frame.                         *)
LEMMA LdLumaIs ==
  /\ LdLuma \in Seq(Steps) /\ Len(LdLuma) = 8
  /\ LdLuma[1] = Read("header") /\ LdLuma[2] = Read("copied")
  /\ LdLuma[3] = Read("direct") /\ LdLuma[4] = Read("yDCAC")
  /\ LdLuma[5] = Write("yDCAC") /\ LdLuma[6] = Flush("yDCAC")
  /\ LdLuma[7] = Flush(Everything) /\ LdLuma[8] = Post("DONE_LD_Y")
<1> DEFINE s1 == <<Read("header"), Read("copied"), Read("direct"), Read("yDCAC"),
                        Write("yDCAC"), Flush("yDCAC")>>
           s2 == send("DONE_LD_Y")
<1>1. /\ s1 \in Seq(Steps) /\ Len(s1) = 6
      /\ s1[1] = Read("header") /\ s1[2] = Read("copied")
      /\ s1[3] = Read("direct") /\ s1[4] = Read("yDCAC")
      /\ s1[5] = Write("yDCAC") /\ s1[6] = Flush("yDCAC")
  BY StepsAre DEF Objects, Messages
<1>2. /\ s2 \in Seq(Steps) /\ Len(s2) = 2
      /\ s2[1] = Flush(Everything) /\ s2[2] = Post("DONE_LD_Y")
  BY SendIs DEF Messages
<1>3. LdLuma = s1 \o s2
  BY DEF LdLuma
<1> HIDE DEF s1, s2
<1>4. /\ s1 \in Seq(Steps) /\ Len(s1) = 6
      /\ s2 \in Seq(Steps) /\ Len(s2) = 2
  BY <1>1, <1>2
<1>5. s1 \in Seq(Steps) /\ s2 \in Seq(Steps)
  BY <1>4
<1>6. Joined(LdLuma, s1, s2)
  BY <1>5, <1>3, Join
<1>7. /\ LdLuma \in Seq(Steps) /\ Len(LdLuma) = 8
      /\ \A k \in 1 .. 8 : LdLuma[k] = IF k <= 6 THEN s1[k] ELSE s2[k - 6]
  BY <1>4, <1>6 DEF Joined
<1> QED
  BY <1>1, <1>2, <1>7

(* What core 1 does for READ_NEXT_FILE, the longest of its handlers.       *)
LEMMA JobIs ==
  /\ Job \in Seq(Steps) /\ Len(Job) = 23
  /\ Job[1] = Write("header") /\ Job[2] = Read("header")
  /\ Job[3] = Write("header") /\ Job[4] = Write("rows")
  /\ Job[5] = Flush("moreRows") /\ Job[6] = Step("transfer", "moreRows")
  /\ Job[7] = Write("rows") /\ Job[8] = Write("copied")
  /\ Job[9] = Flush("direct") /\ Job[10] = Step("transfer", "direct")
  /\ Job[11] = Write("copied") /\ Job[12] = Flush("copied")
  /\ Job[13] = Flush("direct") /\ Job[14] = Flush(Everything)
  /\ Job[15] = Post("DONE_READ_NEXT_FRAME") /\ Job[16] = Read("header")
  /\ Job[17] = Read("copied") /\ Job[18] = Read("direct")
  /\ Job[19] = Read("yDCAC") /\ Job[20] = Write("yDCAC")
  /\ Job[21] = Flush("yDCAC") /\ Job[22] = Flush(Everything)
  /\ Job[23] = Post("DONE_LD_Y")
<1> DEFINE s1 == loadVideoSlave
           s2 == ReadFrame
           s3 == LdLuma
<1>1. /\ s1 \in Seq(Steps) /\ Len(s1) = 7
      /\ s1[1] = Write("header") /\ s1[2] = Read("header")
      /\ s1[3] = Write("header") /\ s1[4] = Write("rows")
      /\ s1[5] = Flush("moreRows") /\ s1[6] = Step("transfer", "moreRows")
      /\ s1[7] = Write("rows")
  BY StepsAre DEF loadVideoSlave, Objects
<1>2. /\ s2 \in Seq(Steps) /\ Len(s2) = 8
      /\ s2[1] = Write("copied") /\ s2[2] = Flush("direct")
      /\ s2[3] = Step("transfer", "direct") /\ s2[4] = Write("copied")
      /\ s2[5] = Flush("copied") /\ s2[6] = Flush("direct")
      /\ s2[7] = Flush(Everything) /\ s2[8] = Post("DONE_READ_NEXT_FRAME")
  BY ReadFrameIs
<1>3. /\ s3 \in Seq(Steps) /\ Len(s3) = 8
      /\ s3[1] = Read("header") /\ s3[2] = Read("copied")
      /\ s3[3] = Read("direct") /\ s3[4] = Read("yDCAC")
      /\ s3[5] = Write("yDCAC") /\ s3[6] = Flush("yDCAC")
      /\ s3[7] = Flush(Everything) /\ s3[8] = Post("DONE_LD_Y")
  BY LdLumaIs
<1>4. Job = s1 \o s2 \o s3
  BY DEF Job, Handler
<1> HIDE DEF s1, s2, s3
<1>5. /\ s1 \in Seq(Steps) /\ Len(s1) = 7
      /\ s2 \in Seq(Steps) /\ Len(s2) = 8
      /\ s3 \in Seq(Steps) /\ Len(s3) = 8
  BY <1>1, <1>2, <1>3
<1>6. s1 \in Seq(Steps) /\ s2 \in Seq(Steps) /\ s3 \in Seq(Steps)
  BY <1>5
<1>7. PICK t2 : t2 = s1 \o s2
  OBVIOUS
<1>8. Job = t2 \o s3
  BY <1>4, <1>7
<1>9. Joined(t2, s1, s2)
  BY <1>6, <1>7, Join
<1>10. Joined(Job, t2, s3)
  BY <1>6, <1>8, <1>9, Join DEF Joined
<1>11. /\ t2 \in Seq(Steps) /\ Len(t2) = 15
      /\ \A k \in 1 .. 15 : t2[k] = IF k <= 7 THEN s1[k] ELSE s2[k - 7]
  BY <1>5, <1>9 DEF Joined
<1>12. /\ Job \in Seq(Steps) /\ Len(Job) = 23
      /\ \A k \in 1 .. 23 : Job[k] = IF k <= 15 THEN t2[k] ELSE s3[k - 15]
  BY <1>5, <1>11, <1>10 DEF Joined
<1> QED
  BY <1>1, <1>2, <1>3, <1>11, <1>12

(* What core 0 does with a frame after which it asks for no other.         *)
LEMMA LastProcessIs ==
  /\ ProcessLast \in Seq(Steps) /\ Len(ProcessLast) = 13
  /\ ProcessLast[1] = Recv("DONE_READ_NEXT_FRAME")
  /\ ProcessLast[2] = Step("drop", "direct") /\ ProcessLast[3] = Read("copied")
  /\ ProcessLast[4] = Read("direct") /\ ProcessLast[5] = Read("cDCAC")
  /\ ProcessLast[6] = Write("cDCAC") /\ ProcessLast[7] = Flush("cDCAC")
  /\ ProcessLast[8] = Step("start", "cDCAC")
  /\ ProcessLast[9] = Recv("DONE_LD_Y")
  /\ ProcessLast[10] = Step("start", "yDCAC")
  /\ ProcessLast[11] = Wait({"yDCAC", "cDCAC"})
  /\ ProcessLast[12] = Read("frame") /\ ProcessLast[13] = Write("frame")
<1> DEFINE s1 == <<Recv("DONE_READ_NEXT_FRAME")>>
           s2 == ld_idct_cr_cb
           s3 == <<>>
           s4 == <<Recv("DONE_LD_Y"), Step("start", "yDCAC")>>
           s5 == <<>>
           s6 == <<Wait({"yDCAC", "cDCAC"}), Read("frame"), Write("frame")>>
<1>1. /\ s1 \in Seq(Steps) /\ Len(s1) = 1
      /\ s1[1] = Recv("DONE_READ_NEXT_FRAME")
  BY StepsAre DEF Objects, Messages
<1>2. /\ s2 \in Seq(Steps) /\ Len(s2) = 7
      /\ s2[1] = Step("drop", "direct") /\ s2[2] = Read("copied")
      /\ s2[3] = Read("direct") /\ s2[4] = Read("cDCAC")
      /\ s2[5] = Write("cDCAC") /\ s2[6] = Flush("cDCAC")
      /\ s2[7] = Step("start", "cDCAC")
  BY StepsAre DEF ld_idct_cr_cb, Objects
<1>3. /\ s3 \in Seq(Steps) /\ Len(s3) = 0
  BY StepsAre
<1>4. /\ s4 \in Seq(Steps) /\ Len(s4) = 2
      /\ s4[1] = Recv("DONE_LD_Y") /\ s4[2] = Step("start", "yDCAC")
  BY StepsAre DEF Objects, Messages
<1>5. /\ s5 \in Seq(Steps) /\ Len(s5) = 0
  BY StepsAre
<1>6. /\ s6 \in Seq(Steps) /\ Len(s6) = 3
      /\ s6[1] = Wait({"yDCAC", "cDCAC"}) /\ s6[2] = Read("frame")
      /\ s6[3] = Write("frame")
  BY StepsAre DEF Objects, Messages
<1>7. ProcessLast = s1 \o s2 \o s3 \o s4 \o s5 \o s6
  BY DEF ProcessLast, process
<1> HIDE DEF s1, s2, s3, s4, s5, s6
<1>8. /\ s1 \in Seq(Steps) /\ Len(s1) = 1
      /\ s2 \in Seq(Steps) /\ Len(s2) = 7
      /\ s3 \in Seq(Steps) /\ Len(s3) = 0
      /\ s4 \in Seq(Steps) /\ Len(s4) = 2
      /\ s5 \in Seq(Steps) /\ Len(s5) = 0
      /\ s6 \in Seq(Steps) /\ Len(s6) = 3
  BY <1>1, <1>2, <1>3, <1>4, <1>5, <1>6
<1>9. s1 \in Seq(Steps) /\ s2 \in Seq(Steps) /\ s3 \in Seq(Steps)
      /\ s4 \in Seq(Steps) /\ s5 \in Seq(Steps) /\ s6 \in Seq(Steps)
  BY <1>8
<1>10. PICK t2 : t2 = s1 \o s2
  OBVIOUS
<1>11. PICK t3 : t3 = t2 \o s3
  OBVIOUS
<1>12. PICK t4 : t4 = t3 \o s4
  OBVIOUS
<1>13. PICK t5 : t5 = t4 \o s5
  OBVIOUS
<1>14. ProcessLast = t5 \o s6
  BY <1>7, <1>10, <1>11, <1>12, <1>13
<1>15. Joined(t2, s1, s2)
  BY <1>9, <1>10, Join
<1>16. Joined(t3, t2, s3)
  BY <1>9, <1>11, <1>15, Join DEF Joined
<1>17. Joined(t4, t3, s4)
  BY <1>9, <1>12, <1>16, Join DEF Joined
<1>18. Joined(t5, t4, s5)
  BY <1>9, <1>13, <1>17, Join DEF Joined
<1>19. Joined(ProcessLast, t5, s6)
  BY <1>9, <1>14, <1>18, Join DEF Joined
<1>20. /\ t2 \in Seq(Steps) /\ Len(t2) = 8
      /\ \A k \in 1 .. 8 : t2[k] = IF k <= 1 THEN s1[k] ELSE s2[k - 1]
  BY <1>8, <1>15 DEF Joined
<1>21. /\ t3 \in Seq(Steps) /\ Len(t3) = 8
      /\ \A k \in 1 .. 8 : t3[k] = IF k <= 8 THEN t2[k] ELSE s3[k - 8]
  BY <1>8, <1>20, <1>16 DEF Joined
<1>22. /\ t4 \in Seq(Steps) /\ Len(t4) = 10
      /\ \A k \in 1 .. 10 : t4[k] = IF k <= 8 THEN t3[k] ELSE s4[k - 8]
  BY <1>8, <1>21, <1>17 DEF Joined
<1>23. /\ t5 \in Seq(Steps) /\ Len(t5) = 10
      /\ \A k \in 1 .. 10 : t5[k] = IF k <= 10 THEN t4[k] ELSE s5[k - 10]
  BY <1>8, <1>22, <1>18 DEF Joined
<1>24. /\ ProcessLast \in Seq(Steps) /\ Len(ProcessLast) = 13
      /\ \A k \in 1 .. 13 : ProcessLast[k] = IF k <= 10 THEN t5[k] ELSE s6[k - 10]
  BY <1>8, <1>23, <1>19 DEF Joined
<1> QED
  BY <1>1, <1>2, <1>4, <1>6, <1>20, <1>21, <1>22, <1>23, <1>24

(* Core 0 asks for the next luma when yDCAC is free.                       *)
LEMMA WaitAndSendIs ==
  /\ WaitAndSend \in Seq(Steps) /\ Len(WaitAndSend) = 3
  /\ WaitAndSend[1] = Wait({"yDCAC"}) /\ WaitAndSend[2] = Flush(Everything)
  /\ WaitAndSend[3] = Post("OK_TO_LD_Y")
<1> DEFINE s1 == <<Wait({"yDCAC"})>>
           s2 == send("OK_TO_LD_Y")
<1>1. /\ s1 \in Seq(Steps) /\ Len(s1) = 1
      /\ s1[1] = Wait({"yDCAC"})
  BY StepsAre DEF Objects, Messages
<1>2. /\ s2 \in Seq(Steps) /\ Len(s2) = 2
      /\ s2[1] = Flush(Everything) /\ s2[2] = Post("OK_TO_LD_Y")
  BY SendIs DEF Messages
<1>3. WaitAndSend = s1 \o s2
  BY DEF WaitAndSend
<1> HIDE DEF s1, s2
<1>4. /\ s1 \in Seq(Steps) /\ Len(s1) = 1
      /\ s2 \in Seq(Steps) /\ Len(s2) = 2
  BY <1>1, <1>2
<1>5. s1 \in Seq(Steps) /\ s2 \in Seq(Steps)
  BY <1>4
<1>6. Joined(WaitAndSend, s1, s2)
  BY <1>5, <1>3, Join
<1>7. /\ WaitAndSend \in Seq(Steps) /\ Len(WaitAndSend) = 3
      /\ \A k \in 1 .. 3 : WaitAndSend[k] = IF k <= 1 THEN s1[k] ELSE s2[k - 1]
  BY <1>4, <1>6 DEF Joined
<1> QED
  BY <1>1, <1>2, <1>7

(* What core 0 does with a frame after which it asks for the next.         *)
LEMMA ProcessIs ==
  /\ ProcessMore \in Seq(Steps) /\ Len(ProcessMore) = 18
  /\ ProcessMore[1] = Recv("DONE_READ_NEXT_FRAME")
  /\ ProcessMore[2] = Step("drop", "direct") /\ ProcessMore[3] = Read("copied")
  /\ ProcessMore[4] = Read("direct") /\ ProcessMore[5] = Read("cDCAC")
  /\ ProcessMore[6] = Write("cDCAC") /\ ProcessMore[7] = Flush("cDCAC")
  /\ ProcessMore[8] = Step("start", "cDCAC")
  /\ ProcessMore[9] = Flush(Everything)
  /\ ProcessMore[10] = Post("OK_TO_READ_NEXT_FRAME")
  /\ ProcessMore[11] = Recv("DONE_LD_Y")
  /\ ProcessMore[12] = Step("start", "yDCAC")
  /\ ProcessMore[13] = Wait({"yDCAC"}) /\ ProcessMore[14] = Flush(Everything)
  /\ ProcessMore[15] = Post("OK_TO_LD_Y")
  /\ ProcessMore[16] = Wait({"yDCAC", "cDCAC"})
  /\ ProcessMore[17] = Read("frame") /\ ProcessMore[18] = Write("frame")
<1> DEFINE s1 == <<Recv("DONE_READ_NEXT_FRAME")>>
           s2 == ld_idct_cr_cb
           s3 == send("OK_TO_READ_NEXT_FRAME")
           s4 == <<Recv("DONE_LD_Y"), Step("start", "yDCAC")>>
           s5 == WaitAndSend
           s6 == <<Wait({"yDCAC", "cDCAC"}), Read("frame"), Write("frame")>>
<1>1. /\ s1 \in Seq(Steps) /\ Len(s1) = 1
      /\ s1[1] = Recv("DONE_READ_NEXT_FRAME")
  BY StepsAre DEF Objects, Messages
<1>2. /\ s2 \in Seq(Steps) /\ Len(s2) = 7
      /\ s2[1] = Step("drop", "direct") /\ s2[2] = Read("copied")
      /\ s2[3] = Read("direct") /\ s2[4] = Read("cDCAC")
      /\ s2[5] = Write("cDCAC") /\ s2[6] = Flush("cDCAC")
      /\ s2[7] = Step("start", "cDCAC")
  BY StepsAre DEF ld_idct_cr_cb, Objects
<1>3. /\ s3 \in Seq(Steps) /\ Len(s3) = 2
      /\ s3[1] = Flush(Everything) /\ s3[2] = Post("OK_TO_READ_NEXT_FRAME")
  BY SendIs DEF Messages
<1>4. /\ s4 \in Seq(Steps) /\ Len(s4) = 2
      /\ s4[1] = Recv("DONE_LD_Y") /\ s4[2] = Step("start", "yDCAC")
  BY StepsAre DEF Objects, Messages
<1>5. /\ s5 \in Seq(Steps) /\ Len(s5) = 3
      /\ s5[1] = Wait({"yDCAC"}) /\ s5[2] = Flush(Everything)
      /\ s5[3] = Post("OK_TO_LD_Y")
  BY WaitAndSendIs
<1>6. /\ s6 \in Seq(Steps) /\ Len(s6) = 3
      /\ s6[1] = Wait({"yDCAC", "cDCAC"}) /\ s6[2] = Read("frame")
      /\ s6[3] = Write("frame")
  BY StepsAre DEF Objects, Messages
<1>7. ProcessMore = s1 \o s2 \o s3 \o s4 \o s5 \o s6
  BY DEF ProcessMore, process, WaitAndSend
<1> HIDE DEF s1, s2, s3, s4, s5, s6
<1>8. /\ s1 \in Seq(Steps) /\ Len(s1) = 1
      /\ s2 \in Seq(Steps) /\ Len(s2) = 7
      /\ s3 \in Seq(Steps) /\ Len(s3) = 2
      /\ s4 \in Seq(Steps) /\ Len(s4) = 2
      /\ s5 \in Seq(Steps) /\ Len(s5) = 3
      /\ s6 \in Seq(Steps) /\ Len(s6) = 3
  BY <1>1, <1>2, <1>3, <1>4, <1>5, <1>6
<1>9. s1 \in Seq(Steps) /\ s2 \in Seq(Steps) /\ s3 \in Seq(Steps)
      /\ s4 \in Seq(Steps) /\ s5 \in Seq(Steps) /\ s6 \in Seq(Steps)
  BY <1>8
<1>10. PICK t2 : t2 = s1 \o s2
  OBVIOUS
<1>11. PICK t3 : t3 = t2 \o s3
  OBVIOUS
<1>12. PICK t4 : t4 = t3 \o s4
  OBVIOUS
<1>13. PICK t5 : t5 = t4 \o s5
  OBVIOUS
<1>14. ProcessMore = t5 \o s6
  BY <1>7, <1>10, <1>11, <1>12, <1>13
<1>15. Joined(t2, s1, s2)
  BY <1>9, <1>10, Join
<1>16. Joined(t3, t2, s3)
  BY <1>9, <1>11, <1>15, Join DEF Joined
<1>17. Joined(t4, t3, s4)
  BY <1>9, <1>12, <1>16, Join DEF Joined
<1>18. Joined(t5, t4, s5)
  BY <1>9, <1>13, <1>17, Join DEF Joined
<1>19. Joined(ProcessMore, t5, s6)
  BY <1>9, <1>14, <1>18, Join DEF Joined
<1>20. /\ t2 \in Seq(Steps) /\ Len(t2) = 8
      /\ \A k \in 1 .. 8 : t2[k] = IF k <= 1 THEN s1[k] ELSE s2[k - 1]
  BY <1>8, <1>15 DEF Joined
<1>21. /\ t3 \in Seq(Steps) /\ Len(t3) = 10
      /\ \A k \in 1 .. 10 : t3[k] = IF k <= 8 THEN t2[k] ELSE s3[k - 8]
  BY <1>8, <1>20, <1>16 DEF Joined
<1>22. /\ t4 \in Seq(Steps) /\ Len(t4) = 12
      /\ \A k \in 1 .. 12 : t4[k] = IF k <= 10 THEN t3[k] ELSE s4[k - 10]
  BY <1>8, <1>21, <1>17 DEF Joined
<1>23. /\ t5 \in Seq(Steps) /\ Len(t5) = 15
      /\ \A k \in 1 .. 15 : t5[k] = IF k <= 12 THEN t4[k] ELSE s5[k - 12]
  BY <1>8, <1>22, <1>18 DEF Joined
<1>24. /\ ProcessMore \in Seq(Steps) /\ Len(ProcessMore) = 18
      /\ \A k \in 1 .. 18 : ProcessMore[k] = IF k <= 15 THEN t5[k] ELSE s6[k - 15]
  BY <1>8, <1>23, <1>19 DEF Joined
<1> QED
  BY <1>1, <1>2, <1>3, <1>4, <1>5, <1>6, <1>20, <1>21, <1>22, <1>23, <1>24

(* What core 0 does to load a video.                                       *)
LEMMA LoadIs ==
  /\ loadVideo \in Seq(Steps) /\ Len(loadVideo) = 17
  /\ loadVideo[1] = Flush(Everything) /\ loadVideo[2] = Write("frame")
  /\ loadVideo[3] = Flush(Everything) /\ loadVideo[4] = Post("READ_NEXT_FILE")
  /\ loadVideo[5] = Recv("DONE_READ_NEXT_FRAME")
  /\ loadVideo[6] = Step("drop", "direct") /\ loadVideo[7] = Read("copied")
  /\ loadVideo[8] = Read("direct") /\ loadVideo[9] = Read("cDCAC")
  /\ loadVideo[10] = Write("cDCAC") /\ loadVideo[11] = Flush("cDCAC")
  /\ loadVideo[12] = Step("start", "cDCAC")
  /\ loadVideo[13] = Recv("DONE_LD_Y")
  /\ loadVideo[14] = Step("start", "yDCAC")
  /\ loadVideo[15] = Wait({"yDCAC", "cDCAC"}) /\ loadVideo[16] = Read("frame")
  /\ loadVideo[17] = Write("frame")
<1> DEFINE s1 == <<Flush(Everything), Write("frame")>>
           s2 == send("READ_NEXT_FILE")
           s3 == ProcessLast
<1>1. /\ s1 \in Seq(Steps) /\ Len(s1) = 2
      /\ s1[1] = Flush(Everything) /\ s1[2] = Write("frame")
  BY StepsAre DEF Objects, Messages
<1>2. /\ s2 \in Seq(Steps) /\ Len(s2) = 2
      /\ s2[1] = Flush(Everything) /\ s2[2] = Post("READ_NEXT_FILE")
  BY SendIs DEF Messages
<1>3. /\ s3 \in Seq(Steps) /\ Len(s3) = 13
      /\ s3[1] = Recv("DONE_READ_NEXT_FRAME") /\ s3[2] = Step("drop", "direct")
      /\ s3[3] = Read("copied") /\ s3[4] = Read("direct")
      /\ s3[5] = Read("cDCAC") /\ s3[6] = Write("cDCAC")
      /\ s3[7] = Flush("cDCAC") /\ s3[8] = Step("start", "cDCAC")
      /\ s3[9] = Recv("DONE_LD_Y") /\ s3[10] = Step("start", "yDCAC")
      /\ s3[11] = Wait({"yDCAC", "cDCAC"}) /\ s3[12] = Read("frame")
      /\ s3[13] = Write("frame")
  BY LastProcessIs
<1>4. loadVideo = s1 \o s2 \o s3
  BY DEF loadVideo, ProcessLast
<1> HIDE DEF s1, s2, s3
<1>5. /\ s1 \in Seq(Steps) /\ Len(s1) = 2
      /\ s2 \in Seq(Steps) /\ Len(s2) = 2
      /\ s3 \in Seq(Steps) /\ Len(s3) = 13
  BY <1>1, <1>2, <1>3
<1>6. s1 \in Seq(Steps) /\ s2 \in Seq(Steps) /\ s3 \in Seq(Steps)
  BY <1>5
<1>7. PICK t2 : t2 = s1 \o s2
  OBVIOUS
<1>8. loadVideo = t2 \o s3
  BY <1>4, <1>7
<1>9. Joined(t2, s1, s2)
  BY <1>6, <1>7, Join
<1>10. Joined(loadVideo, t2, s3)
  BY <1>6, <1>8, <1>9, Join DEF Joined
<1>11. /\ t2 \in Seq(Steps) /\ Len(t2) = 4
      /\ \A k \in 1 .. 4 : t2[k] = IF k <= 2 THEN s1[k] ELSE s2[k - 2]
  BY <1>5, <1>9 DEF Joined
<1>12. /\ loadVideo \in Seq(Steps) /\ Len(loadVideo) = 17
      /\ \A k \in 1 .. 17 : loadVideo[k] = IF k <= 4 THEN t2[k] ELSE s3[k - 4]
  BY <1>5, <1>11, <1>10 DEF Joined
<1> QED
  BY <1>1, <1>2, <1>3, <1>11, <1>12

(* What core 0 does to go to a place in the video.                         *)
LEMMA SeekIs ==
  /\ seekVideo \in Seq(Steps) /\ Len(seekVideo) = 20
  /\ seekVideo[1] = Read("frame") /\ seekVideo[2] = Read("header")
  /\ seekVideo[3] = Read("rows") /\ seekVideo[4] = Read("moreRows")
  /\ seekVideo[5] = Write("frame") /\ seekVideo[6] = Flush(Everything)
  /\ seekVideo[7] = Post("SEEK_VIDEO")
  /\ seekVideo[8] = Recv("DONE_READ_NEXT_FRAME")
  /\ seekVideo[9] = Step("drop", "direct") /\ seekVideo[10] = Read("copied")
  /\ seekVideo[11] = Read("direct") /\ seekVideo[12] = Read("cDCAC")
  /\ seekVideo[13] = Write("cDCAC") /\ seekVideo[14] = Flush("cDCAC")
  /\ seekVideo[15] = Step("start", "cDCAC")
  /\ seekVideo[16] = Recv("DONE_LD_Y")
  /\ seekVideo[17] = Step("start", "yDCAC")
  /\ seekVideo[18] = Wait({"yDCAC", "cDCAC"}) /\ seekVideo[19] = Read("frame")
  /\ seekVideo[20] = Write("frame")
<1> DEFINE s1 == <<Read("frame"), Read("header"), Read("rows"), Read("moreRows"),
                        Write("frame")>>
           s2 == send("SEEK_VIDEO")
           s3 == ProcessLast
<1>1. /\ s1 \in Seq(Steps) /\ Len(s1) = 5
      /\ s1[1] = Read("frame") /\ s1[2] = Read("header")
      /\ s1[3] = Read("rows") /\ s1[4] = Read("moreRows")
      /\ s1[5] = Write("frame")
  BY StepsAre DEF Objects, Messages
<1>2. /\ s2 \in Seq(Steps) /\ Len(s2) = 2
      /\ s2[1] = Flush(Everything) /\ s2[2] = Post("SEEK_VIDEO")
  BY SendIs DEF Messages
<1>3. /\ s3 \in Seq(Steps) /\ Len(s3) = 13
      /\ s3[1] = Recv("DONE_READ_NEXT_FRAME") /\ s3[2] = Step("drop", "direct")
      /\ s3[3] = Read("copied") /\ s3[4] = Read("direct")
      /\ s3[5] = Read("cDCAC") /\ s3[6] = Write("cDCAC")
      /\ s3[7] = Flush("cDCAC") /\ s3[8] = Step("start", "cDCAC")
      /\ s3[9] = Recv("DONE_LD_Y") /\ s3[10] = Step("start", "yDCAC")
      /\ s3[11] = Wait({"yDCAC", "cDCAC"}) /\ s3[12] = Read("frame")
      /\ s3[13] = Write("frame")
  BY LastProcessIs
<1>4. seekVideo = s1 \o s2 \o s3
  BY DEF seekVideo, ProcessLast
<1> HIDE DEF s1, s2, s3
<1>5. /\ s1 \in Seq(Steps) /\ Len(s1) = 5
      /\ s2 \in Seq(Steps) /\ Len(s2) = 2
      /\ s3 \in Seq(Steps) /\ Len(s3) = 13
  BY <1>1, <1>2, <1>3
<1>6. s1 \in Seq(Steps) /\ s2 \in Seq(Steps) /\ s3 \in Seq(Steps)
  BY <1>5
<1>7. PICK t2 : t2 = s1 \o s2
  OBVIOUS
<1>8. seekVideo = t2 \o s3
  BY <1>4, <1>7
<1>9. Joined(t2, s1, s2)
  BY <1>6, <1>7, Join
<1>10. Joined(seekVideo, t2, s3)
  BY <1>6, <1>8, <1>9, Join DEF Joined
<1>11. /\ t2 \in Seq(Steps) /\ Len(t2) = 7
      /\ \A k \in 1 .. 7 : t2[k] = IF k <= 5 THEN s1[k] ELSE s2[k - 5]
  BY <1>5, <1>9 DEF Joined
<1>12. /\ seekVideo \in Seq(Steps) /\ Len(seekVideo) = 20
      /\ \A k \in 1 .. 20 : seekVideo[k] = IF k <= 7 THEN t2[k] ELSE s3[k - 7]
  BY <1>5, <1>11, <1>10 DEF Joined
<1> QED
  BY <1>1, <1>2, <1>3, <1>11, <1>12

(* What core 0 does before the first frame of a play.                      *)
LEMMA PlayIs ==
  /\ playVideo \in Seq(Steps) /\ Len(playVideo) = 9
  /\ playVideo[1] = Read("header") /\ playVideo[2] = Read("frame")
  /\ playVideo[3] = Write("frame") /\ playVideo[4] = TimerOn
  /\ playVideo[5] = Flush(Everything)
  /\ playVideo[6] = Post("OK_TO_READ_NEXT_FRAME")
  /\ playVideo[7] = Flush(Everything) /\ playVideo[8] = Post("OK_TO_LD_Y")
  /\ playVideo[9] = NextRound
<1> DEFINE s1 == <<Read("header"), Read("frame"), Write("frame"), TimerOn>>
           s2 == send("OK_TO_READ_NEXT_FRAME")
           s3 == send("OK_TO_LD_Y")
           s4 == <<NextRound>>
<1>1. /\ s1 \in Seq(Steps) /\ Len(s1) = 4
      /\ s1[1] = Read("header") /\ s1[2] = Read("frame")
      /\ s1[3] = Write("frame") /\ s1[4] = TimerOn
  BY StepsAre DEF Objects, Messages
<1>2. /\ s2 \in Seq(Steps) /\ Len(s2) = 2
      /\ s2[1] = Flush(Everything) /\ s2[2] = Post("OK_TO_READ_NEXT_FRAME")
  BY SendIs DEF Messages
<1>3. /\ s3 \in Seq(Steps) /\ Len(s3) = 2
      /\ s3[1] = Flush(Everything) /\ s3[2] = Post("OK_TO_LD_Y")
  BY SendIs DEF Messages
<1>4. /\ s4 \in Seq(Steps) /\ Len(s4) = 1
      /\ s4[1] = NextRound
  BY StepsAre DEF Objects, Messages
<1>5. playVideo = s1 \o s2 \o s3 \o s4
  BY DEF playVideo, TimerOn, NextRound
<1> HIDE DEF s1, s2, s3, s4
<1>6. /\ s1 \in Seq(Steps) /\ Len(s1) = 4
      /\ s2 \in Seq(Steps) /\ Len(s2) = 2
      /\ s3 \in Seq(Steps) /\ Len(s3) = 2
      /\ s4 \in Seq(Steps) /\ Len(s4) = 1
  BY <1>1, <1>2, <1>3, <1>4
<1>7. s1 \in Seq(Steps) /\ s2 \in Seq(Steps) /\ s3 \in Seq(Steps)
      /\ s4 \in Seq(Steps)
  BY <1>6
<1>8. PICK t2 : t2 = s1 \o s2
  OBVIOUS
<1>9. PICK t3 : t3 = t2 \o s3
  OBVIOUS
<1>10. playVideo = t3 \o s4
  BY <1>5, <1>8, <1>9
<1>11. Joined(t2, s1, s2)
  BY <1>7, <1>8, Join
<1>12. Joined(t3, t2, s3)
  BY <1>7, <1>9, <1>11, Join DEF Joined
<1>13. Joined(playVideo, t3, s4)
  BY <1>7, <1>10, <1>12, Join DEF Joined
<1>14. /\ t2 \in Seq(Steps) /\ Len(t2) = 6
      /\ \A k \in 1 .. 6 : t2[k] = IF k <= 4 THEN s1[k] ELSE s2[k - 4]
  BY <1>6, <1>11 DEF Joined
<1>15. /\ t3 \in Seq(Steps) /\ Len(t3) = 8
      /\ \A k \in 1 .. 8 : t3[k] = IF k <= 6 THEN t2[k] ELSE s3[k - 6]
  BY <1>6, <1>14, <1>12 DEF Joined
<1>16. /\ playVideo \in Seq(Steps) /\ Len(playVideo) = 9
      /\ \A k \in 1 .. 9 : playVideo[k] = IF k <= 8 THEN t3[k] ELSE s4[k - 8]
  BY <1>6, <1>15, <1>13 DEF Joined
<1> QED
  BY <1>1, <1>2, <1>3, <1>4, <1>14, <1>15, <1>16

(* What core 0 does in a round of the loop of playVideo.                   *)
LEMMA RoundIs ==
  /\ RoundMore \in Seq(Steps) /\ Len(RoundMore) = 20
  /\ RoundMore[1] = Read("frame") /\ RoundMore[2] = Read("header")
  /\ RoundMore[3] = Recv("DONE_READ_NEXT_FRAME")
  /\ RoundMore[4] = Step("drop", "direct") /\ RoundMore[5] = Read("copied")
  /\ RoundMore[6] = Read("direct") /\ RoundMore[7] = Read("cDCAC")
  /\ RoundMore[8] = Write("cDCAC") /\ RoundMore[9] = Flush("cDCAC")
  /\ RoundMore[10] = Step("start", "cDCAC")
  /\ RoundMore[11] = Flush(Everything)
  /\ RoundMore[12] = Post("OK_TO_READ_NEXT_FRAME")
  /\ RoundMore[13] = Recv("DONE_LD_Y")
  /\ RoundMore[14] = Step("start", "yDCAC") /\ RoundMore[15] = Wait({"yDCAC"})
  /\ RoundMore[16] = Flush(Everything) /\ RoundMore[17] = Post("OK_TO_LD_Y")
  /\ RoundMore[18] = Wait({"yDCAC", "cDCAC"}) /\ RoundMore[19] = Read("frame")
  /\ RoundMore[20] = Write("frame")
<1> DEFINE s1 == <<Read("frame"), Read("header")>>
           s2 == ProcessMore
<1>1. /\ s1 \in Seq(Steps) /\ Len(s1) = 2
      /\ s1[1] = Read("frame") /\ s1[2] = Read("header")
  BY StepsAre DEF Objects, Messages
<1>2. /\ s2 \in Seq(Steps) /\ Len(s2) = 18
      /\ s2[1] = Recv("DONE_READ_NEXT_FRAME") /\ s2[2] = Step("drop", "direct")
      /\ s2[3] = Read("copied") /\ s2[4] = Read("direct")
      /\ s2[5] = Read("cDCAC") /\ s2[6] = Write("cDCAC")
      /\ s2[7] = Flush("cDCAC") /\ s2[8] = Step("start", "cDCAC")
      /\ s2[9] = Flush(Everything) /\ s2[10] = Post("OK_TO_READ_NEXT_FRAME")
      /\ s2[11] = Recv("DONE_LD_Y") /\ s2[12] = Step("start", "yDCAC")
      /\ s2[13] = Wait({"yDCAC"}) /\ s2[14] = Flush(Everything)
      /\ s2[15] = Post("OK_TO_LD_Y") /\ s2[16] = Wait({"yDCAC", "cDCAC"})
      /\ s2[17] = Read("frame") /\ s2[18] = Write("frame")
  BY ProcessIs
<1>3. RoundMore = s1 \o s2
  BY DEF RoundMore, Round, ProcessMore
<1> HIDE DEF s1, s2
<1>4. /\ s1 \in Seq(Steps) /\ Len(s1) = 2
      /\ s2 \in Seq(Steps) /\ Len(s2) = 18
  BY <1>1, <1>2
<1>5. s1 \in Seq(Steps) /\ s2 \in Seq(Steps)
  BY <1>4
<1>6. Joined(RoundMore, s1, s2)
  BY <1>5, <1>3, Join
<1>7. /\ RoundMore \in Seq(Steps) /\ Len(RoundMore) = 20
      /\ \A k \in 1 .. 20 : RoundMore[k] = IF k <= 2 THEN s1[k] ELSE s2[k - 2]
  BY <1>4, <1>6 DEF Joined
<1> QED
  BY <1>1, <1>2, <1>7

(* A round, and on to the next.                                            *)
LEMMA MoreIs ==
  /\ More \in Seq(Steps) /\ Len(More) = 21
  /\ More[1] = Read("frame") /\ More[2] = Read("header")
  /\ More[3] = Recv("DONE_READ_NEXT_FRAME") /\ More[4] = Step("drop", "direct")
  /\ More[5] = Read("copied") /\ More[6] = Read("direct")
  /\ More[7] = Read("cDCAC") /\ More[8] = Write("cDCAC")
  /\ More[9] = Flush("cDCAC") /\ More[10] = Step("start", "cDCAC")
  /\ More[11] = Flush(Everything) /\ More[12] = Post("OK_TO_READ_NEXT_FRAME")
  /\ More[13] = Recv("DONE_LD_Y") /\ More[14] = Step("start", "yDCAC")
  /\ More[15] = Wait({"yDCAC"}) /\ More[16] = Flush(Everything)
  /\ More[17] = Post("OK_TO_LD_Y") /\ More[18] = Wait({"yDCAC", "cDCAC"})
  /\ More[19] = Read("frame") /\ More[20] = Write("frame")
  /\ More[21] = NextRound
<1> DEFINE s1 == RoundMore
           s2 == <<NextRound>>
<1>1. /\ s1 \in Seq(Steps) /\ Len(s1) = 20
      /\ s1[1] = Read("frame") /\ s1[2] = Read("header")
      /\ s1[3] = Recv("DONE_READ_NEXT_FRAME") /\ s1[4] = Step("drop", "direct")
      /\ s1[5] = Read("copied") /\ s1[6] = Read("direct")
      /\ s1[7] = Read("cDCAC") /\ s1[8] = Write("cDCAC")
      /\ s1[9] = Flush("cDCAC") /\ s1[10] = Step("start", "cDCAC")
      /\ s1[11] = Flush(Everything) /\ s1[12] = Post("OK_TO_READ_NEXT_FRAME")
      /\ s1[13] = Recv("DONE_LD_Y") /\ s1[14] = Step("start", "yDCAC")
      /\ s1[15] = Wait({"yDCAC"}) /\ s1[16] = Flush(Everything)
      /\ s1[17] = Post("OK_TO_LD_Y") /\ s1[18] = Wait({"yDCAC", "cDCAC"})
      /\ s1[19] = Read("frame") /\ s1[20] = Write("frame")
  BY RoundIs
<1>2. /\ s2 \in Seq(Steps) /\ Len(s2) = 1
      /\ s2[1] = NextRound
  BY StepsAre DEF Objects, Messages
<1>3. More = s1 \o s2
  BY DEF More, RoundMore, NextRound
<1> HIDE DEF s1, s2
<1>4. /\ s1 \in Seq(Steps) /\ Len(s1) = 20
      /\ s2 \in Seq(Steps) /\ Len(s2) = 1
  BY <1>1, <1>2
<1>5. s1 \in Seq(Steps) /\ s2 \in Seq(Steps)
  BY <1>4
<1>6. Joined(More, s1, s2)
  BY <1>5, <1>3, Join
<1>7. /\ More \in Seq(Steps) /\ Len(More) = 21
      /\ \A k \in 1 .. 21 : More[k] = IF k <= 20 THEN s1[k] ELSE s2[k - 20]
  BY <1>4, <1>6 DEF Joined
<1> QED
  BY <1>1, <1>2, <1>7

(* What it does in the last round.                                         *)
LEMMA LastRoundIs ==
  /\ RoundLast \in Seq(Steps) /\ Len(RoundLast) = 15
  /\ RoundLast[1] = Read("frame") /\ RoundLast[2] = Read("header")
  /\ RoundLast[3] = Recv("DONE_READ_NEXT_FRAME")
  /\ RoundLast[4] = Step("drop", "direct") /\ RoundLast[5] = Read("copied")
  /\ RoundLast[6] = Read("direct") /\ RoundLast[7] = Read("cDCAC")
  /\ RoundLast[8] = Write("cDCAC") /\ RoundLast[9] = Flush("cDCAC")
  /\ RoundLast[10] = Step("start", "cDCAC")
  /\ RoundLast[11] = Recv("DONE_LD_Y")
  /\ RoundLast[12] = Step("start", "yDCAC")
  /\ RoundLast[13] = Wait({"yDCAC", "cDCAC"}) /\ RoundLast[14] = Read("frame")
  /\ RoundLast[15] = Write("frame")
<1> DEFINE s1 == <<Read("frame"), Read("header")>>
           s2 == ProcessLast
<1>1. /\ s1 \in Seq(Steps) /\ Len(s1) = 2
      /\ s1[1] = Read("frame") /\ s1[2] = Read("header")
  BY StepsAre DEF Objects, Messages
<1>2. /\ s2 \in Seq(Steps) /\ Len(s2) = 13
      /\ s2[1] = Recv("DONE_READ_NEXT_FRAME") /\ s2[2] = Step("drop", "direct")
      /\ s2[3] = Read("copied") /\ s2[4] = Read("direct")
      /\ s2[5] = Read("cDCAC") /\ s2[6] = Write("cDCAC")
      /\ s2[7] = Flush("cDCAC") /\ s2[8] = Step("start", "cDCAC")
      /\ s2[9] = Recv("DONE_LD_Y") /\ s2[10] = Step("start", "yDCAC")
      /\ s2[11] = Wait({"yDCAC", "cDCAC"}) /\ s2[12] = Read("frame")
      /\ s2[13] = Write("frame")
  BY LastProcessIs
<1>3. RoundLast = s1 \o s2
  BY DEF RoundLast, Round, ProcessLast
<1> HIDE DEF s1, s2
<1>4. /\ s1 \in Seq(Steps) /\ Len(s1) = 2
      /\ s2 \in Seq(Steps) /\ Len(s2) = 13
  BY <1>1, <1>2
<1>5. s1 \in Seq(Steps) /\ s2 \in Seq(Steps)
  BY <1>4
<1>6. Joined(RoundLast, s1, s2)
  BY <1>5, <1>3, Join
<1>7. /\ RoundLast \in Seq(Steps) /\ Len(RoundLast) = 15
      /\ \A k \in 1 .. 15 : RoundLast[k] = IF k <= 2 THEN s1[k] ELSE s2[k - 2]
  BY <1>4, <1>6 DEF Joined
<1> QED
  BY <1>1, <1>2, <1>7

(* The last round, and the end of playVideo.                               *)
LEMMA LastIs ==
  /\ Last \in Seq(Steps) /\ Len(Last) = 19
  /\ Last[1] = Read("frame") /\ Last[2] = Read("header")
  /\ Last[3] = Recv("DONE_READ_NEXT_FRAME") /\ Last[4] = Step("drop", "direct")
  /\ Last[5] = Read("copied") /\ Last[6] = Read("direct")
  /\ Last[7] = Read("cDCAC") /\ Last[8] = Write("cDCAC")
  /\ Last[9] = Flush("cDCAC") /\ Last[10] = Step("start", "cDCAC")
  /\ Last[11] = Recv("DONE_LD_Y") /\ Last[12] = Step("start", "yDCAC")
  /\ Last[13] = Wait({"yDCAC", "cDCAC"}) /\ Last[14] = Read("frame")
  /\ Last[15] = Write("frame") /\ Last[16] = Read("frame")
  /\ Last[17] = Read("header") /\ Last[18] = Write("frame")
  /\ Last[19] = TimerOff
<1> DEFINE s1 == RoundLast
           s2 == <<Read("frame"), Read("header"), Write("frame"), TimerOff>>
<1>1. /\ s1 \in Seq(Steps) /\ Len(s1) = 15
      /\ s1[1] = Read("frame") /\ s1[2] = Read("header")
      /\ s1[3] = Recv("DONE_READ_NEXT_FRAME") /\ s1[4] = Step("drop", "direct")
      /\ s1[5] = Read("copied") /\ s1[6] = Read("direct")
      /\ s1[7] = Read("cDCAC") /\ s1[8] = Write("cDCAC")
      /\ s1[9] = Flush("cDCAC") /\ s1[10] = Step("start", "cDCAC")
      /\ s1[11] = Recv("DONE_LD_Y") /\ s1[12] = Step("start", "yDCAC")
      /\ s1[13] = Wait({"yDCAC", "cDCAC"}) /\ s1[14] = Read("frame")
      /\ s1[15] = Write("frame")
  BY LastRoundIs
<1>2. /\ s2 \in Seq(Steps) /\ Len(s2) = 4
      /\ s2[1] = Read("frame") /\ s2[2] = Read("header")
      /\ s2[3] = Write("frame") /\ s2[4] = TimerOff
  BY StepsAre DEF Objects, Messages
<1>3. Last = s1 \o s2
  BY DEF Last, RoundLast, playVideoEnd, TimerOff
<1> HIDE DEF s1, s2
<1>4. /\ s1 \in Seq(Steps) /\ Len(s1) = 15
      /\ s2 \in Seq(Steps) /\ Len(s2) = 4
  BY <1>1, <1>2
<1>5. s1 \in Seq(Steps) /\ s2 \in Seq(Steps)
  BY <1>4
<1>6. Joined(Last, s1, s2)
  BY <1>5, <1>3, Join
<1>7. /\ Last \in Seq(Steps) /\ Len(Last) = 19
      /\ \A k \in 1 .. 19 : Last[k] = IF k <= 15 THEN s1[k] ELSE s2[k - 15]
  BY <1>4, <1>6 DEF Joined
<1> QED
  BY <1>1, <1>2, <1>7

(* The works of core 0 are programs of the lengths that End says.          *)
LEMMA WorkIs ==
  ASSUME NEW n \in Works
  PROVE  /\ Work(n) \in Seq(Steps) /\ Len(Work(n)) \in Nat
         /\ Len(Work(n)) = IF n \in {"play", "more"} THEN End(n) ELSE End(n) - 1
         /\ End(n) \in Nat \ {0}
<1>1. CASE n = "load"
  BY <1>1, LoadIs DEF Work, End
<1>2. CASE n = "seek"
  BY <1>2, SeekIs DEF Work, End
<1>3. CASE n = "play"
  BY <1>3, PlayIs DEF Work, End
<1>4. CASE n = "more"
  BY <1>4, MoreIs DEF Work, End
<1>5. CASE n = "last"
  BY <1>5, LastIs DEF Work, End
<1> QED
  BY <1>1, <1>2, <1>3, <1>4, <1>5 DEF Works

(* The parts of the job of core 1 are within it.                           *)
LEMMA JobBegins ==
  ASSUME NEW e \in {15, 23}, NEW j \in Begin(e) .. e + 1
  PROVE  /\ Job \in Seq(Steps) /\ e \in 0 .. Len(Job) /\ e \in Nat
         /\ Begin(e) \in 1 .. 8 /\ j \in 1 .. e + 1 /\ j >= Begin(e)
<1>1. Begin(e) \in 1 .. 8
  BY DEF Begin
<1> QED
  BY <1>1, JobIs

(* What is left of a program.                                              *)
LEMMA LeftIs ==
  ASSUME NEW p \in Seq(Steps), NEW e \in 0 .. Len(p), NEW i \in 1 .. e + 1
  PROVE  /\ SubSeq(p, i, e) = <<>> <=> i = e + 1
         /\ i <= e => /\ Head(SubSeq(p, i, e)) = p[i]
                      /\ Tail(SubSeq(p, i, e)) = SubSeq(p, i + 1, e)
<1>1. CASE i = e + 1
  BY <1>1, SubSeqEmpty
<1>2. CASE i <= e
  <2>1. i \in 1 .. Len(p) /\ e \in i .. Len(p)
    BY <1>2
  <2>2. /\ Head(SubSeq(p, i, e)) = p[i]
        /\ Tail(SubSeq(p, i, e)) = SubSeq(p, i + 1, e)
    BY <2>1, HeadTailOfSubSeq
  <2>3. \A x \in i .. e : p[x] \in Steps
    BY <2>1
  <2>4. SubSeq(p, i, e) \in Seq(Steps) /\ Len(SubSeq(p, i, e)) = e - i + 1
    BY <1>2, <2>3, SubSeqProperties
  <2>5. SubSeq(p, i, e) # <<>>
    <3>1. PICK s : s = SubSeq(p, i, e)
      OBVIOUS
    <3>2. Len(s) # 0
      BY <1>2, <2>4, <3>1
    <3> QED
      BY <3>1, <3>2
  <2> QED
    BY <1>2, <2>2, <2>5
<1> QED
  BY <1>1, <1>2

(* A step core 0 has done takes it to the next place.                      *)
LEMMA NextPlace0 ==
  ASSUME NEW n \in Works, NEW k \in 1 .. End(n), NEW j, NEW e, Places(n, k, j, e),
         NEW what, Begins(0, what)
  PROVE  /\ k \in 1 .. Len(Work(n))
         /\ Work(n)[k].do = what /\ Work(n)[k].of = Arg(0)
         /\ Done(0) => Places(n, k + 1, j, e)'
<1> DEFINE p == Work(n)
           f == Len(Work(n))
<1>1. p \in Seq(Steps) /\ f \in 0 .. Len(p) /\ k \in 1 .. f + 1
  BY WorkIs
<1>2. todo[0] = SubSeq(p, k, f)
  BY DEF Places
<1>3. k # f + 1 /\ k <= f
  BY <1>1, <1>2, LeftIs DEF Begins
<1>4. Head(todo[0]) = p[k] /\ Tail(todo[0]) = SubSeq(p, k + 1, f)
  BY <1>1, <1>2, <1>3, LeftIs
<1>5. Done(0) => todo' = [todo EXCEPT ![0] = SubSeq(p, k + 1, f)]
  BY <1>4 DEF Done
<1>6. Done(0) => Places(n, k + 1, j, e)'
  BY <1>5 DEF Places, Cores
<1> QED
  BY <1>1, <1>3, <1>4, <1>6 DEF Begins, Arg

(* A step core 1 has done takes it to the next place.                      *)
LEMMA NextPlace1 ==
  ASSUME NEW e \in {15, 23}, NEW j \in Begin(e) .. e + 1, NEW n, NEW k,
         Places(n, k, j, e), NEW what, Begins(1, what)
  PROVE  /\ j \in Begin(e) .. e
         /\ Job[j].do = what /\ Job[j].of = Arg(1)
         /\ Done(1) => Places(n, k, j + 1, e)'
<1>1. Job \in Seq(Steps) /\ e \in 0 .. Len(Job) /\ j \in 1 .. e + 1
  BY JobBegins
<1>2. todo[1] = SubSeq(Job, j, e)
  BY DEF Places
<1>3. j # e + 1 /\ j <= e
  BY <1>1, <1>2, LeftIs DEF Begins
<1>4. Head(todo[1]) = Job[j] /\ Tail(todo[1]) = SubSeq(Job, j + 1, e)
  BY <1>1, <1>2, <1>3, LeftIs
<1>5. Done(1) => todo' = [todo EXCEPT ![1] = SubSeq(Job, j + 1, e)]
  BY <1>4 DEF Done
<1>6. Begin(e) \in Nat
  BY JobBegins
<1> QED
  BY <1>3, <1>4, <1>5, <1>6 DEF Begins, Arg, Places, Cores

(* Core 0 has nothing left to do at the end of a work, core 1 after its    *)
(* last step.                                                              *)
LEMMA Finished ==
  ASSUME NEW n \in Works, NEW k \in 1 .. End(n), NEW e \in {15, 23},
         NEW j \in Begin(e) .. e + 1, Places(n, k, j, e)
  PROVE  /\ todo[0] = <<>> => n \in {"load", "seek", "last"} /\ k = End(n)
         /\ todo[1] = <<>> => j = e + 1
<1>1. /\ todo[0] = SubSeq(Work(n), k, Len(Work(n)))
      /\ todo[1] = SubSeq(Job, j, e)
  BY DEF Places
<1>2. /\ Work(n) \in Seq(Steps) /\ Len(Work(n)) \in 0 .. Len(Work(n))
      /\ k \in 1 .. Len(Work(n)) + 1
      /\ Len(Work(n)) = IF n \in {"play", "more"} THEN End(n) ELSE End(n) - 1
  BY WorkIs
<1>4. todo[0] = <<>> => k = Len(Work(n)) + 1
  BY <1>1, <1>2, LeftIs
<1>3. todo[1] = <<>> => j = e + 1
  <2>1. Job \in Seq(Steps) /\ e \in 0 .. Len(Job) /\ j \in 1 .. e + 1
    BY JobBegins
  <2>2. SubSeq(Job, j, e) = <<>> <=> j = e + 1
    BY <2>1, LeftIs
  <2> QED
    BY <1>1, <2>2
<1> QED
  BY <1>2, <1>3, <1>4 DEF Works, End

(* The fields of the steps.                                                *)
LEMMA Fields ==
  /\ \A w : /\ Read(w).do = "read" /\ Read(w).of = w
            /\ Write(w).do = "write" /\ Write(w).of = w
            /\ Flush(w).do = "flush" /\ Flush(w).of = w
            /\ Post(w).do = "post" /\ Post(w).of = w
            /\ Recv(w).do = "recv" /\ Recv(w).of = w
            /\ Wait(w).do = "wait" /\ Wait(w).of = w
            /\ Step("drop", w).do = "drop" /\ Step("drop", w).of = w
            /\ Step("start", w).do = "start" /\ Step("start", w).of = w
            /\ Step("transfer", w).do = "transfer" /\ Step("transfer", w).of = w
  BY DEF Read, Write, Flush, Post, Recv, Wait, Step

(* The fields of the steps without an object.                              *)
LEMMA TimerFields ==
  /\ TimerOn.do = "timer" /\ TimerOn.of = TRUE
  /\ TimerOff.do = "timer" /\ TimerOff.of = FALSE
  /\ NextRound.do = "round"
  BY DEF Step, TimerOn, TimerOff, NextRound

(* The invariant fits each step of loadVideo.                              *)
LEMMA LoadFits ==
  ASSUME NEW k \in 1 .. 17
  PROVE  Fits0("load", k, loadVideo[k])
<1> USE LoadIs, Fields DEF Fits0, Quiet, Flows, Keeps, Owed, Streams, Ticks, End,
                         Holds0, Dirties0, Cleaned, Waits, Decodes
<1>1. CASE k \in {7, 8, 9, 16}
  BY <1>1 DEF FitsRead, Objects
<1>2. CASE k \in {2, 10, 17}
  BY <1>2 DEF FitsWrite
<1>3. CASE k \in {1, 3, 11}
  BY <1>3 DEF FitsFlush, Everything
<1>4. CASE k = 6
  BY <1>4 DEF FitsDrop
<1>5. CASE k \in {12, 14}
  BY <1>5 DEF FitsStart
<1>6. CASE k = 15
  BY <1>6 DEF FitsWait
<1>7. CASE k = 4
  BY <1>7 DEF FitsPost, Messages
<1>8. CASE k \in {5, 13}
  BY <1>8 DEF FitsRecv
<1> QED
  BY ONLY k \in 1 .. 17, <1>1, <1>2, <1>3, <1>4, <1>5, <1>6, <1>7, <1>8

(* The invariant fits each step of seekVideo.                              *)
LEMMA SeekFits ==
  ASSUME NEW k \in 1 .. 20
  PROVE  Fits0("seek", k, seekVideo[k])
<1> USE SeekIs, Fields DEF Fits0, Quiet, Flows, Keeps, Owed, Streams, Ticks, End,
                         Holds0, Dirties0, Cleaned, Waits, Decodes
<1>1. CASE k \in {1, 2, 3, 4, 10, 11, 12, 19}
  BY <1>1 DEF FitsRead, Objects
<1>2. CASE k \in {5, 13, 20}
  BY <1>2 DEF FitsWrite
<1>3. CASE k \in {6, 14}
  BY <1>3 DEF FitsFlush, Everything
<1>4. CASE k = 9
  BY <1>4 DEF FitsDrop
<1>5. CASE k \in {15, 17}
  BY <1>5 DEF FitsStart
<1>6. CASE k = 18
  BY <1>6 DEF FitsWait
<1>7. CASE k = 7
  BY <1>7 DEF FitsPost, Messages
<1>8. CASE k \in {8, 16}
  BY <1>8 DEF FitsRecv
<1> QED
  BY ONLY k \in 1 .. 20, <1>1, <1>2, <1>3, <1>4, <1>5, <1>6, <1>7, <1>8

(* The invariant fits each step of playVideo before its loop.              *)
LEMMA PlayFits ==
  ASSUME NEW k \in 1 .. 9
  PROVE  Fits0("play", k, playVideo[k])
<1> USE PlayIs, Fields DEF Fits0, Quiet, Flows, Keeps, Owed, Streams, Ticks, End,
                         Holds0, Dirties0, Cleaned, Waits, Decodes
<1>1. CASE k = 1
  BY <1>1 DEF FitsRead, Objects
<1>2. CASE k = 2
  BY <1>2 DEF FitsRead, Objects
<1>3. CASE k = 3
  BY <1>3 DEF FitsWrite
<1>4. CASE k = 5
  BY <1>4 DEF FitsFlush, Everything
<1>5. CASE k = 7
  BY <1>5 DEF FitsFlush, Everything
<1>6. CASE k = 4
  <2>1. playVideo[4] = TimerOn
    OBVIOUS
  <2>2. playVideo[4].do = "timer" /\ playVideo[4].of = TRUE
    BY ONLY <2>1, TimerFields, Zenon
  <2>3. FitsTimer("play", 4, TRUE)
    BY DEF FitsTimer
  <2> QED
    BY ONLY <1>6, <2>2, <2>3, Zenon DEF Fits0
<1>7. CASE k \in {6, 8}
  BY <1>7 DEF FitsPost, Messages
<1>8. CASE k = 9
  BY <1>8, TimerFields DEF FitsRound
<1> QED
  BY ONLY k \in 1 .. 9, <1>1, <1>2, <1>3, <1>4, <1>5, <1>6, <1>7, <1>8

(* The invariant fits each step of a round that another follows.           *)
LEMMA MoreFits ==
  ASSUME NEW k \in 1 .. 21
  PROVE  Fits0("more", k, More[k])
<1> USE MoreIs, Fields DEF Fits0, Quiet, Flows, Keeps, Owed, Streams, Ticks, End,
                         Holds0, Dirties0, Cleaned, Waits, Decodes
<1>1. CASE k = 1
  BY <1>1 DEF FitsRead, Objects
<1>2. CASE k = 2
  BY <1>2 DEF FitsRead, Objects
<1>3. CASE k = 5
  BY <1>3 DEF FitsRead, Objects
<1>4. CASE k = 6
  BY <1>4 DEF FitsRead, Objects
<1>5. CASE k = 7
  BY <1>5 DEF FitsRead, Objects
<1>6. CASE k = 19
  BY <1>6 DEF FitsRead, Objects
<1>7. CASE k = 8
  BY <1>7 DEF FitsWrite
<1>8. CASE k = 20
  BY <1>8 DEF FitsWrite
<1>9. CASE k = 9
  BY <1>9 DEF FitsFlush, Everything
<1>10. CASE k = 11
  BY <1>10 DEF FitsFlush, Everything
<1>11. CASE k = 16
  BY <1>11 DEF FitsFlush, Everything
<1>12. CASE k = 4
  BY <1>12 DEF FitsDrop
<1>13. CASE k = 10
  BY <1>13 DEF FitsStart
<1>14. CASE k = 14
  BY <1>14 DEF FitsStart
<1>15. CASE k = 15
  BY <1>15 DEF FitsWait
<1>16. CASE k = 18
  BY <1>16 DEF FitsWait
<1>17. CASE k \in {12, 17}
  BY <1>17 DEF FitsPost, Messages
<1>18. CASE k \in {3, 13}
  BY <1>18 DEF FitsRecv
<1>19. CASE k = 21
  BY <1>19, TimerFields DEF FitsRound
<1> QED
  BY ONLY k \in 1 .. 21, <1>1, <1>2, <1>3, <1>4, <1>5, <1>6, <1>7, <1>8, <1>9,
     <1>10, <1>11, <1>12, <1>13, <1>14, <1>15, <1>16, <1>17, <1>18, <1>19

(* The invariant fits each step of the last round and after it.            *)
LEMMA LastFits ==
  ASSUME NEW k \in 1 .. 19
  PROVE  Fits0("last", k, Last[k])
<1> USE LastIs, Fields DEF Fits0, Quiet, Flows, Keeps, Owed, Streams, Ticks, End,
                         Holds0, Dirties0, Cleaned, Waits, Decodes
<1>1. CASE k = 1
  BY <1>1 DEF FitsRead, Objects
<1>2. CASE k = 2
  BY <1>2 DEF FitsRead, Objects
<1>3. CASE k = 5
  BY <1>3 DEF FitsRead, Objects
<1>4. CASE k = 6
  BY <1>4 DEF FitsRead, Objects
<1>5. CASE k = 7
  BY <1>5 DEF FitsRead, Objects
<1>6. CASE k = 14
  BY <1>6 DEF FitsRead, Objects
<1>7. CASE k = 16
  BY <1>7 DEF FitsRead, Objects
<1>8. CASE k = 17
  BY <1>8 DEF FitsRead, Objects
<1>9. CASE k = 8
  BY <1>9 DEF FitsWrite
<1>10. CASE k = 15
  BY <1>10 DEF FitsWrite
<1>11. CASE k = 18
  BY <1>11 DEF FitsWrite
<1>12. CASE k = 9
  BY <1>12 DEF FitsFlush, Everything
<1>13. CASE k = 4
  BY <1>13 DEF FitsDrop
<1>14. CASE k = 10
  BY <1>14 DEF FitsStart
<1>15. CASE k = 12
  BY <1>15 DEF FitsStart
<1>16. CASE k = 13
  BY <1>16 DEF FitsWait
<1>17. CASE k = 19
  <2>1. Last[19] = TimerOff
    OBVIOUS
  <2>2. Last[19].do = "timer" /\ Last[19].of = FALSE
    BY ONLY <2>1, TimerFields, Zenon
  <2>3. FitsTimer("last", 19, FALSE)
    BY DEF FitsTimer
  <2> QED
    BY ONLY <1>17, <2>2, <2>3, Zenon DEF Fits0
<1>18. CASE k \in {3, 11}
  BY <1>18 DEF FitsRecv
<1> QED
  BY ONLY k \in 1 .. 19, <1>1, <1>2, <1>3, <1>4, <1>5, <1>6, <1>7, <1>8, <1>9,
     <1>10, <1>11, <1>12, <1>13, <1>14, <1>15, <1>16, <1>17, <1>18

(* The invariant fits each step of core 1.                                 *)
LEMMA JobFits ==
  ASSUME NEW e \in {15, 23}, NEW j \in Begin(e) .. e
  PROVE  Fits1(j, e, Job[j])
<1> USE JobIs, Fields DEF Fits1, Quiet1, Keeps1, Doing, Begin, Holds1, Dirties1, Clear
<1>1. CASE j = 2
  BY <1>1 DEF FitsRead1, Objects
<1>2. CASE j = 16
  BY <1>2 DEF FitsRead1, Objects
<1>3. CASE j = 17
  BY <1>3 DEF FitsRead1, Objects
<1>4. CASE j = 18
  BY <1>4 DEF FitsRead1, Objects
<1>5. CASE j = 19
  BY <1>5 DEF FitsRead1, Objects
<1>6. CASE j = 1
  BY <1>6 DEF FitsWrite1
<1>7. CASE j = 3
  BY <1>7 DEF FitsWrite1
<1>8. CASE j = 4
  BY <1>8 DEF FitsWrite1
<1>9. CASE j = 7
  BY <1>9 DEF FitsWrite1
<1>10. CASE j = 8
  BY <1>10 DEF FitsWrite1
<1>11. CASE j = 11
  BY <1>11 DEF FitsWrite1
<1>12. CASE j = 20
  BY <1>12 DEF FitsWrite1
<1>13. CASE j = 5
  BY <1>13 DEF FitsFlush1, Everything
<1>14. CASE j = 9
  BY <1>14 DEF FitsFlush1, Everything
<1>15. CASE j = 12
  BY <1>15 DEF FitsFlush1, Everything
<1>16. CASE j = 13
  BY <1>16 DEF FitsFlush1, Everything
<1>17. CASE j = 14
  BY <1>17 DEF FitsFlush1, Everything
<1>18. CASE j = 21
  BY <1>18 DEF FitsFlush1, Everything
<1>19. CASE j = 22
  BY <1>19 DEF FitsFlush1, Everything
<1>20. CASE j = 6
  BY <1>20 DEF FitsTransfer1
<1>21. CASE j = 10
  BY <1>21 DEF FitsTransfer1
<1>22. CASE j \in {15, 23}
  BY <1>22 DEF FitsPost1, Messages
<1> QED
  BY <1>1, <1>2, <1>3, <1>4, <1>5, <1>6, <1>7, <1>8, <1>9, <1>10, <1>11, <1>12,
     <1>13, <1>14, <1>15, <1>16, <1>17, <1>18, <1>19, <1>20, <1>21, <1>22

(* The invariant fits each step of core 0.                                 *)
LEMMA AllFit0 ==
  ASSUME NEW n \in Works, NEW k \in 1 .. Len(Work(n))
  PROVE  Fits0(n, k, Work(n)[k])
<1>1. CASE n = "load"
  <2>1. Work(n) = loadVideo /\ k \in 1 .. 17
    BY <1>1, LoadIs DEF Work
  <2> QED
    BY <1>1, <2>1, LoadFits
<1>2. CASE n = "seek"
  <2>1. Work(n) = seekVideo /\ k \in 1 .. 20
    BY <1>2, SeekIs DEF Work
  <2> QED
    BY <1>2, <2>1, SeekFits
<1>3. CASE n = "play"
  <2>1. Work(n) = playVideo /\ k \in 1 .. 9
    BY <1>3, PlayIs DEF Work
  <2> QED
    BY <1>3, <2>1, PlayFits
<1>4. CASE n = "more"
  <2>1. Work(n) = More /\ k \in 1 .. 21
    BY <1>4, MoreIs DEF Work
  <2> QED
    BY <1>4, <2>1, MoreFits
<1>5. CASE n = "last"
  <2>1. Work(n) = Last /\ k \in 1 .. 19
    BY <1>5, LastIs DEF Work
  <2> QED
    BY <1>5, <2>1, LastFits
<1> QED
  BY <1>1, <1>2, <1>3, <1>4, <1>5 DEF Works

(* Core 0 reads no bitstream when core 1 may be reading a frame.           *)
LEMMA OwedWaits ==
  ASSUME NEW n \in Works, NEW k \in Nat \ {0}, Owed(n, k) # "nothing",
         Owed(n, k) # "start", Owed(n, k) # "luma"
  PROVE  Waits(n, k)
<1>1. n # "load" /\ n # "seek"
  <2>1. ASSUME n \in {"load", "seek"}
        PROVE  Owed(n, k) = "nothing" \/ Owed(n, k) = "start" \/ Owed(n, k) = "luma"
    BY <2>1 DEF Owed
  <2> QED
    BY <2>1
<1>2. CASE n = "play"
  <2>1. ASSUME k <= 6 PROVE Owed(n, k) = "nothing"
    BY <1>2, <2>1 DEF Owed
  <2>2. ASSUME k > 6 PROVE Waits(n, k)
    BY <1>2, <2>2 DEF Waits
  <2> QED
    BY <2>1, <2>2
<1>3. CASE n = "more"
  <2>1. ASSUME k > 3, k < 12 PROVE Owed(n, k) = "luma"
    BY <1>3, <2>1 DEF Owed
  <2>2. ASSUME k <= 3 \/ k >= 12 PROVE Waits(n, k)
    BY <1>3, <2>2 DEF Waits
  <2> QED
    BY <2>1, <2>2
<1>4. CASE n = "last"
  <2>1. ASSUME k > 3, k <= 11 PROVE Owed(n, k) = "luma"
    BY <1>4, <2>1 DEF Owed
  <2>2. ASSUME k > 11 PROVE Owed(n, k) = "nothing"
    BY <1>4, <2>2 DEF Owed
  <2>3. ASSUME k <= 3 PROVE Waits(n, k)
    BY <1>4, <2>3 DEF Waits
  <2> QED
    BY <2>1, <2>2, <2>3
<1> QED
  BY <1>1, <1>2, <1>3, <1>4 DEF Works

(* What may be owed to core 0.                                             *)
LEMMA OwedIs ==
  ASSUME NEW n \in Works, NEW k
  PROVE  Owed(n, k) \in
           {"nothing", "start", "read", "luma", "luma, read", "read, luma"}
  BY DEF Owed, Works

(* What core 0 may hold of a line that core 1 works on, and core 1 of one  *)
(* that core 0 works on.                                                   *)
LEMMA Sides ==
  ASSUME NEW n \in Works, NEW e \in {15, 23},
         NEW k \in 1 .. End(n), NEW j \in Begin(e) .. e + 1,
         Pipeline(Owed(n, k), Doing(j, e))
  PROVE  /\ Doing(j, e) = "start" => /\ Owed(n, k) = "start"
                                     /\ Holds0(n, k) = {} /\ Dirties0(n, k) = {}
         /\ Doing(j, e) = "read" => /\ Waits(n, k)
                                    /\ "copied" \notin Holds0(n, k)
                                    /\ "direct" \notin Holds0(n, k)
         /\ Holds0(n, k) \subseteq Objects \ {"yDCAC"}
         /\ Dirties0(n, k) \subseteq {"frame", "cDCAC"}
         /\ Holds1(j) \subseteq Objects \ {"frame", "cDCAC"}
         /\ Dirties1(j, e) \subseteq {"header", "rows", "copied", "yDCAC"}
         /\ "header" \in Dirties1(j, e) \/ "rows" \in Dirties1(j, e) =>
              Doing(j, e) = "start"
         /\ "copied" \in Dirties1(j, e) => Doing(j, e) \in {"start", "read"}
         /\ "yDCAC" \in Dirties1(j, e) => Doing(j, e) = "luma"
<1>1. Owed(n, k) \in {"nothing", "start", "read", "luma", "luma, read", "read, luma"}
  BY OwedIs
<1>2. Doing(j, e) = "start" => Owed(n, k) = "start"
  BY <1>1 DEF Pipeline, PipelineIs
<1>3. Doing(j, e) = "read" => /\ Owed(n, k) # "nothing" /\ Owed(n, k) # "start"
                              /\ Owed(n, k) # "luma"
  BY <1>1 DEF Pipeline, PipelineIs
<1>4. k \in Nat \ {0}
  BY WorkIs
<1>5. Owed(n, k) = "start" => Cleaned(n, k)
  <2>1. CASE n = "load"
    BY <1>4, <2>1 DEF Owed, Cleaned
  <2>2. CASE n = "seek"
    BY <1>4, <2>2 DEF Owed, Cleaned
  <2>3. CASE n \notin {"load", "seek"}
    BY <1>4, <2>3 DEF Owed, Works
  <2> QED
    BY <2>1, <2>2, <2>3
<1>6. Doing(j, e) = "read" => Waits(n, k)
  BY <1>3, <1>4, OwedWaits, Zenon
<1>7. Cleaned(n, k) => Holds0(n, k) = {} /\ Dirties0(n, k) = {}
  BY DEF Holds0, Dirties0
<1>8. /\ Waits(n, k) => "copied" \notin Holds0(n, k) /\ "direct" \notin Holds0(n, k)
      /\ Holds0(n, k) \subseteq Objects \ {"yDCAC"}
      /\ Dirties0(n, k) \subseteq {"frame", "cDCAC"}
  BY DEF Holds0, Dirties0, Objects
<1>9. /\ Holds1(j) \subseteq Objects \ {"frame", "cDCAC"}
      /\ Dirties1(j, e) \subseteq {"header", "rows", "copied", "yDCAC"}
  BY DEF Holds1, Dirties1, Objects
<1>10. j \in Int /\ Begin(e) \in Int /\ j <= e + 1
  BY DEF Begin
<1>11. /\ "header" \in Dirties1(j, e) \/ "rows" \in Dirties1(j, e) =>
            Doing(j, e) = "start"
       /\ "copied" \in Dirties1(j, e) => Doing(j, e) \in {"start", "read"}
       /\ "yDCAC" \in Dirties1(j, e) => Doing(j, e) = "luma"
  BY <1>10 DEF Dirties1, Doing
<1> QED
  BY <1>2, <1>3, <1>5, <1>6, <1>7, <1>8, <1>9, <1>11

(* What the two caches hold, each by itself.                               *)
LEMMA HoldsAre ==
  ASSUME NEW n, NEW k, NEW j, NEW e
  PROVE  /\ Holds(n, k, j)[0] = Holds0(n, k) /\ Holds(n, k, j)[1] = Holds1(j)
         /\ Dirties(n, k, j, e)[0] = Dirties0(n, k)
         /\ Dirties(n, k, j, e)[1] = Dirties1(j, e)
         /\ \A b \in Cores : b = 0 \/ b = 1
         /\ 0 \in Cores /\ 1 \in Cores
  BY DEF Holds, Dirties, Cores

(* Core 0 goes on and may hold and write what it did before.               *)
LEMMA Grow0 ==
  ASSUME NEW n, NEW k, NEW j, NEW e, Keeps(n, k), NEW b \in Cores
  PROVE  /\ Holds(n, k, j)[b] \subseteq Holds(n, k + 1, j)[b]
         /\ Dirties(n, k, j, e)[b] \subseteq Dirties(n, k + 1, j, e)[b]
  BY DEF Keeps, Holds, Dirties, Cores

(* Core 0 goes on, and asks for nothing.                                   *)
LEMMA Moves0 ==
  ASSUME NEW n \in Works, NEW e \in {15, 23},
         NEW k \in 1 .. End(n), NEW j \in Begin(e) .. e + 1, At(n, k, j, e),
         Quiet(n, k), Places(n, k + 1, j, e)', UNCHANGED <<mail, timer>>,
         dma' \subseteq Streams(n, k + 1),
         Memory(Holds(n, k + 1, j), Dirties(n, k + 1, j, e), Clear(j), Doing(j, e))'
  PROVE  CachesIInv'
<1>1. k + 1 \in 1 .. End(n) /\ Owed(n, k + 1) = Owed(n, k)
      /\ (Ticks(n, k) => Ticks(n, k + 1))
  BY DEF Quiet, Flows
<1>2. Pipeline(Owed(n, k + 1), Doing(j, e))'
  BY <1>1 DEF At, Pipeline, PipelineIs
<1>3. At(n, k + 1, j, e)'
  BY <1>1, <1>2 DEF At
<1> QED
  BY <1>1, <1>3 DEF CachesIInv

(* The step that core 0 begins fits, and takes it to the next place.       *)
LEMMA Begins0 ==
  ASSUME NEW n \in Works, NEW e \in {15, 23},
         NEW k \in 1 .. End(n), NEW j \in Begin(e) .. e + 1, At(n, k, j, e),
         NEW what, Begins(0, what)
  PROVE  /\ \E s : Fits0(n, k, s) /\ s.do = what /\ s.of = Arg(0)
         /\ Done(0) => Places(n, k + 1, j, e)'
         /\ Line \in Layouts /\ dma \subseteq Streams(n, k)
         /\ Pipeline(Owed(n, k), Doing(j, e))
         /\ Memory(Holds(n, k, j), Dirties(n, k, j, e), Clear(j), Doing(j, e))
<1>1. Places(n, k, j, e)
  BY DEF At
<1>2. /\ k \in 1 .. Len(Work(n))
      /\ Work(n)[k].do = what /\ Work(n)[k].of = Arg(0)
      /\ Done(0) => Places(n, k + 1, j, e)'
  BY <1>1, NextPlace0
<1>3. Fits0(n, k, Work(n)[k])
  BY <1>2, AllFit0
<1>4. /\ dma \subseteq Streams(n, k) /\ Pipeline(Owed(n, k), Doing(j, e))
      /\ Memory(Holds(n, k, j), Dirties(n, k, j, e), Clear(j), Doing(j, e))
  BY DEF At
<1>5. Line \in Layouts
  BY <1>4 DEF Memory
<1> QED
  BY <1>2, <1>3, <1>4, <1>5

(* Core 0 reads only what core 1 has nothing newer of on the line.         *)
LEMMA Apart0 ==
  ASSUME NEW n \in Works, NEW e \in {15, 23},
         NEW k \in 1 .. End(n), NEW j \in Begin(e) .. e + 1, At(n, k, j, e),
         Begins(0, "read")
  PROVE  /\ FitsRead(n, k, Arg(0)) /\ Arg(0) \in Objects
         /\ ~Mixed(Line[Arg(0)]) =>
              Apart(0, Arg(0), Dirties(n, k, j, e), Doing(j, e))
<1> DEFINE w == Arg(0)
           d == Dirties(n, k, j, e)
<1>1. PICK s : Fits0(n, k, s) /\ s.do = "read" /\ s.of = w
  BY Begins0
<1>2. FitsRead(n, k, w)
  BY <1>1 DEF Fits0
<1>3. /\ Owed(n, k) # "start" /\ w \in Objects \ {"yDCAC"}
      /\ w \in {"copied", "direct"} => ~Waits(n, k)
  BY <1>2 DEF FitsRead
<1>4. Line \in Layouts /\ Pipeline(Owed(n, k), Doing(j, e))
  BY Begins0
<1>5. ASSUME NEW v \in d[1], ~Mixed(Line[w])
      PROVE  v \in Objects /\ Line[v] # Line[w]
  <2>1. v \in Dirties1(j, e)
    BY <1>5, HoldsAre
  <2>2. Doing(j, e) # "start" /\ v \in {"copied", "yDCAC"}
        /\ (v = "copied" => Waits(n, k))
    BY <1>3, <1>4, <2>1, Sides
  <2> QED
    BY <1>3, <1>4, <1>5, <2>2, Sharing DEF Objects
<1>6. ~Mixed(Line[w]) => Apart(0, w, d, Doing(j, e))
  BY <1>5 DEF Apart
<1> QED
  BY <1>2, <1>3, <1>6

(* A read of core 0 keeps the invariant.                                   *)
LEMMA Read0 ==
  ASSUME NEW n \in Works, NEW e \in {15, 23},
         NEW k \in 1 .. End(n), NEW j \in Begin(e) .. e + 1, At(n, k, j, e),
         DoRead(0), UNCHANGED Line
  PROVE  CachesIInv'
<1> DEFINE w == Arg(0)
           h == Holds(n, k, j)
           d == Dirties(n, k, j, e)
           H == Holds(n, k + 1, j)
           D == Dirties(n, k + 1, j, e)
<1>0. /\ h[0] = Holds0(n, k) /\ h[1] = Holds1(j)
      /\ d[0] = Dirties0(n, k) /\ d[1] = Dirties1(j, e)
      /\ H[0] = Holds0(n, k + 1) /\ D[0] = Dirties0(n, k + 1) /\ 0 \in Cores
  BY HoldsAre
<1>1. Begins(0, "read")
  BY DEF DoRead
<1>3. /\ Done(0) => Places(n, k + 1, j, e)'
      /\ Line \in Layouts /\ dma \subseteq Streams(n, k)
      /\ Pipeline(Owed(n, k), Doing(j, e)) /\ Memory(h, d, Clear(j), Doing(j, e))
  BY <1>1, Begins0
<1>4. /\ FitsRead(n, k, w) /\ w \in Objects
      /\ ~Mixed(Line[w]) => Apart(0, w, d, Doing(j, e))
  BY <1>1, Apart0
<1>5. /\ Quiet(n, k) /\ Keeps(n, k) /\ w \in H[0]
      /\ Streams(n, k) \subseteq Streams(n, k + 1)
  BY <1>0, <1>4 DEF FitsRead
<1>8. \A b \in Cores : h[b] \subseteq H[b] /\ d[b] \subseteq D[b]
  BY <1>5, Grow0
<1>9. /\ UNCHANGED <<mem, dma, mail, timer>> /\ Done(0)
      /\ cache' = [cache EXCEPT ![0][Line[w]] = Filled(0, Line[w])]
  BY DEF DoRead
<1> HIDE DEF w, h, d, H, D
<1>10. Memory(H, D, Clear(j), Doing(j, e))'
  BY <1>0, <1>3, <1>4, <1>5, <1>8, <1>9, ReadMemory
<1> QED
  BY <1>3, <1>5, <1>9, <1>10, Moves0 DEF H, D

(* A write of core 0 keeps the invariant: core 1 holds no copy of the line *)
(* it needs.                                                               *)
LEMMA Write0 ==
  ASSUME NEW n \in Works, NEW e \in {15, 23},
         NEW k \in 1 .. End(n), NEW j \in Begin(e) .. e + 1, At(n, k, j, e),
         DoWrite(0), UNCHANGED Line
  PROVE  CachesIInv'
<1> DEFINE w == Arg(0)
           h == Holds(n, k, j)
           d == Dirties(n, k, j, e)
           H == Holds(n, k + 1, j)
           D == Dirties(n, k + 1, j, e)
<1>0. /\ h[0] = Holds0(n, k) /\ h[1] = Holds1(j)
      /\ d[0] = Dirties0(n, k) /\ d[1] = Dirties1(j, e)
      /\ H[0] = Holds0(n, k + 1) /\ D[0] = Dirties0(n, k + 1) /\ 0 \in Cores
  BY HoldsAre
<1>1. Begins(0, "write")
  BY DEF DoWrite
<1>2. PICK s : Fits0(n, k, s) /\ s.do = "write" /\ s.of = w
  BY <1>1, Begins0
<1>3. /\ Done(0) => Places(n, k + 1, j, e)'
      /\ Line \in Layouts /\ dma \subseteq Streams(n, k)
      /\ Pipeline(Owed(n, k), Doing(j, e)) /\ Memory(h, d, Clear(j), Doing(j, e))
  BY <1>1, Begins0
<1>4. FitsWrite(n, k, w)
  BY <1>2 DEF Fits0
<1>5. /\ Quiet(n, k) /\ Keeps(n, k) /\ Owed(n, k) # "start"
      /\ Streams(n, k) \subseteq Streams(n, k + 1)
      /\ w \in {"frame", "cDCAC"} /\ w \in H[0] /\ w \in D[0]
  BY <1>4, <1>0 DEF FitsWrite
<1>6. w \in Objects /\ Owner(w) = 0
  BY <1>5 DEF Objects, Owner
<1>7. Doing(j, e) # "start"
  BY <1>3, <1>5, Sides
<1>8. ASSUME NEW v \in d[1], ~Mixed(Line[w])
      PROVE  v \in Objects /\ Line[v] # Line[w]
  <2>1. v \in Dirties1(j, e)
    BY <1>8, <1>0
  <2>2. v \in {"copied", "yDCAC"}
    BY <1>3, <1>7, <2>1, Sides
  <2> QED
    BY <1>3, <1>5, <1>8, <2>2, Sharing DEF Objects
<1>9. ASSUME NEW v \in h[1], Line[v] = Line[w], ~Mixed(Line[w])
      PROVE  w = "frame"
  <2>1. v \in Holds1(j)
    BY <1>9, <1>0
  <2>2. v \in Objects \ {"frame", "cDCAC"}
    BY <1>3, <2>1, Sides
  <2> QED
    BY <1>3, <1>5, <1>9, <2>2, Sharing
<1>10. ~Mixed(Line[w]) => Alone(0, w, h, d, Doing(j, e))
  BY <1>7, <1>8, <1>9 DEF Alone
<1>11. \A b \in Cores : h[b] \subseteq H[b] /\ d[b] \subseteq D[b]
  BY <1>5, Grow0
<1>12. UNCHANGED <<dma, mail, timer>> /\ Done(0) /\ Store(0, w)
  BY DEF DoWrite
<1> HIDE DEF w, h, d, H, D
<1>13. Memory(H, D, Clear(j), Doing(j, e))'
  BY <1>3, <1>5, <1>6, <1>10, <1>11, <1>12, StoreMemory, <1>0
<1> QED
  BY <1>3, <1>5, <1>12, <1>13, Moves0 DEF H, D

(* A flush of core 0 keeps the invariant.                                  *)
LEMMA Flush0 ==
  ASSUME NEW n \in Works, NEW e \in {15, 23},
         NEW k \in 1 .. End(n), NEW j \in Begin(e) .. e + 1, At(n, k, j, e),
         DoFlush(0), UNCHANGED Line
  PROVE  CachesIInv'
<1> DEFINE w == Arg(0)
           h == Holds(n, k, j)
           d == Dirties(n, k, j, e)
           H == Holds(n, k + 1, j)
           D == Dirties(n, k + 1, j, e)
<1>0. /\ h[0] = Holds0(n, k) /\ h[1] = Holds1(j)
      /\ d[0] = Dirties0(n, k) /\ d[1] = Dirties1(j, e)
      /\ H[0] = Holds0(n, k + 1) /\ D[0] = Dirties0(n, k + 1) /\ 0 \in Cores
  BY HoldsAre
<1>1. Begins(0, "flush")
  BY DEF DoFlush
<1>2. PICK s : Fits0(n, k, s) /\ s.do = "flush" /\ s.of = w
  BY <1>1, Begins0
<1>3. /\ Done(0) => Places(n, k + 1, j, e)'
      /\ Line \in Layouts /\ dma \subseteq Streams(n, k)
      /\ Pipeline(Owed(n, k), Doing(j, e)) /\ Memory(h, d, Clear(j), Doing(j, e))
  BY <1>1, Begins0
<1>4. FitsFlush(n, k, w)
  BY <1>2 DEF Fits0
<1>5. /\ Quiet(n, k) /\ Streams(n, k) \subseteq Streams(n, k + 1)
      /\ w \in {"cDCAC", Everything}
      /\ w = "cDCAC" => /\ Holds0(n, k) \subseteq Holds0(n, k + 1)
                        /\ Dirties0(n, k) \ {w} \subseteq Dirties0(n, k + 1)
  BY <1>4 DEF FitsFlush
<1> DEFINE ls == IF w = Everything THEN Lines ELSE {Line[w]}
<1>6. WriteBack(0, ls) /\ Drop(0, ls) /\ Done(0)
      /\ UNCHANGED <<dma, mail, timer>>
  BY DEF DoFlush
<1>7. ls \subseteq Lines
  BY <1>5, LinesOfObjects DEF Objects
<1>8. Holds0(n, k) \subseteq Objects /\ Dirties0(n, k) \subseteq Objects
  <2>1. Holds0(n, k) \subseteq Objects \ {"yDCAC"}
        /\ Dirties0(n, k) \subseteq {"frame", "cDCAC"}
    BY <1>3, Sides
  <2> QED
    BY <2>1 DEF Objects
<1>9. /\ \A v \in h[0] : Line[v] \in ls \/ v \in H[0]
      /\ \A v \in d[0] : Line[v] \in ls \/ v \in D[0]
  <2>1. CASE w = Everything
    BY <1>8, <2>1, <1>0, LinesOfObjects
  <2>2. CASE w = "cDCAC" /\ w # Everything
    <3>1. ls = {Line["cDCAC"]}
      BY <2>2
    <3> QED
      BY <1>5, <2>2, <3>1, <1>0
  <2> QED
    BY <1>5, <2>1, <2>2
<1>10. /\ \A b \in Cores : b # 0 => h[b] \subseteq H[b] /\ d[b] \subseteq D[b]
       /\ Clear(j) \subseteq Objects
  BY DEF Holds, Dirties, Cores, Clear, Objects
<1> HIDE DEF w, h, d, H, D, ls
<1>11. Memory(H, D, Clear(j), Doing(j, e))'
  BY <1>3, <1>6, <1>7, <1>9, <1>10, FlushMemory, <1>0
<1> QED
  BY <1>3, <1>5, <1>6, <1>11, Moves0 DEF H, D

(* Core 0 drops what the controller has written and keeps the invariant:   *)
(* none of it is dirty.                                                    *)
LEMMA Drop0 ==
  ASSUME NEW n \in Works, NEW e \in {15, 23},
         NEW k \in 1 .. End(n), NEW j \in Begin(e) .. e + 1, At(n, k, j, e),
         DoDrop(0), UNCHANGED Line
  PROVE  CachesIInv'
<1> DEFINE w == Arg(0)
           h == Holds(n, k, j)
           d == Dirties(n, k, j, e)
           H == Holds(n, k + 1, j)
           D == Dirties(n, k + 1, j, e)
<1>0. /\ h[0] = Holds0(n, k) /\ h[1] = Holds1(j)
      /\ d[0] = Dirties0(n, k) /\ d[1] = Dirties1(j, e)
      /\ H[0] = Holds0(n, k + 1) /\ D[0] = Dirties0(n, k + 1) /\ 0 \in Cores
  BY HoldsAre
<1>1. Begins(0, "drop")
  BY DEF DoDrop
<1>2. PICK s : Fits0(n, k, s) /\ s.do = "drop" /\ s.of = w
  BY <1>1, Begins0
<1>3. /\ Done(0) => Places(n, k + 1, j, e)'
      /\ Line \in Layouts /\ dma \subseteq Streams(n, k)
      /\ Pipeline(Owed(n, k), Doing(j, e)) /\ Memory(h, d, Clear(j), Doing(j, e))
  BY <1>1, Begins0
<1>4. FitsDrop(n, k, w)
  BY <1>2 DEF Fits0
<1>5. /\ Quiet(n, k) /\ Keeps(n, k)
      /\ Streams(n, k) \subseteq Streams(n, k + 1)
      /\ w = "direct" /\ Dirties0(n, k) = {"frame"}
  BY <1>4 DEF FitsDrop
<1>6. /\ Drop(0, {Line[w]}) /\ Done(0)
      /\ UNCHANGED <<mem, dma, mail, timer>>
  BY DEF DoDrop
<1>7. \A v \in d[0] : Line[v] \notin {Line[w]}
  <2>1. Line["frame"] # Line["direct"]
    BY <1>3, Sharing DEF Objects
  <2> QED
    BY <1>5, <2>1, <1>0
<1>8. \A b \in Cores : h[b] \subseteq H[b] /\ d[b] \subseteq D[b]
  BY <1>5, Grow0
<1> HIDE DEF w, h, d, H, D
<1>9. Memory(H, D, Clear(j), Doing(j, e))'
  BY <1>3, <1>6, <1>7, <1>8, NoWriteBackMemory, <1>0
<1> QED
  BY <1>3, <1>5, <1>6, <1>9, Moves0 DEF H, D

(* The start of the accelerator on a flushed buffer keeps the invariant.   *)
LEMMA Start0 ==
  ASSUME NEW n \in Works, NEW e \in {15, 23},
         NEW k \in 1 .. End(n), NEW j \in Begin(e) .. e + 1, At(n, k, j, e),
         DoStart(0), UNCHANGED Line
  PROVE  CachesIInv'
<1> DEFINE w == Arg(0)
           h == Holds(n, k, j)
           d == Dirties(n, k, j, e)
           H == Holds(n, k + 1, j)
           D == Dirties(n, k + 1, j, e)
<1>0. /\ h[0] = Holds0(n, k) /\ h[1] = Holds1(j)
      /\ d[0] = Dirties0(n, k) /\ d[1] = Dirties1(j, e)
      /\ H[0] = Holds0(n, k + 1) /\ D[0] = Dirties0(n, k + 1) /\ 0 \in Cores
  BY HoldsAre
<1>1. Begins(0, "start")
  BY DEF DoStart
<1>2. PICK s : Fits0(n, k, s) /\ s.do = "start" /\ s.of = w
  BY <1>1, Begins0
<1>3. /\ Done(0) => Places(n, k + 1, j, e)'
      /\ Line \in Layouts /\ dma \subseteq Streams(n, k)
      /\ Pipeline(Owed(n, k), Doing(j, e)) /\ Memory(h, d, Clear(j), Doing(j, e))
  BY <1>1, Begins0
<1>4. FitsStart(n, k, w)
  BY <1>2 DEF Fits0
<1>5. /\ Quiet(n, k) /\ Keeps(n, k)
      /\ Streams(n, k) \cup {w} \subseteq Streams(n, k + 1)
  BY <1>4 DEF FitsStart
<1>6. /\ dma' = dma \cup {w} /\ Done(0)
      /\ UNCHANGED <<mem, cache, mail, timer>>
  BY DEF DoStart
<1>7. \A b \in Cores : h[b] \subseteq H[b] /\ d[b] \subseteq D[b]
  BY <1>5, Grow0
<1> HIDE DEF w, h, d, H, D
<1>8. Memory(H, D, Clear(j), Doing(j, e))'
  BY <1>3, <1>6, <1>7, SameMemory
<1>9. dma' \subseteq Streams(n, k + 1)
  BY <1>3, <1>5, <1>6
<1> QED
  BY <1>3, <1>5, <1>6, <1>8, <1>9, Moves0 DEF H, D

(* The wait for the accelerator keeps the invariant.                       *)
LEMMA Wait0 ==
  ASSUME NEW n \in Works, NEW e \in {15, 23},
         NEW k \in 1 .. End(n), NEW j \in Begin(e) .. e + 1, At(n, k, j, e),
         DoWait(0), UNCHANGED Line
  PROVE  CachesIInv'
<1> DEFINE w == Arg(0)
           h == Holds(n, k, j)
           d == Dirties(n, k, j, e)
           H == Holds(n, k + 1, j)
           D == Dirties(n, k + 1, j, e)
<1>0. /\ h[0] = Holds0(n, k) /\ h[1] = Holds1(j)
      /\ d[0] = Dirties0(n, k) /\ d[1] = Dirties1(j, e)
      /\ H[0] = Holds0(n, k + 1) /\ D[0] = Dirties0(n, k + 1) /\ 0 \in Cores
  BY HoldsAre
<1>1. Begins(0, "wait")
  BY DEF DoWait
<1>2. PICK s : Fits0(n, k, s) /\ s.do = "wait" /\ s.of = w
  BY <1>1, Begins0
<1>3. /\ Done(0) => Places(n, k + 1, j, e)'
      /\ Line \in Layouts /\ dma \subseteq Streams(n, k)
      /\ Pipeline(Owed(n, k), Doing(j, e)) /\ Memory(h, d, Clear(j), Doing(j, e))
  BY <1>1, Begins0
<1>4. FitsWait(n, k, w)
  BY <1>2 DEF Fits0
<1>5. /\ Quiet(n, k) /\ Keeps(n, k)
      /\ Streams(n, k) \ w \subseteq Streams(n, k + 1)
  BY <1>4 DEF FitsWait
<1>6. /\ dma \cap w = {} /\ Done(0)
      /\ UNCHANGED <<mem, cache, dma, mail, timer>>
  BY DEF DoWait
<1>7. \A b \in Cores : h[b] \subseteq H[b] /\ d[b] \subseteq D[b]
  BY <1>5, Grow0
<1> HIDE DEF w, h, d, H, D
<1>8. Memory(H, D, Clear(j), Doing(j, e))'
  BY <1>3, <1>6, <1>7, SameMemory
<1>9. dma' \subseteq Streams(n, k + 1)
  BY <1>3, <1>5, <1>6
<1> QED
  BY <1>3, <1>5, <1>6, <1>8, <1>9, Moves0 DEF H, D

(* Any place there is will do.                                             *)
LEMMA Arrives ==
  ASSUME NEW n \in Works, NEW e \in {15, 23},
         NEW k \in 1 .. End(n), NEW j \in Begin(e) .. e + 1, At(n, k, j, e)'
  PROVE  CachesIInv'
  BY DEF CachesIInv

(* Switching the timer on or off keeps the invariant.                      *)
LEMMA Timer0 ==
  ASSUME NEW n \in Works, NEW e \in {15, 23},
         NEW k \in 1 .. End(n), NEW j \in Begin(e) .. e + 1, At(n, k, j, e),
         DoTimer(0), UNCHANGED Line
  PROVE  CachesIInv'
<1> DEFINE w == Arg(0)
           h == Holds(n, k, j)
           d == Dirties(n, k, j, e)
           H == Holds(n, k + 1, j)
           D == Dirties(n, k + 1, j, e)
<1>0. /\ h[0] = Holds0(n, k) /\ h[1] = Holds1(j)
      /\ d[0] = Dirties0(n, k) /\ d[1] = Dirties1(j, e)
      /\ H[0] = Holds0(n, k + 1) /\ D[0] = Dirties0(n, k + 1) /\ 0 \in Cores
  BY HoldsAre
<1>1. Begins(0, "timer")
  BY DEF DoTimer
<1>2. PICK s : Fits0(n, k, s) /\ s.do = "timer" /\ s.of = w
  BY <1>1, Begins0
<1>3. /\ Done(0) => Places(n, k + 1, j, e)'
      /\ Line \in Layouts /\ dma \subseteq Streams(n, k)
      /\ Pipeline(Owed(n, k), Doing(j, e)) /\ Memory(h, d, Clear(j), Doing(j, e))
  BY <1>1, Begins0
<1>4. FitsTimer(n, k, w)
  BY <1>2 DEF Fits0
<1>5. /\ k + 1 \in 1 .. End(n) /\ Owed(n, k + 1) = Owed(n, k) /\ Keeps(n, k)
      /\ Streams(n, k) \subseteq Streams(n, k + 1)
      /\ w \in BOOLEAN /\ (w => Ticks(n, k + 1))
  BY <1>4 DEF FitsTimer
<1>6. /\ timer' = w /\ Done(0) /\ UNCHANGED <<mem, cache, dma, mail>>
  BY DEF DoTimer
<1>7. \A b \in Cores : h[b] \subseteq H[b] /\ d[b] \subseteq D[b]
  BY <1>5, Grow0
<1> HIDE DEF w, h, d, H, D
<1>8. Memory(H, D, Clear(j), Doing(j, e))'
  BY <1>3, <1>6, <1>7, SameMemory
<1>9. Pipeline(Owed(n, k + 1), Doing(j, e))'
  BY <1>3, <1>5, <1>6 DEF Pipeline, PipelineIs
<1>10. At(n, k + 1, j, e)'
  BY <1>3, <1>5, <1>6, <1>8, <1>9 DEF At, H, D
<1> QED
  BY <1>5, <1>10, Arrives

(* The mailboxes.                                                          *)
Mail == [Cores -> {<<>>} \cup {<<m>> : m \in Messages}]

(* There are two cores.                                                    *)
LEMMA TwoCores ==
  /\ 0 \in Cores /\ 1 \in Cores /\ 0 # 1
  /\ \A c \in Cores : c = 0 \/ c = 1
  BY DEF Cores

(* What core 0 asks for enters the pipeline at its end.                    *)
LEMMA PostMail ==
  ASSUME mail \in Mail, NEW owed, NEW next, NEW doing, NEW m \in Messages,
         Pipeline(owed, doing), mail[1] = <<>>, mail' = [mail EXCEPT ![1] = <<m>>],
         \/ /\ owed = "nothing" /\ m \in {"READ_NEXT_FILE", "SEEK_VIDEO"}
            /\ next = "start"
         \/ /\ owed = "nothing" /\ m = "OK_TO_READ_NEXT_FRAME"
            /\ next = "read"
         \/ /\ owed = "read" /\ m = "OK_TO_LD_Y"
            /\ next = "read, luma"
         \/ /\ owed = "luma" /\ m = "OK_TO_READ_NEXT_FRAME"
            /\ next = "luma, read"
  PROVE  mail' \in Mail /\ Pipeline(next, doing)'
<1>1. mail'[1] = <<m>> /\ mail'[0] = mail[0] /\ mail' \in Mail
  <2>1. PICK B : B = {<<>>} \cup {<<x>> : x \in Messages}
    OBVIOUS
  <2>2. <<m>> \in B
    BY <2>1
  <2>3. mail \in [Cores -> B]
    BY <2>1 DEF Mail
  <2>4. mail' \in [Cores -> B] /\ mail'[1] = <<m>> /\ mail'[0] = mail[0]
    BY <2>2, <2>3, TwoCores
  <2> QED
    BY <2>1, <2>4 DEF Mail
<1>2. <<>> # OkToRead /\ <<>> # OkToLuma
  BY DEF OkToRead, OkToLuma
<1>3. CASE owed = "nothing" /\ m \in {"READ_NEXT_FILE", "SEEK_VIDEO"} /\ next = "start"
  BY <1>1, <1>3 DEF Pipeline, PipelineIs
<1>4. CASE owed = "nothing" /\ m = "OK_TO_READ_NEXT_FRAME" /\ next = "read"
  BY <1>1, <1>4 DEF Pipeline, PipelineIs, OkToRead
<1>5. CASE owed = "read" /\ m = "OK_TO_LD_Y" /\ next = "read, luma"
  <2>1. <<m>> = OkToLuma
    BY <1>5 DEF OkToLuma
  <2> QED
    BY <1>1, <1>2, <1>5, <2>1 DEF Pipeline, PipelineIs
<1>6. CASE owed = "luma" /\ m = "OK_TO_READ_NEXT_FRAME" /\ next = "luma, read"
  <2>1. <<m>> = OkToRead
    BY <1>6 DEF OkToRead
  <2> QED
    BY <1>1, <1>2, <1>6, <2>1 DEF Pipeline, PipelineIs
<1> QED
  BY <1>1, <1>3, <1>4, <1>5, <1>6

(* What core 0 receives leaves the pipeline at its front.                  *)
LEMMA RecvMail ==
  ASSUME mail \in Mail, NEW owed, NEW next, NEW doing, NEW m,
         Pipeline(owed, doing), mail[0] = <<m>>, mail' = [mail EXCEPT ![0] = <<>>],
         \/ /\ owed \in {"start", "read, luma"} /\ m = "DONE_READ_NEXT_FRAME"
            /\ next = "luma"
         \/ owed = "luma" /\ m = "DONE_LD_Y" /\ next = "nothing"
         \/ owed = "luma, read" /\ m = "DONE_LD_Y" /\ next = "read"
  PROVE  mail' \in Mail /\ Pipeline(next, doing)'
<1>1. mail'[0] = <<>> /\ mail'[1] = mail[1] /\ mail' \in Mail
  <2>1. PICK B : B = {<<>>} \cup {<<x>> : x \in Messages}
    OBVIOUS
  <2>2. <<>> \in B
    BY <2>1
  <2>3. mail \in [Cores -> B]
    BY <2>1 DEF Mail
  <2>4. mail' \in [Cores -> B] /\ mail'[0] = <<>> /\ mail'[1] = mail[1]
    BY <2>2, <2>3, TwoCores
  <2> QED
    BY <2>1, <2>4 DEF Mail
<1>2. <<m>> # <<>>
  OBVIOUS
<1>3. CASE m = "DONE_READ_NEXT_FRAME"
  <2>1. DoneLuma # <<m>>
    BY <1>3 DEF DoneLuma
  <2> QED
    BY <1>1, <1>2, <1>3, <2>1 DEF Pipeline, PipelineIs
<1>4. CASE m = "DONE_LD_Y"
  <2>1. DoneRead # <<m>>
    BY <1>4 DEF DoneRead
  <2> QED
    BY <1>1, <1>2, <1>4, <2>1 DEF Pipeline, PipelineIs
<1> QED
  BY <1>3, <1>4

(* A request of core 0 keeps the invariant.                                *)
LEMMA Post0 ==
  ASSUME NEW n \in Works, NEW e \in {15, 23},
         NEW k \in 1 .. End(n), NEW j \in Begin(e) .. e + 1, At(n, k, j, e),
         DoPost(0), UNCHANGED Line
  PROVE  CachesIInv'
<1> DEFINE w == Arg(0)
           h == Holds(n, k, j)
           d == Dirties(n, k, j, e)
           H == Holds(n, k + 1, j)
           D == Dirties(n, k + 1, j, e)
<1>0. /\ h[0] = Holds0(n, k) /\ h[1] = Holds1(j)
      /\ d[0] = Dirties0(n, k) /\ d[1] = Dirties1(j, e)
      /\ H[0] = Holds0(n, k + 1) /\ D[0] = Dirties0(n, k + 1) /\ 0 \in Cores
  BY HoldsAre
<1>1. Begins(0, "post")
  BY DEF DoPost
<1>2. PICK s : Fits0(n, k, s) /\ s.do = "post" /\ s.of = w
  BY <1>1, Begins0
<1>3. /\ Done(0) => Places(n, k + 1, j, e)'
      /\ Line \in Layouts /\ dma \subseteq Streams(n, k)
      /\ Pipeline(Owed(n, k), Doing(j, e)) /\ Memory(h, d, Clear(j), Doing(j, e))
  BY <1>1, Begins0
<1>4. FitsPost(n, k, w)
  BY <1>2 DEF Fits0
<1>5. /\ Flows(n, k) /\ Keeps(n, k)
      /\ Streams(n, k) \subseteq Streams(n, k + 1)
  BY <1>4 DEF FitsPost
<1>6. k + 1 \in 1 .. End(n) /\ (Ticks(n, k) => Ticks(n, k + 1))
  BY <1>5 DEF Flows
<1>7. /\ mail[1] = <<>> /\ mail' = [mail EXCEPT ![1] = <<w>>] /\ Done(0)
      /\ UNCHANGED <<mem, cache, dma, timer>>
  BY DEF DoPost
<1>8. mail \in Mail
  BY DEF At, Mail
<1>9. \A b \in Cores : h[b] \subseteq H[b] /\ d[b] \subseteq D[b]
  BY <1>5, Grow0
<1> HIDE DEF w, h, d, H, D
<1>10. Memory(H, D, Clear(j), Doing(j, e))'
  BY <1>3, <1>7, <1>9, SameMemory
<1>11. mail' \in Mail /\ Pipeline(Owed(n, k + 1), Doing(j, e))'
  BY <1>3, <1>4, <1>7, <1>8, PostMail DEF FitsPost
<1>12. At(n, k + 1, j, e)'
  BY <1>3, <1>5, <1>6, <1>7, <1>10, <1>11 DEF At, H, D, Mail
<1> QED
  BY <1>6, <1>12, Arrives

(* The receipt of a reply by core 0 keeps the invariant.                   *)
LEMMA Recv0 ==
  ASSUME NEW n \in Works, NEW e \in {15, 23},
         NEW k \in 1 .. End(n), NEW j \in Begin(e) .. e + 1, At(n, k, j, e),
         DoRecv(0), UNCHANGED Line
  PROVE  CachesIInv'
<1> DEFINE w == Arg(0)
           h == Holds(n, k, j)
           d == Dirties(n, k, j, e)
           H == Holds(n, k + 1, j)
           D == Dirties(n, k + 1, j, e)
<1>0. /\ h[0] = Holds0(n, k) /\ h[1] = Holds1(j)
      /\ d[0] = Dirties0(n, k) /\ d[1] = Dirties1(j, e)
      /\ H[0] = Holds0(n, k + 1) /\ D[0] = Dirties0(n, k + 1) /\ 0 \in Cores
  BY HoldsAre
<1>1. Begins(0, "recv")
  BY DEF DoRecv
<1>2. PICK s : Fits0(n, k, s) /\ s.do = "recv" /\ s.of = w
  BY <1>1, Begins0
<1>3. /\ Done(0) => Places(n, k + 1, j, e)'
      /\ Line \in Layouts /\ dma \subseteq Streams(n, k)
      /\ Pipeline(Owed(n, k), Doing(j, e)) /\ Memory(h, d, Clear(j), Doing(j, e))
  BY <1>1, Begins0
<1>4. FitsRecv(n, k, w)
  BY <1>2 DEF Fits0
<1>5. /\ Flows(n, k) /\ Keeps(n, k)
      /\ Streams(n, k) \subseteq Streams(n, k + 1)
  BY <1>4 DEF FitsRecv
<1>6. k + 1 \in 1 .. End(n) /\ (Ticks(n, k) => Ticks(n, k + 1))
  BY <1>5 DEF Flows
<1>7. /\ mail[0] = <<w>> /\ mail' = [mail EXCEPT ![0] = <<>>] /\ Done(0)
      /\ UNCHANGED <<mem, cache, dma, timer>>
  BY DEF DoRecv
<1>8. mail \in Mail
  BY DEF At, Mail
<1>9. \A b \in Cores : h[b] \subseteq H[b] /\ d[b] \subseteq D[b]
  BY <1>5, Grow0
<1> HIDE DEF w, h, d, H, D
<1>10. Memory(H, D, Clear(j), Doing(j, e))'
  BY <1>3, <1>7, <1>9, SameMemory
<1>11. mail' \in Mail /\ Pipeline(Owed(n, k + 1), Doing(j, e))'
  BY <1>3, <1>4, <1>7, <1>8, RecvMail DEF FitsRecv
<1>12. At(n, k + 1, j, e)'
  BY <1>3, <1>5, <1>6, <1>7, <1>10, <1>11 DEF At, H, D, Mail
<1> QED
  BY <1>6, <1>12, Arrives

(* Core 0 begins another work, for which nothing has changed.              *)
LEMMA NewWork ==
  ASSUME NEW n \in Works, NEW e \in {15, 23},
         NEW k \in 1 .. End(n), NEW j \in Begin(e) .. e + 1, At(n, k, j, e),
         NEW m \in Works, todo' = [todo EXCEPT ![0] = Work(m)],
         UNCHANGED <<Line, mem, cache, dma, mail, timer>>,
         Owed(m, 1) = Owed(n, k), Streams(n, k) = {}, timer => Ticks(m, 1),
         Holds0(n, k) \subseteq Holds0(m, 1), Dirties0(n, k) \subseteq Dirties0(m, 1)
  PROVE  CachesIInv'
<1>1. Work(m) = SubSeq(Work(m), 1, Len(Work(m))) /\ 1 \in 1 .. End(m)
  BY WorkIs, SubSeqFull
<1>2. Places(m, 1, j, e)'
  <2>1. todo = [c \in Cores |-> todo[c]] /\ todo[1] = SubSeq(Job, j, e)
    BY DEF At, Places
  <2>2. todo' = [c \in Cores |-> todo'[c]] /\ todo'[1] = todo[1] /\ todo'[0] = Work(m)
    BY <2>1, TwoCores
  <2> QED
    BY <1>1, <2>1, <2>2 DEF Places
<1>3. /\ mail \in Mail /\ timer \in BOOLEAN
      /\ Pipeline(Owed(n, k), Doing(j, e)) /\ dma \subseteq {}
      /\ Memory(Holds(n, k, j), Dirties(n, k, j, e), Clear(j), Doing(j, e))
  BY DEF At, Mail
<1>4. \A b \in Cores : /\ Holds(n, k, j)[b] \subseteq Holds(m, 1, j)[b]
                       /\ Dirties(n, k, j, e)[b] \subseteq Dirties(m, 1, j, e)[b]
  BY DEF Holds, Dirties, Cores
<1>5. Memory(Holds(m, 1, j), Dirties(m, 1, j, e), Clear(j), Doing(j, e))'
  BY <1>3, <1>4, SameMemory
<1>6. Pipeline(Owed(m, 1), Doing(j, e))'
  BY <1>3 DEF Pipeline, PipelineIs
<1>7. At(m, 1, j, e)'
  BY <1>2, <1>3, <1>5, <1>6 DEF At, Mail
<1> QED
  BY <1>1, <1>7, Arrives

(* A new round of the loop of playVideo, another one or the last, keeps    *)
(* the invariant.                                                          *)
LEMMA Round0 ==
  ASSUME NEW n \in Works, NEW e \in {15, 23},
         NEW k \in 1 .. End(n), NEW j \in Begin(e) .. e + 1, At(n, k, j, e),
         DoRound(0), UNCHANGED Line
  PROVE  CachesIInv'
<1>1. Begins(0, "round") /\ UNCHANGED <<mem, cache, dma, mail, timer>>
  BY DEF DoRound
<1>2. PICK s : Fits0(n, k, s) /\ s.do = "round"
  BY <1>1, Begins0
<1>3. FitsRound(n, k)
  BY <1>2 DEF Fits0
<1>4. PICK m \in {"more", "last"} : todo' = [todo EXCEPT ![0] = Work(m)]
  <2>1. Work("more") = Round(TRUE) \o <<Step("round", TRUE)>>
    BY DEF Work, More, RoundMore, NextRound
  <2>2. Work("last") = Round(FALSE) \o playVideoEnd
    BY DEF Work, Last, RoundLast
  <2>3. \/ todo' = [todo EXCEPT ![0] = Round(TRUE) \o <<Step("round", TRUE)>>]
        \/ todo' = [todo EXCEPT ![0] = Round(FALSE) \o playVideoEnd]
    BY DEF DoRound
  <2> QED
    BY <2>1, <2>2, <2>3
<1>5. /\ Owed(m, 1) = "read, luma"
      /\ Holds0(m, 1) = {"header", "frame", "rows", "moreRows", "cDCAC"}
      /\ Dirties0(m, 1) = {"frame"} /\ Ticks(m, 1) /\ m \in Works
  <2>1. CASE m = "more"
    BY <2>1 DEF Owed, Holds0, Dirties0, Cleaned, Waits, Decodes, Ticks, Works
  <2>2. CASE m = "last"
    BY <2>2 DEF Owed, Holds0, Dirties0, Cleaned, Waits, Decodes, Ticks, Works
  <2> QED
    BY <2>1, <2>2
<1> QED
  BY <1>1, <1>3, <1>4, <1>5, NewWork DEF FitsRound

(* What core 0 begins on a button keeps the invariant: it has nothing      *)
(* under way.                                                              *)
LEMMA Button0 ==
  ASSUME NEW n \in Works, NEW e \in {15, 23},
         NEW k \in 1 .. End(n), NEW j \in Begin(e) .. e + 1, At(n, k, j, e),
         Button, UNCHANGED Line
  PROVE  CachesIInv'
<1>1. todo[0] = <<>> /\ UNCHANGED <<mem, cache, dma, mail, timer>>
  BY DEF Button
<1>2. n \in {"load", "seek", "last"} /\ k = End(n)
  BY <1>1, Finished DEF At
<1>3. PICK m \in {"load", "seek", "play"} : todo' = [todo EXCEPT ![0] = Work(m)]
  <2>1. /\ Work("load") = loadVideo /\ Work("seek") = seekVideo
        /\ Work("play") = playVideo
    BY DEF Work
  <2> QED
    BY <2>1 DEF Button
<1>4. /\ Owed(m, 1) = "nothing"
      /\ Holds0(m, 1) = {"header", "frame", "rows", "moreRows", "cDCAC"}
                         \cup {"copied", "direct"}
      /\ Dirties0(m, 1) = {"frame"} /\ m \in Works
  BY DEF Owed, Holds0, Dirties0, Cleaned, Waits, Decodes, Works
<1>5. /\ Owed(n, k) = "nothing" /\ Streams(n, k) = {} /\ ~Ticks(n, k)
      /\ Holds0(n, k) = {"header", "frame", "rows", "moreRows", "cDCAC"}
                         \cup {"copied", "direct"}
      /\ Dirties0(n, k) = {"frame"}
  <2>1. CASE n = "load"
    BY <1>2, <2>1
       DEF End, Owed, Streams, Ticks, Holds0, Dirties0, Cleaned, Waits, Decodes
  <2>2. CASE n = "seek"
    BY <1>2, <2>2
       DEF End, Owed, Streams, Ticks, Holds0, Dirties0, Cleaned, Waits, Decodes
  <2>3. CASE n = "last"
    BY <1>2, <2>3
       DEF End, Owed, Streams, Ticks, Holds0, Dirties0, Cleaned, Waits, Decodes
  <2> QED
    BY <1>2, <2>1, <2>2, <2>3
<1>6. ~timer
  BY <1>5 DEF At
<1> QED
  BY <1>1, <1>3, <1>4, <1>5, <1>6, NewWork

(* Core 1 goes on and may hold and write what it did before.               *)
LEMMA Grow1 ==
  ASSUME NEW n, NEW k, NEW j, NEW e, Keeps1(j, e), NEW b \in Cores
  PROVE  /\ Holds(n, k, j)[b] \subseteq Holds(n, k, j + 1)[b]
         /\ Dirties(n, k, j, e)[b] \subseteq Dirties(n, k, j + 1, e)[b]
  BY DEF Keeps1, Holds, Dirties, Cores

(* The step that core 1 begins fits, and takes it to the next place.       *)
LEMMA Begins1 ==
  ASSUME NEW n \in Works, NEW e \in {15, 23},
         NEW k \in 1 .. End(n), NEW j \in Begin(e) .. e + 1, At(n, k, j, e),
         NEW what, Begins(1, what)
  PROVE  /\ \E s : Fits1(j, e, s) /\ s.do = what /\ s.of = Arg(1)
         /\ Done(1) => Places(n, k, j + 1, e)'
         /\ j + 1 \in Begin(e) .. e + 1
         /\ Line \in Layouts /\ Pipeline(Owed(n, k), Doing(j, e))
         /\ Memory(Holds(n, k, j), Dirties(n, k, j, e), Clear(j), Doing(j, e))
<1>1. Places(n, k, j, e)
  BY DEF At
<1>2. /\ j \in Begin(e) .. e
      /\ Job[j].do = what /\ Job[j].of = Arg(1)
      /\ Done(1) => Places(n, k, j + 1, e)'
  BY <1>1, NextPlace1
<1>3. Fits1(j, e, Job[j])
  BY <1>2, JobFits
<1>4. /\ Pipeline(Owed(n, k), Doing(j, e))
      /\ Memory(Holds(n, k, j), Dirties(n, k, j, e), Clear(j), Doing(j, e))
  BY DEF At
<1>5. Line \in Layouts
  BY <1>4 DEF Memory
<1>6. j + 1 \in Begin(e) .. e + 1
  BY <1>2, JobBegins
<1> QED
  BY <1>2, <1>3, <1>4, <1>5, <1>6

(* Core 1 goes on, and replies nothing.                                    *)
LEMMA Moves1 ==
  ASSUME NEW n \in Works, NEW e \in {15, 23},
         NEW k \in 1 .. End(n), NEW j \in Begin(e) .. e + 1, At(n, k, j, e),
         j + 1 \in Begin(e) .. e + 1, Doing(j + 1, e) = Doing(j, e),
         Places(n, k, j + 1, e)', UNCHANGED <<mail, timer, dma>>,
         Memory(Holds(n, k, j + 1), Dirties(n, k, j + 1, e), Clear(j + 1), Doing(j, e))'
  PROVE  CachesIInv'
<1>1. Pipeline(Owed(n, k), Doing(j + 1, e))'
  BY DEF At, Pipeline, PipelineIs
<1>2. At(n, k, j + 1, e)'
  BY <1>1 DEF At
<1> QED
  BY <1>2, Arrives

(* Core 1 reads only what core 0 has nothing newer of on the line, but for *)
(* the frame counters.                                                     *)
LEMMA Apart1 ==
  ASSUME NEW n \in Works, NEW e \in {15, 23},
         NEW k \in 1 .. End(n), NEW j \in Begin(e) .. e + 1, At(n, k, j, e),
         Begins(1, "read")
  PROVE  /\ FitsRead1(j, e, Arg(1)) /\ Arg(1) \in Objects \ {"frame"}
         /\ ~Mixed(Line[Arg(1)]) =>
              Apart(1, Arg(1), Dirties(n, k, j, e), Doing(j, e))
<1> DEFINE w == Arg(1)
           d == Dirties(n, k, j, e)
<1>1. PICK s : Fits1(j, e, s) /\ s.do = "read" /\ s.of = w
  BY Begins1
<1>2. FitsRead1(j, e, w)
  BY <1>1 DEF Fits1
<1>3. w \in {"header", "copied", "direct", "yDCAC"}
  BY <1>2 DEF FitsRead1
<1>4. Line \in Layouts /\ Pipeline(Owed(n, k), Doing(j, e))
  BY Begins1
<1>5. ASSUME NEW v \in d[0], ~Mixed(Line[w])
      PROVE  /\ v \in Objects
             /\ Line[v] = Line[w] => Doing(j, e) # "start" /\ v = "frame"
  <2>1. v \in Dirties0(n, k)
    BY <1>5, HoldsAre
  <2>2. v \in {"frame", "cDCAC"} /\ Doing(j, e) # "start"
    BY <1>4, <2>1, Sides
  <2> QED
    BY <1>3, <1>4, <1>5, <2>2, Sharing DEF Objects
<1>6. ~Mixed(Line[w]) => Apart(1, w, d, Doing(j, e))
  BY <1>5 DEF Apart
<1>7. w \in Objects \ {"frame"}
  BY <1>3 DEF Objects
<1> QED
  BY <1>2, <1>6, <1>7

(* A read of core 1 keeps the invariant.                                   *)
LEMMA Read1 ==
  ASSUME NEW n \in Works, NEW e \in {15, 23},
         NEW k \in 1 .. End(n), NEW j \in Begin(e) .. e + 1, At(n, k, j, e),
         DoRead(1), UNCHANGED Line
  PROVE  CachesIInv'
<1> DEFINE w == Arg(1)
           h == Holds(n, k, j)
           d == Dirties(n, k, j, e)
           H == Holds(n, k, j + 1)
           D == Dirties(n, k, j + 1, e)
<1>0. /\ h[0] = Holds0(n, k) /\ h[1] = Holds1(j)
      /\ d[0] = Dirties0(n, k) /\ d[1] = Dirties1(j, e)
      /\ H[1] = Holds1(j + 1) /\ D[1] = Dirties1(j + 1, e) /\ 1 \in Cores
  BY HoldsAre
<1>1. Begins(1, "read")
  BY DEF DoRead
<1>3. /\ Done(1) => Places(n, k, j + 1, e)'
      /\ j + 1 \in Begin(e) .. e + 1
      /\ Line \in Layouts
      /\ Pipeline(Owed(n, k), Doing(j, e)) /\ Memory(h, d, Clear(j), Doing(j, e))
  BY <1>1, Begins1
<1>4. /\ FitsRead1(j, e, w) /\ w \in Objects
      /\ ~Mixed(Line[w]) => Apart(1, w, d, Doing(j, e))
  BY <1>1, Apart1
<1>5. /\ Doing(j + 1, e) = Doing(j, e) /\ Keeps1(j, e) /\ w \in H[1]
      /\ Clear(j + 1) = {}
  BY <1>0, <1>4 DEF FitsRead1, Quiet1, Keeps1
<1>8. \A b \in Cores : h[b] \subseteq H[b] /\ d[b] \subseteq D[b]
  BY <1>5, Grow1
<1>9. /\ UNCHANGED <<mem, dma, mail, timer>> /\ Done(1)
      /\ cache' = [cache EXCEPT ![1][Line[w]] = Filled(1, Line[w])]
  BY DEF DoRead
<1> HIDE DEF w, h, d, H, D
<1>11. Memory(H, D, Clear(j + 1), Doing(j, e))'
  BY <1>0, <1>3, <1>4, <1>5, <1>8, <1>9, ReadMemory
<1> QED
  BY <1>3, <1>5, <1>9, <1>11, Moves1 DEF H, D

(* A write of core 1 keeps the invariant: core 0 holds no copy of the line *)
(* it needs.                                                               *)
LEMMA Write1 ==
  ASSUME NEW n \in Works, NEW e \in {15, 23},
         NEW k \in 1 .. End(n), NEW j \in Begin(e) .. e + 1, At(n, k, j, e),
         DoWrite(1), UNCHANGED Line
  PROVE  CachesIInv'
<1> DEFINE w == Arg(1)
           h == Holds(n, k, j)
           d == Dirties(n, k, j, e)
           H == Holds(n, k, j + 1)
           D == Dirties(n, k, j + 1, e)
<1>0. /\ h[0] = Holds0(n, k) /\ h[1] = Holds1(j)
      /\ d[0] = Dirties0(n, k) /\ d[1] = Dirties1(j, e)
      /\ H[1] = Holds1(j + 1) /\ D[1] = Dirties1(j + 1, e) /\ 1 \in Cores
  BY HoldsAre
<1>1. Begins(1, "write")
  BY DEF DoWrite
<1>2. PICK s : Fits1(j, e, s) /\ s.do = "write" /\ s.of = w
  BY <1>1, Begins1
<1>3. /\ Done(1) => Places(n, k, j + 1, e)'
      /\ j + 1 \in Begin(e) .. e + 1
      /\ Line \in Layouts
      /\ Pipeline(Owed(n, k), Doing(j, e)) /\ Memory(h, d, Clear(j), Doing(j, e))
  BY <1>1, Begins1
<1>4. FitsWrite1(j, e, w)
  BY <1>2 DEF Fits1
<1>5. /\ Doing(j + 1, e) = Doing(j, e) /\ Keeps1(j, e)
      /\ w \in {"header", "rows", "copied", "yDCAC"}
      /\ w \in {"header", "rows"} => Doing(j, e) = "start"
      /\ w = "copied" => Doing(j, e) \in {"start", "read"}
      /\ w \in H[1] /\ w \in D[1] /\ Clear(j + 1) = {}
  BY <1>0, <1>4 DEF FitsWrite1, Quiet1, Keeps1
<1>6. w \in Objects /\ Owner(w) = 1
  BY <1>5 DEF Objects, Owner
<1>7. ASSUME NEW v \in d[0], ~Mixed(Line[w])
      PROVE  v \in Objects /\ Line[v] # Line[w]
  <2>1. v \in {"frame", "cDCAC"} /\ Doing(j, e) # "start"
    BY <1>0, <1>3, <1>7, Sides
  <2> QED
    BY <1>3, <1>5, <1>7, <2>1, Sharing DEF Objects
<1>8. ASSUME NEW v \in h[0], ~Mixed(Line[w])
      PROVE  Line[v] # Line[w]
  <2>1. /\ v \in Objects \ {"yDCAC"} /\ Doing(j, e) # "start"
        /\ Doing(j, e) = "read" => v # "copied" /\ v # "direct"
    BY <1>0, <1>3, <1>8, Sides
  <2> QED
    BY <1>3, <1>5, <1>8, <2>1, Sharing
<1>9. Doing(j, e) = "start" \/ Line[w] # Line["frame"]
  BY <1>3, <1>5, <1>6, Sharing
<1>10. ~Mixed(Line[w]) => Alone(1, w, h, d, Doing(j, e))
  BY <1>7, <1>8, <1>9 DEF Alone
<1>11. \A b \in Cores : h[b] \subseteq H[b] /\ d[b] \subseteq D[b]
  BY <1>5, Grow1
<1>12. UNCHANGED <<dma, mail, timer>> /\ Done(1) /\ Store(1, w)
  BY DEF DoWrite
<1> HIDE DEF w, h, d, H, D
<1>13. Memory(H, D, Clear(j + 1), Doing(j, e))'
  BY <1>0, <1>3, <1>5, <1>6, <1>10, <1>11, <1>12, StoreMemory
<1> QED
  BY <1>3, <1>5, <1>12, <1>13, Moves1 DEF H, D

(* A flush of core 1 keeps the invariant.                                  *)
LEMMA Flush1 ==
  ASSUME NEW n \in Works, NEW e \in {15, 23},
         NEW k \in 1 .. End(n), NEW j \in Begin(e) .. e + 1, At(n, k, j, e),
         DoFlush(1), UNCHANGED Line
  PROVE  CachesIInv'
<1> DEFINE w == Arg(1)
           h == Holds(n, k, j)
           d == Dirties(n, k, j, e)
           H == Holds(n, k, j + 1)
           D == Dirties(n, k, j + 1, e)
<1>0. /\ h[0] = Holds0(n, k) /\ h[1] = Holds1(j)
      /\ d[0] = Dirties0(n, k) /\ d[1] = Dirties1(j, e)
      /\ H[1] = Holds1(j + 1) /\ D[1] = Dirties1(j + 1, e) /\ 1 \in Cores
  BY HoldsAre
<1>1. Begins(1, "flush")
  BY DEF DoFlush
<1>2. PICK s : Fits1(j, e, s) /\ s.do = "flush" /\ s.of = w
  BY <1>1, Begins1
<1>3. /\ Done(1) => Places(n, k, j + 1, e)'
      /\ j + 1 \in Begin(e) .. e + 1
      /\ Line \in Layouts
      /\ Pipeline(Owed(n, k), Doing(j, e)) /\ Memory(h, d, Clear(j), Doing(j, e))
  BY <1>1, Begins1
<1>4. FitsFlush1(j, e, w)
  BY <1>2 DEF Fits1
<1>5. /\ Doing(j + 1, e) = Doing(j, e)
      /\ w \in {"moreRows", "copied", "direct", "yDCAC", Everything}
      /\ w # Everything => /\ Holds1(j) \ {w} \subseteq Holds1(j + 1)
                           /\ Dirties1(j, e) \ {w} \subseteq Dirties1(j + 1, e)
      /\ Clear(j + 1) \subseteq {w} \ {Everything}
  BY <1>4 DEF FitsFlush1, Quiet1
<1> DEFINE ls == IF w = Everything THEN Lines ELSE {Line[w]}
<1>6. WriteBack(1, ls) /\ Drop(1, ls) /\ Done(1)
      /\ UNCHANGED <<dma, mail, timer>>
  BY DEF DoFlush
<1>7. ls \subseteq Lines
  BY <1>5, LinesOfObjects DEF Objects
<1>8. Holds1(j) \subseteq Objects /\ Dirties1(j, e) \subseteq Objects
  <2>1. /\ Holds1(j) \subseteq Objects \ {"frame", "cDCAC"}
        /\ Dirties1(j, e) \subseteq {"header", "rows", "copied", "yDCAC"}
    BY <1>3, Sides
  <2> QED
    BY <2>1 DEF Objects
<1>9. /\ \A v \in h[1] : Line[v] \in ls \/ v \in H[1]
      /\ \A v \in d[1] : Line[v] \in ls \/ v \in D[1]
  <2>1. CASE w = Everything
    BY <1>0, <1>8, <2>1, LinesOfObjects
  <2>2. CASE w # Everything
    <3>1. ls = {Line[w]}
      BY <2>2
    <3> QED
      BY <1>0, <1>5, <2>2, <3>1
  <2> QED
    BY <2>1, <2>2
<1>10. \A b \in Cores : b # 1 => h[b] \subseteq H[b] /\ d[b] \subseteq D[b]
  BY DEF Holds, Dirties, Cores
<1>12. Clear(j + 1) \subseteq Objects /\ \A v \in Clear(j + 1) : Line[v] \in ls
  BY <1>5 DEF Objects, Clear
<1> HIDE DEF w, h, d, H, D, ls
<1>11. Memory(H, D, Clear(j + 1), Doing(j, e))'
  BY <1>0, <1>3, <1>6, <1>7, <1>9, <1>10, <1>12, FlushMemory
<1> QED
  BY <1>3, <1>5, <1>6, <1>11, Moves1 DEF H, D

(* A transfer of the card controller keeps the invariant: core 1 has just  *)
(* flushed the line, and core 0 does not hold it.                          *)
LEMMA Transfer1 ==
  ASSUME NEW n \in Works, NEW e \in {15, 23},
         NEW k \in 1 .. End(n), NEW j \in Begin(e) .. e + 1, At(n, k, j, e),
         DoTransfer(1), UNCHANGED Line
  PROVE  CachesIInv'
<1> DEFINE w == Arg(1)
           h == Holds(n, k, j)
           d == Dirties(n, k, j, e)
           H == Holds(n, k, j + 1)
           D == Dirties(n, k, j + 1, e)
<1>0. /\ h[0] = Holds0(n, k) /\ h[1] = Holds1(j)
      /\ d[0] = Dirties0(n, k) /\ d[1] = Dirties1(j, e)
      /\ H[1] = Holds1(j + 1) /\ D[1] = Dirties1(j + 1, e) /\ 1 \in Cores
  BY HoldsAre
<1>1. Begins(1, "transfer")
  BY DEF DoTransfer
<1>2. PICK s : Fits1(j, e, s) /\ s.do = "transfer" /\ s.of = w
  BY <1>1, Begins1
<1>3. /\ Done(1) => Places(n, k, j + 1, e)'
      /\ j + 1 \in Begin(e) .. e + 1
      /\ Line \in Layouts
      /\ Pipeline(Owed(n, k), Doing(j, e)) /\ Memory(h, d, Clear(j), Doing(j, e))
  BY <1>1, Begins1
<1>4. FitsTransfer1(j, e, w)
  BY <1>2 DEF Fits1
<1>5. /\ Doing(j + 1, e) = Doing(j, e) /\ Keeps1(j, e)
      /\ w \in {"moreRows", "direct"} /\ w \in Clear(j) /\ Clear(j + 1) = {}
      /\ w = "moreRows" => Doing(j, e) = "start"
      /\ w = "direct" => Doing(j, e) \in {"start", "read"}
  BY <1>4 DEF FitsTransfer1, Quiet1, Keeps1
<1>6. /\ mem' = mem \cup {w} /\ Done(1) /\ UNCHANGED <<dma, mail, timer>>
      /\ cache' = [b \in Cores |-> [cache[b] EXCEPT ![Line[w]].current = @ \ {w}]]
  BY DEF DoTransfer
<1>7. ASSUME NEW v \in h[0]
      PROVE  Line[v] # Line[w]
  <2>1. /\ v \in Objects /\ Doing(j, e) # "start"
        /\ Doing(j, e) = "read" => v # "copied" /\ v # "direct"
    BY <1>0, <1>3, <1>7, Sides
  <2>2. w = "direct" /\ v \notin {"copied", "direct"}
    BY <1>5, <2>1
  <2> QED
    BY <1>3, <2>1, <2>2, Sharing
<1>8. w \in Objects /\ ~Mixed(Line[w])
  BY <1>3, <1>5, Sharing DEF Objects, Mixed
<1>9. \A b \in Cores : h[b] \subseteq H[b] /\ d[b] \subseteq D[b]
  BY <1>5, Grow1
<1> HIDE DEF w, h, d, H, D
<1>10. Memory(H, D, {}, Doing(j, e))'
  <2>1. w \in Clear(j) /\ mem' = mem \cup {w} /\ Memory(h, d, Clear(j), Doing(j, e))
    BY <1>3, <1>5, <1>6
  <2> QED
    BY <1>6, <1>7, <1>8, <1>9, <2>1, TransferMemory
<1>11. Memory(H, D, Clear(j + 1), Doing(j, e))'
  BY <1>5, <1>10
<1> QED
  BY <1>3, <1>5, <1>6, <1>11, Moves1 DEF H, D

(* A reply of core 1 goes through the pipeline.                            *)
LEMMA ReplyMail ==
  ASSUME mail \in Mail, NEW owed, NEW doing, NEW next, NEW m \in Messages,
         Pipeline(owed, doing), mail[0] = <<>>, mail' = [mail EXCEPT ![0] = <<m>>],
         \/ doing = "start" /\ m = "DONE_READ_NEXT_FRAME" /\ next = "luma"
         \/ doing = "read" /\ m = "DONE_READ_NEXT_FRAME" /\ next = "nothing"
         \/ doing = "luma" /\ m = "DONE_LD_Y" /\ next = "nothing"
  PROVE  mail' \in Mail /\ Pipeline(owed, next)'
<1>1. mail'[0] = <<m>> /\ mail'[1] = mail[1] /\ mail' \in Mail
  <2>1. PICK B : B = {<<>>} \cup {<<x>> : x \in Messages}
    OBVIOUS
  <2>2. <<m>> \in B
    BY <2>1
  <2>3. mail \in [Cores -> B]
    BY <2>1 DEF Mail
  <2>4. mail' \in [Cores -> B] /\ mail'[0] = <<m>> /\ mail'[1] = mail[1]
    BY <2>2, <2>3, TwoCores
  <2> QED
    BY <2>1, <2>4 DEF Mail
<1>2. <<>> # DoneRead /\ <<>> # DoneLuma
  BY DEF DoneRead, DoneLuma
<1>3. CASE doing = "start" /\ m = "DONE_READ_NEXT_FRAME" /\ next = "luma"
  <2>1. <<m>> = DoneRead
    BY <1>3 DEF DoneRead
  <2> QED
    BY <1>1, <1>2, <1>3, <2>1 DEF Pipeline, PipelineIs
<1>4. CASE doing = "read" /\ m = "DONE_READ_NEXT_FRAME" /\ next = "nothing"
  <2>1. <<m>> = DoneRead
    BY <1>4 DEF DoneRead
  <2> QED
    BY <1>1, <1>2, <1>4, <2>1 DEF Pipeline, PipelineIs
<1>5. CASE doing = "luma" /\ m = "DONE_LD_Y" /\ next = "nothing"
  <2>1. <<m>> = DoneLuma
    BY <1>5 DEF DoneLuma
  <2> QED
    BY <1>1, <1>2, <1>5, <2>1 DEF Pipeline, PipelineIs
<1> QED
  BY <1>1, <1>3, <1>4, <1>5

(* A reply of core 1 keeps the invariant.                                  *)
LEMMA Post1 ==
  ASSUME NEW n \in Works, NEW e \in {15, 23},
         NEW k \in 1 .. End(n), NEW j \in Begin(e) .. e + 1, At(n, k, j, e),
         DoPost(1), UNCHANGED Line
  PROVE  CachesIInv'
<1> DEFINE w == Arg(1)
           h == Holds(n, k, j)
           d == Dirties(n, k, j, e)
           H == Holds(n, k, j + 1)
           D == Dirties(n, k, j + 1, e)
<1>0. /\ h[0] = Holds0(n, k) /\ h[1] = Holds1(j)
      /\ d[0] = Dirties0(n, k) /\ d[1] = Dirties1(j, e)
      /\ H[1] = Holds1(j + 1) /\ D[1] = Dirties1(j + 1, e) /\ 1 \in Cores
  BY HoldsAre
<1>1. Begins(1, "post")
  BY DEF DoPost
<1>2. PICK s : Fits1(j, e, s) /\ s.do = "post" /\ s.of = w
  BY <1>1, Begins1
<1>3. /\ Done(1) => Places(n, k, j + 1, e)'
      /\ j + 1 \in Begin(e) .. e + 1
      /\ Line \in Layouts
      /\ Pipeline(Owed(n, k), Doing(j, e)) /\ Memory(h, d, Clear(j), Doing(j, e))
  BY <1>1, Begins1
<1>4. FitsPost1(j, e, w)
  BY <1>2 DEF Fits1
<1>5. /\ Keeps1(j, e) /\ Holds1(j) = {} /\ w \in Messages
      /\ Clear(j + 1) = {}
  BY <1>4 DEF FitsPost1, Keeps1, Messages
<1>6. /\ mail[0] = <<>> /\ mail' = [mail EXCEPT ![0] = <<w>>] /\ Done(1)
      /\ UNCHANGED <<mem, cache, dma, timer>>
  BY DEF DoPost
<1>7. mail \in Mail
  BY DEF At, Mail
<1>8. \A b \in Cores : h[b] \subseteq H[b] /\ d[b] \subseteq D[b]
  BY <1>5, Grow1
<1> HIDE DEF w, h, d, H, D
<1>9. Memory(H, D, Clear(j + 1), Doing(j + 1, e))'
  BY <1>0, <1>3, <1>5, <1>6, <1>8, SameMemory
<1>10. mail' \in Mail /\ Pipeline(Owed(n, k), Doing(j + 1, e))'
  BY <1>3, <1>4, <1>5, <1>6, <1>7, ReplyMail DEF FitsPost1
<1>11. At(n, k, j + 1, e)'
  BY <1>3, <1>6, <1>9, <1>10 DEF At, H, D, Mail
<1>12. j + 1 \in Begin(e) .. e + 1
  BY <1>3
<1> QED
  BY <1>11, <1>12, Arrives

(* The second of two sequences joined.                                     *)
Ends(u, s, t) == /\ u \in Seq(Steps) /\ Len(u) = Len(s) + Len(t)
                 /\ SubSeq(u, Len(s) + 1, Len(s) + Len(t)) = t

(* The end of two sequences in a row.                                      *)
LEMMA EndOf ==
  ASSUME NEW s \in Seq(Steps), NEW t \in Seq(Steps), Len(t) > 0, NEW u, u = s \o t
  PROVE  Ends(u, s, t)
<1>1. SubSeq(s \o t, Len(s) + 1, Len(s) + Len(t))
      = SubSeq(t, Len(s) + 1 - Len(s), Len(s) + Len(t) - Len(s))
  <2>1. PICK x, y : x = Len(s) + 1 /\ y = Len(s) + Len(t)
    OBVIOUS
  <2>2. x \in Len(s) + 1 .. Len(s) + Len(t)
        /\ y \in Len(s) + 1 .. Len(s) + Len(t)
    BY <2>1
  <2>3. SubSeq(s \o t, x, y) = SubSeq(t, x - Len(s), y - Len(s))
    BY ONLY s \in Seq(Steps), t \in Seq(Steps), <2>2, SubSeqOfConcat2
  <2> QED
    BY <2>1, <2>3
<1>2. SubSeq(t, 1, Len(t)) = t
  BY SubSeqFull
<1>3. s \o t \in Seq(Steps) /\ Len(s \o t) = Len(s) + Len(t)
  BY ConcatProperties
<1> QED
  BY <1>1, <1>2, <1>3 DEF Ends

(* The handlers of core 1 are parts of its job.                            *)
LEMMA HandlersAre ==
  /\ Handler("READ_NEXT_FILE") = SubSeq(Job, 1, 23)
  /\ Handler("SEEK_VIDEO") = SubSeq(Job, 8, 23)
  /\ Handler("OK_TO_READ_NEXT_FRAME") = SubSeq(Job, 8, 15)
  /\ Handler("OK_TO_LD_Y") = SubSeq(Job, 16, 23)
<1> DEFINE s1 == loadVideoSlave
           s2 == ReadFrame
           s3 == LdLuma
<1>1. s1 \in Seq(Steps) /\ Len(s1) = 7
  BY StepsAre DEF loadVideoSlave, Objects
<1>2. s2 \in Seq(Steps) /\ Len(s2) = 8 /\ s3 \in Seq(Steps) /\ Len(s3) = 8
  BY ReadFrameIs, LdLumaIs
<1>3. Job = (s1 \o s2) \o s3 /\ Job \in Seq(Steps) /\ Len(Job) = 23
  BY JobIs DEF Job, Handler
<1>4. /\ Handler("READ_NEXT_FILE") = Job /\ Handler("SEEK_VIDEO") = s2 \o s3
      /\ Handler("OK_TO_READ_NEXT_FRAME") = s2 /\ Handler("OK_TO_LD_Y") = s3
  BY DEF Job, Handler
<1> HIDE DEF s1, s2, s3
<1>5. PICK u, v : u = s1 \o s2 /\ v = s2 \o s3
  OBVIOUS
<1>13. /\ s1 \in Seq(Steps) /\ s2 \in Seq(Steps) /\ s3 \in Seq(Steps)
       /\ Len(s2) > 0 /\ Len(s3) > 0
  BY <1>1, <1>2
<1>6. Ends(u, s1, s2) /\ Ends(v, s2, s3)
  BY <1>5, <1>13, EndOf
<1>7. u \in Seq(Steps) /\ Len(u) = 15 /\ v \in Seq(Steps) /\ Len(v) = 16
      /\ SubSeq(u, 8, 15) = s2
  BY <1>1, <1>2, <1>6 DEF Ends
<1>8. Job = u \o s3 /\ Job = s1 \o v
  BY <1>1, <1>2, <1>3, <1>5, ConcatAssociative
<1>9. Ends(Job, u, s3) /\ Ends(Job, s1, v)
  <2>1. u \in Seq(Steps) /\ v \in Seq(Steps) /\ Len(v) > 0
    BY <1>7
  <2> QED
    BY <1>8, <1>13, <2>1, EndOf
<1>10. SubSeq(Job, 16, 23) = s3 /\ SubSeq(Job, 8, 23) = v
  BY <1>1, <1>2, <1>7, <1>9 DEF Ends
<1>11. SubSeq(Job, 1, 23) = Job
  BY <1>3, SubSeqFull
<1>12. SubSeq(Job, 8, 15) = s2
  <2>1. 8 \in 1 .. Len(u) /\ 15 \in 1 .. Len(u)
    BY <1>7
  <2>2. SubSeq(u \o s3, 8, 15) = SubSeq(u, 8, 15)
    BY ONLY <1>2, <1>7, <2>1, SubSeqOfConcat1
  <2> QED
    BY <1>7, <1>8, <2>2
<1> QED
  BY <1>4, <1>5, <1>10, <1>11, <1>12

(* A request that core 1 takes goes through the pipeline.                  *)
LEMMA ServeMail ==
  ASSUME mail \in Mail, NEW owed, Pipeline(owed, "nothing"), mail[1] # <<>>,
         mail' = [mail EXCEPT ![1] = <<>>]
  PROVE  /\ mail' \in Mail
         /\ \/ mail[1] = <<"READ_NEXT_FILE">> /\ Pipeline(owed, "start")'
            \/ mail[1] = <<"SEEK_VIDEO">> /\ Pipeline(owed, "start")'
            \/ mail[1] = OkToRead /\ Pipeline(owed, "read")'
            \/ mail[1] = OkToLuma /\ Pipeline(owed, "luma")'
            \/ owed \notin {"nothing", "start", "read", "luma", "luma, read",
                             "read, luma"}
<1>1. mail'[1] = <<>> /\ mail'[0] = mail[0] /\ mail' \in Mail
  <2>1. PICK B : B = {<<>>} \cup {<<x>> : x \in Messages}
    OBVIOUS
  <2>2. <<>> \in B
    BY <2>1
  <2>3. mail \in [Cores -> B]
    BY <2>1 DEF Mail
  <2>4. mail' \in [Cores -> B] /\ mail'[1] = <<>> /\ mail'[0] = mail[0]
    BY <2>2, <2>3, TwoCores
  <2> QED
    BY <2>1, <2>4 DEF Mail
<1>2. CASE owed = "nothing"
  BY <1>1, <1>2 DEF Pipeline, PipelineIs
<1>3. CASE owed = "start"
  BY <1>1, <1>3 DEF Pipeline, PipelineIs
<1>4. CASE owed = "read"
  BY <1>1, <1>4 DEF Pipeline, PipelineIs
<1>5. CASE owed = "luma"
  BY <1>1, <1>5 DEF Pipeline, PipelineIs
<1>6. CASE owed = "luma, read"
  BY <1>1, <1>6 DEF Pipeline, PipelineIs
<1>7. CASE owed = "read, luma"
  BY <1>1, <1>7 DEF Pipeline, PipelineIs
<1> QED
  BY <1>1, <1>2, <1>3, <1>4, <1>5, <1>6, <1>7

(* The start of a handler of core 1 keeps the invariant.                   *)
LEMMA Serve1 ==
  ASSUME NEW n \in Works, NEW e \in {15, 23},
         NEW k \in 1 .. End(n), NEW j \in Begin(e) .. e + 1, At(n, k, j, e),
         Serve, UNCHANGED Line
  PROVE  CachesIInv'
<1>1. /\ todo[1] = <<>> /\ mail[1] # <<>> /\ mail' = [mail EXCEPT ![1] = <<>>]
      /\ todo' = [todo EXCEPT ![1] = Handler(Head(mail[1]))]
      /\ UNCHANGED <<mem, cache, dma, timer>>
  BY DEF Serve
<1>2. j = e + 1
  BY <1>1, Finished DEF At
<1>3. Doing(j, e) = "nothing" /\ Holds1(j) = {} /\ Dirties1(j, e) = {}
  <2>1. CASE e = 15
    BY <1>2, <2>1 DEF Doing, Holds1, Dirties1
  <2>2. CASE e = 23
    BY <1>2, <2>2 DEF Doing, Holds1, Dirties1
  <2> QED
    BY <2>1, <2>2
<1>4. /\ mail \in Mail /\ Pipeline(Owed(n, k), "nothing")
      /\ Memory(Holds(n, k, j), Dirties(n, k, j, e), Clear(j), Doing(j, e))
  BY <1>3 DEF At, Mail
<1>5. PICK f \in {15, 23} :
        \E i \in Begin(f) .. f + 1 :
          /\ Handler(Head(mail[1])) = SubSeq(Job, i, f)
          /\ Pipeline(Owed(n, k), Doing(i, f))' /\ Clear(i) = {}
  <2>1. \/ mail[1] = <<"READ_NEXT_FILE">> /\ Pipeline(Owed(n, k), "start")'
        \/ mail[1] = <<"SEEK_VIDEO">> /\ Pipeline(Owed(n, k), "start")'
        \/ mail[1] = OkToRead /\ Pipeline(Owed(n, k), "read")'
        \/ mail[1] = OkToLuma /\ Pipeline(Owed(n, k), "luma")'
    BY <1>1, <1>4, ServeMail, OwedIs
  <2>2. /\ Doing(1, 23) = "start" /\ Doing(8, 23) = "start"
        /\ Doing(8, 15) = "read" /\ Doing(16, 23) = "luma"
        /\ Begin(23) = 1 /\ Begin(15) = 8
        /\ Clear(1) = {} /\ Clear(8) = {} /\ Clear(16) = {}
    BY DEF Doing, Begin, Clear
  <2>3. CASE mail[1] = <<"READ_NEXT_FILE">> /\ Pipeline(Owed(n, k), "start")'
    <3>1. Head(mail[1]) = "READ_NEXT_FILE" /\ 1 \in Begin(23) .. 23 + 1
      BY <2>2, <2>3
    <3> QED
      BY <2>2, <2>3, <3>1, HandlersAre
  <2>4. CASE mail[1] = <<"SEEK_VIDEO">> /\ Pipeline(Owed(n, k), "start")'
    <3>1. Head(mail[1]) = "SEEK_VIDEO" /\ 8 \in Begin(23) .. 23 + 1
      BY <2>2, <2>4
    <3> QED
      BY <2>2, <2>4, <3>1, HandlersAre
  <2>5. CASE mail[1] = OkToRead /\ Pipeline(Owed(n, k), "read")'
    <3>1. Head(mail[1]) = "OK_TO_READ_NEXT_FRAME" /\ 8 \in Begin(15) .. 15 + 1
      BY <2>2, <2>5 DEF OkToRead
    <3> QED
      BY <2>2, <2>5, <3>1, HandlersAre
  <2>6. CASE mail[1] = OkToLuma /\ Pipeline(Owed(n, k), "luma")'
    <3>1. Head(mail[1]) = "OK_TO_LD_Y" /\ 16 \in Begin(23) .. 23 + 1
      BY <2>2, <2>6 DEF OkToLuma
    <3> QED
      BY <2>2, <2>6, <3>1, HandlersAre
  <2> QED
    BY <2>1, <2>3, <2>4, <2>5, <2>6
<1>6. PICK i \in Begin(f) .. f + 1 :
        /\ Handler(Head(mail[1])) = SubSeq(Job, i, f)
        /\ Pipeline(Owed(n, k), Doing(i, f))' /\ Clear(i) = {}
  BY <1>5
<1>7. Places(n, k, i, f)'
  <2>1. todo = [c \in Cores |-> todo[c]]
        /\ todo[0] = SubSeq(Work(n), k, Len(Work(n)))
    BY DEF At, Places
  <2>2. /\ todo' = [c \in Cores |-> todo'[c]] /\ todo'[0] = todo[0]
        /\ todo'[1] = SubSeq(Job, i, f)
    BY <1>1, <1>6, <2>1, TwoCores
  <2> QED
    BY <2>1, <2>2 DEF Places
<1>8. /\ Holds(n, k, j)[1] = {}
      /\ \A b \in Cores : /\ Holds(n, k, j)[b] \subseteq Holds(n, k, i)[b]
                          /\ Dirties(n, k, j, e)[b] \subseteq Dirties(n, k, i, f)[b]
  BY <1>3 DEF Holds, Dirties, Cores
<1>9. Memory(Holds(n, k, i), Dirties(n, k, i, f), Clear(i), Doing(i, f))'
  BY <1>1, <1>4, <1>6, <1>8, SameMemory
<1>10. mail' \in Mail
  BY <1>1, <1>4, ServeMail
<1>11. At(n, k, i, f)'
  BY <1>1, <1>6, <1>7, <1>9, <1>10 DEF At, Mail
<1> QED
  BY <1>11, Arrives

(* The programs stay where they are.                                       *)
LEMMA Stays ==
  ASSUME NEW n \in Works, NEW e \in {15, 23},
         NEW k \in 1 .. End(n), NEW j \in Begin(e) .. e + 1, At(n, k, j, e),
         UNCHANGED <<todo, mail, timer>>, dma' \subseteq dma,
         Memory(Holds(n, k, j), Dirties(n, k, j, e), Clear(j), Doing(j, e))'
  PROVE  CachesIInv'
<1>1. Pipeline(Owed(n, k), Doing(j, e))' /\ Places(n, k, j, e)'
  BY DEF At, Pipeline, PipelineIs, Places
<1>2. At(n, k, j, e)'
  BY <1>1 DEF At
<1> QED
  BY <1>2, Arrives

(* An eviction, which may come at any time, keeps the invariant.           *)
LEMMA Evicts ==
  ASSUME NEW n \in Works, NEW e \in {15, 23},
         NEW k \in 1 .. End(n), NEW j \in Begin(e) .. e + 1, At(n, k, j, e),
         NEW c \in Cores, NEW l \in Lines, Evict(c, l), UNCHANGED Line
  PROVE  CachesIInv'
<1>1. /\ WriteBack(c, {l}) /\ Drop(c, {l}) /\ {l} \subseteq Lines
      /\ UNCHANGED <<dma, mail, todo, timer>>
  BY DEF Evict
<1>2. Memory(Holds(n, k, j), Dirties(n, k, j, e), Clear(j), Doing(j, e))
  BY DEF At
<1>3. Memory(Holds(n, k, j), Dirties(n, k, j, e), Clear(j), Doing(j, e))'
  BY <1>1, <1>2, FlushMemory DEF Memory
<1> QED
  BY <1>1, <1>3, Stays

(* The end of what the accelerator reads keeps the invariant.              *)
LEMMA Finishes ==
  ASSUME NEW n \in Works, NEW e \in {15, 23},
         NEW k \in 1 .. End(n), NEW j \in Begin(e) .. e + 1, At(n, k, j, e),
         NEW w \in dma, Finish(w), UNCHANGED Line
  PROVE  CachesIInv'
<1>1. dma' \subseteq dma /\ UNCHANGED <<mem, cache, mail, todo, timer>>
  BY DEF Finish
<1>2. Memory(Holds(n, k, j), Dirties(n, k, j, e), Clear(j), Doing(j, e))
  BY DEF At
<1>3. Memory(Holds(n, k, j), Dirties(n, k, j, e), Clear(j), Doing(j, e))'
  BY <1>1, <1>2, SameMemory
<1> QED
  BY <1>1, <1>3, Stays

(* An interrupt of the timer, which touches the frame counters wherever    *)
(* core 0 is, keeps the invariant.                                         *)
LEMMA Ticks0 ==
  ASSUME NEW n \in Works, NEW e \in {15, 23},
         NEW k \in 1 .. End(n), NEW j \in Begin(e) .. e + 1, At(n, k, j, e),
         Tick, UNCHANGED Line
  PROVE  CachesIInv'
<1> DEFINE h == Holds(n, k, j)
           d == Dirties(n, k, j, e)
<1>1. Store(0, "frame") /\ timer /\ UNCHANGED <<dma, mail, todo, timer>>
  BY DEF Tick
<1>2. /\ h[0] = Holds0(n, k) /\ h[1] = Holds1(j)
      /\ d[0] = Dirties0(n, k) /\ d[1] = Dirties1(j, e) /\ 0 \in Cores
  BY HoldsAre
<1>3. /\ Line \in Layouts /\ Pipeline(Owed(n, k), Doing(j, e))
      /\ Memory(h, d, Clear(j), Doing(j, e)) /\ Ticks(n, k)
  BY <1>1 DEF At, Memory
<1>4. "frame" \in Holds0(n, k) /\ "frame" \in Dirties0(n, k)
  <2>1. ~Cleaned(n, k)
    BY <1>3 DEF Ticks, Cleaned
  <2> QED
    BY <2>1 DEF Holds0, Dirties0
<1>5. Doing(j, e) # "start"
  BY <1>3, <1>4, Sides
<1>6. "frame" \in Objects /\ Owner("frame") = 0
  BY DEF Objects, Owner
<1>7. ASSUME NEW v \in d[1]
      PROVE  v \in Objects /\ Line[v] # Line["frame"]
  <2>1. v \in Dirties1(j, e)
    BY <1>2, <1>7
  <2>2. v \in {"copied", "yDCAC"}
    BY <1>3, <1>5, <2>1, Sides
  <2> QED
    BY <1>3, <2>2, Sharing DEF Objects
<1>8. Alone(0, "frame", h, d, Doing(j, e))
  BY <1>5, <1>7 DEF Alone
<1> HIDE DEF h, d
<1>9. Memory(h, d, Clear(j), Doing(j, e))'
  BY <1>1, <1>2, <1>3, <1>4, <1>6, <1>8, StoreMemory
<1> QED
  BY <1>1, <1>9, Stays DEF h, d

(* The programs begin with nothing in the caches and nothing asked for.    *)
LEMMA InitIInv == Init => CachesIInv
<1> SUFFICES ASSUME Init PROVE CachesIInv
  OBVIOUS
<1>1. Places("load", 1, 24, 23)
  <2>1. SubSeq(loadVideo, 1, Len(loadVideo)) = loadVideo
    BY LoadIs, SubSeqFull
  <2>2. SubSeq(Job, 24, 23) = <<>>
    BY SubSeqEmpty
  <2>3. /\ todo = [c \in Cores |-> IF c = 0 THEN loadVideo ELSE <<>>]
        /\ Work("load") = loadVideo
    BY DEF Init, Work
  <2>4. todo = [c \in Cores |-> todo[c]] /\ todo[0] = loadVideo /\ todo[1] = <<>>
    BY <2>3, TwoCores
  <2> QED
    BY <2>1, <2>2, <2>3, <2>4 DEF Places
<1>2. mail \in Mail /\ mail[0] = <<>> /\ mail[1] = <<>>
  BY TwoCores DEF Init, Mail
<1>3. Owed("load", 1) = "nothing" /\ Doing(24, 23) = "nothing"
  BY DEF Owed, Doing
<1>4. Pipeline(Owed("load", 1), Doing(24, 23))
  BY <1>2, <1>3 DEF Pipeline, PipelineIs
<1>5. Memory(Holds("load", 1, 24), Dirties("load", 1, 24, 23), Clear(24), Doing(24, 23))
  <2>1. /\ cache = [c \in Cores |-> [l \in Lines |-> Miss]]
        /\ Line \in Layouts /\ mem = Objects
    BY DEF Init
  <2>2. Miss \in Copies
    BY DEF Miss, Copies
  <2>3. cache \in [Cores -> [Lines -> Copies]]
    BY <2>1, <2>2
  <2>4. ASSUME NEW c \in Cores, NEW l \in Lines, NEW h, NEW d, NEW s
        PROVE  GoodCopy(cache[c][l], c, l, h, d, s)
    <3>1. cache[c][l] = Miss
      BY <2>1
    <3>2. ~Miss.held /\ ~Miss.dirty
      BY DEF Miss
    <3> QED
      BY <3>1, <3>2 DEF GoodCopy
  <2>5. Clear(24) = {} /\ Coherent \subseteq Objects
    BY DEF Clear, Coherent
  <2> QED
    BY <2>1, <2>3, <2>4, <2>5 DEF Memory
<1>6. At("load", 1, 24, 23)
  BY <1>1, <1>2, <1>4, <1>5 DEF Init, At, Mail
<1>7. /\ "load" \in Works /\ 23 \in {15, 23} /\ 1 \in 1 .. End("load")
      /\ 24 \in Begin(23) .. 23 + 1
  BY DEF Works, End, Begin
<1> QED
  BY <1>6, <1>7 DEF CachesIInv

(* A core at a read is apart from what the other has written, and what the *)
(* accelerator reads is in no cache.                                       *)
LEMMA IInvReads == CachesIInv => ReadsAreCurrent
<1> SUFFICES ASSUME CachesIInv PROVE ReadsAreCurrent
  OBVIOUS
<1>1. PICK n \in Works, e \in {15, 23} :
        \E k \in 1 .. End(n), j \in Begin(e) .. e + 1 : At(n, k, j, e)
  BY DEF CachesIInv
<1>2. PICK k \in 1 .. End(n), j \in Begin(e) .. e + 1 : At(n, k, j, e)
  BY <1>1
<1> DEFINE d == Dirties(n, k, j, e)
<1>3. /\ Memory(Holds(n, k, j), d, Clear(j), Doing(j, e)) /\ Line \in Layouts
      /\ Pipeline(Owed(n, k), Doing(j, e)) /\ dma \subseteq Streams(n, k)
  BY <1>2 DEF At, Memory
<1>4. ASSUME NEW c \in Cores, Begins(c, "read"), Arg(c) \in Coherent
      PROVE  Arg(c) \in IF cache[c][Line[Arg(c)]].held
                        THEN cache[c][Line[Arg(c)]].current ELSE mem
  <2> DEFINE w == Arg(c)
             f == Filled(c, Line[w])
  <2>0. w \in Objects /\ ~Mixed(Line[w])
    BY <1>3, <1>4, CoherentIs DEF Coherent
  <2>1. w \in Objects /\ Apart(c, w, d, Doing(j, e)) /\ (c = 0 \/ w # "frame")
    BY <1>2, <1>4, <2>0, Apart0, Apart1, TwoCores
  <2>2. WholeCopy(f, c, Line[w], Doing(j, e))
    BY <1>3, <2>0, <2>1, FillIsWhole
  <2>3. w \in On(Line[w])
    BY <2>1, LinesOfObjects
  <2>4. w \in f.current
    BY <2>1, <2>2, <2>3 DEF WholeCopy
  <2>5. CASE cache[c][Line[w]].held
    BY <2>4, <2>5 DEF Filled
  <2>6. CASE ~cache[c][Line[w]].held
    <3>1. f = [held |-> TRUE, dirty |-> FALSE, current |-> mem \cap On(Line[w])]
      BY <2>6 DEF Filled
    <3>2. f.current = mem \cap On(Line[w])
      BY <3>1
    <3> QED
      BY <2>4, <2>6, <3>2
  <2> QED
    BY <2>5, <2>6
<1>5. ASSUME NEW w \in dma \cap Coherent, w \notin mem
      PROVE  FALSE
  <2>1. w \in Streams(n, k)
    BY <1>3
  <2>2. w \in {"cDCAC", "yDCAC"}
    BY <2>1 DEF Streams
  <2>3. w \in Objects
    BY <2>2 DEF Objects
  <2>4. PICK c \in Cores : c = Owner(w)
    BY DEF Owner, Cores
  <2>5. /\ Line[w] \in Lines /\ cache[c][Line[w]].dirty /\ Line \in Layouts
        /\ ~Mixed(Line[w])
    BY <1>3, <1>5, <2>3, <2>4, LinesOfObjects, CoherentIs DEF Memory
  <2>6. PICK v \in d[c] : Line[v] = Line[w]
    BY <1>3, <2>5 DEF Memory, GoodCopy
  <2>7. CASE w = "cDCAC"
    <3>1. v \in Dirties0(n, k) /\ Dirties0(n, k) \subseteq {"frame", "cDCAC"}
      BY <1>3, <2>4, <2>6, <2>7, Sides, HoldsAre DEF Owner
    <3>2. v = "cDCAC"
      BY <2>5, <2>6, <2>7, <3>1, Sharing DEF Objects
    <3>3. Decodes(n, k)
      BY <3>1, <3>2 DEF Dirties0
    <3> QED
      BY <2>1, <2>7, <3>3 DEF Decodes, Streams
  <2>8. CASE w = "yDCAC"
    <3>1. v \in Dirties1(j, e)
      BY <2>4, <2>6, <2>8, HoldsAre DEF Owner
    <3>2. v \in {"header", "rows", "copied", "yDCAC"}
      BY <1>3, <3>1, Sides
    <3>3. v = "yDCAC"
      BY <2>5, <2>6, <2>8, <3>2, Sharing DEF Objects
    <3>4. Doing(j, e) = "luma"
      BY <1>3, <3>1, <3>3, Sides
    <3>5. Owed(n, k) = "nothing" \/ Owed(n, k) = "read"
      BY <2>1, <2>8 DEF Streams, Owed
    <3> QED
      BY <1>3, <3>4, <3>5 DEF Pipeline, PipelineIs
  <2> QED
    BY <2>2, <2>7, <2>8
<1> QED
  BY <1>4, <1>5 DEF ReadsAreCurrent

(* What is not in memory is dirty, and current, in the cache of its owner. *)
LEMMA IInvNoLost == CachesIInv => NoLostWrite
<1> SUFFICES ASSUME CachesIInv, NEW w \in Coherent, w \notin mem
             PROVE  \E c \in Cores : /\ cache[c][Line[w]].dirty
                                     /\ w \in cache[c][Line[w]].current
  BY DEF NoLostWrite, Kept
<1>1. PICK h, d, r, s : Memory(h, d, r, s)
  BY DEF CachesIInv, At
<1>2. /\ Owner(w) \in Cores /\ Line[w] \in Lines /\ w \in On(Line[w])
      /\ ~Mixed(Line[w])
  BY <1>1, LinesOfObjects, CoherentIs DEF Owner, Cores, Coherent, Memory
<1>3. cache[Owner(w)][Line[w]].dirty
  BY <1>1 DEF Memory
<1>4. cache[Owner(w)][Line[w]].current = On(Line[w])
  BY <1>1, <1>2, <1>3 DEF Memory, GoodCopy
<1> QED
  BY <1>2, <1>3, <1>4

(* Every step keeps the invariant.                                         *)
LEMMA NextIInv == CachesIInv /\ [Next]_vars => CachesIInv'
<1> SUFFICES ASSUME CachesIInv, [Next]_vars PROVE CachesIInv'
  OBVIOUS
<1>1. PICK n \in Works, e \in {15, 23} :
        \E k \in 1 .. End(n), j \in Begin(e) .. e + 1 : At(n, k, j, e)
  BY DEF CachesIInv
<1>2. PICK k \in 1 .. End(n), j \in Begin(e) .. e + 1 : At(n, k, j, e)
  BY <1>1
<1>3. CASE UNCHANGED vars
  <2>1. UNCHANGED <<Line, mem, cache, dma, mail, todo, timer>>
    BY <1>3 DEF vars
  <2>2. Memory(Holds(n, k, j), Dirties(n, k, j, e), Clear(j), Doing(j, e))
    BY <1>2 DEF At
  <2>3. Memory(Holds(n, k, j), Dirties(n, k, j, e), Clear(j), Doing(j, e))'
    BY <2>1, <2>2, SameMemory
  <2> QED
    BY <1>2, <2>1, <2>3, Stays
<1>4. CASE Next
  <2> USE <1>2
  <2>0. UNCHANGED Line
    BY <1>4 DEF Next
  <2>1. ASSUME NEW c \in Cores, DoRead(c) PROVE CachesIInv'
    BY <2>0, <2>1, Read0, Read1, TwoCores
  <2>2. ASSUME NEW c \in Cores, DoWrite(c) PROVE CachesIInv'
    BY <2>0, <2>2, Write0, Write1, TwoCores
  <2>3. ASSUME NEW c \in Cores, DoFlush(c) PROVE CachesIInv'
    BY <2>0, <2>3, Flush0, Flush1, TwoCores
  <2>4. ASSUME NEW c \in Cores, DoDrop(c) PROVE CachesIInv'
    <3>1. CASE c = 1
      BY <2>4, <3>1, Begins1 DEF DoDrop, Fits1
    <3> QED
      BY <2>0, <2>4, <3>1, Drop0, TwoCores
  <2>5. ASSUME NEW c \in Cores, DoTransfer(c) PROVE CachesIInv'
    <3>1. CASE c = 0
      BY <2>5, <3>1, Begins0 DEF DoTransfer, Fits0
    <3> QED
      BY <2>0, <2>5, <3>1, Transfer1, TwoCores
  <2>6. ASSUME NEW c \in Cores, DoPost(c) PROVE CachesIInv'
    BY <2>0, <2>6, Post0, Post1, TwoCores
  <2>7. ASSUME NEW c \in Cores, DoRecv(c) PROVE CachesIInv'
    <3>1. CASE c = 1
      BY <2>7, <3>1, Begins1 DEF DoRecv, Fits1
    <3> QED
      BY <2>0, <2>7, <3>1, Recv0, TwoCores
  <2>8. ASSUME NEW c \in Cores, DoStart(c) PROVE CachesIInv'
    <3>1. CASE c = 1
      BY <2>8, <3>1, Begins1 DEF DoStart, Fits1
    <3> QED
      BY <2>0, <2>8, <3>1, Start0, TwoCores
  <2>9. ASSUME NEW c \in Cores, DoWait(c) PROVE CachesIInv'
    <3>1. CASE c = 1
      BY <2>9, <3>1, Begins1 DEF DoWait, Fits1
    <3> QED
      BY <2>0, <2>9, <3>1, Wait0, TwoCores
  <2>10. ASSUME NEW c \in Cores, DoTimer(c) PROVE CachesIInv'
    <3>1. CASE c = 1
      BY <2>10, <3>1, Begins1 DEF DoTimer, Fits1
    <3> QED
      BY <2>0, <2>10, <3>1, Timer0, TwoCores
  <2>11. ASSUME NEW c \in Cores, DoRound(c) PROVE CachesIInv'
    <3>1. CASE c = 1
      BY <2>11, <3>1, Begins1 DEF DoRound, Fits1
    <3> QED
      BY <2>0, <2>11, <3>1, Round0, TwoCores
  <2>12. ASSUME NEW c \in Cores, NEW l \in Lines, Evict(c, l) PROVE CachesIInv'
    BY <2>0, <2>12, Evicts
  <2>13. ASSUME NEW w \in dma, Finish(w) PROVE CachesIInv'
    BY <2>0, <2>13, Finishes
  <2>14. CASE Serve
    BY <2>0, <2>14, Serve1
  <2>15. CASE Button
    BY <2>0, <2>15, Button0
  <2>16. CASE Tick
    BY <2>0, <2>16, Ticks0
  <2> QED
    BY <1>4, <2>1, <2>2, <2>3, <2>4, <2>5, <2>6, <2>7, <2>8, <2>9, <2>10, <2>11,
       <2>12, <2>13, <2>14, <2>15, <2>16 DEF Next
<1> QED
  BY <1>3, <1>4

(* Wherever the two programs are, on whatever lines the objects lie: the   *)
(* caches hold, and have written, only what the flushes, drops and         *)
(* messages of the code leave there; nothing is claimed of the copies of a *)
(* line with coefficients of both cores.                                   *)
THEOREM CachesInvariant == Spec => []CachesIInv
  BY InitIInv, NextIInv, PTL DEF Spec

(* The flushes and invalidations of the code suffice: on whatever lines    *)
(* the objects lie, neither core nor the accelerator ever reads an old     *)
(* copy of a shared object, but of coefficients that YDCAC and CbDCAC have *)
(* on one line.                                                            *)
THEOREM ReadsTheorem == Spec => []ReadsAreCurrent
  BY CachesInvariant, IInvReads, PTL

(* Nothing that was written is lost, but for coefficients on such a line:  *)
(* no write-back of an old copy, of a flush or an eviction, overwrites     *)
(* what the other core or the card controller has written.                 *)
THEOREM NoLostTheorem == Spec => []NoLostWrite
  BY CachesInvariant, IInvNoLost, PTL
=============================================================================
