------------------------------- MODULE SdCard -------------------------------
(***************************************************************************)
(* The SD card driver of core 1 (sd_lib.c, mmc.c, ocsdc.c) and an SD card  *)
(* as the code takes it to be.  The driver sends one command per step.  A  *)
(* command may be lost, or carried out with its answer lost; a card does   *)
(* not answer what is illegal in its state.  The driver sees every such    *)
(* failure alike, as a result that is not 0 (ocsdc.c:135, 228).            *)
(*                                                                         *)
(* The commands of MMC cards are left out: no SD card gets past the first  *)
(* of them.  The clock is left out as well.                                *)
(***************************************************************************)
EXTENDS Integers, Sequences

CONSTANTS
  HighCapacity,  (* the kinds of cards explored, a subset of BOOLEAN: SDHC *)
  CardBlocks,    (* the blocks of the card                                 *)
  BlockLen,      (* 512 in the source                                      *)
  SizeWidth,     (* the values of a size_t, 2^32 in the source             *)
  b_max,         (* the blocks in one command, 256 in the source           *)
  MaxTry,        (* 1 in main, then 10 in fatMountSdcard                   *)
  Timeout,       (* 1000 rounds in sd_send_op_cond and mmc_send_status     *)
  Retries,       (* 5 in mmc_send_status                                   *)
  ScrRetries,    (* 3 in sd_change_freq                                    *)
  SwitchTries,   (* 4 in sd_change_freq                                    *)
  ReadSizes      (* the numbers of blocks of the reads explored            *)

ASSUME SdAssumption ==
  /\ HighCapacity \subseteq BOOLEAN
  /\ {CardBlocks, BlockLen, SizeWidth, b_max, MaxTry, Timeout, SwitchTries}
       \subseteq Nat \ {0}
  /\ {Retries, ScrRetries} \subseteq Nat
  /\ ReadSizes \subseteq Nat \ {0}

VARIABLES
  card,      (* external: its kind, state, bus width, and what it expects  *)
  mmc,       (* struct mmc                                                 *)
  cmd,       (* the command that is next; idle: none; failed: no card      *)
  err,       (* of mmc_init and mmc_startup                                *)
  timeout, retries, tries,
  read       (* the call of mmc_bread                                      *)

sdVars == <<card, mmc, cmd, err, timeout, retries, tries, read>>

COMM == 0 - 1       (* what ocsdc_send_cmd gives for every failure         *)
UNUSABLE_ERR == 0 - 17
TIMEOUT == 0 - 19

RCA == 1            (* the address the card publishes                      *)

(* Legal tells whether the card carries the command out, after what it is  *)
(* then, ok whether the driver gets the answer.                            *)
Send(legal, after, ok) ==
  \/ ok /\ legal /\ card' = after
  \/ ~ok /\ card' \in {card} \cup (IF legal THEN {after} ELSE {})

In(states) == card.state \in states

To(state) == [card EXCEPT !.state = state, !.app = FALSE]

(* The command that follows is an application command.                     *)
AppCmd(rca, ok) ==
  Send(/\ In({"idle", "stby", "tran"})
       /\ rca = IF In({"idle"}) THEN 0 ELSE RCA,
       [card EXCEPT !.app = TRUE], ok)

-----------------------------------------------------------------------------
NoRead == [start |-> 0, todo |-> 0, first |-> 0, asked |-> 0,
           blocks |-> <<>>, result |-> "none"]

SdInit ==
  /\ \E hc \in HighCapacity :
       card = [hc |-> hc, state |-> "idle", app |-> FALSE, width |-> 1,
               conditions |-> FALSE]
  /\ mmc = [version |-> "none", high_capacity |-> FALSE, rca |-> 0,
            bus_width |-> 1, four_bit |-> FALSE, capacity |-> 0,
            has_init |-> FALSE]
  /\ cmd = "go_idle"
  /\ err = 0
  /\ timeout = 0
  /\ retries = 0
  /\ tries = 1
  /\ read = NoRead

(* SDLIB_Init gives FALSE, and is called again or not.                     *)
InitFails ==
  /\ mmc' = [mmc EXCEPT !.has_init = FALSE]
  /\ IF tries < MaxTry THEN cmd' = "go_idle" /\ tries' = tries + 1
                       ELSE cmd' = "failed" /\ UNCHANGED tries

GoOn(next) == cmd' = next /\ UNCHANGED tries

(* mmc_init: there is no answer to GO_IDLE that could be missed.           *)
GoIdle ==
  /\ cmd = "go_idle"
  /\ \/ UNCHANGED card
     \/ card' = [To("idle") EXCEPT !.width = 1, !.conditions = FALSE]
  /\ mmc' = [mmc EXCEPT !.bus_width = 1]
  /\ GoOn("if_cond")
  /\ UNCHANGED <<err, timeout, retries, read>>

(* mmc_send_if_cond, whose result mmc_init does not look at.               *)
SendIfCond ==
  /\ cmd = "if_cond"
  /\ \E ok \in BOOLEAN :
       /\ Send(In({"idle"}), [To("idle") EXCEPT !.conditions = TRUE], ok)
       /\ mmc' = IF ok THEN [mmc EXCEPT !.version = "2"] ELSE mmc
  /\ timeout' = Timeout
  /\ GoOn("app_op_cond")
  /\ UNCHANGED <<err, retries, read>>

(* sd_send_op_cond: the two commands of a round.                           *)
AppOpCond ==
  /\ cmd = "app_op_cond"
  /\ \E ok \in BOOLEAN :
       /\ AppCmd(0, ok)
       /\ err' = IF ok THEN 0 ELSE COMM
       /\ GoOn(IF ok THEN "op_cond" ELSE "voltage")
  /\ UNCHANGED <<mmc, timeout, retries, read>>

(* The card is ready when it likes; one of high capacity only if it was    *)
(* asked for its conditions and told that the driver knows its kind.       *)
SendOpCond ==
  /\ cmd = "op_cond"
  /\ \E ok, ready \in BOOLEAN :
       /\ ready /\ card.hc => card.conditions /\ mmc.version = "2"
       /\ Send(In({"idle"}) /\ card.app, To(IF ready THEN "ready" ELSE "idle"), ok)
       /\ IF ok /\ ~ready /\ timeout > 0
          THEN /\ timeout' = timeout - 1
               /\ GoOn("app_op_cond")
               /\ UNCHANGED <<mmc, err>>
          ELSE /\ GoOn("voltage")
               /\ err' = IF ~ok THEN COMM
                         ELSE IF ~ready \/ timeout = 0 THEN UNUSABLE_ERR ELSE 0
               /\ mmc' = IF err' # 0 THEN mmc
                         ELSE [mmc EXCEPT
                                 !.version = IF @ = "2" THEN "2" ELSE "1",
                                 !.high_capacity = card.hc, !.rca = 0]
               /\ UNCHANGED timeout
  /\ UNCHANGED <<retries, read>>

(* mmc_init goes on whatever the result, except that a TIMEOUT has the     *)
(* card tried as an MMC card.                                              *)
AfterOpCond ==
  /\ cmd = "voltage"
  /\ GoOn(IF err = TIMEOUT THEN "mmc_op_cond" ELSE "cid")
  /\ UNCHANGED <<card, mmc, err, timeout, retries, read>>

(* mmc_startup.  Any of these commands that fails ends it.                 *)
AllSendCid ==
  /\ cmd = "cid"
  /\ \E ok \in BOOLEAN :
       /\ Send(In({"ready"}), To("ident"), ok)
       /\ IF ok THEN GoOn("rca") /\ UNCHANGED mmc ELSE InitFails
  /\ UNCHANGED <<err, timeout, retries, read>>

SendRelativeAddr ==
  /\ cmd = "rca"
  /\ \E ok \in BOOLEAN :
       /\ Send(In({"ident", "stby"}), To("stby"), ok)
       /\ IF ~ok THEN InitFails
          ELSE /\ GoOn("csd")
               /\ mmc' = IF mmc.version = "none" THEN mmc
                         ELSE [mmc EXCEPT !.rca = RCA]
  /\ UNCHANGED <<err, timeout, retries, read>>

(* The register of the other kind of card would be misread.                *)
Capacities == IF mmc.high_capacity = card.hc
              THEN {(CardBlocks * BlockLen) % SizeWidth}
              ELSE {0, SizeWidth - 1}

SendCsd ==
  /\ cmd = "csd"
  /\ \E ok \in BOOLEAN, capacity \in Capacities :
       /\ Send(In({"stby"}) /\ mmc.rca = RCA, To("stby"), ok)
       /\ err' = IF ok THEN 0 ELSE COMM
       /\ mmc' = IF ok THEN [mmc EXCEPT !.capacity = capacity] ELSE mmc
  /\ timeout' = Timeout
  /\ retries' = Retries
  /\ GoOn("status")
  /\ UNCHANGED read

(* mmc_send_status: until the card is ready, reports an error, or one of   *)
(* two counters is used up; only then the result of SEND_CSD counts.       *)
SendStatus ==
  /\ cmd = "status"
  /\ \E ok, settled \in BOOLEAN :
       /\ Send(In({"stby"}) /\ mmc.rca = RCA, To("stby"), ok)
       /\ retries' = IF ok THEN retries ELSE retries - 1
       /\ IF IF ok THEN settled \/ timeout = 0 ELSE retries = 0 \/ timeout = 0
          THEN /\ IF err # 0 THEN InitFails ELSE GoOn("select") /\ UNCHANGED mmc
               /\ UNCHANGED timeout
          ELSE /\ timeout' = timeout - 1
               /\ GoOn("status")
               /\ UNCHANGED mmc
  /\ UNCHANGED <<err, read>>

SelectCard ==
  /\ cmd = "select"
  /\ \E ok \in BOOLEAN :
       /\ Send(In({"stby"}) /\ mmc.rca = RCA, To("tran"), ok)
       /\ IF ok THEN GoOn("app_scr") /\ UNCHANGED mmc ELSE InitFails
  /\ UNCHANGED <<err, timeout, retries, read>>

(* sd_change_freq: APP_CMD once, SEND_SCR again when it fails.             *)
Uncounted == retries     (* mutant: for ever                               *)
Again == retries - 1

AppScr ==
  /\ cmd = "app_scr"
  /\ \E ok \in BOOLEAN :
       /\ AppCmd(mmc.rca, ok)
       /\ IF ok THEN GoOn("scr") /\ UNCHANGED mmc ELSE InitFails
  /\ retries' = ScrRetries
  /\ UNCHANGED <<err, timeout, read>>

(* Without support of SWITCH_FUNC (version 1.0) the bus comes next.        *)
SendScr ==
  /\ cmd = "scr"
  /\ \E ok, old, four_bit \in BOOLEAN :
       /\ old => ~card.hc
       /\ Send(In({"tran"}) /\ card.app, To("tran"), ok)
       /\ IF ok THEN /\ mmc' = [mmc EXCEPT !.version = IF old THEN "1" ELSE "2",
                                           !.four_bit = four_bit]
                     /\ GoOn(IF ~old THEN "switch" ELSE "bus")
                     /\ retries' = SwitchTries - 1
          ELSE IF retries > 0
          THEN retries' = Again /\ GoOn("scr") /\ UNCHANGED mmc
          ELSE InitFails /\ UNCHANGED retries
  /\ UNCHANGED <<err, timeout, read>>

(* SWITCH_FUNC to check, again while the function is busy, then to switch. *)
SwitchFunc ==
  /\ cmd \in {"switch", "switched"}
  /\ \E ok, busy, fast \in BOOLEAN :
       /\ Send(In({"tran"}), To("tran"), ok)
       /\ IF ~ok THEN InitFails /\ UNCHANGED retries
          ELSE /\ UNCHANGED mmc
               /\ IF cmd = "switch" /\ busy /\ retries > 0
                  THEN retries' = Again /\ GoOn("switch")
                  ELSE /\ GoOn(IF cmd = "switch" /\ fast THEN "switched" ELSE "bus")
                       /\ UNCHANGED retries
  /\ UNCHANGED <<err, timeout, read>>

InitSucceeds ==
  /\ mmc' = [mmc EXCEPT !.has_init = TRUE,
                        !.bus_width = IF mmc.four_bit THEN 4 ELSE 1]
  /\ GoOn("idle")

(* Mutant: the result of SET_BUS_WIDTH is not looked at.                   *)
WidenUnchecked ==
  /\ cmd \in {"bus", "width"}
  /\ IF ~mmc.four_bit THEN InitSucceeds /\ UNCHANGED card
     ELSE \E ok \in BOOLEAN :
            IF cmd = "bus"
            THEN /\ AppCmd(mmc.rca, ok)
                 /\ IF ok THEN GoOn("width") /\ UNCHANGED mmc ELSE InitFails
            ELSE /\ Send(In({"tran"}) /\ card.app,
                         [To("tran") EXCEPT !.width = 4], ok)
                 /\ InitSucceeds
  /\ UNCHANGED <<err, timeout, retries, read>>

(* The bus is widened on the card first, then on the controller.           *)
WidenBus ==
  /\ cmd \in {"bus", "width"}
  /\ IF ~mmc.four_bit THEN InitSucceeds /\ UNCHANGED card
     ELSE \E ok \in BOOLEAN :
            /\ IF cmd = "bus" THEN AppCmd(mmc.rca, ok)
               ELSE Send(In({"tran"}) /\ card.app,
                         [To("tran") EXCEPT !.width = 4], ok)
            /\ IF ~ok THEN InitFails
               ELSE IF cmd = "bus" THEN GoOn("width") /\ UNCHANGED mmc
               ELSE InitSucceeds
  /\ UNCHANGED <<err, timeout, retries, read>>

-----------------------------------------------------------------------------
ReadFails == /\ GoOn("idle")
             /\ read' = [read EXCEPT !.result = "failed", !.start = 0, !.todo = 0]

(* mmc_bread is called for blocks the card has.                            *)
Bread(start, blkcnt) ==
  /\ cmd = "idle"
  /\ start + blkcnt <= CardBlocks
  /\ IF start + blkcnt > mmc.capacity \div BlockLen
     THEN /\ read' = [NoRead EXCEPT !.first = start, !.asked = blkcnt, !.result = "failed"]
          /\ GoOn("idle")
     ELSE /\ read' = [NoRead EXCEPT !.start = start, !.todo = blkcnt,
                                    !.first = start, !.asked = blkcnt]
          /\ GoOn("blocklen")
  /\ UNCHANGED <<card, mmc, err, timeout, retries>>

SetBlocklen ==
  /\ cmd = "blocklen"
  /\ \E ok \in BOOLEAN :
       /\ Send(In({"tran"}), To("tran"), ok)
       /\ IF ok THEN GoOn("read") /\ UNCHANGED read ELSE ReadFails
  /\ UNCHANGED <<mmc, err, timeout, retries>>

cur == IF read.todo > b_max THEN b_max ELSE read.todo

(* Blocks for a card of high capacity, bytes for another.                  *)
ArgumentOfFirst ==       (* mutant: every command begins at the first block *)
  IF mmc.high_capacity THEN read.first ELSE read.first * BlockLen
Argument == IF mmc.high_capacity THEN read.start ELSE read.start * BlockLen

FirstBlock == IF card.hc THEN Argument ELSE Argument \div BlockLen

(* With the blocks got, the next command, or the end.                      *)
NextChunk(got) ==
  IF read.todo > cur
  THEN /\ GoOn("read")
       /\ read' = [read EXCEPT !.todo = @ - cur, !.start = @ + cur, !.blocks = got]
  ELSE /\ GoOn("idle")
       /\ read' = [read EXCEPT !.todo = 0, !.start = 0, !.blocks = got, !.result = "ok"]

(* mmc_read_blocks: a transfer of several blocks is ended by a command of  *)
(* its own, which is not sent when the transfer fails.                     *)
ReadBlocks ==
  /\ cmd = "read"
  /\ \E ok \in BOOLEAN :
       /\ Send(/\ In({"tran"})
               /\ FirstBlock + cur <= CardBlocks
               /\ card.width = mmc.bus_width,
               To(IF cur > 1 THEN "data" ELSE "tran"), ok)
       /\ LET got == read.blocks \o [k \in 1 .. cur |-> FirstBlock + k - 1]
          IN  IF ~ok THEN ReadFails
              ELSE IF cur > 1
              THEN GoOn("stop") /\ read' = [read EXCEPT !.blocks = got]
              ELSE NextChunk(got)
  /\ UNCHANGED <<mmc, err, timeout, retries>>

StopTransmission ==
  /\ cmd = "stop"
  /\ \E ok \in BOOLEAN :
       /\ Send(In({"data"}), To("tran"), ok)
       /\ IF ok THEN NextChunk(read.blocks) ELSE ReadFails
  /\ UNCHANGED <<mmc, err, timeout, retries>>

DriverStep ==
  \/ GoIdle \/ SendIfCond \/ AppOpCond \/ SendOpCond \/ AfterOpCond
  \/ AllSendCid \/ SendRelativeAddr \/ SendCsd \/ SendStatus \/ SelectCard
  \/ AppScr \/ SendScr \/ SwitchFunc \/ WidenBus
  \/ SetBlocklen \/ ReadBlocks \/ StopTransmission

(* Without a card core 1 has no file system and looks for a video for ever.*)
NoCard == cmd = "failed" /\ UNCHANGED sdVars

SdNext == \/ DriverStep
          \/ \E start \in 0 .. CardBlocks - 1, blkcnt \in ReadSizes : Bread(start, blkcnt)
          \/ NoCard

(* The controller reports the end of every command (ocsdc.c:128, 163).     *)
SdSpec == SdInit /\ [][SdNext]_sdVars /\ WF_sdVars(DriverStep)

-----------------------------------------------------------------------------
(* Whichever commands and answers were lost and however often the driver   *)
(* began again: when mmc_init reports success, the card is selected, under *)
(* the address the driver uses, and both ends of the bus are equally wide; *)
(* a read that succeeds leaves it so (mmc.c:798-843, 504-748, 845-872).    *)
ReadyMeansTransfer ==
  mmc.has_init => /\ mmc.rca = RCA
                  /\ card.width = mmc.bus_width
                  /\ In({"tran", "data"})
                  /\ read.result = "ok" => In({"tran"})

(* What a read that succeeds should give: the blocks asked for, in order.  *)
BlocksAsked == read.blocks = [k \in 1 .. read.asked |-> read.first + k - 1]

(* A card of high capacity whose last answer to SD_SEND_OP_COND was lost:  *)
(* mmc_init goes on without its kind (mmc.c:168-176, 825-837).             *)
TakenForStandard == card.hc /\ ~mmc.high_capacity

(* A read that succeeds gives the blocks asked for, however it was cut     *)
(* into commands of at most b_max blocks (mmc.c:760-796, 845-872) and      *)
(* whatever was lost before - but for the one case that SupportsSDHC is    *)
(* about.                                                                  *)
ReadsRightBlocks ==
  read.result = "ok" /\ ~TakenForStandard => BlocksAsked

(* sd_lib.c:34: "Support SDHC (SDCARD >= 4GB)".  Then a read of such a     *)
(* card, too, gives the blocks asked for whenever it succeeds.             *)
SupportsSDHC == read.result = "ok" => BlocksAsked

(* Every initialisation and every read comes to its end: all the loops for *)
(* a card that is not ready or does not answer are bounded.                *)
DriverReturns == (cmd \notin {"idle", "failed"}) ~> (cmd \in {"idle", "failed"})
=============================================================================
