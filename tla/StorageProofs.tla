--------------------------- MODULE StorageProofs ---------------------------
(***************************************************************************)
(* Proofs about core 1's storage.                                          *)
(*                                                                         *)
(* SdCard, below the file system: for every card, every bound of the retry *)
(* loops and every loss of commands and answers, a card the driver         *)
(* declares ready can transfer, and a read that succeeds gives the blocks  *)
(* asked for.                                                              *)
(*                                                                         *)
(* Directory, above it: for every directory with whole long names and one  *)
(* entry for each name, the videos are opened in their order (Playlist),   *)
(* whichever sector cannot be read.  What a search has noted is determined *)
(* by the entry it has come to (Noted), and between the video that is open *)
(* and the entry the browse handle is at there is no other video           *)
(* (OnTheWay); the second search passes by every entry before the one the  *)
(* first has found.                                                        *)
(*                                                                         *)
(* FatFile, between them: for all layouts of the card, all sizes of        *)
(* sectors and clusters, all chains and all sizes of reads, an open file   *)
(* is a sequence of bytes with a position (ByteFile) as long as the FAT    *)
(* can be read.  A call of Fat_FileRead that began with a cluster it       *)
(* could rely on is, at every step, on its course or astray (CourseInv).   *)
(* On its course, the bytes in the buffer are those of the file, and the   *)
(* cluster, the sector and the position agree: the next byte to copy is    *)
(* the next byte of the file, and the chain does not end before the file   *)
(* does. Astray, an access to the card has failed, and either the walk has *)
(* noted it or the cluster is none of the card's, from which no step leads *)
(* back.                                                                   *)
(*                                                                         *)
(* That any of them comes to an end is left to TLC.                        *)
(***************************************************************************)
EXTENDS SdCard, Directory, FatFile, SequenceTheorems, FiniteSetTheorems, TLAPS

States == {"idle", "ready", "ident", "stby", "tran", "data"}

Starting == {"if_cond", "app_op_cond", "op_cond", "voltage", "mmc_op_cond", "cid",
             "rca", "csd", "status", "select"}
SettingUp == {"app_scr", "scr", "switch", "switched", "bus", "width"}
Reading == {"blocklen", "read", "stop"}

TypeInv ==
  /\ card \in [hc : BOOLEAN, state : States, app : BOOLEAN, width : {1, 4},
               conditions : BOOLEAN]
  /\ mmc \in [version : {"none", "1", "2"}, high_capacity : BOOLEAN, rca : {0, RCA},
              bus_width : {1, 4}, four_bit : BOOLEAN, capacity : Int,
              has_init : BOOLEAN]
  /\ read \in [start : Nat, todo : Nat, first : Nat, asked : Nat, blocks : Seq(Int),
               result : {"none", "ok", "failed"}]
  /\ cmd \in {"go_idle", "failed", "idle"} \cup Starting \cup SettingUp \cup Reading

(* A card that is not selected has a narrow bus: it is widened only after  *)
(* SELECT_CARD, and only GO_IDLE takes the selection back.                 *)
CardInv == card.state \in {"idle", "ready", "ident", "stby"} => card.width = 1

(* Whatever happened to the commands before, SELECT_CARD is answered only  *)
(* by a card in stand-by that has the driver's address.                    *)
SetUpInv ==
  /\ cmd \in Starting \cup SettingUp => mmc.bus_width = 1
  /\ cmd \in SettingUp => card.state = "tran" /\ card.width = 1 /\ mmc.rca = RCA
  /\ cmd \notin {"idle"} \cup Reading => ~mmc.has_init

(* A read leaves the card selected, sending data only if it has failed.    *)
ReadyInv ==
  /\ cmd \in {"idle"} \cup Reading =>
       /\ mmc.rca = RCA
       /\ card.width = mmc.bus_width
       /\ card.state \in {"tran", "data"}
       /\ read.result = "ok" => card.state = "tran"
  /\ cmd \in Reading => read.result = "none"
  /\ cmd \notin {"idle"} \cup Reading => read.result = "none"

IInv == TypeInv /\ CardInv /\ SetUpInv /\ ReadyInv

LEMMA InitIInv ==
  ASSUME SdInit
  PROVE  IInv
<1>1. PICK hc \in HighCapacity :
        card = [hc |-> hc, state |-> "idle", app |-> FALSE, width |-> 1,
                conditions |-> FALSE]
  BY DEF SdInit
<1>2. <<>> \in Seq(Int)
  BY EmptySeq
<1>3. hc \in BOOLEAN
  BY SdAssumption
<1>4. card \in [hc : BOOLEAN, state : States, app : BOOLEAN, width : {1, 4},
               conditions : BOOLEAN]
  BY <1>1, <1>3 DEF States
<1>5. /\ mmc \in [version : {"none", "1", "2"}, high_capacity : BOOLEAN, rca : {0, RCA},
                  bus_width : {1, 4}, four_bit : BOOLEAN, capacity : Int,
                  has_init : BOOLEAN]
      /\ ~mmc.has_init
  BY DEF SdInit
<1>6. /\ read \in [start : Nat, todo : Nat, first : Nat, asked : Nat, blocks : Seq(Int),
                   result : {"none", "ok", "failed"}]
      /\ read.result = "none"
  BY <1>2 DEF SdInit, NoRead
<1>7. cmd = "go_idle"
  BY DEF SdInit
<1>8. card.width = 1
  BY <1>1
<1> QED
  BY <1>4, <1>5, <1>6, <1>7, <1>8 DEF IInv, TypeInv, CardInv, SetUpInv, ReadyInv,
     Starting, SettingUp, Reading

(* What a command does to the card, whether answered or not.               *)
LEMMA SendCases ==
  ASSUME NEW STATE legal, NEW STATE after, NEW ok \in BOOLEAN, Send(legal, after, ok)
  PROVE  /\ card' = card \/ (legal /\ card' = after)
         /\ ok => legal /\ card' = after
  BY DEF Send

LEMMA AppCases ==
  ASSUME NEW rca, NEW ok \in BOOLEAN, AppCmd(rca, ok), TypeInv
  PROVE  /\ card' \in [hc : BOOLEAN, state : States, app : BOOLEAN, width : {1, 4},
                       conditions : BOOLEAN]
         /\ card'.state = card.state /\ card'.width = card.width
         /\ card'.hc = card.hc
<1>1. card' = card \/ card' = [card EXCEPT !.app = TRUE]
  BY DEF AppCmd, Send
<1> QED
  BY <1>1 DEF TypeInv

(* A command that leaves the card's width alone.                           *)
LEMMA MoveCases ==
  ASSUME NEW STATE legal, NEW s \in States, NEW ok \in BOOLEAN, Send(legal, To(s), ok), TypeInv
  PROVE  /\ card' \in [hc : BOOLEAN, state : States, app : BOOLEAN, width : {1, 4},
                       conditions : BOOLEAN]
         /\ card'.width = card.width /\ card'.hc = card.hc
         /\ card'.state = card.state \/ (legal /\ card'.state = s)
         /\ ok => legal /\ card'.state = s
<1>1. /\ card' = card \/ (legal /\ card' = To(s))
      /\ ok => legal /\ card' = To(s)
  BY SendCases
<1> QED
  BY <1>1 DEF To, TypeInv

(* A failed initialisation begins again, or not.                           *)
LEMMA FailKeeps ==
  ASSUME TypeInv, CardInv', InitFails, read' = read, read.result = "none",
         card' \in [hc : BOOLEAN, state : States, app : BOOLEAN, width : {1, 4},
                    conditions : BOOLEAN]
  PROVE  IInv'
<1>1. /\ mmc' = [mmc EXCEPT !.has_init = FALSE]
      /\ cmd' \in {"go_idle", "failed"}
  BY DEF InitFails
<1>2. TypeInv'
  BY <1>1 DEF TypeInv
<1>3. ~mmc'.has_init
  BY <1>1 DEF TypeInv
<1>4. SetUpInv' /\ ReadyInv'
  BY <1>1, <1>3 DEF SetUpInv, ReadyInv, Starting, SettingUp, Reading
<1> QED
  BY <1>2, <1>4 DEF IInv

-----------------------------------------------------------------------------
(* mmc_init: up to the end of its commands the driver has no card; what it *)
(* did before, the card may remember.                                      *)
LEMMA GoIdleInv ==
  ASSUME IInv, GoIdle
  PROVE  IInv'
<1>1. /\ card' \in [hc : BOOLEAN, state : States, app : BOOLEAN, width : {1, 4},
                    conditions : BOOLEAN]
      /\ card' = card \/ card'.width = 1
  BY DEF GoIdle, To, IInv, TypeInv, States
<1>2. /\ mmc' = [mmc EXCEPT !.bus_width = 1] /\ cmd = "go_idle" /\ cmd' = "if_cond"
      /\ read' = read
  BY DEF GoIdle, GoOn
<1>3. TypeInv'
  BY <1>1, <1>2 DEF IInv, TypeInv, Starting
<1>4. mmc'.bus_width = 1 /\ mmc'.has_init = mmc.has_init
  BY <1>2 DEF IInv, TypeInv
<1>5. CardInv'
  BY <1>1 DEF IInv, CardInv
<1> QED
  BY <1>2, <1>3, <1>4, <1>5 DEF IInv, SetUpInv, ReadyInv, Starting, SettingUp, Reading

(* The commands before SELECT_CARD: the card's width stays, and no card    *)
(* comes back from the transfer states.                                    *)
LEMMA StartingKeeps ==
  ASSUME IInv, cmd \in Starting, cmd' \in Starting, read' = read,
         mmc' \in [version : {"none", "1", "2"}, high_capacity : BOOLEAN, rca : {0, RCA},
                   bus_width : {1, 4}, four_bit : BOOLEAN, capacity : Int,
                   has_init : BOOLEAN],
         mmc'.bus_width = mmc.bus_width, mmc'.has_init = mmc.has_init,
         card' \in [hc : BOOLEAN, state : States, app : BOOLEAN, width : {1, 4},
                    conditions : BOOLEAN],
         CardInv'
  PROVE  IInv'
BY DEF IInv, TypeInv, SetUpInv, ReadyInv, Starting, SettingUp, Reading

LEMMA SendIfCondInv ==
  ASSUME IInv, SendIfCond
  PROVE  IInv'
<1>1. PICK ok \in BOOLEAN :
        /\ Send(In({"idle"}), [To("idle") EXCEPT !.conditions = TRUE], ok)
        /\ mmc' = IF ok THEN [mmc EXCEPT !.version = "2"] ELSE mmc
  BY DEF SendIfCond
<1>2. card' = card \/ (In({"idle"}) /\ card' = [To("idle") EXCEPT !.conditions = TRUE])
  BY <1>1, SendCases
<1>3. /\ card' \in [hc : BOOLEAN, state : States, app : BOOLEAN, width : {1, 4},
                    conditions : BOOLEAN]
      /\ card'.state = card.state /\ card'.width = card.width
  BY <1>2 DEF In, To, IInv, TypeInv, States
<1>4. /\ mmc' \in [version : {"none", "1", "2"}, high_capacity : BOOLEAN, rca : {0, RCA},
                   bus_width : {1, 4}, four_bit : BOOLEAN, capacity : Int,
                   has_init : BOOLEAN]
      /\ mmc'.bus_width = mmc.bus_width /\ mmc'.has_init = mmc.has_init
  BY <1>1 DEF IInv, TypeInv
<1>5. cmd = "if_cond" /\ cmd' = "app_op_cond" /\ read' = read
  BY DEF SendIfCond, GoOn
<1> QED
  BY <1>3, <1>4, <1>5, StartingKeeps DEF IInv, CardInv, Starting

LEMMA AppOpCondInv ==
  ASSUME IInv, AppOpCond
  PROVE  IInv'
<1>1. PICK ok \in BOOLEAN : AppCmd(0, ok) /\ cmd' = IF ok THEN "op_cond" ELSE "voltage"
  BY DEF AppOpCond, GoOn
<1>2. cmd = "app_op_cond" /\ mmc' = mmc /\ read' = read
  BY DEF AppOpCond
<1> QED
  BY <1>1, <1>2, AppCases, StartingKeeps DEF IInv, TypeInv, CardInv, Starting

LEMMA SendOpCondInv ==
  ASSUME IInv, SendOpCond
  PROVE  IInv'
<1>1. PICK ok \in BOOLEAN, ready \in BOOLEAN :
        /\ Send(In({"idle"}) /\ card.app, To(IF ready THEN "ready" ELSE "idle"), ok)
        /\ \/ cmd' = "app_op_cond" /\ mmc' = mmc
           \/ /\ cmd' = "voltage"
              /\ mmc' = IF err' # 0 THEN mmc
                        ELSE [mmc EXCEPT
                                !.version = IF @ = "2" THEN "2" ELSE "1",
                                !.high_capacity = card.hc, !.rca = 0]
  BY DEF SendOpCond, GoOn
<1>2. /\ card' \in [hc : BOOLEAN, state : States, app : BOOLEAN, width : {1, 4},
                    conditions : BOOLEAN]
      /\ card'.width = card.width
      /\ card'.state = card.state \/ In({"idle"})
  BY <1>1, MoveCases DEF States, IInv
<1>3. CardInv'
  BY <1>2 DEF In, IInv, CardInv
<1>4. /\ mmc' \in [version : {"none", "1", "2"}, high_capacity : BOOLEAN, rca : {0, RCA},
                   bus_width : {1, 4}, four_bit : BOOLEAN, capacity : Int,
                   has_init : BOOLEAN]
      /\ mmc'.bus_width = mmc.bus_width /\ mmc'.has_init = mmc.has_init
  <2>1. CASE mmc' = mmc
    BY <2>1 DEF IInv, TypeInv
  <2>2. CASE mmc' # mmc
    <3> DEFINE v == IF mmc.version = "2" THEN "2" ELSE "1"
               hc == card.hc
    <3>1. mmc' = [mmc EXCEPT !.version = v, !.high_capacity = hc, !.rca = 0]
      BY <1>1, <2>2
    <3>2. v \in {"none", "1", "2"} /\ hc \in BOOLEAN
      BY DEF IInv, TypeInv
    <3> HIDE DEF v, hc
    <3> QED
      BY <3>1, <3>2 DEF IInv, TypeInv
  <2> QED
    BY <2>1, <2>2
<1>5. cmd = "op_cond" /\ cmd' \in {"app_op_cond", "voltage"} /\ read' = read
  BY <1>1 DEF SendOpCond
<1> QED
  BY <1>2, <1>3, <1>4, <1>5, StartingKeeps DEF Starting

LEMMA AfterOpCondInv ==
  ASSUME IInv, AfterOpCond
  PROVE  IInv'
<1>1. /\ cmd = "voltage" /\ cmd' \in {"mmc_op_cond", "cid"}
      /\ UNCHANGED <<card, mmc, read>>
  BY DEF AfterOpCond, GoOn
<1> QED
  BY <1>1, StartingKeeps DEF IInv, TypeInv, CardInv, Starting

LEMMA AllSendCidInv ==
  ASSUME IInv, AllSendCid
  PROVE  IInv'
<1>1. PICK ok \in BOOLEAN :
        /\ Send(In({"ready"}), To("ident"), ok)
        /\ IF ok THEN cmd' = "rca" /\ mmc' = mmc ELSE InitFails
  BY DEF AllSendCid, GoOn
<1>2. cmd = "cid" /\ read' = read /\ read.result = "none"
  BY DEF AllSendCid, IInv, ReadyInv, Reading
<1>3. /\ card' \in [hc : BOOLEAN, state : States, app : BOOLEAN, width : {1, 4},
                    conditions : BOOLEAN]
      /\ card'.width = card.width
      /\ card'.state = card.state \/ In({"ready"})
  BY <1>1, MoveCases DEF States, IInv
<1>4. CardInv'
  BY <1>3 DEF In, IInv, CardInv
<1> QED
  BY <1>1, <1>2, <1>3, <1>4, StartingKeeps, FailKeeps DEF IInv, TypeInv, Starting

LEMMA SendRelativeAddrInv ==
  ASSUME IInv, SendRelativeAddr
  PROVE  IInv'
<1>1. PICK ok \in BOOLEAN :
        /\ Send(In({"ident", "stby"}), To("stby"), ok)
        /\ IF ~ok THEN InitFails
           ELSE /\ cmd' = "csd"
                /\ mmc' = IF mmc.version = "none" THEN mmc ELSE [mmc EXCEPT !.rca = RCA]
  BY DEF SendRelativeAddr, GoOn
<1>2. cmd = "rca" /\ read' = read /\ read.result = "none"
  BY DEF SendRelativeAddr, IInv, ReadyInv, Reading
<1>3. /\ card' \in [hc : BOOLEAN, state : States, app : BOOLEAN, width : {1, 4},
                    conditions : BOOLEAN]
      /\ card'.width = card.width
      /\ card'.state = card.state \/ In({"ident", "stby"})
  BY <1>1, MoveCases DEF States, IInv
<1>4. CardInv'
  BY <1>3 DEF In, IInv, CardInv
<1>5. CASE ok
  <2>1. /\ mmc' \in [version : {"none", "1", "2"}, high_capacity : BOOLEAN, rca : {0, RCA},
                     bus_width : {1, 4}, four_bit : BOOLEAN, capacity : Int,
                     has_init : BOOLEAN]
        /\ mmc'.bus_width = mmc.bus_width /\ mmc'.has_init = mmc.has_init
    BY <1>1, <1>5 DEF IInv, TypeInv
  <2> QED
    BY <1>1, <1>2, <1>3, <1>4, <1>5, <2>1, StartingKeeps DEF Starting
<1> QED
  BY <1>1, <1>2, <1>3, <1>4, <1>5, FailKeeps DEF IInv

(* The capacity is a number, if not the card's.                            *)
LEMMA SendCsdInv ==
  ASSUME IInv, SendCsd
  PROVE  IInv'
<1>1. PICK ok \in BOOLEAN, capacity \in Capacities :
        /\ Send(In({"stby"}) /\ mmc.rca = RCA, To("stby"), ok)
        /\ mmc' = IF ok THEN [mmc EXCEPT !.capacity = capacity] ELSE mmc
  BY DEF SendCsd
<1>2. capacity \in Int
  <2>1. (CardBlocks * BlockLen) % SizeWidth \in Int
    BY SdAssumption, Z3
  <2>2. SizeWidth - 1 \in Int
    BY SdAssumption
  <2> QED
    BY <2>1, <2>2 DEF Capacities
<1>3. /\ card' \in [hc : BOOLEAN, state : States, app : BOOLEAN, width : {1, 4},
                    conditions : BOOLEAN]
      /\ card'.width = card.width
      /\ card'.state = card.state \/ In({"stby"})
  BY <1>1, MoveCases DEF States, IInv
<1>4. CardInv'
  BY <1>3 DEF In, IInv, CardInv
<1>5. /\ mmc' \in [version : {"none", "1", "2"}, high_capacity : BOOLEAN, rca : {0, RCA},
                   bus_width : {1, 4}, four_bit : BOOLEAN, capacity : Int,
                   has_init : BOOLEAN]
      /\ mmc'.bus_width = mmc.bus_width /\ mmc'.has_init = mmc.has_init
  BY <1>1, <1>2 DEF IInv, TypeInv
<1>6. cmd = "csd" /\ cmd' = "status" /\ read' = read
  BY DEF SendCsd, GoOn
<1> QED
  BY <1>3, <1>4, <1>5, <1>6, StartingKeeps DEF Starting

LEMMA SendStatusInv ==
  ASSUME IInv, SendStatus
  PROVE  IInv'
<1>1. PICK ok \in BOOLEAN :
        /\ Send(In({"stby"}) /\ mmc.rca = RCA, To("stby"), ok)
        /\ \/ InitFails
           \/ cmd' \in {"select", "status"} /\ mmc' = mmc
  BY DEF SendStatus, GoOn
<1>2. cmd = "status" /\ read' = read /\ read.result = "none"
  BY DEF SendStatus, IInv, ReadyInv, Reading
<1>3. /\ card' \in [hc : BOOLEAN, state : States, app : BOOLEAN, width : {1, 4},
                    conditions : BOOLEAN]
      /\ card'.width = card.width
      /\ card'.state = card.state \/ In({"stby"})
  BY <1>1, MoveCases DEF States, IInv
<1>4. CardInv'
  BY <1>3 DEF In, IInv, CardInv
<1> QED
  BY <1>1, <1>2, <1>3, <1>4, StartingKeeps, FailKeeps DEF IInv, TypeInv, Starting

(* The answer to SELECT_CARD tells the driver where the card is, and from  *)
(* here on it knows.                                                       *)
LEMMA SelectCardInv ==
  ASSUME IInv, SelectCard
  PROVE  IInv'
<1>1. PICK ok \in BOOLEAN :
        /\ Send(In({"stby"}) /\ mmc.rca = RCA, To("tran"), ok)
        /\ IF ok THEN cmd' = "app_scr" /\ mmc' = mmc ELSE InitFails
  BY DEF SelectCard, GoOn
<1>2. cmd = "select" /\ read' = read /\ read.result = "none" /\ ~mmc.has_init
  BY DEF SelectCard, IInv, ReadyInv, SetUpInv, Reading
<1>3. /\ card' \in [hc : BOOLEAN, state : States, app : BOOLEAN, width : {1, 4},
                    conditions : BOOLEAN]
      /\ card'.width = card.width
      /\ card'.state = card.state \/ card'.state = "tran"
      /\ ok => In({"stby"}) /\ mmc.rca = RCA /\ card'.state = "tran"
  BY <1>1, MoveCases DEF States, IInv
<1>4. CardInv'
  BY <1>3 DEF IInv, CardInv
<1>5. CASE ok
  <2>1. card'.state = "tran" /\ card'.width = 1 /\ mmc'.rca = RCA /\ mmc' = mmc
    BY <1>1, <1>3, <1>5 DEF In, IInv, CardInv
  <2>2. TypeInv'
    BY <1>1, <1>2, <1>3, <1>5, <2>1 DEF IInv, TypeInv, SettingUp
  <2>3. SetUpInv' /\ ReadyInv'
    BY <1>1, <1>2, <1>5, <2>1
    DEF IInv, SetUpInv, ReadyInv, Starting, SettingUp, Reading
  <2> QED
    BY <1>4, <2>2, <2>3 DEF IInv
<1> QED
  BY <1>1, <1>2, <1>3, <1>4, <1>5, FailKeeps DEF IInv

(* A step of the set-up that fails, or goes on with the card as narrow as  *)
(* it was.                                                                 *)
LEMMA SettingUpKeeps ==
  ASSUME IInv, cmd \in SettingUp, read' = read,
         card' \in [hc : BOOLEAN, state : States, app : BOOLEAN, width : {1, 4},
                    conditions : BOOLEAN],
         card'.width = card.width, card'.state = "tran",
         \/ InitFails
         \/ /\ cmd' \in SettingUp
            /\ mmc' \in [version : {"none", "1", "2"}, high_capacity : BOOLEAN,
                         rca : {0, RCA}, bus_width : {1, 4}, four_bit : BOOLEAN,
                         capacity : Int, has_init : BOOLEAN]
            /\ mmc'.bus_width = mmc.bus_width /\ mmc'.has_init = mmc.has_init
            /\ mmc'.rca = mmc.rca
  PROVE  IInv'
<1>1. CardInv'
  BY DEF CardInv
<1>2. read.result = "none" /\ ~mmc.has_init
  BY DEF IInv, ReadyInv, SetUpInv, SettingUp, Reading
<1>3. CASE InitFails
  BY <1>1, <1>2, <1>3, FailKeeps DEF IInv
<1>4. CASE cmd' \in SettingUp /\ ~InitFails
  <2>1. TypeInv'
    BY <1>4 DEF IInv, TypeInv
  <2>2. SetUpInv' /\ ReadyInv'
    BY <1>2, <1>4 DEF IInv, SetUpInv, ReadyInv, Starting, SettingUp, Reading
  <2> QED
    BY <1>1, <2>1, <2>2 DEF IInv
<1> QED
  BY <1>3, <1>4

LEMMA AppScrInv ==
  ASSUME IInv, AppScr
  PROVE  IInv'
<1>1. PICK ok \in BOOLEAN :
        /\ AppCmd(mmc.rca, ok)
        /\ IF ok THEN cmd' = "scr" /\ mmc' = mmc ELSE InitFails
  BY DEF AppScr, GoOn
<1>2. cmd = "app_scr" /\ read' = read /\ card.state = "tran"
  BY DEF AppScr, IInv, SetUpInv, SettingUp
<1>3. /\ card' \in [hc : BOOLEAN, state : States, app : BOOLEAN, width : {1, 4},
                    conditions : BOOLEAN]
      /\ card'.width = card.width /\ card'.state = "tran"
  BY <1>1, <1>2, AppCases DEF IInv
<1> QED
  BY <1>1, <1>2, <1>3, SettingUpKeeps DEF IInv, TypeInv, SettingUp

LEMMA SendScrInv ==
  ASSUME IInv, SendScr
  PROVE  IInv'
<1>1. PICK ok \in BOOLEAN, old \in BOOLEAN, four_bit \in BOOLEAN :
        /\ Send(In({"tran"}) /\ card.app, To("tran"), ok)
        /\ \/ InitFails
           \/ cmd' = "scr" /\ mmc' = mmc
           \/ /\ cmd' \in {"switch", "bus"}
              /\ mmc' = [mmc EXCEPT !.version = IF old THEN "1" ELSE "2",
                                    !.four_bit = four_bit]
  BY DEF SendScr, GoOn
<1>2. cmd = "scr" /\ read' = read /\ card.state = "tran"
  BY DEF SendScr, IInv, SetUpInv, SettingUp
<1>3. /\ card' \in [hc : BOOLEAN, state : States, app : BOOLEAN, width : {1, 4},
                    conditions : BOOLEAN]
      /\ card'.width = card.width /\ card'.state = "tran"
  <2>1. "tran" \in States /\ TypeInv
    BY DEF States, IInv
  <2>2. Send(In({"tran"}) /\ card.app, To("tran"), ok)
    BY <1>1
  <2> QED
    BY <1>2, <2>1, <2>2, MoveCases
<1>4. \/ InitFails
      \/ /\ cmd' \in SettingUp
         /\ mmc' \in [version : {"none", "1", "2"}, high_capacity : BOOLEAN,
                      rca : {0, RCA}, bus_width : {1, 4}, four_bit : BOOLEAN,
                      capacity : Int, has_init : BOOLEAN]
         /\ mmc'.bus_width = mmc.bus_width /\ mmc'.has_init = mmc.has_init
         /\ mmc'.rca = mmc.rca
  BY <1>1 DEF IInv, TypeInv, SettingUp
<1> QED
  BY <1>2, <1>3, <1>4, SettingUpKeeps DEF SettingUp

LEMMA SwitchFuncInv ==
  ASSUME IInv, SwitchFunc
  PROVE  IInv'
<1>1. PICK ok \in BOOLEAN :
        /\ Send(In({"tran"}), To("tran"), ok)
        /\ \/ InitFails
           \/ cmd' \in {"switch", "switched", "bus"} /\ mmc' = mmc
  BY DEF SwitchFunc, GoOn
<1>2. cmd \in {"switch", "switched"} /\ read' = read /\ card.state = "tran"
  BY DEF SwitchFunc, IInv, SetUpInv, SettingUp
<1>3. /\ card' \in [hc : BOOLEAN, state : States, app : BOOLEAN, width : {1, 4},
                    conditions : BOOLEAN]
      /\ card'.width = card.width /\ card'.state = "tran"
  BY <1>1, <1>2, MoveCases DEF States, IInv
<1> QED
  BY <1>1, <1>2, <1>3, SettingUpKeeps DEF IInv, TypeInv, SettingUp

(* Success: both ends of the bus are as wide as the card's answer says.    *)
LEMMA SuccessIsReady ==
  ASSUME IInv, cmd \in SettingUp, InitSucceeds, read' = read,
         card' \in [hc : BOOLEAN, state : States, app : BOOLEAN, width : {1, 4},
                    conditions : BOOLEAN],
         card'.state = "tran",
         card'.width = IF mmc.four_bit THEN 4 ELSE 1
  PROVE  IInv'
<1>1. /\ mmc' = [mmc EXCEPT !.has_init = TRUE,
                            !.bus_width = IF mmc.four_bit THEN 4 ELSE 1]
      /\ cmd' = "idle"
  BY DEF InitSucceeds, GoOn
<1>2. /\ read.result = "none" /\ mmc.rca = RCA
  BY DEF IInv, ReadyInv, SetUpInv, SettingUp, Reading
<1>3. TypeInv' /\ mmc'.rca = mmc.rca /\ mmc'.bus_width = card'.width
  <2> DEFINE w == IF mmc.four_bit THEN 4 ELSE 1
  <2>1. w \in {1, 4} /\ card'.width = w
    OBVIOUS
  <2>2. mmc' = [mmc EXCEPT !.has_init = TRUE, !.bus_width = w]
    BY <1>1
  <2> HIDE DEF w
  <2> QED
    BY <1>1, <2>1, <2>2 DEF IInv, TypeInv
<1>4. CardInv' /\ SetUpInv' /\ ReadyInv'
  BY <1>1, <1>2, <1>3 DEF IInv, CardInv, SetUpInv, ReadyInv, Starting, SettingUp, Reading
<1> QED
  BY <1>3, <1>4 DEF IInv

LEMMA WidenBusInv ==
  ASSUME IInv, WidenBus
  PROVE  IInv'
<1>1. /\ cmd \in {"bus", "width"} /\ read' = read
      /\ card.state = "tran" /\ card.width = 1 /\ ~mmc.has_init /\ read.result = "none"
  BY DEF WidenBus, IInv, SetUpInv, ReadyInv, SettingUp, Reading
<1>2. CASE ~mmc.four_bit
  <2>1. InitSucceeds /\ card' = card
    BY <1>2 DEF WidenBus
  <2> QED
    BY <1>1, <1>2, <2>1, SuccessIsReady DEF IInv, TypeInv, SettingUp
<1>3. CASE mmc.four_bit /\ cmd = "bus"
  <2>1. PICK ok \in BOOLEAN :
          /\ AppCmd(mmc.rca, ok)
          /\ IF ok THEN cmd' = "width" /\ mmc' = mmc ELSE InitFails
    BY <1>3 DEF WidenBus, GoOn
  <2>2. /\ card' \in [hc : BOOLEAN, state : States, app : BOOLEAN, width : {1, 4},
                      conditions : BOOLEAN]
        /\ card'.width = card.width /\ card'.state = "tran"
    BY <1>1, <2>1, AppCases DEF IInv
  <2> QED
    BY <1>1, <2>1, <2>2, SettingUpKeeps DEF IInv, TypeInv, SettingUp
<1>4. CASE mmc.four_bit /\ cmd = "width"
  <2>1. PICK ok \in BOOLEAN :
          /\ Send(In({"tran"}) /\ card.app, [To("tran") EXCEPT !.width = 4], ok)
          /\ IF ok THEN InitSucceeds ELSE InitFails
    BY <1>4 DEF WidenBus
  <2>2. /\ card' = card \/ card' = [To("tran") EXCEPT !.width = 4]
        /\ ok => card' = [To("tran") EXCEPT !.width = 4]
    BY <2>1, SendCases
  <2>3. /\ card' \in [hc : BOOLEAN, state : States, app : BOOLEAN, width : {1, 4},
                      conditions : BOOLEAN]
        /\ card'.state = "tran"
        /\ ok => card'.width = 4
    BY <1>1, <2>2 DEF To, IInv, TypeInv, States
  <2>4. CardInv'
    BY <2>3 DEF CardInv
  <2>5. CASE ok
    BY <1>1, <1>4, <2>1, <2>3, <2>5, SuccessIsReady DEF SettingUp
  <2> QED
    BY <1>1, <2>1, <2>3, <2>4, <2>5, FailKeeps DEF IInv
<1> QED
  BY <1>1, <1>2, <1>3, <1>4

-----------------------------------------------------------------------------
(* mmc_bread *)

ReadRecords == [start : Nat, todo : Nat, first : Nat, asked : Nat, blocks : Seq(Int),
                result : {"none", "ok", "failed"}]

(* The blocks from f on.                                                   *)
Run(f, n) == [k \in 1 .. n |-> f + k - 1]

LEMMA RunIsSeq ==
  ASSUME NEW f \in Int, NEW n \in Nat
  PROVE  Run(f, n) \in Seq(Int) /\ Len(Run(f, n)) = n
  BY DEF Run

LEMMA RunsJoin ==
  ASSUME NEW f \in Int, NEW m \in Nat, NEW n \in Nat
  PROVE  Run(f, m) \o Run(f + m, n) = Run(f, m + n)
<1> DEFINE s == Run(f, m)
           t == Run(f + m, n)
           u == Run(f, m + n)
<1>1. /\ s \in Seq(Int) /\ Len(s) = m
      /\ t \in Seq(Int) /\ Len(t) = n
      /\ u \in Seq(Int) /\ Len(u) = m + n
  BY RunIsSeq
<1>2. /\ \A k \in 1 .. m : s[k] = f + k - 1
      /\ \A k \in 1 .. n : t[k] = f + m + k - 1
      /\ \A k \in 1 .. m + n : u[k] = f + k - 1
  BY DEF Run
<1> HIDE DEF s, t, u
<1>3. /\ s \o t \in Seq(Int) /\ Len(s \o t) = Len(s) + Len(t)
      /\ \A i \in 1 .. Len(s) + Len(t) :
           (s \o t)[i] = IF i <= Len(s) THEN s[i] ELSE t[i - Len(s)]
  BY <1>1, ConcatProperties
<1>4. \A i \in 1 .. m + n : (s \o t)[i] = u[i]
  <2> SUFFICES ASSUME NEW i \in 1 .. m + n PROVE (s \o t)[i] = u[i]
    OBVIOUS
  <2>1. CASE i <= m
    BY <1>1, <1>2, <1>3, <2>1
  <2>2. CASE i > m
    <3>1. i - m \in 1 .. n /\ t[i - m] = f + m + (i - m) - 1
      BY <1>2, <2>2
    <3> QED
      BY <1>1, <1>2, <1>3, <2>2, <3>1
  <2>3. i <= m \/ i > m
    OBVIOUS
  <2> QED
    BY <2>1, <2>2, <2>3, Zenon
<1>5. s \o t = u
  BY <1>1, <1>3, <1>4, SeqEqual
<1> QED
  BY <1>5 DEF s, t, u

(* The next command of a read, and its first block on the card.            *)
LEMMA CurIs ==
  ASSUME TypeInv
  PROVE  /\ cur \in Nat /\ cur <= read.todo
         /\ read.todo > cur => read.todo - cur \in Nat \ {0}
         /\ ~(read.todo > cur) => cur = read.todo
  BY SdAssumption DEF TypeInv, cur

Kind == mmc.high_capacity = card.hc

LEMMA FirstBlockIs ==
  ASSUME TypeInv
  PROVE  /\ FirstBlock \in Int
         /\ Kind => FirstBlock = read.start
<1>1. BlockLen \in Nat \ {0} /\ read.start \in Nat
  BY SdAssumption DEF TypeInv
<1>2. (read.start * BlockLen) \div BlockLen = read.start
  BY <1>1, Z3
<1>3. read.start \div BlockLen \in Int /\ read.start * BlockLen \in Int
  BY <1>1, Z3
<1> QED
  BY <1>1, <1>2, <1>3 DEF FirstBlock, Argument, Kind

(* The steps of a read leave the driver and the bus as they are.           *)
LEMMA ReadingKeeps ==
  ASSUME IInv, cmd \in {"idle"} \cup Reading, cmd' \in {"idle"} \cup Reading,
         mmc' = mmc, read' \in ReadRecords,
         card' \in [hc : BOOLEAN, state : States, app : BOOLEAN, width : {1, 4},
                    conditions : BOOLEAN],
         card'.width = card.width, card'.state \in {"tran", "data"},
         cmd' \in Reading => read'.result = "none",
         read'.result = "ok" => card'.state = "tran"
  PROVE  IInv'
<1>1. TypeInv'
  BY DEF IInv, TypeInv, ReadRecords
<1>2. CardInv' /\ SetUpInv' /\ ReadyInv'
  BY DEF IInv, CardInv, SetUpInv, ReadyInv, Starting, SettingUp, Reading
<1> QED
  BY <1>1, <1>2 DEF IInv

LEMMA FailIsRecord ==
  ASSUME TypeInv, ReadFails
  PROVE  read' \in ReadRecords /\ read'.result = "failed" /\ cmd' = "idle"
  BY DEF TypeInv, ReadFails, GoOn, ReadRecords

LEMMA ChunkIsRecord ==
  ASSUME TypeInv, NEW STATE got, got \in Seq(Int), NextChunk(got)
  PROVE  /\ read' \in ReadRecords
         /\ \/ /\ cmd' = "read" /\ read'.result = read.result /\ read.todo > cur
              /\ read'.todo = read.todo - cur /\ read'.start = read.start + cur
           \/ /\ cmd' = "idle" /\ read'.result = "ok" /\ cur = read.todo
         /\ read'.blocks = got /\ read'.first = read.first /\ read'.asked = read.asked
<1>1. read \in ReadRecords
  BY DEF TypeInv, ReadRecords
<1>2. CASE read.todo > cur
  <2> DEFINE todo == read.todo - cur
             start == read.start + cur
  <2>1. cmd' = "read" /\ read' = [read EXCEPT !.todo = todo, !.start = start, !.blocks = got]
    BY <1>2 DEF NextChunk, GoOn
  <2>2. todo \in Nat /\ start \in Nat
    BY <1>1, <1>2, CurIs DEF ReadRecords
  <2> HIDE DEF todo, start
  <2>3. /\ read' \in ReadRecords /\ read'.result = read.result
        /\ read'.todo = todo /\ read'.start = start
        /\ read'.blocks = got /\ read'.first = read.first /\ read'.asked = read.asked
    BY <1>1, <2>1, <2>2 DEF ReadRecords
  <2> QED
    BY <1>2, <2>1, <2>3 DEF todo, start
<1>3. CASE ~(read.todo > cur)
  <2>1. /\ cmd' = "idle"
        /\ read' = [read EXCEPT !.todo = 0, !.start = 0, !.blocks = got, !.result = "ok"]
    BY <1>3 DEF NextChunk, GoOn
  <2> QED
    BY <1>1, <1>3, <2>1, CurIs DEF ReadRecords
<1> QED
  BY <1>2, <1>3

LEMMA BreadInv ==
  ASSUME IInv,
         NEW start \in 0 .. CardBlocks - 1, NEW blkcnt \in ReadSizes, Bread(start, blkcnt)
  PROVE  IInv'
<1>1. /\ start \in Nat /\ blkcnt \in Nat /\ <<>> \in Seq(Int)
  BY EmptySeq, SdAssumption
<1>2. /\ cmd = "idle" /\ cmd' \in {"idle", "blocklen"} /\ card' = card /\ mmc' = mmc
      /\ \/ /\ cmd' = "idle"
           /\ read' = [NoRead EXCEPT !.first = start, !.asked = blkcnt, !.result = "failed"]
         \/ read' = [NoRead EXCEPT !.start = start, !.todo = blkcnt,
                                   !.first = start, !.asked = blkcnt]
  BY DEF Bread, GoOn
<1>3. /\ read' \in ReadRecords
      /\ cmd' \in Reading => read'.result = "none"
      /\ read'.result # "ok"
  <2>1. NoRead \in ReadRecords /\ NoRead.result = "none"
    BY <1>1 DEF NoRead, ReadRecords
  <2>2. CASE /\ cmd' = "idle"
             /\ read' = [NoRead EXCEPT !.first = start, !.asked = blkcnt, !.result = "failed"]
    BY <1>1, <2>1, <2>2 DEF ReadRecords, Reading
  <2>3. CASE read' = [NoRead EXCEPT !.start = start, !.todo = blkcnt,
                                   !.first = start, !.asked = blkcnt]
    BY <1>1, <2>1, <2>3 DEF ReadRecords
  <2> QED
    BY <1>2, <2>2, <2>3
<1> QED
  BY <1>2, <1>3, ReadingKeeps DEF IInv, TypeInv, ReadyInv, Reading

LEMMA SetBlocklenInv ==
  ASSUME IInv, SetBlocklen
  PROVE  IInv'
<1>1. PICK ok \in BOOLEAN :
        /\ Send(In({"tran"}), To("tran"), ok)
        /\ IF ok THEN cmd' = "read" /\ read' = read ELSE ReadFails
  BY DEF SetBlocklen, GoOn
<1>2. cmd = "blocklen" /\ mmc' = mmc /\ read.result = "none" /\ card.state \in {"tran", "data"}
  BY DEF SetBlocklen, IInv, ReadyInv, Reading
<1>3. /\ card' \in [hc : BOOLEAN, state : States, app : BOOLEAN, width : {1, 4},
                    conditions : BOOLEAN]
      /\ card'.width = card.width
      /\ card'.state = card.state \/ card'.state = "tran"
  BY <1>1, MoveCases DEF States, IInv
<1>4. CASE ok
  <2>1. read' \in ReadRecords /\ read'.result = "none"
    BY <1>1, <1>2, <1>4 DEF IInv, TypeInv, ReadRecords
  <2> QED
    BY <1>1, <1>2, <1>3, <1>4, <2>1, ReadingKeeps DEF Reading
<1>5. CASE ~ok
  <2>1. read' \in ReadRecords /\ read'.result = "failed" /\ cmd' = "idle"
    BY <1>1, <1>5, FailIsRecord DEF IInv
  <2> QED
    BY <1>2, <1>3, <2>1, ReadingKeeps DEF Reading
<1> QED
  BY <1>4, <1>5

LEMMA GotIsSeq ==
  ASSUME TypeInv
  PROVE  read.blocks \o Run(FirstBlock, cur) \in Seq(Int)
<1>1. read.blocks \in Seq(Int) /\ Run(FirstBlock, cur) \in Seq(Int)
  BY CurIs, FirstBlockIs, RunIsSeq DEF TypeInv
<1> QED
  BY <1>1, ConcatProperties, Zenon

(* A multi-block read leaves the card sending data, until it is stopped.   *)
LEMMA ReadBlocksInv ==
  ASSUME IInv, ReadBlocks
  PROVE  IInv'
<1> DEFINE got == read.blocks \o Run(FirstBlock, cur)
<1>1. PICK ok \in BOOLEAN :
        /\ Send(/\ In({"tran"})
                /\ FirstBlock + cur <= CardBlocks
                /\ card.width = mmc.bus_width,
                To(IF cur > 1 THEN "data" ELSE "tran"), ok)
        /\ IF ~ok THEN ReadFails
           ELSE IF cur > 1
           THEN cmd' = "stop" /\ read' = [read EXCEPT !.blocks = got]
           ELSE NextChunk(got)
  BY DEF ReadBlocks, GoOn, Run
<1>2. cmd = "read" /\ mmc' = mmc /\ read.result = "none" /\ card.state \in {"tran", "data"}
  BY DEF ReadBlocks, IInv, ReadyInv, Reading
<1>3. got \in Seq(Int)
  BY GotIsSeq DEF IInv
<1> HIDE DEF got
<1>4. /\ card' \in [hc : BOOLEAN, state : States, app : BOOLEAN, width : {1, 4},
                    conditions : BOOLEAN]
      /\ card'.width = card.width
      /\ card'.state \in {"tran", "data"}
      /\ ok /\ ~(cur > 1) => card'.state = "tran"
  BY <1>1, <1>2, MoveCases DEF States, IInv
<1>5. CASE ~ok
  <2>1. read' \in ReadRecords /\ read'.result = "failed" /\ cmd' = "idle"
    BY <1>1, <1>5, FailIsRecord DEF IInv
  <2> QED
    BY <1>2, <1>4, <2>1, ReadingKeeps DEF Reading
<1>6. CASE ok /\ cur > 1
  <2>1. cmd' = "stop" /\ read' \in ReadRecords /\ read'.result = "none"
    BY <1>1, <1>2, <1>3, <1>6 DEF IInv, TypeInv, ReadRecords
  <2> QED
    BY <1>2, <1>4, <2>1, ReadingKeeps DEF Reading
<1>7. CASE ok /\ ~(cur > 1)
  <2>1. /\ read' \in ReadRecords
        /\ \/ cmd' = "read" /\ read'.result = "none"
           \/ cmd' = "idle"
    BY <1>1, <1>2, <1>3, <1>7, ChunkIsRecord DEF IInv
  <2> QED
    BY <1>2, <1>4, <1>7, <2>1, ReadingKeeps DEF Reading
<1> QED
  BY <1>5, <1>6, <1>7

LEMMA StopTransmissionInv ==
  ASSUME IInv, StopTransmission
  PROVE  IInv'
<1>1. PICK ok \in BOOLEAN :
        /\ Send(In({"data"}), To("tran"), ok)
        /\ IF ok THEN NextChunk(read.blocks) ELSE ReadFails
  BY DEF StopTransmission
<1>2. cmd = "stop" /\ mmc' = mmc /\ read.result = "none" /\ card.state \in {"tran", "data"}
  BY DEF StopTransmission, IInv, ReadyInv, Reading
<1>3. /\ card' \in [hc : BOOLEAN, state : States, app : BOOLEAN, width : {1, 4},
                    conditions : BOOLEAN]
      /\ card'.width = card.width
      /\ card'.state \in {"tran", "data"}
      /\ ok => card'.state = "tran"
  BY <1>1, <1>2, MoveCases DEF States, IInv
<1>4. CASE ok
  <2>1. read.blocks \in Seq(Int)
    BY DEF IInv, TypeInv
  <2>2. /\ read' \in ReadRecords
        /\ \/ cmd' = "read" /\ read'.result = "none"
           \/ cmd' = "idle"
    BY <1>1, <1>2, <1>4, <2>1, ChunkIsRecord DEF IInv
  <2> QED
    BY <1>2, <1>3, <1>4, <2>2, ReadingKeeps DEF Reading
<1>5. CASE ~ok
  <2>1. read' \in ReadRecords /\ read'.result = "failed" /\ cmd' = "idle"
    BY <1>1, <1>5, FailIsRecord DEF IInv
  <2> QED
    BY <1>2, <1>3, <2>1, ReadingKeeps DEF Reading
<1> QED
  BY <1>4, <1>5

LEMMA StepIInv ==
  ASSUME IInv, [SdNext]_sdVars
  PROVE  IInv'
<1>1. ASSUME NEW start \in 0 .. CardBlocks - 1, NEW blkcnt \in ReadSizes,
             Bread(start, blkcnt)
      PROVE  IInv'
  BY <1>1, BreadInv
<1>2. CASE DriverStep
  BY <1>2, GoIdleInv, SendIfCondInv, AppOpCondInv, SendOpCondInv, AfterOpCondInv,
     AllSendCidInv, SendRelativeAddrInv, SendCsdInv, SendStatusInv, SelectCardInv,
     AppScrInv, SendScrInv, SwitchFuncInv, WidenBusInv,
     SetBlocklenInv, ReadBlocksInv, StopTransmissionInv
  DEF DriverStep
<1>3. CASE UNCHANGED sdVars
  BY <1>3 DEF sdVars, IInv, TypeInv, CardInv, SetUpInv, ReadyInv
<1> QED
  BY <1>1, <1>2, <1>3 DEF SdNext, NoCard

(* However often the initialisation was begun again, the driver's and the  *)
(* card's idea of each other agree where it matters.                       *)
THEOREM Invariant == SdSpec => []IInv
<1>1. SdInit => IInv
  BY InitIInv
<1>2. IInv /\ [SdNext]_sdVars => IInv'
  BY StepIInv
<1> QED
  BY <1>1, <1>2, PTL DEF SdSpec

(* A card that is ready can transfer, whichever commands and answers were  *)
(* lost before (mmc.c:798-843).                                            *)
THEOREM ReadyTheorem == SdSpec => []ReadyMeansTransfer
<1>1. IInv => ReadyMeansTransfer
  BY DEF IInv, SetUpInv, ReadyInv, ReadyMeansTransfer, In, TypeInv
<1> QED
  BY <1>1, Invariant, PTL

-----------------------------------------------------------------------------
(* The blocks got so far are those from the first one on, cut anywhere.    *)
ReadInv ==
  /\ cmd \in Reading =>
       /\ read.start >= read.first
       /\ read.asked = read.start - read.first + read.todo
  /\ Kind /\ cmd \in {"blocklen", "read"} =>
       read.blocks = Run(read.first, read.start - read.first)
  /\ Kind /\ cmd = "stop" =>
       read.blocks = Run(read.first, read.start - read.first + cur)
  /\ Kind /\ cmd = "idle" /\ read.result = "ok" =>
       read.blocks = Run(read.first, read.asked)

LEMMA BreadReads ==
  ASSUME IInv, ReadInv,
         NEW start \in 0 .. CardBlocks - 1, NEW blkcnt \in ReadSizes, Bread(start, blkcnt)
  PROVE  ReadInv'
<1>1. start \in Nat /\ blkcnt \in Nat
  BY SdAssumption
<1>2. CASE /\ cmd' = "idle"
           /\ read' = [NoRead EXCEPT !.first = start, !.asked = blkcnt, !.result = "failed"]
  <2>1. read'.result = "failed"
    BY <1>2 DEF NoRead
  <2> QED
    BY <1>2, <2>1 DEF ReadInv, Reading
<1>3. CASE /\ cmd' = "blocklen"
           /\ read' = [NoRead EXCEPT !.start = start, !.todo = blkcnt,
                                     !.first = start, !.asked = blkcnt]
  <2>1. /\ read'.start = start /\ read'.first = start /\ read'.asked = blkcnt
        /\ read'.todo = blkcnt /\ read'.blocks = <<>>
    BY <1>3 DEF NoRead
  <2>2. Run(start, start - start) = <<>>
    BY <1>1 DEF Run
  <2> QED
    BY <1>1, <1>3, <2>1, <2>2 DEF ReadInv
<1> QED
  BY <1>2, <1>3 DEF Bread, GoOn

(* A command of a read that gets its blocks adds them behind the others.   *)
LEMMA GotJoins ==
  ASSUME IInv, ReadInv, cmd = "read", Kind
  PROVE  read.blocks \o Run(FirstBlock, cur) = Run(read.first, read.start - read.first + cur)
<1>1. /\ read.first \in Int /\ read.start \in Nat /\ cur \in Nat
      /\ read.start - read.first \in Nat
      /\ FirstBlock = read.start
  BY CurIs, FirstBlockIs DEF IInv, TypeInv, ReadInv, Reading
<1>2. read.blocks = Run(read.first, read.start - read.first)
  BY DEF ReadInv
<1>3. read.first + (read.start - read.first) = read.start
  BY <1>1
<1>4. Run(read.first, read.start - read.first)
        \o Run(read.first + (read.start - read.first), cur)
        = Run(read.first, read.start - read.first + cur)
  BY <1>1, RunsJoin, Zenon
<1> QED
  BY <1>1, <1>2, <1>3, <1>4

LEMMA ChunkReads ==
  ASSUME IInv, ReadInv, cmd \in {"read", "stop"}, Kind' = Kind,
         NEW STATE got, got \in Seq(Int), NextChunk(got),
         Kind => got = Run(read.first, read.start - read.first + cur)
  PROVE  ReadInv'
<1>1. /\ read.start \in Nat /\ read.first \in Nat /\ read.todo \in Nat
      /\ read.start >= read.first /\ cur \in Nat
      /\ read.asked = read.start - read.first + read.todo
  BY CurIs DEF IInv, TypeInv, ReadInv, Reading
<1>2. read'.blocks = got /\ read'.first = read.first /\ read'.asked = read.asked
  BY ChunkIsRecord DEF IInv
<1>3. CASE /\ cmd' = "read" /\ read.todo > cur
           /\ read'.todo = read.todo - cur /\ read'.start = read.start + cur
  <2>1. read'.start - read'.first = read.start - read.first + cur
    BY <1>1, <1>2, <1>3
  <2>2. /\ read'.start >= read'.first
        /\ read'.asked = read'.start - read'.first + read'.todo
    <3>1. \A s, f, t, c \in Nat :
            s >= f => s + c >= f /\ s - f + t = (s + c) - f + (t - c)
      OBVIOUS
    <3>2. /\ read.start + cur >= read.first
          /\ read.asked = (read.start + cur) - read.first + (read.todo - cur)
      BY <1>1, <3>1
    <3> QED
      BY <1>2, <1>3, <3>2
  <2>3. Kind' => read'.blocks = Run(read'.first, read'.start - read'.first)
    BY <1>2, <2>1
  <2> QED
    BY <1>3, <2>2, <2>3 DEF ReadInv
<1>4. CASE cmd' = "idle" /\ cur = read.todo
  BY <1>1, <1>2, <1>4 DEF ReadInv, Reading
<1> QED
  BY <1>3, <1>4, ChunkIsRecord DEF IInv

LEMMA ReadBlocksReads ==
  ASSUME IInv, ReadInv, ReadBlocks
  PROVE  ReadInv'
<1> DEFINE got == read.blocks \o Run(FirstBlock, cur)
<1>1. PICK ok \in BOOLEAN :
        /\ Send(/\ In({"tran"})
                /\ FirstBlock + cur <= CardBlocks
                /\ card.width = mmc.bus_width,
                To(IF cur > 1 THEN "data" ELSE "tran"), ok)
        /\ IF ~ok THEN ReadFails
           ELSE IF cur > 1
           THEN cmd' = "stop" /\ read' = [read EXCEPT !.blocks = got]
           ELSE NextChunk(got)
  BY DEF ReadBlocks, GoOn, Run
<1>2. cmd = "read" /\ mmc' = mmc
  BY DEF ReadBlocks
<1>3. got \in Seq(Int) /\ (Kind => got = Run(read.first, read.start - read.first + cur))
  BY <1>2, GotIsSeq, GotJoins DEF IInv
<1> HIDE DEF got
<1>4. Kind' = Kind
  <2>1. card'.hc = card.hc
    BY <1>1, MoveCases DEF States, IInv
  <2> QED
    BY <1>2, <2>1 DEF Kind
<1>5. CASE ~ok
  <2>1. read'.result = "failed" /\ cmd' = "idle"
    BY <1>1, <1>5, FailIsRecord DEF IInv
  <2> QED
    BY <2>1 DEF ReadInv, Reading
<1>6. CASE ok /\ cur > 1
  <2>1. /\ cmd' = "stop" /\ read'.blocks = got /\ read'.first = read.first
        /\ read'.start = read.start /\ read'.asked = read.asked /\ read'.todo = read.todo
    BY <1>1, <1>3, <1>6 DEF IInv, TypeInv
  <2>2. cur' = cur
    BY <2>1 DEF cur
  <2> QED
    BY <1>2, <1>3, <1>4, <2>1, <2>2 DEF ReadInv, Reading
<1>7. CASE ok /\ ~(cur > 1)
  BY <1>1, <1>2, <1>3, <1>4, <1>7, ChunkReads
<1> QED
  BY <1>5, <1>6, <1>7

LEMMA ReadInvStep ==
  ASSUME IInv, IInv', ReadInv, [SdNext]_sdVars
  PROVE  ReadInv'
<1>1. ASSUME NEW start \in 0 .. CardBlocks - 1, NEW blkcnt \in ReadSizes,
             Bread(start, blkcnt)
      PROVE  ReadInv'
  BY <1>1, BreadReads
<1>2. CASE cmd \notin {"idle"} \cup Reading /\ DriverStep
  <2>1. read.result = "none" /\ read' = read
    BY <1>2 DEF IInv, ReadyInv, Reading, DriverStep, GoIdle, SendIfCond, AppOpCond, SendOpCond,
       AfterOpCond, AllSendCid, SendRelativeAddr, SendCsd, SendStatus, SelectCard,
       AppScr, SendScr, SwitchFunc, WidenBus, SetBlocklen, ReadBlocks, StopTransmission
  <2>2. cmd' \notin Reading
    BY <1>2 DEF Reading, DriverStep, GoIdle, SendIfCond, AppOpCond, SendOpCond,
       AfterOpCond, AllSendCid, SendRelativeAddr, SendCsd, SendStatus, SelectCard,
       AppScr, SendScr, SwitchFunc, WidenBus, SetBlocklen, ReadBlocks, StopTransmission,
       GoOn, InitFails, InitSucceeds
  <2> QED
    BY <2>1, <2>2 DEF ReadInv, Reading
<1>3. CASE SetBlocklen
  <2>1. PICK ok \in BOOLEAN :
          /\ Send(In({"tran"}), To("tran"), ok)
          /\ IF ok THEN cmd' = "read" /\ read' = read ELSE ReadFails
    BY <1>3 DEF SetBlocklen, GoOn
  <2>2. cmd = "blocklen" /\ mmc' = mmc /\ card'.hc = card.hc
    BY <1>3, <2>1, MoveCases DEF SetBlocklen, States, IInv
  <2>3. CASE ok
    BY <2>1, <2>2, <2>3 DEF ReadInv, Reading, Kind
  <2>4. CASE ~ok
    <3>1. read'.result = "failed" /\ cmd' = "idle"
      BY <2>1, <2>4, FailIsRecord DEF IInv
    <3> QED
      BY <3>1 DEF ReadInv, Reading
  <2> QED
    BY <2>3, <2>4
<1>4. CASE ReadBlocks
  BY <1>4, ReadBlocksReads
<1>5. CASE StopTransmission
  <2>1. PICK ok \in BOOLEAN :
          /\ Send(In({"data"}), To("tran"), ok)
          /\ IF ok THEN NextChunk(read.blocks) ELSE ReadFails
    BY <1>5 DEF StopTransmission
  <2>2. cmd = "stop" /\ mmc' = mmc /\ card'.hc = card.hc
    BY <1>5, <2>1, MoveCases DEF StopTransmission, States, IInv
  <2>3. CASE ok
    <3>1. /\ read.blocks \in Seq(Int) /\ Kind' = Kind
          /\ Kind => read.blocks = Run(read.first, read.start - read.first + cur)
      BY <2>2 DEF IInv, TypeInv, Kind, ReadInv
    <3> QED
      BY <2>1, <2>2, <2>3, <3>1, ChunkReads
  <2>4. CASE ~ok
    <3>1. read'.result = "failed" /\ cmd' = "idle"
      BY <2>1, <2>4, FailIsRecord DEF IInv
    <3> QED
      BY <3>1 DEF ReadInv, Reading
  <2> QED
    BY <2>3, <2>4
<1>6. CASE UNCHANGED sdVars
  BY <1>6 DEF sdVars, ReadInv, Kind, cur
<1>7. DriverStep => \/ cmd \notin {"idle"} \cup Reading
                    \/ SetBlocklen \/ ReadBlocks \/ StopTransmission
  BY DEF Reading, DriverStep, GoIdle, SendIfCond, AppOpCond, SendOpCond,
     AfterOpCond, AllSendCid, SendRelativeAddr, SendCsd, SendStatus, SelectCard,
     AppScr, SendScr, SwitchFunc, WidenBus
<1> QED
  BY <1>1, <1>2, <1>3, <1>4, <1>5, <1>6, <1>7 DEF SdNext, NoCard

(* No step changes what the card is, and only its own answer makes it one  *)
(* of high capacity for the driver (mmc.c:170-173).                        *)
LEMMA KindStep ==
  ASSUME TypeInv, [SdNext]_sdVars
  PROVE  /\ card'.hc = card.hc
         /\ mmc'.high_capacity \in {mmc.high_capacity, card.hc}
<1> DEFINE Same(c) == c.hc = card.hc
           Known == mmc'.high_capacity \in {mmc.high_capacity, card.hc}
<1>1. ASSUME NEW legal, NEW after, NEW ok, Send(legal, after, ok), Same(after)
      PROVE  card'.hc = card.hc
  BY <1>1 DEF Send
<1>2. ASSUME NEW s PROVE Same(To(s))
  BY DEF TypeInv, To
<1>3. /\ Same([card EXCEPT !.app = TRUE])
      /\ Same([To("idle") EXCEPT !.width = 1, !.conditions = FALSE])
      /\ Same([To("idle") EXCEPT !.conditions = TRUE])
      /\ Same([To("tran") EXCEPT !.width = 4])
  BY DEF TypeInv, To
<1>4. ASSUME NEW rca, NEW ok, AppCmd(rca, ok) PROVE card'.hc = card.hc
  BY <1>1, <1>3, <1>4 DEF AppCmd
<1>5. /\ InitFails => Known
      /\ InitSucceeds => Known
      /\ UNCHANGED mmc => Known
  BY DEF TypeInv, InitFails, InitSucceeds
<1>6. ASSUME GoIdle PROVE card'.hc = card.hc /\ Known
  BY <1>3, <1>6 DEF GoIdle, TypeInv
<1>7. ASSUME SendIfCond PROVE card'.hc = card.hc /\ Known
  BY <1>1, <1>3, <1>7 DEF SendIfCond, TypeInv
<1>8. ASSUME AppOpCond PROVE card'.hc = card.hc /\ Known
  BY <1>4, <1>5, <1>8 DEF AppOpCond
<1>9. ASSUME SendOpCond PROVE card'.hc = card.hc /\ Known
  <2>1. PICK ok \in BOOLEAN, ready \in BOOLEAN :
          /\ Send(In({"idle"}) /\ card.app, To(IF ready THEN "ready" ELSE "idle"), ok)
          /\ \/ UNCHANGED mmc
             \/ \E v, r : mmc' = [mmc EXCEPT !.version = v, !.high_capacity = card.hc, !.rca = r]
    BY <1>9 DEF SendOpCond
  <2>2. Known
    BY <1>5, <2>1 DEF TypeInv
  <2>3. card' \in {card, To(IF ready THEN "ready" ELSE "idle")}
    BY <2>1 DEF Send
  <2> QED
    BY <1>2, <2>2, <2>3
<1>10. ASSUME AllSendCid \/ SelectCard \/ SwitchFunc PROVE card'.hc = card.hc /\ Known
  BY <1>1, <1>2, <1>5, <1>10 DEF AllSendCid, SelectCard, SwitchFunc
<1>11. ASSUME SendRelativeAddr PROVE card'.hc = card.hc /\ Known
  <2>1. \/ InitFails \/ UNCHANGED mmc \/ mmc' = [mmc EXCEPT !.rca = RCA]
    BY <1>11 DEF SendRelativeAddr
  <2> QED
    BY <1>1, <1>2, <1>5, <1>11, <2>1 DEF SendRelativeAddr, TypeInv
<1>12. ASSUME SendCsd PROVE card'.hc = card.hc /\ Known
  BY <1>1, <1>2, <1>12 DEF SendCsd, TypeInv
<1>13. ASSUME SendStatus PROVE card'.hc = card.hc /\ Known
  BY <1>1, <1>2, <1>5, <1>13 DEF SendStatus
<1>14. ASSUME AppScr PROVE card'.hc = card.hc /\ Known
  BY <1>4, <1>5, <1>14 DEF AppScr
<1>15. ASSUME SendScr PROVE card'.hc = card.hc /\ Known
  <2>1. \/ InitFails \/ UNCHANGED mmc
        \/ \E v, b : mmc' = [mmc EXCEPT !.version = v, !.four_bit = b]
    BY <1>15 DEF SendScr
  <2>2. Known
    BY <1>5, <2>1 DEF TypeInv
  <2>3. card' \in {card, To("tran")}
    BY <1>15 DEF SendScr, Send
  <2> QED
    BY <1>2, <2>2, <2>3
<1>16. ASSUME WidenBus PROVE card'.hc = card.hc /\ Known
  BY <1>1, <1>3, <1>4, <1>5, <1>16 DEF WidenBus
<1>17. ASSUME SetBlocklen \/ ReadBlocks \/ StopTransmission
       PROVE  card'.hc = card.hc /\ Known
  <2>1. card' \in {card, To("tran"), To("data")}
    BY <1>17 DEF SetBlocklen, ReadBlocks, StopTransmission, Send
  <2>2. UNCHANGED mmc
    BY <1>17 DEF SetBlocklen, ReadBlocks, StopTransmission
  <2> QED
    BY <1>2, <1>5, <2>1, <2>2
<1>18. ASSUME UNCHANGED <<card, mmc>> PROVE card'.hc = card.hc /\ Known
  BY <1>5, <1>18
<1>19. AfterOpCond \/ NoCard \/ UNCHANGED sdVars => UNCHANGED <<card, mmc>>
  BY DEF AfterOpCond, NoCard, sdVars
<1>20. ASSUME NEW start \in 0 .. CardBlocks - 1, NEW blkcnt \in ReadSizes, Bread(start, blkcnt)
       PROVE  UNCHANGED <<card, mmc>>
  BY <1>20 DEF Bread
<1> QED
  BY <1>6, <1>7, <1>8, <1>9, <1>10, <1>11, <1>12, <1>13, <1>14, <1>15, <1>16, <1>17,
     <1>18, <1>19, <1>20 DEF SdNext, DriverStep

(* The driver never takes a card of standard capacity for one of high      *)
(* capacity: the other way round is the only mistake about its kind.       *)
KindKnown == mmc.high_capacity => card.hc

(* A read that succeeds gives the blocks asked for, however it was cut     *)
(* into commands (mmc.c:760-796, 845-872), unless the card is one of high  *)
(* capacity and the answer that says so was lost.                          *)
THEOREM BlocksTheorem == SdSpec => []ReadsRightBlocks
<1>1. SdInit => ReadInv
  BY DEF SdInit, NoRead, ReadInv, Reading
<1>2. IInv /\ IInv' /\ ReadInv /\ [SdNext]_sdVars => ReadInv'
  BY ReadInvStep
<1>3. IInv /\ ReadInv /\ KindKnown => ReadsRightBlocks
  <2>1. IInv /\ read.result = "ok" => cmd = "idle"
    BY DEF IInv, TypeInv, ReadyInv
  <2> SUFFICES ASSUME IInv, ReadInv, KindKnown, read.result = "ok", ~TakenForStandard
               PROVE  read.blocks = [k \in 1 .. read.asked |-> read.first + k - 1]
    BY DEF ReadsRightBlocks, BlocksAsked
  <2>3. Kind
    BY DEF KindKnown, TakenForStandard, Kind, IInv, TypeInv
  <2>2. read.blocks = Run(read.first, read.asked)
    BY <2>1, <2>3 DEF ReadInv
  <2> QED
    BY <2>2 DEF Run
<1>4. SdInit => KindKnown
  BY DEF SdInit, KindKnown
<1>5. IInv /\ KindKnown /\ [SdNext]_sdVars => KindKnown'
  BY KindStep DEF KindKnown, IInv
<1> QED
  BY <1>1, <1>2, <1>3, <1>4, <1>5, Invariant, PTL DEF SdSpec

-----------------------------------------------------------------------------
(* The directory.                                                          *)

(* What Fat_FileBrowseNext has noted when it has passed the entry at i.    *)
Noted(i) ==
  IF i \in DOMAIN Dir /\ Dir[i].kind = "long"
  THEN [bFind |-> FALSE, bError |-> FALSE, bLongFilename |-> TRUE,
        OrderValue |-> Dir[i].order - 1, szName |-> Dir[i].name]
  ELSE Fresh

(* No video is behind i, up to j.                                          *)
Videoless(i, j) == \A k \in VideoEntries : ~(i < k /\ k <= j)

(* The next video behind the one that is open, the first after a failure.  *)
OnTheWay ==
  \/ /\ opened <= DirectoryIndex
     /\ Videoless(opened, DirectoryIndex)
  \/ /\ cardFailed \/ Videoless(opened, Len(Dir))
     /\ Videoless(0, DirectoryIndex)

(* The same of the video that has been found.                              *)
Found ==
  \/ /\ opened < DirectoryIndex
     /\ Videoless(opened, DirectoryIndex - 1)
  \/ /\ cardFailed \/ Videoless(opened, Len(Dir))
     /\ Videoless(0, DirectoryIndex - 1)

DirTypes ==
  /\ search \in {"idle", "browse", "open", "stopped"}
  /\ DirectoryIndex \in 0 .. Len(Dir) - 1
  /\ opened \in VideoEntries \cup {0}
  /\ cardFailed \in BOOLEAN

(* Fat_FileOpen has not come to the video yet, whose name is wanted.       *)
DirIInv ==
  /\ DirTypes
  /\ search = "idle" => opened = DirectoryIndex
  /\ search = "browse" => scan = Noted(DirectoryIndex) /\ OnTheWay
  /\ search = "open" =>
       /\ DirectoryIndex \in VideoEntries
       /\ Found
       /\ wanted = ShortName(Dir[DirectoryIndex])
       /\ openIndex \in 0 .. DirectoryIndex - 1
       /\ scan = Noted(openIndex)

(* Videos and all else lie before the entry that ends the directory.       *)
LEMMA Entries ==
  /\ VideoEntries \subseteq 1 .. Len(Dir) - 1
  /\ Len(Dir) \in Nat /\ DOMAIN Dir = 1 .. Len(Dir)
  /\ \A i \in 1 .. Len(Dir) - 1 : i \in DOMAIN Dir /\ Dir[i].kind \in {"free", "long", "short"}
  /\ 1 < Len(Dir)
<1>1. /\ Len(Dir) \in Nat /\ DOMAIN Dir = 1 .. Len(Dir)
      /\ \A i \in DOMAIN Dir : /\ Dir[i].kind \in Kinds
                               /\ (Dir[i].kind = "end") <=> (i = Len(Dir))
      /\ VideoEntries # {}
  BY DirectoryAssumption
<1>2. \A i \in VideoEntries : i \in DOMAIN Dir /\ Dir[i].kind = "short"
  BY DEF VideoEntries
<1>3. \A i \in VideoEntries : i \in DOMAIN Dir /\ i # Len(Dir)
  BY <1>1, <1>2
<1>4. VideoEntries \subseteq 1 .. Len(Dir) - 1
  BY <1>1, <1>3
<1>5. \A i \in 1 .. Len(Dir) - 1 : i \in DOMAIN Dir /\ i # Len(Dir)
  <2>1. \A n \in Nat : \A i \in 1 .. n - 1 : i \in 1 .. n /\ i # n
    OBVIOUS
  <2>2. Len(Dir) \in Nat /\ DOMAIN Dir = 1 .. Len(Dir)
    BY <1>1
  <2> QED
    BY <2>1, <2>2
<1>6. ASSUME NEW i \in 1 .. Len(Dir) - 1
      PROVE  Dir[i].kind \in {"free", "long", "short"}
  <2>1. Dir[i].kind \in Kinds /\ Dir[i].kind # "end"
    BY <1>1, <1>5
  <2> QED
    BY <2>1 DEF Kinds
<1>7. 1 < Len(Dir)
  <2>1. PICK v : v \in VideoEntries
    BY <1>1
  <2>2. v \in 1 .. Len(Dir) - 1 /\ Len(Dir) \in Nat
    BY <1>1, <1>4, <2>1
  <2> QED
    BY <2>2
<1> QED
  BY <1>1, <1>4, <1>5, <1>6, <1>7, Zenon

(* How the notes change.                                                   *)
LEMMA Updates ==
  ASSUME NEW l, NEW o, NEW n, NEW x, NEW y, NEW z,
         NEW r, r = [bFind |-> FALSE, bError |-> FALSE, bLongFilename |-> l,
                     OrderValue |-> o, szName |-> n]
  PROVE  /\ [r EXCEPT !.bLongFilename = x, !.OrderValue = y, !.szName = z]
              = [bFind |-> FALSE, bError |-> FALSE, bLongFilename |-> x,
                 OrderValue |-> y, szName |-> z]
         /\ r.bFind = FALSE /\ r.bError = FALSE /\ r.bLongFilename = l
         /\ r.OrderValue = o /\ r.szName = n
<1> DEFINE s == [r EXCEPT !.bLongFilename = x, !.OrderValue = y, !.szName = z]
           t == [bFind |-> FALSE, bError |-> FALSE, bLongFilename |-> x,
                 OrderValue |-> y, szName |-> z]
<1>1. s = [k \in DOMAIN s |-> s[k]] /\ t = [k \in DOMAIN t |-> t[k]]
  OBVIOUS
<1>2. /\ DOMAIN s = {"bFind", "bError", "bLongFilename", "OrderValue", "szName"}
      /\ s.bFind = FALSE /\ s.bError = FALSE /\ s.bLongFilename = x
      /\ s.OrderValue = y /\ s.szName = z
  OBVIOUS
<1>3. /\ DOMAIN t = {"bFind", "bError", "bLongFilename", "OrderValue", "szName"}
      /\ t.bFind = FALSE /\ t.bError = FALSE /\ t.bLongFilename = x
      /\ t.OrderValue = y /\ t.szName = z
  OBVIOUS
<1>4. /\ r.bFind = FALSE /\ r.bError = FALSE /\ r.bLongFilename = l
      /\ r.OrderValue = o /\ r.szName = n
  OBVIOUS
<1>5. s = t
  <2> HIDE DEF s, t
  <2> QED
    BY <1>1, <1>2, <1>3
<1> QED
  BY <1>4, <1>5

(* A piece of a long name is noted.                                        *)
LEMMA PieceNotes ==
  ASSUME NEW o, NEW n, NEW l \in BOOLEAN, NEW y, NEW z, NEW r, NEW s,
         r = [bFind |-> FALSE, bError |-> FALSE, bLongFilename |-> l,
              OrderValue |-> o, szName |-> n],
         s = [r EXCEPT !.bLongFilename = TRUE, !.OrderValue = y, !.szName = z]
  PROVE  /\ s = [bFind |-> FALSE, bError |-> FALSE, bLongFilename |-> TRUE,
                 OrderValue |-> y, szName |-> z]
         /\ ~s.bFind /\ ~s.bError
<1>1. s = [bFind |-> FALSE, bError |-> FALSE, bLongFilename |-> TRUE,
           OrderValue |-> y, szName |-> z]
  BY Updates, Zenon
<1>2. ~s.bFind /\ ~s.bError
  OBVIOUS
<1> QED
  BY <1>1, <1>2

(* A short entry is noted.                                                 *)
LEMMA ShortNotes ==
  ASSUME NEW o, NEW n, NEW l \in BOOLEAN, NEW z, NEW r, NEW s,
         r = [bFind |-> FALSE, bError |-> FALSE, bLongFilename |-> l,
              OrderValue |-> o, szName |-> n]
  PROVE  /\ s = [r EXCEPT !.bFind = TRUE] =>
              s.bFind /\ ~s.bError /\ (s.bLongFilename <=> l) /\ s.szName = n
         /\ s = [r EXCEPT !.bFind = TRUE, !.szName = z] =>
              s.bFind /\ ~s.bError /\ (s.bLongFilename <=> l) /\ s.szName = z
OBVIOUS

(* The entry e, the one behind i, read without failure turns the notes n   *)
(* into s.                                                                 *)
Passed(i, n, e, s) ==
  n = Noted(i) /\ e = Dir[i + 1] /\ s = Look(i + 1, n, TRUE)

LEMMA Visited ==
  ASSUME NEW i \in 0 .. Len(Dir) - 1, i + 1 < Len(Dir),
         NEW n, NEW e, NEW s, Passed(i, n, e, s)
  PROVE  /\ ~GivesUp(i + 1, s, TRUE)
         /\ e.kind # "short" => s = Noted(i + 1) /\ ~s.bFind
         /\ e.kind = "short" =>
              /\ s.bFind
              /\ s.bLongFilename <=> Belongs(i + 1)
              /\ s.szName = IF Belongs(i + 1) THEN Dir[i].name ELSE ShortName(e)
              /\ Noted(i + 1) = Fresh
<1>1. /\ i + 1 \in 1 .. Len(Dir) - 1 /\ i \in Int /\ i + 1 \in DOMAIN Dir
      /\ e.kind \in {"free", "long", "short"} /\ i + 1 > 0
      /\ i \in DOMAIN Dir <=> i > 0
  BY Entries DEF Passed
<1>2. Belongs(i + 1) <=> (i \in DOMAIN Dir /\ Dir[i].kind = "long")
  BY <1>1 DEF Belongs
<1> DEFINE IsNote(m, o, z, l) ==
             m = [bFind |-> FALSE, bError |-> FALSE, bLongFilename |-> l,
                  OrderValue |-> o, szName |-> z]
<1>3. \E o, z : \E l \in BOOLEAN :
        /\ IsNote(n, o, z, l)
        /\ l <=> Belongs(i + 1)
        /\ IF l THEN o = Dir[i].order - 1 /\ z = Dir[i].name ELSE o = 0
  <2>1. CASE Belongs(i + 1)
    <3>1. IsNote(n, Dir[i].order - 1, Dir[i].name, TRUE)
      BY <1>2, <2>1 DEF Noted, Passed
    <3> HIDE DEF IsNote
    <3> QED
      BY <2>1, <3>1
  <2>2. CASE ~Belongs(i + 1)
    <3>1. IsNote(n, 0, NoName, FALSE)
      BY <1>2, <2>2 DEF Noted, Passed, Fresh
    <3> HIDE DEF IsNote
    <3> QED
      BY <2>2, <3>1
  <2> QED
    BY <2>1, <2>2
<1> HIDE DEF IsNote
<1>4. PICK o, z : \E l \in BOOLEAN :
        /\ IsNote(n, o, z, l)
        /\ l <=> Belongs(i + 1)
        /\ IF l THEN o = Dir[i].order - 1 /\ z = Dir[i].name ELSE o = 0
  BY <1>3
<1>5. PICK l \in BOOLEAN :
        /\ IsNote(n, o, z, l)
        /\ l <=> Belongs(i + 1)
        /\ IF l THEN o = Dir[i].order - 1 /\ z = Dir[i].name ELSE o = 0
  BY <1>4
<1>6. n.OrderValue = o /\ (n.bLongFilename <=> l)
  BY <1>5 DEF IsNote
<1>7. CASE e.kind = "long"
  <2>1. e.order \in Nat \ {0}
    BY <1>1, <1>7, DirectoryAssumption DEF LongNamesWhole, Passed
  <2>2. l => o = e.order
    <3>1. l => /\ Dir[i].order \in Nat \ {0}
               /\ \/ Dir[i + 1].kind = "long" /\ Dir[i].order = Dir[i + 1].order + 1
                  \/ Dir[i + 1].kind = "short" /\ HasExtension(Dir[i + 1])
      BY <1>2, <1>5, <1>6, DirectoryAssumption DEF LongNamesWhole, Passed
    <3> QED
      BY <1>5, <1>6, <1>7, <2>1, <3>1 DEF Passed
  <2>3. s = [n EXCEPT !.bLongFilename = TRUE, !.OrderValue = e.order - 1,
                      !.szName = e.name]
    BY <1>5, <1>6, <1>7, <2>1, <2>2 DEF Look, Passed, Visit, LongPiece
  <2>4. Noted(i + 1) = [bFind |-> FALSE, bError |-> FALSE, bLongFilename |-> TRUE,
                        OrderValue |-> e.order - 1, szName |-> e.name]
    BY <1>1, <1>7 DEF Noted, Passed
  <2>5. /\ s = [bFind |-> FALSE, bError |-> FALSE, bLongFilename |-> TRUE,
                OrderValue |-> e.order - 1, szName |-> e.name]
        /\ ~s.bFind /\ ~s.bError
    BY <1>5, <1>6, <2>3, PieceNotes, Zenon DEF IsNote
  <2> QED
    BY <1>7, <2>4, <2>5 DEF GivesUp, Passed
<1>8. CASE e.kind = "short"
  <2>1. Noted(i + 1) = Fresh
    BY <1>8 DEF Noted, Passed
  <2>2. CASE l
    <3>1. HasExtension(e)
      BY <1>2, <1>5, <1>6, <1>8, <2>2, DirectoryAssumption DEF LongNamesWhole, Passed
    <3>2. s = [n EXCEPT !.bFind = TRUE]
      BY <1>5, <1>6, <1>8, <2>2, <3>1 DEF Look, Passed, Visit, ShortEntry
    <3>3. s.bFind /\ ~s.bError /\ (s.bLongFilename <=> l) /\ s.szName = z
      BY <1>5, <1>6, <3>2, ShortNotes, Zenon DEF IsNote
    <3> QED
      BY <1>5, <1>6, <1>8, <2>1, <2>2, <3>3 DEF GivesUp, Passed
  <2>3. CASE ~l
    <3>1. s = [n EXCEPT !.bFind = TRUE, !.szName = ShortName(e)]
      BY <1>5, <1>6, <1>8, <2>3 DEF Look, Passed, Visit, ShortEntry
    <3>2. s.bFind /\ ~s.bError /\ (s.bLongFilename <=> l) /\ s.szName = ShortName(e)
      BY <1>5, <1>6, <3>1, ShortNotes, Zenon DEF IsNote
    <3> QED
      BY <1>5, <1>6, <1>8, <2>1, <2>3, <3>2 DEF GivesUp, Passed
  <2> QED
    BY <2>2, <2>3
<1>9. CASE e.kind = "free"
  <2>1. s = n /\ ~l
    <3>1. l => Dir[i + 1].kind \in {"long", "short"}
      BY <1>2, <1>5, <1>6, DirectoryAssumption DEF LongNamesWhole, Passed
    <3> QED
      BY <1>9, <3>1 DEF Look, Passed, Visit
  <2>2. n = Fresh
    BY <1>2, <1>5, <1>6, <2>1 DEF Noted, Passed
  <2>3. Noted(i + 1) = Fresh
    BY <1>9 DEF Noted, Passed
  <2>4. ~Fresh.bFind /\ ~Fresh.bError
    BY DEF Fresh
  <2> QED
    BY <1>9, <2>1, <2>2, <2>3, <2>4 DEF GivesUp, Passed
<1> QED
  BY <1>1, <1>7, <1>8, <1>9

(* The end of the directory, and a sector that cannot be read.             *)
LEMMA GivenUp ==
  ASSUME NEW i \in 0 .. Len(Dir) - 1, NEW ok \in BOOLEAN, i + 1 = Len(Dir) \/ ~ok,
         NEW s, s = Look(i + 1, Noted(i), ok)
  PROVE  GivesUp(i + 1, s, ok) /\ ~s.bFind
<1>1. \A x : Noted(x).bFind = FALSE /\ Noted(x).bError = FALSE
  BY DEF Noted, Fresh
<1>2. \A x, b : [Noted(x) EXCEPT !.bError = b].bFind = FALSE
                /\ [Noted(x) EXCEPT !.bError = b].bError = b
  BY DEF Noted, Fresh
<1>3. CASE ~ok
  BY <1>2, <1>3 DEF Look, GivesUp
<1>4. CASE ok
  <2>1. i + 1 \in DOMAIN Dir /\ i + 1 = Len(Dir)
    BY <1>4, Entries
  <2>2. Dir[i + 1].kind = "end"
    BY <2>1, DirectoryAssumption
  <2>3. s = Noted(i)
    BY <1>4, <2>2 DEF Look, Visit
  <2> QED
    BY <1>1, <1>4, <2>2, <2>3 DEF GivesUp
<1> QED
  BY <1>3, <1>4

(* Nothing is noted before the first entry.                                *)
LEMMA AtTheBeginning == Noted(0) = Fresh
  BY Entries DEF Noted

(* The invariant, action by action.                                       *)
LEMMA InitDirIInv ==
  ASSUME DirInit
  PROVE  DirIInv
<1>1. 0 \in 0 .. Len(Dir) - 1
  BY Entries
<1> QED
  BY <1>1 DEF DirInit, DirIInv, DirTypes

LEMMA RequestInv ==
  ASSUME DirIInv, Request
  PROVE  DirIInv'
<1>1. /\ opened = DirectoryIndex /\ search' = "browse" /\ scan' = Fresh
      /\ opened' = opened /\ DirectoryIndex' = DirectoryIndex /\ cardFailed' = FALSE
      /\ opened \in VideoEntries \cup {0} /\ DirectoryIndex \in 0 .. Len(Dir) - 1
  BY DEF DirIInv, DirTypes, Request
<1>2. Noted(opened) = Fresh
  <2>1. opened \in VideoEntries => Dir[opened].kind = "short"
    BY DEF VideoEntries
  <2> QED
    BY <1>1, <2>1, AtTheBeginning DEF Noted
<1>3. OnTheWay'
  <2>1. Videoless(opened', DirectoryIndex')
    BY <1>1, Entries DEF Videoless
  <2> QED
    BY <1>1, <2>1, Entries DEF OnTheWay
<1> QED
  BY <1>1, <1>2, <1>3 DEF DirIInv, DirTypes

(* An entry further.                                                       *)
LEMMA Further ==
  ASSUME NEW i \in Int, NEW j \in Int, j + 1 \notin VideoEntries, Videoless(i, j)
  PROVE  Videoless(i, j + 1)
<1> SUFFICES ASSUME NEW k \in VideoEntries, i < k, k <= j + 1
             PROVE  FALSE
  BY DEF Videoless
<1>1. k \in Int /\ k # j + 1
  BY Entries
<1>2. k <= j
  BY <1>1
<1> QED
  BY <1>2 DEF Videoless

LEMMA BrowseInv ==
  ASSUME DirIInv, Browse
  PROVE  DirIInv'
<1> DEFINE i == DirectoryIndex
           n == Noted(i)
           e == Dir[i + 1]
<1>1. /\ search = "browse" /\ scan = n /\ OnTheWay /\ opened' = opened
      /\ opened \in VideoEntries \cup {0} /\ i \in 0 .. Len(Dir) - 1
      /\ cardFailed \in BOOLEAN /\ opened \in Int /\ Len(Dir) \in Nat
  BY Entries DEF DirIInv, DirTypes, Browse
<1>2. PICK ok \in BOOLEAN :
        LET s == Look(i + 1, n, ok)
        IN  /\ cardFailed' = (cardFailed \/ ~ok)
            /\ DirectoryIndex' = IF GivesUp(i + 1, s, ok) THEN 0 ELSE i + 1
            /\ scan' = IF s.bFind \/ GivesUp(i + 1, s, ok) THEN Fresh ELSE s
            /\ IF s.bFind /\ Fat_CheckExtension(s)
               THEN search' = "open" /\ wanted' = s.szName /\ openIndex' = 0
               ELSE UNCHANGED <<search, wanted, openIndex>>
  BY <1>1 DEF Browse, Card
<1>3. PICK s : s = Look(i + 1, n, ok)
  OBVIOUS
<1>4. CASE i + 1 = Len(Dir) \/ ~ok
  <2>1. GivesUp(i + 1, s, ok) /\ ~s.bFind
    BY <1>1, <1>3, <1>4, GivenUp
  <2>2. DirectoryIndex' = 0 /\ scan' = Fresh /\ search' = search
    BY <1>2, <1>3, <2>1
  <2>3. cardFailed' \in BOOLEAN /\ (~ok => cardFailed') /\ (cardFailed => cardFailed')
    BY <1>1, <1>2
  <2>4. cardFailed' \/ Videoless(opened, Len(Dir))
    <3> SUFFICES ASSUME ~cardFailed' PROVE Videoless(opened, Len(Dir))
      OBVIOUS
    <3>1. i + 1 = Len(Dir) /\ ~cardFailed /\ Len(Dir) \notin VideoEntries
      BY <1>4, <2>3, Entries
    <3>2. Videoless(opened, i) => Videoless(opened, Len(Dir))
      BY <1>1, <3>1, Further
    <3> QED
      BY <1>1, <3>1, <3>2 DEF OnTheWay
  <2>5. Videoless(0, 0)
    BY Entries DEF Videoless
  <2>6. OnTheWay'
    BY <1>1, <2>2, <2>4, <2>5 DEF OnTheWay, Videoless
  <2> QED
    BY <1>1, <2>2, <2>3, <2>6, AtTheBeginning, Entries DEF DirIInv, DirTypes
<1>5. CASE i + 1 # Len(Dir) /\ ok
  <2>1. i + 1 < Len(Dir) /\ Passed(i, n, e, s) /\ i + 1 \in 1 .. Len(Dir) - 1
    BY <1>1, <1>3, <1>5 DEF Passed
  <2>2. /\ ~GivesUp(i + 1, s, ok)
        /\ e.kind # "short" => s = Noted(i + 1) /\ ~s.bFind
        /\ e.kind = "short" =>
             /\ s.bFind
             /\ s.bLongFilename <=> Belongs(i + 1)
             /\ s.szName = IF Belongs(i + 1) THEN Dir[i].name ELSE ShortName(e)
             /\ Noted(i + 1) = Fresh
    BY <1>1, <1>5, <2>1, Visited
  <2>3. DirectoryIndex' = i + 1 /\ cardFailed' = cardFailed /\ scan' = Noted(i + 1)
    BY <1>1, <1>2, <1>3, <1>5, <2>2
  <2>4. (s.bFind /\ Fat_CheckExtension(s)) <=> i + 1 \in VideoEntries
    <3>1. i + 1 \in DOMAIN Dir
      BY <2>1, Entries
    <3>2. i + 1 \in VideoEntries =>
            e.kind = "short" /\ ~Belongs(i + 1) /\ ShortName(e)[2] = "MPG"
      BY DEF VideoEntries, ShortName, HasExtension
    <3>3. e.kind = "short" /\ ~Belongs(i + 1) /\ ShortName(e)[2] = "MPG"
            => i + 1 \in VideoEntries
      BY <3>1, DirectoryAssumption
    <3> QED
      BY <2>2, <3>2, <3>3 DEF Fat_CheckExtension
  <2>5. CASE i + 1 \in VideoEntries
    <3>1. search' = "open" /\ wanted' = s.szName /\ openIndex' = 0
      BY <1>2, <1>3, <2>4, <2>5
    <3>2. wanted' = ShortName(Dir[DirectoryIndex'])
      BY <2>2, <2>3, <2>5, <3>1 DEF VideoEntries
    <3>3. Noted(i + 1) = Fresh
      BY <2>5 DEF VideoEntries, Noted
    <3>4. Found'
      BY <1>1, <2>3 DEF OnTheWay, Found, Videoless
    <3> QED
      BY <1>1, <2>1, <2>3, <2>5, <3>1, <3>2, <3>3, <3>4, AtTheBeginning
         DEF DirIInv, DirTypes
  <2>6. CASE i + 1 \notin VideoEntries
    <3>1. search' = search
      BY <1>2, <1>3, <2>4, <2>6
    <3>2. \A k \in {0, opened} : Videoless(k, i) => Videoless(k, i + 1)
      BY <1>1, <2>6, Further
    <3>3. OnTheWay'
      BY <1>1, <2>3, <3>2 DEF OnTheWay, Videoless
    <3> QED
      BY <1>1, <2>1, <2>3, <3>1, <3>3 DEF DirIInv, DirTypes
  <2> QED
    BY <2>5, <2>6
<1> QED
  BY <1>4, <1>5

(* Fat_FileOpen passes by every entry before the one that was found, and   *)
(* stops at that.                                                          *)
LEMMA OpenCases ==
  ASSUME DirIInv, Open
  PROVE  /\ search = "open"
         /\ UNCHANGED <<DirectoryIndex, wanted>>
         /\ \/ /\ search' = "idle" /\ opened' = DirectoryIndex
               /\ cardFailed' = cardFailed
            \/ /\ search' = "stopped" /\ opened' = opened
               /\ cardFailed' = TRUE
            \/ /\ search' = search /\ opened' = opened /\ cardFailed' = cardFailed
               /\ openIndex' \in 0 .. DirectoryIndex - 1
               /\ scan' = Noted(openIndex')
<1> DEFINE i == openIndex
           n == Noted(i)
           e == Dir[i + 1]
           d == DirectoryIndex
<1>1. /\ search = "open" /\ scan = n /\ d \in VideoEntries /\ wanted = ShortName(Dir[d])
      /\ i \in 0 .. d - 1 /\ d \in 1 .. Len(Dir) - 1 /\ Len(Dir) \in Nat
      /\ i \in 0 .. Len(Dir) - 1 /\ i + 1 < Len(Dir) /\ cardFailed \in BOOLEAN
      /\ UNCHANGED <<DirectoryIndex, wanted>>
  BY Entries DEF DirIInv, DirTypes, Open
<1>2. PICK ok \in BOOLEAN :
        LET s == Look(i + 1, n, ok)
        IN  /\ cardFailed' = (cardFailed \/ ~ok)
            /\ openIndex' = i + 1
            /\ scan' = IF s.bFind \/ GivesUp(i + 1, s, ok) THEN Fresh ELSE s
            /\ \/ /\ s.bFind /\ s.szName = wanted
                  /\ search' = "idle"
                  /\ opened' = i + 1
               \/ /\ GivesUp(i + 1, s, ok)
                  /\ search' = "stopped"
                  /\ UNCHANGED opened
               \/ /\ ~(s.bFind /\ s.szName = wanted) /\ ~GivesUp(i + 1, s, ok)
                  /\ UNCHANGED <<search, opened>>
  BY <1>1 DEF Open, Card
<1>3. PICK s : s = Look(i + 1, n, ok)
  OBVIOUS
<1>4. CASE ~ok
  <2>1. GivesUp(i + 1, s, ok) /\ ~s.bFind
    BY <1>1, <1>3, <1>4, GivenUp
  <2> QED
    BY <1>1, <1>2, <1>3, <1>4, <2>1
<1>5. CASE ok
  <2>1. Passed(i, n, e, s) /\ i + 1 \in DOMAIN Dir
    BY <1>1, <1>3, <1>5, Entries DEF Passed
  <2>2. /\ ~GivesUp(i + 1, s, ok)
        /\ e.kind # "short" => s = Noted(i + 1) /\ ~s.bFind
        /\ e.kind = "short" =>
             /\ s.bFind
             /\ s.bLongFilename <=> Belongs(i + 1)
             /\ s.szName = IF Belongs(i + 1) THEN Dir[i].name ELSE ShortName(e)
             /\ Noted(i + 1) = Fresh
    BY <1>1, <1>5, <2>1, Visited
  <2>3. (cardFailed' = cardFailed) /\ scan' = Noted(i + 1)
    BY <1>1, <1>2, <1>3, <1>5, <2>2
  <2>4. s.bFind /\ s.szName = wanted <=> i + 1 = d
    <3>1. i + 1 = d => e.kind = "short" /\ ~Belongs(i + 1)
      BY <1>1 DEF VideoEntries
    <3>2. e.kind = "short" /\ Belongs(i + 1) => s.szName # wanted
      <4>1. Belongs(i + 1) => i \in DOMAIN Dir /\ Dir[i].kind = "long"
        BY <1>1, Entries DEF Belongs
      <4>2. Belongs(i + 1) => Dir[i].name # ShortName(Dir[d])
        BY <1>1, <4>1, DirectoryAssumption
      <4> QED
        BY <1>1, <2>2, <4>2
    <3>3. e.kind = "short" /\ ~Belongs(i + 1) /\ s.szName = wanted => i + 1 = d
      BY <1>1, <2>1, <2>2, DirectoryAssumption
    <3>4. i + 1 = d => s.szName = wanted
      BY <1>1, <2>2, <3>1
    <3>5. s.bFind => e.kind = "short"
      BY <2>2
    <3> QED
      BY <2>2, <3>1, <3>2, <3>3, <3>4, <3>5
  <2>5. CASE i + 1 = d
    BY <1>1, <1>2, <1>3, <2>2, <2>3, <2>4, <2>5
  <2>6. CASE i + 1 # d
    <3>1. /\ search' = search /\ opened' = opened /\ openIndex' = i + 1
      BY <1>2, <1>3, <2>2, <2>4, <2>6
    <3>2. i + 1 \in 0 .. d - 1
      BY <1>1, <2>6
    <3> QED
      BY <1>1, <2>3, <3>1, <3>2
  <2> QED
    BY <2>5, <2>6
<1> QED
  BY <1>4, <1>5

LEMMA OpenInv ==
  ASSUME DirIInv, Open
  PROVE  DirIInv'
<1>1. /\ DirTypes /\ DirectoryIndex \in VideoEntries /\ Found
      /\ wanted = ShortName(Dir[DirectoryIndex])
  BY OpenCases DEF DirIInv
<1>2. CASE search' \in {"idle", "stopped"}
  BY <1>1, <1>2, OpenCases DEF DirIInv, DirTypes
<1>3. CASE search' = "open"
  <2>1. Found'
    BY <1>1, <1>3, OpenCases DEF Found, Videoless
  <2> QED
    BY <1>1, <1>3, <2>1, OpenCases DEF DirIInv, DirTypes
<1> QED
  BY <1>2, <1>3, OpenCases

(* All of them.                                                            *)
LEMMA DirStep ==
  ASSUME DirIInv, [DirNext]_dirVars
  PROVE  DirIInv'
<1>1. CASE UNCHANGED dirVars
  BY <1>1 DEF dirVars, DirIInv, DirTypes, OnTheWay, Found, Videoless, Noted, Fresh
<1>2. CASE Stopped
  BY <1>1, <1>2 DEF Stopped
<1> QED
  BY <1>1, <1>2, RequestInv, BrowseInv, OpenInv DEF DirNext

-----------------------------------------------------------------------------
(* The numbers of the videos, as Playlist counts them.                     *)
Videos == Cardinality(VideoEntries)
Number(i) == IF i \in VideoEntries THEN Rank(i) ELSE 0

(* They are those from 1 to the number of videos.                          *)
LEMMA FiniteVideos ==
  /\ IsFiniteSet(VideoEntries) /\ Videos \in Nat \ {0}
  /\ \A i : {j \in VideoEntries : j <= i} \subseteq VideoEntries
  /\ \A i : /\ IsFiniteSet({j \in VideoEntries : j <= i})
            /\ Rank(i) \in 0 .. Videos
<1>1. IsFiniteSet(1 .. Len(Dir) - 1)
  BY Entries, FS_Interval
<1>2. IsFiniteSet(VideoEntries)
  BY <1>1, Entries, FS_Subset
<1>3. Videos \in Nat /\ Videos # 0
  BY <1>2, FS_CardinalityType, FS_EmptySet, DirectoryAssumption DEF Videos
<1>4. ASSUME NEW i
      PROVE  /\ {j \in VideoEntries : j <= i} \subseteq VideoEntries
             /\ IsFiniteSet({j \in VideoEntries : j <= i})
             /\ Rank(i) \in 0 .. Videos
  <2> DEFINE S == {j \in VideoEntries : j <= i}
  <2>1. S \subseteq VideoEntries
    OBVIOUS
  <2> HIDE DEF S
  <2>2. IsFiniteSet(S) /\ Cardinality(S) <= Cardinality(VideoEntries)
    BY <1>2, <2>1, FS_Subset
  <2>3. Cardinality(S) \in Nat
    BY <2>2, FS_CardinalityType
  <2>4. Rank(i) = Cardinality(S)
    BY DEF S, Rank
  <2> QED
    BY <1>3, <2>1, <2>2, <2>3, <2>4 DEF Videos, S
<1> QED
  BY <1>2, <1>3, <1>4

(* The next video has the next number, the last one the highest.           *)
LEMMA NextNumber ==
  ASSUME NEW i \in VideoEntries \cup {0}, NEW j \in VideoEntries,
         i < j, Videoless(i, j - 1)
  PROVE  Number(j) = Number(i) + 1
<1> DEFINE S(k) == {m \in VideoEntries : m <= k}
<1>1. S(j) = S(i) \cup {j} /\ j \notin S(i)
  <2>1. \A m \in VideoEntries : m \in Int
    BY Entries
  <2>2. i \in Int /\ j \in Int
    BY <2>1
  <2>3. \A m \in VideoEntries : m <= j <=> (m <= i \/ m = j)
    BY <2>1, <2>2 DEF Videoless
  <2>4. \A m : m \in S(j) <=> m \in S(i) \cup {j}
    BY <2>3
  <2>5. j \notin S(i)
    BY <2>2
  <2> HIDE DEF S
  <2> QED
    BY <2>4, <2>5
<1>2. Cardinality(S(j)) = Cardinality(S(i)) + 1
  <2>1. IsFiniteSet(S(i))
    BY FiniteVideos
  <2> HIDE DEF S
  <2> QED
    BY <1>1, <2>1, FS_AddElement
<1>3. i = 0 => Cardinality(S(i)) = 0
  <2>1. \A m \in VideoEntries : ~(m <= 0)
    BY Entries
  <2>2. S(0) = {}
    BY <2>1
  <2> HIDE DEF S
  <2> QED
    BY <2>2, FS_EmptySet
<1>4. 0 \notin VideoEntries
  BY Entries
<1> QED
  BY <1>2, <1>3, <1>4 DEF Number, Rank

LEMMA LastNumber ==
  ASSUME NEW i \in VideoEntries, Videoless(i, Len(Dir))
  PROVE  Number(i) = Videos
<1>1. \A m \in VideoEntries : m <= i
  BY Entries DEF Videoless
<1>2. {m \in VideoEntries : m <= i} = VideoEntries
  BY <1>1
<1> QED
  BY <1>2 DEF Number, Rank, Videos

(* What has been found has the number Playlist says.                       *)
LEMMA FoundIsNext ==
  ASSUME DirIInv, search = "open"
  PROVE  \/ Number(DirectoryIndex) = (Number(opened) % Videos) + 1
         \/ cardFailed /\ Number(DirectoryIndex) = 1
<1>1. /\ opened \in VideoEntries \cup {0} /\ DirectoryIndex \in VideoEntries /\ Found
      /\ opened \in Int /\ DirectoryIndex \in Int /\ 0 < DirectoryIndex
  BY Entries DEF DirIInv, DirTypes
<1>2. Videos \in Nat \ {0}
  BY FiniteVideos
<1>3. \A i : Number(i) \in 0 .. Videos
  <2>1. \A i : Rank(i) \in 0 .. Videos
    BY FiniteVideos, Zenon
  <2> QED
    BY <1>2, <2>1 DEF Number
<1>4. CASE opened < DirectoryIndex /\ Videoless(opened, DirectoryIndex - 1)
  <2>1. Number(DirectoryIndex) = Number(opened) + 1
    BY <1>1, <1>4, NextNumber
  <2>2. Number(opened) \in 0 .. Videos - 1
    BY <1>2, <1>3, <2>1
  <2> HIDE DEF Number, Videos
  <2>3. Number(opened) % Videos = Number(opened)
    BY <1>2, <2>2
  <2> QED
    BY <2>1, <2>3
<1>5. CASE /\ cardFailed \/ Videoless(opened, Len(Dir))
           /\ Videoless(0, DirectoryIndex - 1)
  <2>1. Number(0) = 0
    BY Entries DEF Number
  <2>2. Number(DirectoryIndex) = 1
    BY <1>1, <1>5, <2>1, NextNumber
  <2>3. Videoless(opened, Len(Dir)) => Number(opened) \in {0, Videos}
    BY <1>1, <2>1, LastNumber
  <2>4. 0 % Videos = 0 /\ Videos % Videos = 0
    <3> HIDE DEF Videos
    <3> QED
      BY <1>2
  <2> QED
    BY <1>5, <2>2, <2>3, <2>4
<1> QED
  BY <1>1, <1>4, <1>5 DEF Found

(* Steps of the directory are steps of the list of videos.                 *)
LEMMA PlaylistStep ==
  ASSUME DirIInv, DirIInv', [DirNext]_dirVars
  PROVE  [AsPlaylist!Next]_AsPlaylist!vars
<1> USE DEF AsPlaylist!vars
<1>1. CASE UNCHANGED dirVars
  BY <1>1 DEF dirVars, Rank
<1>2. CASE Stopped
  BY <1>1, <1>2 DEF Stopped
<1>3. CASE Request
  BY <1>3 DEF Request, AsPlaylist!Next, AsPlaylist!Ask, Rank
<1>4. CASE Browse
  <2>1. search = "browse" /\ search' \in {"browse", "open"} /\ opened' = opened
    BY <1>4 DEF Browse
  <2>2. cardFailed' \/ cardFailed' = cardFailed
    BY <1>4 DEF Browse, Card, DirIInv, DirTypes
  <2> QED
    BY <2>1, <2>2 DEF AsPlaylist!Next, AsPlaylist!CardFails, Rank, DirIInv, DirTypes
<1>5. CASE Open
  <2>1. CASE search' = "idle"
    <3>1. /\ search = "open" /\ opened' = DirectoryIndex /\ cardFailed' = cardFailed
          /\ DirectoryIndex \in VideoEntries
      BY <1>5, <2>1, OpenCases DEF DirIInv
    <3>2. AsPlaylist!Give
      BY <2>1, <3>1, FoundIsNext DEF AsPlaylist!Give, Number, Videos, Rank
    <3> QED
      BY <3>1, <3>2 DEF AsPlaylist!Next
  <2>2. CASE search' = "stopped"
    <3>1. /\ search = "open" /\ opened' = opened /\ cardFailed' = TRUE
      BY <1>5, <2>2, OpenCases
    <3>2. AsPlaylist!Stop
      BY <2>2, <3>1 DEF AsPlaylist!Stop, Rank
    <3> QED
      BY <3>1, <3>2 DEF AsPlaylist!Next
  <2>3. CASE search' = search
    BY <1>5, <2>3, OpenCases DEF Rank
  <2> QED
    BY <1>5, <2>1, <2>2, <2>3, OpenCases
<1> QED
  BY <1>1, <1>2, <1>3, <1>4, <1>5 DEF DirNext

(* A search is on its way to the next video, or has found it, whatever the *)
(* card does (main.c:166-225 of core 1).                                   *)
THEOREM DirectoryInvariant == DirSpec => []DirIInv
  BY InitDirIInv, DirStep, PTL DEF DirSpec

(* The videos are opened in the order of the directory, the first again    *)
(* after the last, and only a failure of the card puts the list back       *)
(* (FatFileSystem.c:113-203 and 294-349).                                  *)
THEOREM DirectoryImplements == DirSpec => ImplementsPlaylist
<1>1. DirInit => AsPlaylist!Init
  BY Entries DEF DirInit, AsPlaylist!Init
<1>2. DirIInv /\ DirIInv' /\ [DirNext]_dirVars => [AsPlaylist!Next]_AsPlaylist!vars
  BY PlaylistStep
<1> QED
  BY <1>1, <1>2, DirectoryInvariant, PTL DEF DirSpec, ImplementsPlaylist, AsPlaylist!Spec

-----------------------------------------------------------------------------

(* Sectors and clusters are not empty.                                     *)
LEMMA Sizes ==
  /\ BPB_BytsPerSec \in Nat \ {0} /\ BPB_SecPerCluster \in Nat \ {0}
  /\ BytesPerCluster \in Nat \ {0}
  /\ BytesPerCluster = BPB_SecPerCluster * BPB_BytsPerSec
<1>1. BPB_BytsPerSec \in Nat \ {0} /\ BPB_SecPerCluster \in Nat \ {0}
  BY FatAssumption
<1>2. \A b, s \in Nat \ {0} : b * s = s * b /\ b * s \in Nat \ {0}
  BY Z3
<1> QED
  BY <1>1, <1>2 DEF BytesPerCluster

(* Multiples of d, the way the proofs below use them; the provers are kept *)
(* from any other product.                                                 *)
LEMMA Multiples ==
  ASSUME NEW d \in Nat \ {0}, NEW m \in Int, NEW n \in Int
  PROVE  /\ m * d \in Int
         /\ (m + 1) * d = m * d + d
         /\ (m + n) * d = m * d + n * d
         /\ m <= n => m * d <= n * d
         /\ m < n => m * d + d <= n * d
  BY Z3

(* Quotient and remainder.                                                 *)
LEMMA Divides ==
  ASSUME NEW d \in Nat \ {0}, NEW n \in Nat
  PROVE  /\ n \div d \in Nat /\ n % d \in 0 .. d - 1
         /\ n = (n \div d) * d + (n % d)
<1>1. n \div d \in Int /\ n % d \in 0 .. d - 1
  OBVIOUS
<1>2. n = d * (n \div d) + (n % d)
  BY Z3
<1>3. d * (n \div d) = (n \div d) * d
  BY <1>1, Z3
<1>4. ~(n \div d <= 0 - 1)
  <2>1. n \div d <= 0 - 1 => (n \div d) * d <= (0 - 1) * d
    BY <1>1, Multiples
  <2>2. (0 - 1) * d = 0 - d
    BY Z3
  <2>3. (n \div d) * d \in Int
    BY <1>1, Multiples
  <2> QED
    BY <1>1, <1>2, <1>3, <2>1, <2>2, <2>3
<1> QED
  BY <1>1, <1>2, <1>3, <1>4

(* They are unique.                                                        *)
LEMMA QuotientIs ==
  ASSUME NEW d \in Nat \ {0}, NEW q \in Nat, NEW r \in 0 .. d - 1
  PROVE  (q * d + r) \div d = q /\ (q * d + r) % d = r
<1> DEFINE n == q * d + r
           Q == n \div d
           R == n % d
<1>1. q * d \in Int /\ r \in Int /\ 0 <= q * d
  BY Z3
<1>2. n = q * d + r /\ n \in Nat
  BY <1>1
<1> HIDE DEF n
<1>3. Q \in Nat /\ R \in 0 .. d - 1 /\ n = Q * d + R /\ n = q * d + r /\ n \in Nat
  BY <1>2, Divides
<1> HIDE DEF Q, R
<1>4. Q * d \in Int
  BY <1>3, Multiples
<1>5. ~(Q < q)
  <2>1. Q < q => Q * d + d <= q * d
    BY <1>3, Multiples
  <2> QED
    BY <2>1, <1>1, <1>3, <1>4
<1>6. ~(q < Q)
  <2>1. q < Q => q * d + d <= Q * d
    BY <1>3, Multiples
  <2> QED
    BY <2>1, <1>1, <1>3, <1>4
<1>7. Q = q
  BY <1>3, <1>5, <1>6
<1>8. R = r
  BY <1>1, <1>3, <1>7
<1> QED
  BY <1>7, <1>8 DEF n, Q, R

(* Whole sectors, or clusters, in front of m only add to the quotient.     *)
LEMMA Whole ==
  ASSUME NEW d \in Nat \ {0}, NEW q \in Nat, NEW m \in Nat
  PROVE  (q * d + m) \div d = q + m \div d /\ (q * d + m) % d = m % d
<1> DEFINE Q == m \div d
           R == m % d
<1>1. Q \in Nat /\ R \in 0 .. d - 1 /\ m = Q * d + R
  BY Divides
<1> HIDE DEF Q, R
<1>2. q * d \in Int /\ Q * d \in Int /\ (q + Q) * d = q * d + Q * d
  BY <1>1, Multiples
<1>3. q * d + m = (q + Q) * d + R
  BY <1>1, <1>2
<1>4. q + Q \in Nat
  BY <1>1
<1>5. ((q + Q) * d + R) \div d = q + Q /\ ((q + Q) * d + R) % d = R
  BY <1>1, <1>4, QuotientIs
<1> QED
  BY <1>3, <1>5 DEF Q, R

-----------------------------------------------------------------------------
(* A file has a chain of one cluster at least, of numbers of the card,     *)
(* which holds the whole file; all of it fits an alt_u32.                  *)
LEMMA ChainIs ==
  ASSUME NEW f \in File
  PROVE  /\ Chain[f] \in Seq(Nat \ {0, 1}) /\ Len(Chain[f]) \in Nat \ {0}
         /\ Len(Chain[f]) * BytesPerCluster \in Nat
         /\ Len(Chain[f]) * BytesPerCluster < Width
         /\ FileSize[f] \in 1 .. Len(Chain[f]) * BytesPerCluster
         /\ \A i \in 1 .. Len(Chain[f]) : /\ Chain[f][i] \in Nat \ {0, 1}
                                          /\ Chain[f][i] \in Clusters
         /\ Len(Chain[f]) <= Len(Chain[f]) * BytesPerCluster /\ Len(Chain[f]) < Width
         /\ BPB_SecPerCluster <= BytesPerCluster /\ BPB_SecPerCluster < Width
<1> DEFINE n == Len(Chain[f])
<1>1. /\ Chain[f] \in Seq(Nat \ {0, 1})
      /\ FileSize[f] \in 1 .. n * BytesPerCluster
      /\ n * BytesPerCluster < Width
  BY FatAssumption
<1>2. n \in Nat /\ \A i \in 1 .. n : Chain[f][i] \in Nat \ {0, 1}
  BY <1>1
<1>3. \A i \in 1 .. n : Chain[f][i] \in Clusters
  BY <1>1 DEF Clusters
<1> HIDE DEF n
<1>4. /\ BytesPerCluster \in Nat \ {0} /\ BPB_BytsPerSec \in Nat \ {0}
      /\ BPB_SecPerCluster \in Nat \ {0} /\ Width \in Nat
      /\ BytesPerCluster = BPB_SecPerCluster * BPB_BytsPerSec
  BY Sizes, FatAssumption
<1>5. n * BytesPerCluster \in Int /\ (n = 0 => n * BytesPerCluster = 0)
  BY <1>2, <1>4, Z3
<1>6. n # 0
  BY <1>1, <1>5
<1>7. n <= n * BytesPerCluster /\ BytesPerCluster <= n * BytesPerCluster
  BY <1>2, <1>4, <1>6, Z3
<1>8. BPB_SecPerCluster <= BPB_SecPerCluster * BPB_BytsPerSec
  BY <1>4, Z3
<1> QED
  <2>1. n \in Nat \ {0} /\ n * BytesPerCluster \in Nat /\ n * BytesPerCluster < Width
    BY <1>1, <1>2, <1>4, <1>5, <1>6, <1>7
  <2>2. BPB_SecPerCluster <= BytesPerCluster
    BY <1>4, <1>8
  <2>3. n < Width /\ BPB_SecPerCluster < Width
    <3>1. /\ BytesPerCluster \in Nat
          /\ n * BytesPerCluster \in Int /\ n * BytesPerCluster < Width
      BY <1>1, <1>4, <1>5
    <3> QED
      BY <1>2, <1>4, <1>7, <2>2, <3>1
  <2> QED
    BY <1>1, <1>2, <1>3, <1>7, <2>1, <2>2, <2>3 DEF n

(* The FAT entry of a cluster within a chain is the cluster behind it: no  *)
(* cluster is in two places (FatInternal.c, fatNextCluster).               *)
LEMMA FatEntryIsNext ==
  ASSUME NEW f \in File, NEW i \in 1 .. Len(Chain[f]), i < Len(Chain[f])
  PROVE  FatEntry(Chain[f][i]) = Chain[f][i + 1]
<1> DEFINE c == Chain[f][i]
           g == CHOOSE h \in File : \E k \in DOMAIN Chain[h] : Chain[h][k] = c
           j == CHOOSE k \in DOMAIN Chain[g] : Chain[g][k] = c
<1>1. DOMAIN Chain[f] = 1 .. Len(Chain[f])
  BY ChainIs
<1>2. g \in File /\ \E k \in DOMAIN Chain[g] : Chain[g][k] = c
  BY <1>1
<1>3. j \in DOMAIN Chain[g] /\ Chain[g][j] = c
  BY <1>2
<1>4. FatEntry(c) = IF j < Len(Chain[g]) THEN Chain[g][j + 1] ELSE EndMark
  BY DEF FatEntry
<1> HIDE DEF g, j
<1>5. g = f /\ j = i
  BY <1>1, <1>2, <1>3, FatAssumption
<1> QED
  BY <1>4, <1>5

(* Clusters of the card have sectors, others have none.                    *)
LEMMA Layout ==
  /\ \A c : FatSecter(c) \in Int \cup {Junk}
  /\ \A c \in Clusters : FatSecter(c) \in Int /\ FirstSecter(c) \in Int
  /\ \A c : FirstSecter(c) \in Int \cup {Junk}
  /\ Junk \notin Clusters /\ Junk \notin Int
  /\ DirEntrySecter \in Int
<1>1. Clusters \subseteq Nat
  <2> SUFFICES ASSUME NEW f \in File, NEW i \in DOMAIN Chain[f]
               PROVE  Chain[f][i] \in Nat
    BY DEF Clusters
  <2>1. i \in 1 .. Len(Chain[f])
    BY ChainIs
  <2> QED
    BY <2>1, ChainIs
<1>2. /\ DirEntrySecter \in Int /\ DataEntrySecter \in Int
  BY FatAssumption DEF DirEntrySecter, DataEntrySecter
<1>3. \A c \in Clusters : FatSecter(c) \in Int
  <2> SUFFICES ASSUME NEW c \in Clusters PROVE c \div EntriesPerSecter \in Int
    BY DEF FatSecter
  <2>1. c \in Nat /\ EntriesPerSecter \in Nat \ {0}
    BY <1>1, FatAssumption
  <2> QED
    BY <2>1, Divides
<1>4. \A c \in Clusters : FirstSecter(c) \in Int
  <2> SUFFICES ASSUME NEW c \in Clusters
               PROVE  (c - 2) * BPB_SecPerCluster + DataEntrySecter \in Int
    BY DEF FirstSecter
  <2>1. c - 2 \in Int /\ BPB_SecPerCluster \in Nat
    BY <1>1, FatAssumption
  <2>2. (c - 2) * BPB_SecPerCluster \in Int
    BY <2>1
  <2> QED
    BY <1>2, <2>2
<1>5. \A c : c \notin Clusters => FatSecter(c) = Junk /\ FirstSecter(c) = Junk
  BY DEF FatSecter, FirstSecter
<1>6. Junk \notin Clusters /\ Junk \notin Int
  <2>1. Junk \in {Junk, None} /\ {Junk, None} \cap Int = {}
    BY FatAssumption
  <2>2. Junk \notin Int
    BY <2>1, Zenon
  <2>3. Clusters \subseteq Int
    BY <1>1
  <2> QED
    BY <2>2, <2>3, Zenon
<1> QED
  BY <1>2, <1>3, <1>4, <1>5, <1>6

(* A byte of a sector of the card is its sector and its place.             *)
LEMMA ByteIs ==
  ASSUME NEW s \in Int \cup {Junk}, NEW k \in Nat
  PROVE  /\ Byte(s, k) \in ByteValues
         /\ s # Junk
              => Byte(s, k) = <<s + k \div BPB_BytsPerSec, k % BPB_BytsPerSec>>
<1>1. k \div BPB_BytsPerSec \in Nat /\ k % BPB_BytsPerSec \in Nat
  BY Sizes, Divides
<1>2. s # Junk => s \in Int /\ s + k \div BPB_BytsPerSec \in Int
  BY <1>1
<1> QED
  BY <1>1, <1>2 DEF Byte, ByteValues

(* Bytes of a file: cluster q, sector j of it, place m from there on.      *)
LEMMA ContentAt ==
  ASSUME NEW f \in File, NEW q \in 0 .. Len(Chain[f]) - 1,
         NEW j \in Nat, NEW m \in Nat,
         j * BPB_BytsPerSec + m < BytesPerCluster
  PROVE  Content[f][q * BytesPerCluster + j * BPB_BytsPerSec + m]
           = Byte(FirstSecter(Chain[f][q + 1]) + j, m)
<1> DEFINE c == Chain[f][q + 1]
           r == j * BPB_BytsPerSec + m
           i == q * BytesPerCluster + r
<1>1. /\ c \in Clusters /\ FirstSecter(c) \in Int /\ FirstSecter(c) # Junk
      /\ FirstSecter(c) + j \in Int /\ FirstSecter(c) + j # Junk
  <2>1. q + 1 \in 1 .. Len(Chain[f])
    BY ChainIs
  <2>2. c \in Clusters
    BY <2>1, ChainIs
  <2>3. FirstSecter(c) \in Int /\ Junk \notin Int
    BY <2>2, Layout
  <2>4. FirstSecter(c) + j \in Int
    BY <2>3
  <2> QED
    BY <2>2, <2>3, <2>4
<1>2. j * BPB_BytsPerSec \in Nat /\ r \in 0 .. BytesPerCluster - 1 /\ r \in Nat
  <2>1. j * BPB_BytsPerSec \in Nat
    BY Sizes, Z3
  <2> QED
    BY <2>1, Sizes
<1>3. q \in Nat /\ BytesPerCluster \in Nat \ {0} /\ Len(Chain[f]) \in Nat
  BY ChainIs, Sizes
<1> HIDE DEF r
<1>4. i \div BytesPerCluster = q /\ i % BytesPerCluster = r
  BY <1>2, <1>3, QuotientIs
<1>5. i \in 0 .. Len(Chain[f]) * BytesPerCluster - 1
  <2>1. /\ q * BytesPerCluster + BytesPerCluster <= Len(Chain[f]) * BytesPerCluster
        /\ q * BytesPerCluster \in Int /\ Len(Chain[f]) * BytesPerCluster \in Int
        /\ 0 * BytesPerCluster <= q * BytesPerCluster
    BY <1>3, Multiples
  <2>2. 0 * BytesPerCluster = 0
    BY <1>3, Z3
  <2> QED
    BY <1>2, <1>3, <2>1, <2>2
<1>6. Content[f][i]
        = Byte(FirstSecter(Chain[f][1 + i \div BytesPerCluster]), i % BytesPerCluster)
  BY <1>5 DEF Content
<1> HIDE DEF i
<1>7. Chain[f][1 + q] = c
  BY <1>3
<1>8. Content[f][i] = Byte(FirstSecter(c), r)
  BY <1>4, <1>6, <1>7
<1> HIDE DEF c
<1>9. Content[f][i] = <<FirstSecter(c) + r \div BPB_BytsPerSec, r % BPB_BytsPerSec>>
  BY <1>1, <1>2, <1>8, ByteIs
<1>10. /\ r \div BPB_BytsPerSec = j + m \div BPB_BytsPerSec
       /\ r % BPB_BytsPerSec = m % BPB_BytsPerSec
  BY Whole, Sizes DEF r
<1>11. m \div BPB_BytsPerSec \in Nat
  BY Divides, Sizes
<1>12. Byte(FirstSecter(c) + j, m)
         = <<(FirstSecter(c) + j) + m \div BPB_BytsPerSec, m % BPB_BytsPerSec>>
  BY <1>1, ByteIs
<1>13. FirstSecter(c) + (j + m \div BPB_BytsPerSec)
         = (FirstSecter(c) + j) + m \div BPB_BytsPerSec
  BY <1>1, <1>11
<1>14. i = q * BytesPerCluster + j * BPB_BytsPerSec + m
  <2>1. q * BytesPerCluster \in Int
    BY <1>3, Multiples
  <2> QED
    BY <2>1, <1>2 DEF i, r
<1> QED
  BY <1>9, <1>10, <1>12, <1>13, <1>14 DEF c

-----------------------------------------------------------------------------
(* What a sector may be: one of the card, or junk.                         *)
Sectors == Int \cup {Junk}

(* The types of the variables: the invariant of FatFile by itself.         *)
Types ==
  /\ file \in File
  /\ SeekPos \in 0 .. FileSize[file]
  /\ ClusterSeq \in Nat
  /\ Secter_Data \in Sectors
  /\ pc \in {"idle", "walk", "locate", "first", "body", "next"}
  /\ nBufferSize \in Nat
  /\ Pos \in Nat
  /\ bSuccess \in BOOLEAN
  /\ buffer \in {None} \cup Seq(ByteValues)
  /\ SectorOffset \in Nat
  /\ PhysicalSecter \in Sectors
  /\ relied \in BOOLEAN
  /\ fault \in BOOLEAN

(* The sector that is kept has the contents of its number (fatReadSecter   *)
(* forgets the number when the card fails).                                *)
CacheInv == Secter_Index # None => Secter_Data = Secter_Index

(* A call stays within the file, and its buffer does not overflow; until   *)
(* the first sector nothing is in it.                                      *)
FileReadInv ==
  pc # "idle" =>
    /\ nBufferSize > 0
    /\ SeekPos + nBufferSize <= FileSize[file]
    /\ buffer \in Seq(ByteValues)
    /\ Len(buffer) <= nBufferSize
    /\ pc \in {"walk", "locate", "first"} => buffer = <<>>

(* Where the cached cluster begins in the file, and where the call is.     *)
Here == ClusterSeq * BytesPerCluster
Reached == SeekPos + Len(buffer)

(* The bytes read up to now are those of the file.                         *)
RightBytes ==
  \A k \in 1 .. Len(buffer) : buffer[k] = Content[file][SeekPos + k - 1]

(* Before the first byte: Pos is relative to the cached cluster, and once  *)
(* the walk is over the position is in it.                                 *)
AtPosition ==
  /\ pc \in {"walk", "locate", "first"} => SeekPos = Here + Pos
  /\ pc \in {"locate", "first"} => Pos < BytesPerCluster
  /\ pc = "first" => /\ SectorOffset = Pos \div BPB_BytsPerSec
                     /\ PhysicalSecter = FirstSecter(Cluster) + SectorOffset

(* The next byte is the first one of sector j of the cluster, which is     *)
(* PhysicalSecter. SectorOffset lags behind only when less than a sector   *)
(* is missing: line 465 of FatFileSystem.c uses it no more then.           *)
AtSector(j) ==
  /\ PhysicalSecter = FirstSecter(Cluster) + j
  /\ Here + j * BPB_BytsPerSec = Reached
  /\ j = SectorOffset \/ Missing < BPB_BytsPerSec

(* After the first sector: the call is at the beginning of a sector of the *)
(* cached cluster, or at its end with bytes still missing.                 *)
InBody ==
  /\ pc = "body" /\ Missing > 0 =>
       \E j \in 0 .. BPB_SecPerCluster - 1 : AtSector(j)
  /\ pc = "next" => Here + BytesPerCluster = Reached /\ Missing > 0

(* The whole course of a call.                                             *)
OnCourse == /\ Coherent
            /\ bSuccess
            /\ Here <= Reached
            /\ RightBytes
            /\ AtPosition
            /\ InBody

(* A failure of the card that the call will return (bSuccess), or a        *)
(* cluster from nowhere, from which every FAT entry is junk or none.       *)
Astray == fault /\ (Cluster \notin Clusters \/ ~bSuccess)

(* What is known of a call that began sound.                               *)
CourseInv == pc # "idle" /\ relied => OnCourse \/ Astray

(* The inductive invariant.                                                *)
FileIInv == Types /\ CacheInv /\ FileReadInv /\ CourseInv

-----------------------------------------------------------------------------
(* The cached cluster, when it is the one its number says, is of the card. *)
LEMMA CoherentIs ==
  ASSUME Types, Coherent
  PROVE  /\ ClusterSeq \in 0 .. Len(Chain[file]) - 1
         /\ Cluster = Chain[file][ClusterSeq + 1]
         /\ Cluster \in Clusters
         /\ FatSecter(Cluster) \in Int /\ FirstSecter(Cluster) \in Int
<1>1. /\ ClusterSeq + 1 \in 1 .. Len(Chain[file]) /\ Cluster = Chain[file][ClusterSeq + 1]
      /\ ClusterSeq \in Nat
  BY ChainIs DEF Types, Coherent
<1>2. Cluster \in Clusters
  BY <1>1, ChainIs DEF Types
<1> QED
  BY <1>1, <1>2, Layout, ChainIs DEF Types

(* fatReadSecter keeps the cache right, and after a success it holds the   *)
(* sector asked for.                                                       *)
LEMMA SecterRead ==
  ASSUME Types, CacheInv, NEW STATE s, s \in Sectors, NEW ok \in BOOLEAN,
         ReadSecter(s, ok)
  PROVE  /\ Secter_Data' \in Sectors /\ CacheInv'
         /\ fault' \in BOOLEAN
         /\ fault => fault'
         /\ ok => Secter_Data' = s /\ fault' = fault
         /\ ~ok => fault'
<1>1. Junk \in Sectors
  BY DEF Sectors
<1>2. CASE s = Secter_Index /\ s # Junk
  <2>1. ok /\ UNCHANGED <<Secter_Index, Secter_Data, fault>>
    BY <1>2 DEF ReadSecter, cache
  <2>2. s \in Int
    BY <1>2 DEF Sectors
  <2>3. s # None
    <3>1. None \in {Junk, None} /\ {Junk, None} \cap Int = {}
      BY FatAssumption
    <3> QED
      BY <2>2, <3>1, Zenon
  <2>4. Secter_Data = s
    BY <1>2, <2>3 DEF CacheInv
  <2> QED
    BY <2>1, <2>4 DEF Types, CacheInv
<1>3. CASE ~(s = Secter_Index /\ s # Junk)
  <2>1. /\ Secter_Index' = SecterAfter(s, ok)
        /\ Secter_Data' = IF ok THEN s ELSE Junk
        /\ fault' = (fault \/ ~ok)
    BY <1>3 DEF ReadSecter
  <2>2. CacheInv'
    BY <2>1 DEF CacheInv, SecterAfter
  <2> QED
    BY <1>1, <2>1, <2>2 DEF Types
<1> QED
  BY <1>2, <1>3, Zenon

(* fatNextCluster: without a cluster, or when the card fails, nothing or   *)
(* junk; otherwise the cluster behind, if there is one.                    *)
LEMMA NextClustersAre ==
  ASSUME Types, NEW ok \in BOOLEAN, NEW next, next \in NextClusters(ok)
  PROVE  /\ Cluster \notin Clusters => next \in {0, Junk}
         /\ ~ok => next \in {0, Junk}
         /\ Coherent /\ ok /\ Secter_Data' = FatSecter(Cluster)
              /\ ClusterSeq + 1 < Len(Chain[file])
            => /\ next = Chain[file][ClusterSeq + 2]
               /\ next # 0
<1>1. (~ok \/ Cluster \notin Clusters) => next \in {0, Junk}
  BY DEF NextClusters
<1>2. ASSUME Coherent, ok, Secter_Data' = FatSecter(Cluster),
             ClusterSeq + 1 < Len(Chain[file])
      PROVE  next = Chain[file][ClusterSeq + 2] /\ next # 0
  <2>1. /\ Cluster \in Clusters /\ Cluster = Chain[file][ClusterSeq + 1]
        /\ ClusterSeq \in 0 .. Len(Chain[file]) - 1
    BY <1>2, CoherentIs
  <2>2. next = FatEntry(Cluster)
    BY <1>2, <2>1 DEF NextClusters
  <2>3. /\ file \in File /\ ClusterSeq + 1 \in 1 .. Len(Chain[file])
        /\ Len(Chain[file]) \in Nat
    BY <2>1, ChainIs DEF Types
  <2>4. FatEntry(Chain[file][ClusterSeq + 1]) = Chain[file][(ClusterSeq + 1) + 1]
    BY <1>2, <2>3, FatEntryIsNext
  <2>5. /\ (ClusterSeq + 1) + 1 = ClusterSeq + 2
        /\ ClusterSeq + 2 \in 1 .. Len(Chain[file])
    <3> DEFINE q == ClusterSeq
               n == Len(Chain[file])
    <3>1. q \in Nat /\ n \in Nat /\ q + 1 < n
      BY <1>2, <2>3 DEF Types
    <3> HIDE DEF q, n
    <3>2. (q + 1) + 1 = q + 2 /\ q + 2 \in 1 .. n
      BY <3>1
    <3> QED
      BY <3>2 DEF q, n
  <2>6. Chain[file][ClusterSeq + 2] \in Nat \ {0, 1}
    BY <2>3, <2>5, ChainIs
  <2> QED
    BY <2>1, <2>2, <2>4, <2>5, <2>6
<1> QED
  BY <1>1, <1>2

(* What fits an alt_u32 is not changed by it.                              *)
LEMMA Narrow ==
  ASSUME NEW x \in Int, 0 <= x, x < Width
  PROVE  Wrapped(x) = x
  BY FatAssumption DEF Wrapped

(* The size of the open file fits, and so does the position.               *)
LEMMA SizeIs ==
  ASSUME Types
  PROVE  /\ FileSize[file] \in Nat /\ FileSize[file] < Width
         /\ FileSize[file] <= Len(Chain[file]) * BytesPerCluster
         /\ Len(Chain[file]) * BytesPerCluster \in Nat
         /\ Len(Chain[file]) \in Nat \ {0}
         /\ SeekPos \in Nat /\ SeekPos <= FileSize[file]
         /\ Width \in Nat
<1>1. file \in File /\ SeekPos \in 0 .. FileSize[file]
  BY DEF Types
<1> DEFINE size == FileSize[file]
           all == Len(Chain[file]) * BytesPerCluster
<1>2. /\ size \in 1 .. all /\ all \in Nat /\ all < Width
      /\ Len(Chain[file]) \in Nat \ {0}
  BY <1>1, ChainIs
<1>3. Width \in Nat
  BY FatAssumption
<1>4. SeekPos \in 0 .. size
  BY <1>1
<1> HIDE DEF size, all
<1>5. /\ size \in Nat /\ size < Width /\ size <= all
      /\ SeekPos \in Nat /\ SeekPos <= size
  BY <1>2, <1>3, <1>4
<1> QED
  BY <1>2, <1>3, <1>5 DEF size, all

(* The return of a call: the position moves by all of it or not at all,    *)
(* and stays within the file.                                              *)
LEMMA Returned ==
  ASSUME Types, FileReadInv, pc # "idle",
         NEW STATE success, success \in BOOLEAN, Return(success)
  PROVE  /\ pc' = "idle" /\ bSuccess' = success /\ relied' /\ file' = file
         /\ SeekPos' = IF success THEN SeekPos + nBufferSize ELSE SeekPos
         /\ SeekPos' \in 0 .. FileSize[file]
         /\ nBufferSize' = 0 /\ Pos' = 0 /\ SectorOffset' = 0 /\ PhysicalSecter' = 0
<1>1. /\ FileSize[file] \in Nat /\ FileSize[file] < Width /\ SeekPos \in Nat
      /\ SeekPos + nBufferSize <= FileSize[file]
      /\ nBufferSize \in Nat /\ Width \in Nat
  BY SizeIs DEF FileReadInv, Types
<1>2. Wrapped(SeekPos + nBufferSize) = SeekPos + nBufferSize
  <2>1. /\ SeekPos + nBufferSize \in Int /\ 0 <= SeekPos + nBufferSize
        /\ SeekPos + nBufferSize < Width
    BY <1>1
  <2> QED
    BY <2>1, Narrow
<1>3. /\ pc' = "idle" /\ bSuccess' = success /\ relied' /\ file' = file
      /\ SeekPos' = IF success THEN SeekPos + nBufferSize ELSE SeekPos
      /\ nBufferSize' = 0 /\ Pos' = 0 /\ SectorOffset' = 0 /\ PhysicalSecter' = 0
  BY <1>2 DEF Return
<1>4. SeekPos' \in 0 .. FileSize[file]
  BY <1>1, <1>3
<1> QED
  BY <1>3, <1>4

(* Every return keeps the invariant: between calls it says little.         *)
LEMMA ReturnKeeps ==
  ASSUME FileIInv, pc # "idle",
         NEW STATE success, success \in BOOLEAN, Return(success),
         CacheInv', Secter_Data' \in Sectors, fault' \in BOOLEAN,
         ClusterSeq' \in Nat, buffer' \in Seq(ByteValues)
  PROVE  FileIInv'
<1>1. Types'
  <2>1. 0 \in Sectors /\ 0 \in Nat
    BY DEF Sectors
  <2> QED
    BY <2>1, Returned DEF FileIInv, Types
<1>2. pc' = "idle"
  BY Returned DEF FileIInv
<1> QED
  BY <1>1, <1>2 DEF FileIInv, FileReadInv, CourseInv

(* A copy of n bytes from a sector on.                                     *)
LEMMA BytesAre ==
  ASSUME NEW p \in Sectors, NEW from \in Nat, NEW n \in Nat
  PROVE  /\ Bytes(p, from, n) \in Seq(ByteValues)
         /\ Len(Bytes(p, from, n)) = n
         /\ \A k \in 1 .. n : Bytes(p, from, n)[k] = Byte(p, from + k - 1)
<1>1. \A k \in 1 .. n : Byte(p, from + k - 1) \in ByteValues
  <2> SUFFICES ASSUME NEW k \in 1 .. n PROVE Byte(p, from + k - 1) \in ByteValues
    OBVIOUS
  <2>1. from + k - 1 \in Nat
    OBVIOUS
  <2> QED
    BY <2>1, ByteIs DEF Sectors
<1> QED
  BY <1>1 DEF Bytes

(* A copy behind the bytes that are there.                                 *)
LEMMA Appended ==
  ASSUME NEW s \in Seq(ByteValues), NEW p \in Sectors, NEW from \in Nat, NEW n \in Nat
  PROVE  /\ s \o Bytes(p, from, n) \in Seq(ByteValues)
         /\ Len(s \o Bytes(p, from, n)) = Len(s) + n
         /\ \A k \in 1 .. Len(s) : (s \o Bytes(p, from, n))[k] = s[k]
         /\ \A k \in 1 .. n :
              (s \o Bytes(p, from, n))[Len(s) + k] = Byte(p, from + k - 1)
<1> DEFINE t == Bytes(p, from, n)
<1>1. /\ t \in Seq(ByteValues) /\ Len(t) = n
      /\ \A k \in 1 .. n : t[k] = Byte(p, from + k - 1)
  BY BytesAre
<1> HIDE DEF t
<1>2. /\ s \o t \in Seq(ByteValues)
      /\ Len(s \o t) = Len(s) + Len(t)
      /\ \A i \in 1 .. Len(s) + Len(t) :
           (s \o t)[i] = IF i <= Len(s) THEN s[i] ELSE t[i - Len(s)]
  BY <1>1, ConcatProperties
<1>3. Len(s) \in Nat
  OBVIOUS
<1>4. \A k \in 1 .. Len(s) : (s \o t)[k] = s[k]
  BY <1>1, <1>2, <1>3
<1>5. \A k \in 1 .. n : (s \o t)[Len(s) + k] = Byte(p, from + k - 1)
  <2> SUFFICES ASSUME NEW k \in 1 .. n
               PROVE  (s \o t)[Len(s) + k] = Byte(p, from + k - 1)
    OBVIOUS
  <2>1. /\ Len(s) + k \in 1 .. Len(s) + Len(t) /\ ~(Len(s) + k <= Len(s))
        /\ (Len(s) + k) - Len(s) = k
    BY <1>1, <1>3
  <2> QED
    BY <1>1, <1>2, <2>1
<1> QED
  BY <1>1, <1>2, <1>4, <1>5 DEF t

(* t is the buffer with n bytes of sector p added.                         *)
Adds(t, p, from, n) ==
  /\ Len(t) = Len(buffer) + n
  /\ \A k \in 1 .. Len(buffer) : t[k] = buffer[k]
  /\ \A k \in 1 .. n : t[Len(buffer) + k] = Byte(p, from + k - 1)

(* The bytes of one sector and of the ones behind it in the cluster are    *)
(* those of the file that come next.                                       *)
LEMMA Fills ==
  ASSUME Types, Coherent, RightBytes, buffer \in Seq(ByteValues),
         NEW j \in Nat, NEW from \in Nat, NEW n \in Nat, NEW p,
         p = FirstSecter(Cluster) + j,
         Here + j * BPB_BytsPerSec + from = Reached,
         j * BPB_BytsPerSec + from + n <= BytesPerCluster,
         NEW t, Adds(t, p, from, n)
  PROVE  \A k \in 1 .. Len(t) : t[k] = Content[file][SeekPos + k - 1]
<1>1. Len(buffer) \in Nat /\ SeekPos \in Nat
  BY SizeIs
<1>2. /\ Len(t) = Len(buffer) + n
      /\ \A k \in 1 .. Len(buffer) : t[k] = buffer[k]
      /\ \A k \in 1 .. n : t[Len(buffer) + k] = Byte(p, from + k - 1)
  BY DEF Adds
<1>3. /\ ClusterSeq \in 0 .. Len(Chain[file]) - 1 /\ file \in File
      /\ Cluster = Chain[file][ClusterSeq + 1]
  BY CoherentIs DEF Types
<1>4. Here \in Int /\ j * BPB_BytsPerSec \in Nat /\ BytesPerCluster \in Nat
  <2>1. /\ ClusterSeq \in Int
        /\ BytesPerCluster \in Nat \ {0} /\ BPB_BytsPerSec \in Nat \ {0}
    BY Sizes DEF Types
  <2>2. ClusterSeq * BytesPerCluster \in Int
    BY <2>1, Multiples
  <2>3. j * BPB_BytsPerSec \in Int /\ 0 * BPB_BytsPerSec <= j * BPB_BytsPerSec
    BY <2>1, Multiples
  <2>4. 0 * BPB_BytsPerSec = 0
    BY <2>1, Z3
  <2> QED
    BY <2>1, <2>2, <2>3, <2>4 DEF Here
<1> SUFFICES ASSUME NEW k \in 1 .. Len(t) PROVE t[k] = Content[file][SeekPos + k - 1]
  OBVIOUS
<1>5. CASE k <= Len(buffer)
  BY <1>1, <1>5, <1>2 DEF RightBytes
<1>6. CASE ~(k <= Len(buffer))
  <2> DEFINE i == k - Len(buffer)
             m == from + i - 1
  <2>1. i \in 1 .. n /\ k = Len(buffer) + i
    BY <1>1, <1>6, <1>2
  <2>2. m \in Nat /\ j * BPB_BytsPerSec + m < BytesPerCluster
    BY <1>4, <2>1
  <2>3. t[k] = Byte(p, m)
    BY <1>2, <2>1
  <2>4. SeekPos + k - 1 = Here + j * BPB_BytsPerSec + m
    <3>1. /\ i \in Int /\ from \in Int /\ k = Len(buffer) + i /\ m = from + i - 1
          /\ Len(buffer) \in Int /\ SeekPos \in Int
      BY <1>1, <2>1
    <3>2. Here + j * BPB_BytsPerSec + from = SeekPos + Len(buffer)
      BY DEF Reached
    <3> DEFINE x == j * BPB_BytsPerSec
    <3>3. x \in Int /\ Here \in Int /\ Here + x + from = SeekPos + Len(buffer)
      BY <1>4, <3>2
    <3> HIDE DEF m, i, x
    <3>4. SeekPos + k - 1 = Here + x + m
      BY <3>1, <3>3
    <3> QED
      BY <3>4 DEF x
  <2> HIDE DEF m, i
  <2>5. Content[file][ClusterSeq * BytesPerCluster + j * BPB_BytsPerSec + m]
          = Byte(FirstSecter(Chain[file][ClusterSeq + 1]) + j, m)
    BY <1>3, <2>2, ContentAt
  <2> QED
    BY <1>3, <2>3, <2>4, <2>5 DEF Here
<1> QED
  BY <1>1, <1>5, <1>6

-----------------------------------------------------------------------------
(* The file is open, no call is running.                                   *)
LEMMA InitFileIInv ==
  ASSUME Init
  PROVE  FileIInv
<1>1. file \in File /\ FileSize[file] \in Nat
  <2>1. file \in File
    BY DEF Init
  <2> QED
    BY <2>1, ChainIs
<1>2. Types
  <2>1. SeekPos \in 0 .. FileSize[file]
    BY <1>1 DEF Init
  <2>2. Junk \in Sectors /\ 0 \in Sectors
    BY DEF Sectors
  <2> QED
    BY <1>1, <2>1, <2>2 DEF Init, Types
<1> QED
  BY <1>2 DEF Init, FileIInv, CacheInv, FileReadInv, CourseInv

(* Fat_FileOpen: a file of the directory, at its beginning.                *)
LEMMA OpenKeeps ==
  ASSUME FileIInv, Fat_FileOpen
  PROVE  FileIInv'
<1>1. Secter_Data' \in Sectors /\ CacheInv' /\ fault' \in BOOLEAN
  <2>1. DirEntrySecter \in Sectors /\ ReadSecter(DirEntrySecter, TRUE)
    BY Layout DEF Fat_FileOpen, Sectors
  <2> QED
    BY <2>1, SecterRead DEF FileIInv
<1>2. file' \in File /\ SeekPos' \in 0 .. FileSize[file'] /\ ClusterSeq' \in Nat
  <2>1. file' \in File /\ SeekPos' = 0 /\ ClusterSeq' = 0
    BY DEF Fat_FileOpen
  <2>2. FileSize[file'] \in Nat
    BY <2>1, ChainIs
  <2> QED
    BY <2>1, <2>2
<1>3. pc = "idle" /\ UNCHANGED <<call, relied>>
  BY DEF Fat_FileOpen
<1>4. Types'
  BY <1>1, <1>2, <1>3 DEF FileIInv, Types, call
<1> QED
  BY <1>1, <1>3, <1>4 DEF FileIInv, FileReadInv, CourseInv, call

(* Fat_FileSeek: within the file, at its first cluster.                    *)
LEMMA SeekKeeps ==
  ASSUME FileIInv, NEW mode, NEW nOffset, Fat_FileSeek(mode, nOffset)
  PROVE  FileIInv'
<1>1. /\ pc = "idle" /\ UNCHANGED <<file, cache, call, relied, fault>>
      /\ SeekPos' \in 0 .. FileSize[file] /\ ClusterSeq' = 0
  BY DEF Fat_FileSeek
<1>2. Types'
  BY <1>1 DEF FileIInv, Types, call, cache
<1> QED
  BY <1>1, <1>2 DEF FileIInv, CacheInv, FileReadInv, CourseInv, call, cache

(* The beginning of a call: from a cluster that can be relied on, Pos does *)
(* not wrap around (line 393 of FatFileSystem.c).                          *)
LEMMA BeginReadKeeps ==
  ASSUME FileIInv, NEW n \in BufferSizes, BeginRead(n)
  PROVE  FileIInv'
<1>1. /\ pc = "idle" /\ SeekPos + n <= FileSize[file]
      /\ nBufferSize' = n /\ bSuccess' = TRUE /\ buffer' = <<>>
      /\ Pos' = Wrapped(SeekPos - ClusterSeq * BytesPerCluster)
      /\ pc' = IF SeekPos \div BytesPerCluster # ClusterSeq THEN "walk" ELSE "locate"
      /\ relied' = Sound /\ fault' = FALSE
      /\ UNCHANGED <<handle, cache, SectorOffset, PhysicalSecter>>
  BY DEF BeginRead
<1>2. n \in Nat /\ n > 0
  BY FatAssumption
<1>3. ClusterSeq * BytesPerCluster \in Int /\ SeekPos \in Nat
  BY Multiples, Sizes, SizeIs DEF FileIInv, Types
<1>4. Types'
  <2>1. Pos' \in Nat
    <3>1. SeekPos - ClusterSeq * BytesPerCluster \in Int
      BY <1>3
    <3> QED
      BY <1>1, <3>1, FatAssumption DEF Wrapped
  <2>2. buffer' \in Seq(ByteValues)
    BY <1>1, EmptySeq
  <2>3. relied' \in BOOLEAN
    BY <1>1 DEF Sound, Coherent, FileIInv, Types
  <2> QED
    BY <1>1, <1>2, <2>1, <2>2, <2>3 DEF FileIInv, Types, handle, cache
<1>5. FileReadInv'
  <2>1. buffer' \in Seq(ByteValues) /\ Len(buffer') = 0
    BY <1>1, EmptySeq
  <2> QED
    BY <1>1, <1>2, <2>1 DEF FileReadInv, handle
<1>6. ASSUME relied' PROVE OnCourse'
  <2>1. Coherent /\ ClusterSeq * BytesPerCluster <= SeekPos
    BY <1>1, <1>6 DEF Sound
  <2>2. Coherent'
    BY <1>1, <2>1 DEF Coherent, handle
  <2>3. ClusterSeq \in Nat /\ Width \in Nat /\ SeekPos < Width
    BY SizeIs DEF FileIInv, Types
  <2>4. 0 <= ClusterSeq * BytesPerCluster
    BY <2>3, Sizes, Z3
  <2>5. Pos' = SeekPos - ClusterSeq * BytesPerCluster
    <3>1. /\ SeekPos - ClusterSeq * BytesPerCluster \in Int
          /\ 0 <= SeekPos - ClusterSeq * BytesPerCluster
          /\ SeekPos - ClusterSeq * BytesPerCluster < Width
      BY <1>3, <2>1, <2>3, <2>4
    <3> QED
      BY <1>1, <3>1, Narrow
  <2>6. Len(buffer') = 0
    BY <1>1
  <2>7. Here' <= Reached'
    BY <1>1, <1>3, <2>1, <2>6 DEF Here, Reached, handle
  <2>8. AtPosition'
    <3>1. SeekPos' = Here' + Pos'
      BY <1>1, <1>3, <2>5 DEF Here, handle
    <3>2. pc' = "locate" => Pos' < BytesPerCluster
      <4>1. SUFFICES ASSUME pc' = "locate" PROVE Pos' < BytesPerCluster
        OBVIOUS
      <4>2. SeekPos \div BytesPerCluster = ClusterSeq
        BY <1>1, <4>1
      <4>3. /\ SeekPos = (SeekPos \div BytesPerCluster) * BytesPerCluster
                           + (SeekPos % BytesPerCluster)
            /\ SeekPos % BytesPerCluster \in 0 .. BytesPerCluster - 1
        BY <1>3, Divides, Sizes
      <4> QED
        BY <1>3, <2>5, <4>2, <4>3, Sizes
    <3> QED
      BY <1>1, <3>1, <3>2 DEF AtPosition
  <2> QED
    BY <1>1, <2>2, <2>6, <2>7, <2>8 DEF OnCourse, RightBytes, InBody
<1> QED
  BY <1>1, <1>4, <1>5, <1>6 DEF FileIInv, CacheInv, CourseInv, cache

(* The numbers the arithmetic below is about.                              *)
LEMMA Numbers ==
  ASSUME Types
  PROVE  /\ Here \in Nat /\ SeekPos \in Nat /\ Pos \in Nat /\ nBufferSize \in Nat
         /\ SectorOffset \in Nat /\ FileSize[file] \in Nat
         /\ BPB_BytsPerSec \in Nat \ {0} /\ BPB_SecPerCluster \in Nat \ {0}
         /\ BytesPerCluster \in Nat \ {0}
<1>1. ClusterSeq \in Nat /\ BytesPerCluster \in Nat \ {0}
  BY Sizes DEF Types
<1>2. ClusterSeq * BytesPerCluster \in Nat
  BY <1>1, Z3
<1> QED
  BY <1>2, Sizes, SizeIs DEF Here, Types

(* There is a cluster behind this one as long as bytes of the file are.    *)
LEMMA MoreClusters ==
  ASSUME Types, ClusterSeq * BytesPerCluster + BytesPerCluster < FileSize[file]
  PROVE  /\ ClusterSeq + 1 < Len(Chain[file])
         /\ Wrapped(ClusterSeq + 1) = ClusterSeq + 1
         /\ (ClusterSeq + 1) * BytesPerCluster
               = ClusterSeq * BytesPerCluster + BytesPerCluster
<1> DEFINE q == ClusterSeq
           n == Len(Chain[file])
<1>1. q \in Nat /\ n \in Nat /\ BytesPerCluster \in Nat \ {0}
  BY Sizes, SizeIs DEF Types
<1>2. /\ FileSize[file] <= n * BytesPerCluster /\ FileSize[file] \in Nat
      /\ q * BytesPerCluster + BytesPerCluster < FileSize[file]
      /\ n < Width /\ Width \in Nat
  BY SizeIs, ChainIs DEF Types
<1> HIDE DEF q, n
<1>3. /\ (q + 1) * BytesPerCluster = q * BytesPerCluster + BytesPerCluster
      /\ q * BytesPerCluster \in Int /\ n * BytesPerCluster \in Int
  BY <1>1, Multiples
<1>4. n <= q + 1 => n * BytesPerCluster <= (q + 1) * BytesPerCluster
  <2>1. q + 1 \in Int /\ n \in Int
    BY <1>1
  <2> QED
    BY <1>1, <2>1, Multiples
<1>5. ~(n <= q + 1)
  BY <1>1, <1>2, <1>3, <1>4
<1>6. q + 1 < n
  BY <1>1, <1>5
<1>7. Wrapped(q + 1) = q + 1
  BY <1>1, <1>2, <1>6, Narrow
<1> QED
  BY <1>3, <1>6, <1>7 DEF q, n

(* A step of the walk: the position is beyond the cached cluster, so there *)
(* is a cluster behind it; or the card fails, and the call is astray.      *)
LEMMA WalkKeeps ==
  ASSUME FileIInv, Walk
  PROVE  FileIInv'
<1>1. PICK ok \in BOOLEAN :
        /\ ReadSecter(FatSecter(Cluster), ok)
        /\ \E next \in NextClusters(ok) :
             /\ Cluster' = IF next = 0 THEN Cluster ELSE next
             /\ bSuccess' = (next # 0)
  BY DEF Walk
<1>2. PICK next \in NextClusters(ok) :
        /\ Cluster' = IF next = 0 THEN Cluster ELSE next
        /\ bSuccess' = (next # 0)
  BY <1>1
<1>3. /\ pc = "walk" /\ Pos >= BytesPerCluster /\ bSuccess
      /\ ClusterSeq' = Wrapped(ClusterSeq + 1)
      /\ Pos' = Pos - BytesPerCluster
      /\ UNCHANGED <<file, SeekPos, pc, nBufferSize, buffer, SectorOffset,
                     PhysicalSecter, relied>>
  BY DEF Walk, PosAfter
<1>4. FatSecter(Cluster) \in Sectors
  BY Layout DEF Sectors
<1>5. /\ Secter_Data' \in Sectors /\ CacheInv' /\ fault' \in BOOLEAN
      /\ fault => fault'
      /\ ok => Secter_Data' = FatSecter(Cluster) /\ fault' = fault
      /\ ~ok => fault'
  BY <1>1, <1>4, SecterRead DEF FileIInv
<1>6. /\ Cluster \notin Clusters => next \in {0, Junk}
      /\ ~ok => next \in {0, Junk}
      /\ Coherent /\ ok /\ Secter_Data' = FatSecter(Cluster)
           /\ ClusterSeq + 1 < Len(Chain[file])
         => next = Chain[file][ClusterSeq + 2] /\ next # 0
  BY NextClustersAre DEF FileIInv
<1>7. Types'
  <2>1. ClusterSeq' \in Nat
    BY <1>3, FatAssumption DEF Wrapped, FileIInv, Types
  <2>2. Pos' \in Nat
    BY <1>3, Sizes DEF FileIInv, Types
  <2>3. bSuccess' \in BOOLEAN
    BY <1>2
  <2> QED
    BY <1>3, <1>5, <2>1, <2>2, <2>3 DEF FileIInv, Types
<1>8. FileReadInv'
  BY <1>3 DEF FileIInv, FileReadInv
<1>9. ASSUME relied PROVE OnCourse' \/ Astray'
  <2>1. CASE Astray
    <3>1. fault' /\ Cluster \notin Clusters
      BY <1>3, <1>5, <2>1 DEF Astray
    <3>2. Cluster' \notin Clusters
      BY <1>2, <1>6, <3>1, Layout
    <3> QED
      BY <3>1, <3>2 DEF Astray
  <2>2. CASE OnCourse /\ ~ok
    <3>1. fault' /\ next \in {0, Junk}
      BY <1>5, <1>6, <2>2
    <3>2. CASE next = 0
      BY <1>2, <3>1, <3>2 DEF Astray
    <3>3. CASE next # 0
      BY <1>2, <3>1, <3>3, Layout DEF Astray
    <3> QED
      BY <3>2, <3>3
  <2>3. CASE OnCourse /\ ok
    <3>1. /\ Coherent /\ bSuccess /\ SeekPos = Here + Pos /\ buffer = <<>>
      BY <1>3, <2>3 DEF OnCourse, AtPosition, FileIInv, FileReadInv
    <3>2. /\ Here \in Int /\ Pos \in Nat /\ SeekPos \in Nat /\ BytesPerCluster \in Nat
          /\ nBufferSize \in Nat /\ FileSize[file] \in Nat
          /\ nBufferSize > 0 /\ SeekPos + nBufferSize <= FileSize[file]
      BY <1>3, Numbers DEF FileIInv, FileReadInv
    <3>3. Here + BytesPerCluster < FileSize[file]
      BY <1>3, <3>1, <3>2
    <3>4. /\ ClusterSeq + 1 < Len(Chain[file])
          /\ ClusterSeq' = ClusterSeq + 1
          /\ (ClusterSeq + 1) * BytesPerCluster = Here + BytesPerCluster
      BY <1>3, <3>3, MoreClusters DEF FileIInv, Here
    <3>5. next = Chain[file][ClusterSeq + 2] /\ next # 0
      BY <1>5, <1>6, <2>3, <3>1, <3>4
    <3>6. Coherent'
      <4>1. /\ ClusterSeq \in Nat /\ Len(Chain[file]) \in Nat
            /\ DOMAIN Chain[file] = 1 .. Len(Chain[file])
        BY ChainIs DEF FileIInv, Types
      <4>2. ClusterSeq' + 1 \in DOMAIN Chain[file] /\ ClusterSeq' + 1 = ClusterSeq + 2
        BY <3>4, <4>1
      <4>3. Cluster' = Chain[file][ClusterSeq + 2] /\ file' = file
        BY <1>2, <1>3, <3>5
      <4> QED
        BY <4>2, <4>3 DEF Coherent
    <3>7. Here' = Here + BytesPerCluster
      BY <3>4 DEF Here
    <3>8. /\ buffer' = <<>> /\ SeekPos' = SeekPos /\ Len(buffer') = 0
      BY <1>3, <3>1
    <3>9. Reached' = SeekPos
      BY <3>2, <3>8 DEF Reached
    <3>10. SeekPos' = Here' + Pos' /\ Here' <= Reached'
      BY <1>3, <3>1, <3>2, <3>7, <3>8, <3>9
    <3>11. RightBytes'
      BY <3>8 DEF RightBytes
    <3> QED
      BY <1>2, <1>3, <3>5, <3>6, <3>10, <3>11 DEF OnCourse, AtPosition, InBody
  <2> QED
    BY <1>3, <1>9, <2>1, <2>2, <2>3 DEF FileIInv, CourseInv
<1> QED
  BY <1>3, <1>5, <1>7, <1>8, <1>9 DEF FileIInv, CourseInv

(* The sector of the position, which is in the cached cluster.             *)
LEMMA LocateKeeps ==
  ASSUME FileIInv, Locate
  PROVE  FileIInv'
<1>1. /\ pc \in {"walk", "locate"}
      /\ pc = "walk" => ~(Pos >= BytesPerCluster /\ bSuccess)
      /\ SectorOffset' = Pos \div BPB_BytsPerSec
      /\ PhysicalSecter' = Later(FirstSecter(Cluster), SectorOffset')
      /\ pc' = IF ByteOffset > 0 \/ nBufferSize < BPB_BytsPerSec THEN "first"
               ELSE "body"
      /\ UNCHANGED <<handle, cache, nBufferSize, Pos, bSuccess, buffer, relied, fault>>
  BY DEF Locate
<1>2. /\ SectorOffset' \in Nat /\ Pos % BPB_BytsPerSec \in 0 .. BPB_BytsPerSec - 1
      /\ Pos = SectorOffset' * BPB_BytsPerSec + (Pos % BPB_BytsPerSec)
  BY <1>1, Divides, Sizes DEF FileIInv, Types
<1>3. /\ PhysicalSecter' \in Sectors
      /\ Cluster \in Clusters => PhysicalSecter' = FirstSecter(Cluster) + SectorOffset'
  <2>1. FirstSecter(Cluster) \in Int \cup {Junk} /\ Junk \notin Int
        /\ (Cluster \in Clusters => FirstSecter(Cluster) \in Int)
    BY Layout
  <2> QED
    BY <1>1, <1>2, <2>1 DEF Later, Sectors
<1>4. Types'
  BY <1>1, <1>2, <1>3 DEF FileIInv, Types, handle, cache
<1>5. FileReadInv'
  BY <1>1 DEF FileIInv, FileReadInv, handle
<1>6. ASSUME relied PROVE OnCourse' \/ Astray'
  <2>1. CASE Astray
    BY <1>1, <2>1 DEF Astray, handle
  <2>2. CASE OnCourse
    <3>1. /\ Coherent /\ bSuccess /\ SeekPos = Here + Pos /\ buffer = <<>>
          /\ Here <= Reached
      BY <1>1, <2>2 DEF OnCourse, AtPosition, FileIInv, FileReadInv
    <3>2. /\ Here \in Int /\ Pos \in Nat /\ SeekPos \in Nat /\ BytesPerCluster \in Nat
          /\ BPB_BytsPerSec \in Nat \ {0} /\ BPB_SecPerCluster \in Nat \ {0}
          /\ BytesPerCluster = BPB_SecPerCluster * BPB_BytsPerSec
      BY Numbers, Sizes DEF FileIInv
    <3>3. Pos < BytesPerCluster
      BY <1>1, <2>2, <3>1, <3>2 DEF OnCourse, AtPosition
    <3>4. Cluster \in Clusters /\ PhysicalSecter' = FirstSecter(Cluster) + SectorOffset'
      BY <1>3, <3>1, CoherentIs DEF FileIInv
    <3>5. Coherent' /\ RightBytes' /\ Here' = Here /\ Reached' = Reached
      BY <1>1, <2>2 DEF OnCourse, Coherent, RightBytes, Here, Reached, handle
    <3>6. AtPosition'
      BY <1>1, <3>1, <3>3, <3>4, <3>5 DEF AtPosition, handle
    <3>7. ASSUME pc' = "body" PROVE \E j \in 0 .. BPB_SecPerCluster - 1 : AtSector(j)'
      <4>1. PICK j \in Nat : j = SectorOffset'
        BY <1>2
      <4>2. Pos % BPB_BytsPerSec = 0
        BY <1>1, <1>2, <3>7 DEF ByteOffset
      <4>3. j * BPB_BytsPerSec \in Int /\ Pos = j * BPB_BytsPerSec
        <5>1. j * BPB_BytsPerSec \in Int
          BY <3>2, Multiples
        <5>2. Pos = j * BPB_BytsPerSec + 0
          BY <1>2, <4>1, <4>2
        <5> QED
          BY <5>1, <5>2
      <4>4. ~(BPB_SecPerCluster <= j)
        <5>1. BPB_SecPerCluster <= j
                => BPB_SecPerCluster * BPB_BytsPerSec <= j * BPB_BytsPerSec
          BY <3>2, <4>3, Multiples
        <5>2. BPB_SecPerCluster * BPB_BytsPerSec \in Int
          BY <3>2, Multiples
        <5> QED
          BY <3>2, <3>3, <4>3, <5>1, <5>2
      <4>5. j \in 0 .. BPB_SecPerCluster - 1
        BY <3>2, <4>3, <4>4
      <4>6. Reached = SeekPos
        BY <3>1, <3>2 DEF Reached
      <4>7. Here + j * BPB_BytsPerSec = Reached
        BY <3>1, <4>3, <4>6
      <4>8. Cluster' = Cluster /\ SectorOffset' = j
        BY <1>1, <4>1 DEF handle
      <4>9. AtSector(j)'
        BY <3>4, <3>5, <4>1, <4>7, <4>8 DEF AtSector
      <4> QED
        BY <4>5, <4>9
    <3>8. InBody'
      BY <1>1, <3>7 DEF InBody
    <3> QED
      BY <1>1, <3>1, <3>5, <3>6, <3>8 DEF OnCourse
  <2> QED
    BY <1>1, <1>6, <2>1, <2>2 DEF FileIInv, CourseInv
<1> QED
  BY <1>1, <1>4, <1>5, <1>6 DEF FileIInv, CacheInv, CourseInv, cache

(* Sector j of a cluster ends within the cluster.                          *)
LEMMA SectorFits ==
  ASSUME NEW j \in Nat, j < BPB_SecPerCluster
  PROVE  /\ j * BPB_BytsPerSec \in Nat
         /\ (j + 1) * BPB_BytsPerSec = j * BPB_BytsPerSec + BPB_BytsPerSec
         /\ j * BPB_BytsPerSec + BPB_BytsPerSec <= BytesPerCluster
         /\ j = BPB_SecPerCluster - 1
              => j * BPB_BytsPerSec + BPB_BytsPerSec = BytesPerCluster
<1>1. /\ BPB_BytsPerSec \in Nat \ {0} /\ BPB_SecPerCluster \in Nat \ {0}
      /\ BytesPerCluster \in Nat
      /\ BytesPerCluster = BPB_SecPerCluster * BPB_BytsPerSec
  BY Sizes
<1>2. j * BPB_BytsPerSec \in Nat
  BY <1>1, Z3
<1>3. /\ (j + 1) * BPB_BytsPerSec = j * BPB_BytsPerSec + BPB_BytsPerSec
      /\ j * BPB_BytsPerSec + BPB_BytsPerSec <= BPB_SecPerCluster * BPB_BytsPerSec
  BY <1>1, Multiples
<1>4. j = BPB_SecPerCluster - 1 => j + 1 = BPB_SecPerCluster
  BY <1>1
<1> QED
  BY <1>1, <1>2, <1>3, <1>4

(* The part of the first sector; behind the last sector of the cluster the *)
(* call goes on to the next cluster.                                       *)
LEMMA FirstSectorKeeps ==
  ASSUME FileIInv, FirstSector
  PROVE  FileIInv'
<1>1. PICK ok \in BOOLEAN :
       /\ ReadSecter(PhysicalSecter, ok)
       /\ IF ~ok
          THEN Return(FALSE) /\ UNCHANGED <<Cluster, ClusterSeq, buffer>>
          ELSE LET room == BPB_BytsPerSec - ByteOffset
                   nCopyCount == IF nBufferSize > room THEN room ELSE nBufferSize
               IN  /\ buffer' = Bytes(Secter_Data', ByteOffset, nCopyCount)
                   /\ IF /\ nCopyCount < nBufferSize
                         /\ SectorOffset = BPB_SecPerCluster - 1
                      THEN pc' = "next" /\ UNCHANGED <<SectorOffset, PhysicalSecter>>
                      ELSE /\ pc' = "body"
                           /\ SectorOffset' = SectorOffset + 1
                           /\ PhysicalSecter' = Later(PhysicalSecter, 1)
                   /\ UNCHANGED <<handle, nBufferSize, Pos, bSuccess, relied>>
  BY DEF FirstSector
<1>2. /\ pc = "first" /\ buffer = <<>> /\ buffer \in Seq(ByteValues)
      /\ nBufferSize > 0
  BY DEF FirstSector, FileIInv, FileReadInv
<1>3. /\ Secter_Data' \in Sectors /\ CacheInv' /\ fault' \in BOOLEAN
      /\ fault => fault'
      /\ ok => Secter_Data' = PhysicalSecter
  BY <1>1, SecterRead DEF FileIInv, Types
<1>4. CASE ~ok
  <2>1. Return(FALSE) /\ UNCHANGED <<ClusterSeq, buffer>>
    BY <1>1, <1>4
  <2> QED
    BY <1>2, <1>3, <2>1, ReturnKeeps DEF FileIInv, Types
<1>5. CASE ok
  <2> DEFINE r == Pos % BPB_BytsPerSec
             room == BPB_BytsPerSec - r
             n == IF nBufferSize > room THEN room ELSE nBufferSize
  <2>1. /\ buffer' = Bytes(Secter_Data', r, n)
        /\ \/ /\ n < nBufferSize /\ SectorOffset = BPB_SecPerCluster - 1
              /\ pc' = "next" /\ UNCHANGED <<SectorOffset, PhysicalSecter>>
           \/ /\ ~(n < nBufferSize /\ SectorOffset = BPB_SecPerCluster - 1)
              /\ pc' = "body"
              /\ SectorOffset' = SectorOffset + 1
              /\ PhysicalSecter' = Later(PhysicalSecter, 1)
        /\ UNCHANGED <<handle, nBufferSize, Pos, bSuccess, relied>>
    BY <1>1, <1>5 DEF ByteOffset
  <2>2. r \in 0 .. BPB_BytsPerSec - 1
    BY Divides, Numbers DEF FileIInv
  <2>3. Pos = (Pos \div BPB_BytsPerSec) * BPB_BytsPerSec + r
    BY Divides, Numbers DEF FileIInv
  <2> HIDE DEF r
  <2>4. /\ n \in Nat /\ 0 < n /\ n <= nBufferSize /\ r + n <= BPB_BytsPerSec
        /\ n < nBufferSize => r + n = BPB_BytsPerSec
        /\ r \in Nat
    <3>1. /\ r \in Int /\ 0 <= r /\ room \in Int /\ 0 < room
          /\ nBufferSize \in Nat /\ nBufferSize > 0 /\ r + room = BPB_BytsPerSec
      BY <1>2, <2>2, Numbers DEF FileIInv
    <3> HIDE DEF room
    <3> QED
      BY <3>1, Numbers DEF FileIInv
  <2> HIDE DEF n
  <2>5. /\ buffer' \in Seq(ByteValues) /\ Len(buffer') = n
        /\ \A k \in 1 .. n : buffer'[k] = Byte(Secter_Data', r + k - 1)
    BY <1>3, <2>1, <2>4, BytesAre
  <2>6. SectorOffset' \in Nat /\ PhysicalSecter' \in Sectors
    BY <2>1 DEF FileIInv, Types, Later, Sectors
  <2>7. Types'
    BY <1>3, <2>1, <2>5, <2>6 DEF FileIInv, Types, handle
  <2>8. FileReadInv'
    BY <1>2, <2>1, <2>4, <2>5 DEF FileIInv, FileReadInv, handle
  <2>9. ASSUME relied PROVE OnCourse' \/ Astray'
    <3>1. CASE Astray
      BY <1>3, <2>1, <3>1 DEF Astray, handle
    <3>2. CASE OnCourse
      <4>1. /\ Coherent /\ bSuccess /\ SeekPos = Here + Pos /\ Pos < BytesPerCluster
            /\ SectorOffset = Pos \div BPB_BytsPerSec /\ RightBytes
            /\ PhysicalSecter = FirstSecter(Cluster) + SectorOffset
        BY <1>2, <3>2 DEF OnCourse, AtPosition
      <4>2. /\ Here \in Nat /\ SeekPos \in Nat /\ SectorOffset \in Nat
            /\ nBufferSize \in Nat /\ Pos \in Nat /\ BPB_BytsPerSec \in Nat \ {0}
            /\ BPB_SecPerCluster \in Nat \ {0}
            /\ BytesPerCluster = BPB_SecPerCluster * BPB_BytsPerSec
            /\ BytesPerCluster \in Nat
        BY Numbers, Sizes DEF FileIInv
      <4>3. SectorOffset < BPB_SecPerCluster
        <5>1. BPB_SecPerCluster <= SectorOffset
                => BPB_SecPerCluster * BPB_BytsPerSec <= SectorOffset * BPB_BytsPerSec
          BY <4>2, Multiples
        <5>2. SectorOffset * BPB_BytsPerSec \in Int /\ BytesPerCluster \in Int
              /\ Pos = SectorOffset * BPB_BytsPerSec + r
          BY <2>3, <4>1, <4>2, Multiples
        <5> QED
          BY <2>4, <4>1, <4>2, <5>1, <5>2
      <4> DEFINE a == SectorOffset * BPB_BytsPerSec
      <4>4. /\ a \in Nat /\ a + BPB_BytsPerSec <= BytesPerCluster
            /\ (SectorOffset + 1) * BPB_BytsPerSec = a + BPB_BytsPerSec
            /\ SectorOffset = BPB_SecPerCluster - 1
                 => a + BPB_BytsPerSec = BytesPerCluster
        BY <4>2, <4>3, SectorFits
      <4>5. Pos = a + r
        BY <2>3, <4>1
      <4> HIDE DEF a
      <4>6. /\ Len(buffer) = 0 /\ Reached = SeekPos
        BY <1>2, <4>2 DEF Reached
      <4>7. Reached' = SeekPos + n /\ Here' = Here /\ Coherent'
        BY <2>1, <2>5, <4>1 DEF Reached, Here, Coherent, handle
      <4>8. Here' <= Reached'
        BY <2>4, <4>1, <4>2, <4>7
      <4>9. RightBytes'
        <5>1. Here + a + r = Reached /\ a + r + n <= BytesPerCluster
          BY <2>4, <4>1, <4>2, <4>4, <4>5, <4>6
        <5>2. Adds(buffer', PhysicalSecter, r, n)
          <6>1. \A k \in 1 .. n : Len(buffer) + k = k
            BY <4>6
          <6> QED
            BY <1>3, <1>5, <2>4, <2>5, <4>6, <6>1 DEF Adds
        <5>3. \A k \in 1 .. Len(buffer') : buffer'[k] = Content[file][SeekPos + k - 1]
          <6>1. Types /\ SectorOffset \in Nat /\ r \in Nat /\ n \in Nat
            BY <2>4, <4>2 DEF FileIInv
          <6>2. /\ Here + SectorOffset * BPB_BytsPerSec + r = Reached
                /\ SectorOffset * BPB_BytsPerSec + r + n <= BytesPerCluster
            BY <5>1 DEF a
          <6>3. ASSUME NEW t, t = buffer'
                PROVE  \A k \in 1 .. Len(t) : t[k] = Content[file][SeekPos + k - 1]
            <7>1. Adds(t, PhysicalSecter, r, n)
              BY <5>2, <6>3
            <7> QED
              BY <1>2, <4>1, <6>1, <6>2, <7>1, Fills
          <6> QED
            BY <6>3
        <5> QED
          BY <2>1, <5>3 DEF RightBytes, handle
      <4>10. Missing' = nBufferSize - n
        BY <2>1, <2>5 DEF Missing
      <4>11. ASSUME pc' = "next"
             PROVE  Here' + BytesPerCluster = Reached' /\ Missing' > 0
        <5>1. n < nBufferSize /\ SectorOffset = BPB_SecPerCluster - 1
          BY <2>1, <4>11
        <5> QED
          BY <2>4, <4>1, <4>2, <4>4, <4>5, <4>7, <4>10, <5>1
      <4>12. ASSUME pc' = "body", Missing' > 0
             PROVE  \E j \in 0 .. BPB_SecPerCluster - 1 : AtSector(j)'
        <5>1. n < nBufferSize
          BY <2>4, <4>2, <4>10, <4>12
        <5>2. /\ SectorOffset # BPB_SecPerCluster - 1 /\ SectorOffset' = SectorOffset + 1
              /\ PhysicalSecter' = Later(PhysicalSecter, 1) /\ Cluster' = Cluster
          BY <2>1, <4>12, <5>1 DEF handle
        <5>3. PICK j \in Nat : j = SectorOffset + 1
          BY <4>2
        <5>4. j \in 0 .. BPB_SecPerCluster - 1
          BY <4>2, <4>3, <5>2, <5>3
        <5>5. PhysicalSecter' = FirstSecter(Cluster) + j
          <6>1. FirstSecter(Cluster) \in Int /\ Junk \notin Int
            BY <4>1, CoherentIs, Layout DEF FileIInv
          <6>2. PhysicalSecter # Junk
            BY <4>1, <4>2, <6>1
          <6> QED
            BY <4>1, <4>2, <5>2, <5>3, <6>1, <6>2 DEF Later
        <5>6. Here + j * BPB_BytsPerSec = SeekPos + n
          <6>1. j * BPB_BytsPerSec = a + BPB_BytsPerSec
            BY <4>4, <5>3
          <6> QED
            BY <2>4, <4>1, <4>2, <4>4, <4>5, <5>1, <6>1
        <5>7. AtSector(j)'
          BY <4>7, <5>2, <5>3, <5>5, <5>6 DEF AtSector
        <5> QED
          BY <5>4, <5>7
      <4>13. InBody'
        BY <4>11, <4>12 DEF InBody
      <4>14. AtPosition'
        BY <2>1 DEF AtPosition
      <4> QED
        BY <2>1, <4>1, <4>7, <4>8, <4>9, <4>13, <4>14 DEF OnCourse
    <3> QED
      BY <1>2, <2>9, <3>1, <3>2 DEF FileIInv, CourseInv
  <2> QED
    BY <1>3, <2>1, <2>7, <2>8, <2>9 DEF FileIInv, CourseInv
<1> QED
  BY <1>4, <1>5

(* The next cluster of a call that has bytes missing.                      *)
LEMMA NextClusterKeeps ==
  ASSUME FileIInv, NextCluster
  PROVE  FileIInv'
<1>1. PICK ok \in BOOLEAN :
        /\ ReadSecter(FatSecter(Cluster), ok)
        /\ \E next \in NextClusters(ok) :
            IF next = 0
            THEN Return(FALSE) /\ UNCHANGED <<Cluster, ClusterSeq>>
            ELSE /\ Cluster' = next
                 /\ ClusterSeq' = Wrapped(ClusterSeq + 1)
                 /\ PhysicalSecter' = FirstSecter(next)
                 /\ SectorOffset' = 0
                 /\ pc' = "body"
                 /\ UNCHANGED <<file, SeekPos, nBufferSize, Pos, bSuccess, relied>>
  BY DEF NextCluster
<1>2. PICK next \in NextClusters(ok) :
            IF next = 0
            THEN Return(FALSE) /\ UNCHANGED <<Cluster, ClusterSeq>>
            ELSE /\ Cluster' = next
                 /\ ClusterSeq' = Wrapped(ClusterSeq + 1)
                 /\ PhysicalSecter' = FirstSecter(next)
                 /\ SectorOffset' = 0
                 /\ pc' = "body"
                 /\ UNCHANGED <<file, SeekPos, nBufferSize, Pos, bSuccess, relied>>
  BY <1>1
<1>3. pc = "next" /\ buffer' = buffer /\ buffer \in Seq(ByteValues)
  BY DEF NextCluster, FileIInv, FileReadInv
<1>4. FatSecter(Cluster) \in Sectors
  BY Layout DEF Sectors
<1>5. /\ Secter_Data' \in Sectors /\ CacheInv' /\ fault' \in BOOLEAN
      /\ fault => fault'
      /\ ok => Secter_Data' = FatSecter(Cluster) /\ fault' = fault
      /\ ~ok => fault'
  BY <1>1, <1>4, SecterRead DEF FileIInv
<1>6. /\ Cluster \notin Clusters => next \in {0, Junk}
      /\ ~ok => next \in {0, Junk}
      /\ Coherent /\ ok /\ Secter_Data' = FatSecter(Cluster)
           /\ ClusterSeq + 1 < Len(Chain[file])
         => next = Chain[file][ClusterSeq + 2] /\ next # 0
  BY NextClustersAre DEF FileIInv
<1>7. CASE next = 0
  BY <1>2, <1>3, <1>5, <1>7, ReturnKeeps DEF FileIInv, Types
<1>8. CASE next # 0
  <2>1. /\ Cluster' = next
        /\ ClusterSeq' = Wrapped(ClusterSeq + 1)
        /\ PhysicalSecter' = FirstSecter(next)
        /\ SectorOffset' = 0
        /\ pc' = "body"
        /\ UNCHANGED <<file, SeekPos, nBufferSize, Pos, bSuccess, relied>>
    BY <1>2, <1>8
  <2>2. Types'
    <3>1. ClusterSeq' \in Nat
      BY <2>1, FatAssumption DEF Wrapped, FileIInv, Types
    <3>2. PhysicalSecter' \in Sectors
      BY <2>1, Layout DEF Sectors
    <3> QED
      BY <1>3, <1>5, <2>1, <3>1, <3>2 DEF FileIInv, Types
  <2>3. FileReadInv'
    BY <1>3, <2>1 DEF FileIInv, FileReadInv
  <2>4. ASSUME relied PROVE OnCourse' \/ Astray'
    <3>1. CASE Astray
      <4>1. Cluster \notin Clusters => Cluster' \notin Clusters
        BY <1>6, <1>8, <2>1, Layout
      <4> QED
        BY <1>5, <2>1, <3>1, <4>1 DEF Astray
    <3>2. CASE OnCourse /\ ~ok
      BY <1>5, <1>6, <1>8, <2>1, <3>2, Layout DEF Astray
    <3>3. CASE OnCourse /\ ok
      <4>1. /\ Coherent /\ bSuccess /\ RightBytes /\ Here <= Reached
            /\ Here + BytesPerCluster = Reached /\ Missing > 0
        BY <1>3, <3>3 DEF OnCourse, InBody
      <4>2. /\ Here \in Nat /\ SeekPos \in Nat /\ BytesPerCluster \in Nat
            /\ nBufferSize \in Nat /\ FileSize[file] \in Nat /\ Len(buffer) \in Nat
            /\ SeekPos + nBufferSize <= FileSize[file]
            /\ BPB_BytsPerSec \in Nat /\ BPB_SecPerCluster \in Nat \ {0}
        BY <1>3, Numbers DEF FileIInv, FileReadInv
      <4>3. Here + BytesPerCluster < FileSize[file]
        BY <4>1, <4>2 DEF Reached, Missing
      <4>4. /\ ClusterSeq + 1 < Len(Chain[file])
            /\ ClusterSeq' = ClusterSeq + 1
            /\ (ClusterSeq + 1) * BytesPerCluster = Here + BytesPerCluster
        BY <2>1, <4>3, MoreClusters DEF FileIInv, Here
      <4>5. next = Chain[file][ClusterSeq + 2]
        BY <1>5, <1>6, <3>3, <4>1, <4>4
      <4>6. Coherent'
        <5>1. /\ ClusterSeq \in Nat /\ Len(Chain[file]) \in Nat
              /\ DOMAIN Chain[file] = 1 .. Len(Chain[file])
          BY ChainIs DEF FileIInv, Types
        <5>2. ClusterSeq' + 1 \in DOMAIN Chain[file] /\ ClusterSeq' + 1 = ClusterSeq + 2
          BY <4>4, <5>1
        <5>3. Cluster' = Chain[file][ClusterSeq + 2] /\ file' = file
          BY <2>1, <4>5
        <5> QED
          BY <5>2, <5>3 DEF Coherent
      <4>7. Here' = Here + BytesPerCluster
        BY <4>4 DEF Here
      <4>8. /\ Reached' = Reached /\ RightBytes' /\ bSuccess'
        BY <1>3, <2>1, <4>1 DEF Reached, RightBytes
      <4>9. AtSector(0)'
        <5>1. FirstSecter(Cluster') \in Int
          <6>1. /\ ClusterSeq \in Nat /\ Len(Chain[file]) \in Nat /\ file \in File
            BY ChainIs DEF FileIInv, Types
          <6>2. ClusterSeq + 2 \in 1 .. Len(Chain[file])
            BY <4>4, <6>1
          <6>3. Cluster' = Chain[file][ClusterSeq + 2]
            BY <2>1, <4>5
          <6>4. Cluster' \in Clusters
            BY <6>1, <6>2, <6>3, ChainIs
          <6> QED
            BY <6>4, Layout
        <5>2. 0 * BPB_BytsPerSec = 0
          BY <4>2
        <5>3. Here' + 0 * BPB_BytsPerSec = Reached'
          BY <4>1, <4>2, <4>7, <4>8, <5>2
        <5>4. PhysicalSecter' = FirstSecter(Cluster') + 0
          BY <2>1, <5>1
        <5> QED
          BY <2>1, <5>3, <5>4 DEF AtSector
      <4>10. InBody'
        <5>1. 0 \in 0 .. BPB_SecPerCluster - 1
          BY <4>2
        <5> QED
          BY <2>1, <4>9, <5>1 DEF InBody
      <4>11. Here' <= Reached'
        BY <4>1, <4>2, <4>7, <4>8
      <4>12. AtPosition'
        BY <2>1 DEF AtPosition
      <4> QED
        BY <4>6, <4>8, <4>10, <4>11, <4>12 DEF OnCourse
    <3> QED
      BY <1>3, <2>4, <3>1, <3>2, <3>3 DEF FileIInv, CourseInv
  <2> QED
    BY <1>3, <1>5, <2>1, <2>2, <2>3, <2>4 DEF FileIInv, CourseInv
<1> QED
  BY <1>7, <1>8

(* What is missing: SectorsToRead sectors, and less than one more.         *)
LEMMA MissingIs ==
  ASSUME Types, FileReadInv, pc # "idle"
  PROVE  /\ Missing \in Nat /\ SectorsToRead \in Nat
         /\ SectorsToRead * BPB_BytsPerSec \in Nat
         /\ SectorsToRead * BPB_BytsPerSec <= Missing
         /\ Missing < SectorsToRead * BPB_BytsPerSec + BPB_BytsPerSec
         /\ SectorsToRead > 0 => Missing >= BPB_BytsPerSec
         /\ Len(buffer) \in Nat /\ Len(buffer) + Missing = nBufferSize
<1>1. /\ Len(buffer) \in Nat /\ nBufferSize \in Nat /\ Len(buffer) <= nBufferSize
      /\ BPB_BytsPerSec \in Nat \ {0}
  BY Numbers DEF FileReadInv
<1>2. Missing \in Nat /\ Len(buffer) + Missing = nBufferSize
  BY <1>1 DEF Missing
<1> DEFINE d == SectorsToRead
           r == Missing % BPB_BytsPerSec
<1>3. d \in Nat /\ r \in 0 .. BPB_BytsPerSec - 1 /\ Missing = d * BPB_BytsPerSec + r
  BY <1>1, <1>2, Divides DEF SectorsToRead
<1> HIDE DEF d, r
<1>4. d * BPB_BytsPerSec \in Nat
  BY <1>1, <1>3, Z3
<1>5. d > 0 => 1 * BPB_BytsPerSec <= d * BPB_BytsPerSec
  BY <1>1, <1>3, Multiples
<1>6. 1 * BPB_BytsPerSec = BPB_BytsPerSec
  BY <1>1
<1> DEFINE a == d * BPB_BytsPerSec
<1>7. a \in Nat /\ Missing = a + r /\ (d > 0 => BPB_BytsPerSec <= a)
  BY <1>3, <1>4, <1>5, <1>6
<1> HIDE DEF a
<1>8. /\ a <= Missing /\ Missing < a + BPB_BytsPerSec
      /\ d > 0 => Missing >= BPB_BytsPerSec
  BY <1>1, <1>2, <1>3, <1>7
<1> QED
  BY <1>1, <1>2, <1>3, <1>7, <1>8 DEF d, a

(* The last sector is followed by the return.                              *)
LEMMA LastSectorKeeps ==
  ASSUME FileIInv, LastSector
  PROVE  FileIInv'
<1>1. pc = "body" /\ SectorsToRead = 0 /\ UNCHANGED <<Cluster, ClusterSeq>>
  BY DEF LastSector
<1>2. CASE Missing = 0 /\ Return(bSuccess) /\ UNCHANGED <<cache, buffer, fault>>
  <2>1. buffer' \in Seq(ByteValues) /\ bSuccess \in BOOLEAN /\ ClusterSeq' \in Nat
    BY <1>1, <1>2 DEF FileIInv, FileReadInv, Types
  <2>2. CacheInv' /\ Secter_Data' \in Sectors /\ fault' \in BOOLEAN
    BY <1>2 DEF FileIInv, CacheInv, Types, cache
  <2> QED
    BY <1>1, <1>2, <2>1, <2>2, ReturnKeeps
<1>3. ASSUME Missing > 0, NEW ok \in BOOLEAN, ReadSecter(PhysicalSecter, ok),
             buffer' = IF ok THEN buffer \o Bytes(Secter_Data', 0, Missing)
                       ELSE buffer,
             Return(ok /\ bSuccess)
      PROVE  FileIInv'
  <2>1. CacheInv' /\ Secter_Data' \in Sectors /\ fault' \in BOOLEAN
    BY <1>3, SecterRead DEF FileIInv, Types
  <2>2. buffer' \in Seq(ByteValues)
    <3>1. buffer \in Seq(ByteValues) /\ Missing \in Nat
      BY <1>1, MissingIs DEF FileIInv, FileReadInv
    <3>2. buffer \o Bytes(Secter_Data', 0, Missing) \in Seq(ByteValues)
      BY <2>1, <3>1, Appended
    <3> QED
      BY <1>3, <3>1, <3>2
  <2>3. (ok /\ bSuccess) \in BOOLEAN /\ ClusterSeq' \in Nat
    BY <1>1 DEF FileIInv, Types
  <2> QED
    BY <1>1, <1>3, <2>1, <2>2, <2>3, ReturnKeeps
<1> QED
  BY <1>2, <1>3 DEF LastSector

(* Where the whole sectors of the body are, and how many fit.              *)
LEMMA BodyIs ==
  ASSUME Types, FileReadInv, pc = "body", OnCourse, Missing >= BPB_BytsPerSec
  PROVE  /\ SectorOffset \in 0 .. BPB_SecPerCluster - 1
         /\ PhysicalSecter = FirstSecter(Cluster) + SectorOffset
         /\ Here + SectorOffset * BPB_BytsPerSec = Reached
         /\ SectorsLeft = BPB_SecPerCluster - SectorOffset
<1>1. Missing > 0 /\ ~(Missing < BPB_BytsPerSec)
  BY MissingIs, Numbers
<1>2. PICK j \in 0 .. BPB_SecPerCluster - 1 : AtSector(j)
  BY <1>1 DEF OnCourse, InBody
<1>3. j = SectorOffset
  BY <1>1, <1>2 DEF AtSector
<1>4. /\ BPB_SecPerCluster \in Nat /\ BPB_SecPerCluster < Width /\ Width \in Nat
  BY ChainIs, Numbers, SizeIs DEF Types
<1>5. SectorsLeft = BPB_SecPerCluster - SectorOffset
  <2>1. /\ BPB_SecPerCluster - SectorOffset \in Int
        /\ 0 <= BPB_SecPerCluster - SectorOffset
        /\ BPB_SecPerCluster - SectorOffset < Width
    BY <1>2, <1>3, <1>4
  <2> QED
    BY <2>1, Narrow DEF SectorsLeft
<1> QED
  BY <1>2, <1>3, <1>5 DEF AtSector

(* Whole sectors, up to the end of the cluster or until less than a sector *)
(* is missing.                                                             *)
LEMMA MultiSectorsKeeps ==
  ASSUME FileIInv, MultiSectors
  PROVE  FileIInv'
<1> DEFINE m == IF SectorsToRead < SectorsLeft THEN SectorsToRead ELSE SectorsLeft
           n == m * BPB_BytsPerSec
<1>1. /\ pc = "body" /\ SectorsToRead > 0 /\ UNCHANGED cache
      /\ \/ /\ fault' = TRUE
            /\ Return(FALSE)
            /\ UNCHANGED <<Cluster, ClusterSeq, buffer>>
         \/ /\ buffer' = buffer \o Bytes(PhysicalSecter, 0, n)
            /\ PhysicalSecter' = Later(PhysicalSecter, m)
            /\ pc' = IF m = SectorsLeft /\ n < Missing THEN "next" ELSE "body"
            /\ UNCHANGED <<handle, nBufferSize, Pos, bSuccess, SectorOffset,
                           relied, fault>>
  BY DEF MultiSectors
<1>2. buffer \in Seq(ByteValues) /\ CacheInv'
  BY <1>1 DEF FileIInv, FileReadInv, CacheInv, cache
<1>3. CASE fault' = TRUE /\ Return(FALSE) /\ UNCHANGED <<Cluster, ClusterSeq, buffer>>
  <2>2. /\ buffer' \in Seq(ByteValues) /\ ClusterSeq' \in Nat
        /\ Secter_Data' \in Sectors /\ fault' \in BOOLEAN
    BY <1>1, <1>2, <1>3 DEF FileIInv, Types, cache
  <2> QED
    BY <1>1, <1>2, <1>3, <2>2, ReturnKeeps
<1>4. ASSUME buffer' = buffer \o Bytes(PhysicalSecter, 0, n),
             PhysicalSecter' = Later(PhysicalSecter, m),
             pc' = IF m = SectorsLeft /\ n < Missing THEN "next" ELSE "body",
             UNCHANGED <<handle, nBufferSize, Pos, bSuccess, SectorOffset,
                         relied, fault>>
      PROVE  FileIInv'
  <2>1. UNCHANGED <<file, SeekPos, Cluster, ClusterSeq, nBufferSize, bSuccess>>
    BY <1>4 DEF handle
  <2>2. SectorsLeft \in Nat /\ SectorsToRead \in Nat
    BY <1>1, MissingIs, Numbers, FatAssumption DEF SectorsLeft, Wrapped, FileIInv
  <2>3. /\ m \in Nat /\ m <= SectorsToRead /\ m <= SectorsLeft
        /\ m \in {SectorsToRead, SectorsLeft}
    BY <2>2
  <2> HIDE DEF m
  <2>4. n \in Nat /\ n <= Missing
    <3>1. BPB_BytsPerSec \in Nat \ {0}
      BY Numbers DEF FileIInv
    <3>2. n \in Nat
      BY <2>3, <3>1, Z3
    <3>3. n <= SectorsToRead * BPB_BytsPerSec
      BY <2>2, <2>3, <3>1, Multiples
    <3>4. /\ SectorsToRead * BPB_BytsPerSec \in Nat
          /\ SectorsToRead * BPB_BytsPerSec <= Missing /\ Missing \in Nat
      BY <1>1, MissingIs DEF FileIInv
    <3> HIDE DEF n
    <3> QED
      BY <3>2, <3>3, <3>4
  <2> HIDE DEF n
  <2>5. /\ buffer' \in Seq(ByteValues) /\ Len(buffer') = Len(buffer) + n
        /\ \A k \in 1 .. Len(buffer) : buffer'[k] = buffer[k]
        /\ \A k \in 1 .. n :
             buffer'[Len(buffer) + k] = Byte(PhysicalSecter, 0 + k - 1)
    BY <1>2, <1>4, <2>4, Appended DEF FileIInv, Types
  <2>6. PhysicalSecter' \in Sectors
    BY <1>4, <2>3 DEF FileIInv, Types, Later, Sectors
  <2>7. /\ Missing \in Nat /\ Len(buffer) \in Nat /\ Len(buffer) + Missing = nBufferSize
        /\ nBufferSize \in Nat
    BY <1>1, MissingIs DEF FileIInv, Types
  <2>8. Missing' = Missing - n
    BY <2>4, <2>5, <2>7, <2>1 DEF Missing
  <2>9. Types'
    BY <1>1, <1>4, <2>5, <2>6 DEF FileIInv, Types, handle, cache
  <2>10. FileReadInv'
    BY <1>1, <1>4, <2>4, <2>5, <2>7 DEF FileIInv, FileReadInv, handle
  <2>11. ASSUME relied PROVE OnCourse' \/ Astray'
    <3>1. CASE Astray
      BY <1>4, <3>1 DEF Astray, handle
    <3>2. CASE OnCourse
      <4>1. Missing >= BPB_BytsPerSec
        BY <1>1, MissingIs DEF FileIInv
      <4>2. /\ SectorOffset \in 0 .. BPB_SecPerCluster - 1
            /\ PhysicalSecter = FirstSecter(Cluster) + SectorOffset
            /\ Here + SectorOffset * BPB_BytsPerSec = Reached
            /\ SectorsLeft = BPB_SecPerCluster - SectorOffset
        BY <1>1, <3>2, <4>1, BodyIs DEF FileIInv
      <4>3. Coherent /\ bSuccess /\ RightBytes /\ Here <= Reached
        BY <3>2 DEF OnCourse
      <4>4. /\ Here \in Nat /\ SeekPos \in Nat /\ SectorOffset \in Nat
            /\ BPB_BytsPerSec \in Nat \ {0} /\ BPB_SecPerCluster \in Nat \ {0}
            /\ BytesPerCluster \in Nat
            /\ BytesPerCluster = BPB_SecPerCluster * BPB_BytsPerSec
        BY Numbers, Sizes DEF FileIInv
      <4> DEFINE a == SectorOffset * BPB_BytsPerSec
                 b == (SectorOffset + m) * BPB_BytsPerSec
      <4>5. /\ a \in Int /\ b = a + n
            /\ SectorOffset + m <= BPB_SecPerCluster
            /\ b <= BytesPerCluster
            /\ SectorOffset + m = BPB_SecPerCluster => b = BytesPerCluster
        <5>1. SectorOffset + m <= BPB_SecPerCluster /\ SectorOffset + m \in Nat
          BY <2>3, <4>2, <4>4
        <5>2. a \in Int /\ b = a + n
          BY <2>3, <4>4, Multiples DEF n
        <5>3. b <= BPB_SecPerCluster * BPB_BytsPerSec
          BY <4>4, <5>1, Multiples
        <5> HIDE DEF a
        <5> QED
          BY <4>4, <5>1, <5>2, <5>3
      <4>6. Here + a = Reached
        BY <4>2
      <4>7. Reached = SeekPos + Len(buffer)
        BY DEF Reached
      <4> HIDE DEF a
      <4>8. Reached' = Reached + n /\ Here' = Here /\ Coherent' /\ bSuccess'
        BY <2>4, <2>5, <2>7, <2>1, <4>3, <4>4 DEF Reached, Here, Coherent
      <4>9. Here' <= Reached'
        BY <2>4, <2>7, <4>3, <4>4, <4>7, <4>8
      <4>10. RightBytes'
        <5>1. ASSUME NEW t, t = buffer'
              PROVE  \A k \in 1 .. Len(t) : t[k] = Content[file][SeekPos + k - 1]
          <6>1. Adds(t, PhysicalSecter, 0, n)
            BY <2>5, <5>1 DEF Adds
          <6>2. a + 0 + n <= BytesPerCluster /\ Here + a + 0 = Reached
            BY <2>4, <4>4, <4>5, <4>6
          <6>3. /\ Here + SectorOffset * BPB_BytsPerSec + 0 = Reached
                /\ SectorOffset * BPB_BytsPerSec + 0 + n <= BytesPerCluster
            BY <6>2 DEF a
          <6> QED
            BY <1>2, <2>4, <4>2, <4>3, <4>4, <6>1, <6>3, Fills DEF FileIInv
        <5> QED
          BY <1>4, <5>1 DEF RightBytes, handle
      <4>11. ASSUME pc' = "next"
             PROVE  Here' + BytesPerCluster = Reached' /\ Missing' > 0
        <5>1. m = SectorsLeft /\ n < Missing
          BY <1>4, <4>11
        <5>2. b = BytesPerCluster
          BY <2>3, <4>2, <4>4, <4>5, <5>1
        <5> HIDE DEF b
        <5> QED
          BY <2>4, <2>7, <2>8, <4>4, <4>5, <4>6, <4>8, <5>1, <5>2
      <4>12. ASSUME pc' = "body", Missing' > 0
             PROVE  \E j \in 0 .. BPB_SecPerCluster - 1 : AtSector(j)'
        <5>1. n < Missing /\ m # SectorsLeft
          BY <1>4, <2>4, <2>7, <2>8, <4>12
        <5>2. m = SectorsToRead /\ m < SectorsLeft
          BY <2>2, <2>3, <5>1
        <5>3. PICK j \in Nat : j = SectorOffset + m
          BY <2>3, <4>4
        <5>4. j \in 0 .. BPB_SecPerCluster - 1
          BY <2>3, <4>2, <4>4, <5>2, <5>3
        <5>5. PhysicalSecter' = FirstSecter(Cluster) + j
          <6>1. FirstSecter(Cluster) \in Int /\ Junk \notin Int
            BY <4>3, CoherentIs, Layout DEF FileIInv
          <6>2. PhysicalSecter # Junk
            BY <4>2, <4>4, <6>1
          <6> QED
            BY <1>4, <2>3, <4>2, <4>4, <5>3, <6>1, <6>2 DEF Later
        <5>6. j * BPB_BytsPerSec = b
          BY <5>3
        <5>7. Missing' < BPB_BytsPerSec
          <6>1. Missing < n + BPB_BytsPerSec
            BY <1>1, <5>2, MissingIs DEF FileIInv, n
          <6> QED
            BY <2>4, <2>7, <2>8, <4>4, <6>1
        <5> HIDE DEF b
        <5>8. Here' + j * BPB_BytsPerSec = Reached'
          BY <2>4, <4>4, <4>5, <4>6, <4>8, <5>6
        <5>9. Cluster' = Cluster
          BY <1>4 DEF handle
        <5>10. AtSector(j)'
          BY <5>5, <5>7, <5>8, <5>9 DEF AtSector
        <5> QED
          BY <5>4, <5>10
      <4>13. InBody'
        BY <4>11, <4>12 DEF InBody
      <4>14. AtPosition'
        BY <1>4 DEF AtPosition
      <4> QED
        BY <4>8, <4>9, <4>10, <4>13, <4>14 DEF OnCourse
    <3> QED
      BY <1>1, <2>11, <3>1, <3>2 DEF FileIInv, CourseInv
  <2> QED
    BY <1>2, <1>4, <2>9, <2>10, <2>11 DEF FileIInv, CourseInv
<1> QED
  BY <1>1, <1>3, <1>4

(* Every step keeps the invariant.                                         *)
LEMMA StepKeeps ==
  ASSUME FileIInv, [Next]_vars
  PROVE  FileIInv'
<1>1. CASE Fat_FileOpen
  BY <1>1, OpenKeeps
<1>2. ASSUME NEW mode \in {"BEGIN", "CURRENT", "END"}, NEW nOffset \in Offsets,
             Fat_FileSeek(mode, nOffset)
      PROVE  FileIInv'
  BY <1>2, SeekKeeps
<1>3. ASSUME NEW n \in BufferSizes, BeginRead(n) PROVE FileIInv'
  BY <1>3, BeginReadKeeps
<1>4. CASE Walk
  BY <1>4, WalkKeeps
<1>5. CASE Locate
  BY <1>5, LocateKeeps
<1>6. CASE FirstSector
  BY <1>6, FirstSectorKeeps
<1>7. CASE NextCluster
  BY <1>7, NextClusterKeeps
<1>8. CASE MultiSectors
  BY <1>8, MultiSectorsKeeps
<1>9. CASE LastSector
  BY <1>9, LastSectorKeeps
<1>10. CASE UNCHANGED vars
  <2>1. Types' = Types /\ FileReadInv' = FileReadInv
    BY <1>10 DEF Types, FileReadInv, vars, handle, cache, call
  <2>2. CacheInv' = CacheInv
    BY <1>10 DEF CacheInv, vars, cache
  <2>3. /\ Coherent' = Coherent /\ Here' = Here /\ Reached' = Reached
        /\ RightBytes' = RightBytes /\ AtPosition' = AtPosition
        /\ InBody' = InBody
    BY <1>10 DEF Coherent, RightBytes, AtPosition, InBody, AtSector, Missing,
                 Here, Reached, vars, handle, call
  <2>4. CourseInv' = CourseInv
    BY <1>10, <2>3 DEF CourseInv, OnCourse, Astray, vars, handle, call
  <2> QED
    BY <2>1, <2>2, <2>4 DEF FileIInv
<1> QED
  BY <1>1, <1>2, <1>3, <1>4, <1>5, <1>6, <1>7, <1>8, <1>9, <1>10
     DEF Next, ReadStep

(* At every moment of every run: the cache of one sector is right, no read *)
(* leaves the file or overflows its buffer, and a read that began with a   *)
(* cluster it could rely on has only bytes of the file in its buffer, in   *)
(* their order, or the failure that made it lose its way is noted          *)
(* (FatFileSystem.c:390-573, FatInternal.c:fatReadSecter).                 *)
THEOREM FileInvariant == Spec => []FileIInv
<1>1. Init => FileIInv
  BY InitFileIInv
<1>2. FileIInv /\ [Next]_vars => FileIInv'
  BY StepKeeps
<1> QED
  BY <1>1, <1>2, PTL DEF Spec

-----------------------------------------------------------------------------
(* Bytes that were read are neither none nor a failure.                    *)
LEMMA NoSequence ==
  ASSUME NEW s \in Seq(ByteValues)
  PROVE  s # None /\ s # Failed
<1>1. {None, Failed} \cap Seq(ByteValues) = {}
  BY FatAssumption
<1> QED
  BY <1>1

(* A call that is still sound has not lost its way.                        *)
LEMMA SoundIs ==
  ASSUME FileIInv
  PROVE  /\ Sound \in BOOLEAN
         /\ pc # "idle" => (Sound <=> (Coherent /\ relied))
         /\ pc # "idle" /\ Sound => OnCourse \/ (fault /\ ~bSuccess)
<1>1. Sound \in BOOLEAN
  BY DEF Sound, Coherent, FileIInv, Types
<1>2. pc # "idle" => (Sound <=> (Coherent /\ relied))
  BY DEF Sound
<1>3. Coherent => Cluster \in Clusters
  BY CoherentIs DEF FileIInv
<1>4. pc # "idle" /\ Sound => OnCourse \/ (fault /\ ~bSuccess)
  BY <1>2, <1>3 DEF FileIInv, CourseInv, Astray
<1> QED
  BY <1>1, <1>2, <1>4

(* A step within a call.                                                   *)
LEMMA WithinCall ==
  ASSUME FileIInv, FileIInv', pc # "idle", pc' # "idle", fault => fault',
         UNCHANGED <<file, SeekPos, nBufferSize, relied>>
  PROVE  [Implemented!Next]_(Implemented!vars)
<1>1. /\ Outcome = None /\ Outcome' = None
  BY DEF Outcome
<1>2. /\ nBufferSize > 0
      /\ (IF pc = "idle" THEN 0 ELSE nBufferSize) = nBufferSize
      /\ (IF pc = "idle" THEN 0 ELSE nBufferSize)' = nBufferSize
  BY DEF FileIInv, FileReadInv
<1>3. /\ Sound \in BOOLEAN /\ Sound' \in BOOLEAN
      /\ fault \in BOOLEAN /\ fault' \in BOOLEAN
  <2>1. Sound' \in BOOLEAN
    BY DEF Sound, Coherent, FileIInv, Types
  <2> QED
    BY <2>1, SoundIs DEF FileIInv, Types
<1>4. CASE fault'
  <2>1. fault' = TRUE
    BY <1>3, <1>4
  <2>2. Implemented!FatFails
    BY <1>1, <1>2, <1>3, <2>1 DEF Implemented!FatFails
  <2> QED
    BY <2>2 DEF Implemented!Next
<1>5. CASE ~fault'
  <2>1. fault' = fault /\ ~fault
    BY <1>3, <1>5
  <2>2. relied => Coherent
    BY <2>1 DEF FileIInv, CourseInv, Astray, OnCourse
  <2>3. relied' => Coherent'
    BY <1>5 DEF FileIInv, CourseInv, Astray, OnCourse
  <2>4. Sound' = Sound
    <3>1. Sound <=> (Coherent /\ relied)
      BY DEF Sound
    <3>2. Sound' <=> (Coherent' /\ relied')
      BY DEF Sound
    <3> QED
      BY <1>3, <2>2, <2>3, <3>1, <3>2
  <2> QED
    BY <1>1, <1>2, <2>1, <2>4 DEF Implemented!vars
<1> QED
  BY <1>4, <1>5

(* A return of failure, which only a failure of the card explains.         *)
LEMMA CallFails ==
  ASSUME FileIInv, FileIInv', pc # "idle", Return(FALSE),
         fault => fault', fault' \/ ~Sound,
         buffer' \in Seq(ByteValues)
  PROVE  Implemented!ReadFails
<1>1. /\ pc' = "idle" /\ bSuccess' = FALSE /\ UNCHANGED <<file, SeekPos>>
  BY Returned DEF FileIInv
<1>2. Outcome' = Failed
  BY <1>1, NoSequence DEF Outcome
<1>3. /\ nBufferSize > 0
      /\ (IF pc = "idle" THEN 0 ELSE nBufferSize) = nBufferSize
      /\ (IF pc = "idle" THEN 0 ELSE nBufferSize)' = 0
  BY <1>1 DEF FileIInv, FileReadInv
<1>4. Sound' \in BOOLEAN
  BY DEF Sound, Coherent, FileIInv, Types
<1> QED
  BY <1>1, <1>2, <1>3, <1>4 DEF Implemented!ReadFails

(* A return of success, with the right bytes if the call was sound.        *)
LEMMA CallSucceeds ==
  ASSUME FileIInv, FileIInv', pc # "idle", Return(TRUE), fault' = fault,
         UNCHANGED <<Cluster, ClusterSeq>>,
         buffer' \in Seq(ByteValues), Len(buffer') = nBufferSize,
         bSuccess,
         Sound => \A k \in 1 .. Len(buffer') :
                    buffer'[k] = Content[file][SeekPos + k - 1]
  PROVE  Implemented!ReadSucceeds
<1>1. /\ pc' = "idle" /\ bSuccess' = TRUE /\ file' = file
      /\ SeekPos' = SeekPos + nBufferSize
  BY Returned DEF FileIInv
<1>2. Outcome' = buffer' /\ Outcome' # Failed
  BY <1>1, NoSequence DEF Outcome
<1>3. /\ nBufferSize > 0
      /\ (IF pc = "idle" THEN 0 ELSE nBufferSize) = nBufferSize
      /\ (IF pc = "idle" THEN 0 ELSE nBufferSize)' = 0
  BY <1>1 DEF FileIInv, FileReadInv
<1>4. Sound' \in BOOLEAN
  BY DEF Sound, Coherent, FileIInv, Types
<1>5. Sound => Sound'
  <2> SUFFICES ASSUME Sound PROVE Sound'
    OBVIOUS
  <2>1. Coherent /\ OnCourse
    BY SoundIs
  <2>2. Coherent'
    BY <1>1, <2>1 DEF Coherent
  <2>3. Here <= SeekPos + Len(buffer)
    BY <2>1 DEF OnCourse, Reached
  <2>4. /\ Here \in Nat /\ SeekPos \in Nat /\ nBufferSize \in Nat
        /\ Len(buffer) \in Nat /\ Len(buffer) <= nBufferSize
    BY Numbers DEF FileIInv, FileReadInv
  <2>5. Here <= SeekPos'
    BY <1>1, <2>3, <2>4
  <2> QED
    BY <1>1, <2>2, <2>5 DEF Sound, Here
<1> QED
  BY <1>1, <1>2, <1>3, <1>4, <1>5 DEF Implemented!ReadSucceeds

(* The calls between reads are those of ByteFile.                          *)
LEMMA OpenImplements ==
  ASSUME FileIInv, Fat_FileOpen
  PROVE  Implemented!Open
<1>1. /\ pc = "idle" /\ pc' = "idle" /\ file' \in File /\ SeekPos' = 0 /\ ClusterSeq' = 0
      /\ Cluster' = Chain[file'][1] /\ buffer' = buffer /\ bSuccess' = bSuccess
      /\ nBufferSize' = nBufferSize
  BY DEF Fat_FileOpen, call
<1>2. fault' = fault
  <2>1. DirEntrySecter \in Sectors /\ ReadSecter(DirEntrySecter, TRUE)
    BY Layout DEF Fat_FileOpen, Sectors
  <2> QED
    BY <2>1, SecterRead DEF FileIInv
<1>3. Sound' = TRUE
  <2>1. 1 \in DOMAIN Chain[file'] /\ 0 + 1 = 1
    BY <1>1, ChainIs
  <2>2. Coherent'
    BY <1>1, <2>1 DEF Coherent
  <2>3. ClusterSeq' * BytesPerCluster <= SeekPos'
    BY <1>1, Sizes
  <2> QED
    BY <1>1, <2>2, <2>3 DEF Sound
<1>4. Outcome' = Outcome
  BY <1>1 DEF Outcome
<1> QED
  BY <1>1, <1>2, <1>3, <1>4 DEF Implemented!Open

LEMMA SeekImplements ==
  ASSUME FileIInv, NEW mode, NEW nOffset, Fat_FileSeek(mode, nOffset)
  PROVE  Implemented!Seek
<1>1. /\ pc = "idle" /\ pc' = "idle" /\ file' = file /\ ClusterSeq' = 0
      /\ SeekPos' \in 0 .. FileSize[file] /\ Cluster' = Chain[file][1]
      /\ buffer' = buffer /\ bSuccess' = bSuccess /\ nBufferSize' = nBufferSize
      /\ fault' = fault
  BY DEF Fat_FileSeek, call
<1>2. SeekPos' \in Nat
  BY <1>1, Numbers DEF FileIInv
<1>3. Sound' = TRUE
  <2>1. 1 \in DOMAIN Chain[file] /\ 0 + 1 = 1
    BY ChainIs DEF FileIInv, Types
  <2>2. Coherent'
    BY <1>1, <2>1 DEF Coherent
  <2>3. ClusterSeq' * BytesPerCluster <= SeekPos'
    BY <1>1, <1>2, Sizes
  <2> QED
    BY <1>1, <2>2, <2>3 DEF Sound
<1>4. Outcome' = Outcome
  BY <1>1 DEF Outcome
<1> QED
  BY <1>1, <1>2, <1>3, <1>4 DEF Implemented!Seek

(* A read begins as it does there.                                         *)
LEMMA BeginReadImplements ==
  ASSUME FileIInv, NEW n \in BufferSizes, BeginRead(n)
  PROVE  Implemented!BeginRead
<1>1. /\ pc = "idle" /\ pc' # "idle" /\ nBufferSize' = n
      /\ UNCHANGED handle /\ relied' = Sound /\ fault' = FALSE
  BY DEF BeginRead
<1>2. n \in Nat \ {0}
  BY FatAssumption
<1>3. Outcome' = None
  BY <1>1 DEF Outcome
<1>4. Sound' = Sound
  <2>1. Coherent' = Coherent
    BY <1>1 DEF Coherent, handle
  <2>2. Sound' <=> (Coherent' /\ relied')
    BY <1>1 DEF Sound
  <2>3. Sound => Coherent
    BY DEF Sound
  <2>4. Sound' \in BOOLEAN /\ Sound \in BOOLEAN
    BY <1>1, SoundIs DEF Sound, Coherent
  <2> QED
    BY <1>1, <2>1, <2>2, <2>3, <2>4
<1> QED
  BY <1>1, <1>2, <1>3, <1>4 DEF Implemented!BeginRead, handle

(* The walk and the sector of the position stay within the call.           *)
LEMMA WalkImplements ==
  ASSUME FileIInv, FileIInv', Walk
  PROVE  [Implemented!Next]_(Implemented!vars)
<1>1. PICK ok \in BOOLEAN : ReadSecter(FatSecter(Cluster), ok)
  BY DEF Walk
<1>2. FatSecter(Cluster) \in Sectors
  BY Layout DEF Sectors
<1>3. fault => fault'
  BY <1>1, <1>2, SecterRead DEF FileIInv
<1>4. pc = "walk" /\ UNCHANGED <<file, SeekPos, pc, nBufferSize, relied>>
  BY DEF Walk
<1> QED
  BY <1>3, <1>4, WithinCall

LEMMA LocateImplements ==
  ASSUME FileIInv, FileIInv', Locate
  PROVE  [Implemented!Next]_(Implemented!vars)
<1>1. /\ pc # "idle" /\ pc' # "idle"
      /\ UNCHANGED <<file, SeekPos, nBufferSize, relied, fault>>
  BY DEF Locate, handle
<1> QED
  BY <1>1, WithinCall

(* Each access to the card stays within the call, or ends it.              *)
LEMMA FirstSectorImplements ==
  ASSUME FileIInv, FileIInv', FirstSector
  PROVE  [Implemented!Next]_(Implemented!vars)
<1>1. PICK ok \in BOOLEAN :
       /\ ReadSecter(PhysicalSecter, ok)
       /\ ~ok => Return(FALSE) /\ UNCHANGED <<Cluster, ClusterSeq, buffer>>
       /\ ok => /\ pc' \in {"next", "body"}
                /\ UNCHANGED <<handle, nBufferSize, Pos, bSuccess, relied>>
  BY DEF FirstSector
<1>2. pc = "first" /\ buffer \in Seq(ByteValues)
  BY DEF FirstSector, FileIInv, FileReadInv
<1>3. (fault => fault') /\ (~ok => fault')
  BY <1>1, SecterRead DEF FileIInv, Types
<1>4. CASE ok
  BY <1>1, <1>2, <1>3, <1>4, WithinCall DEF handle
<1>5. CASE ~ok
  <2>1. Implemented!ReadFails
    BY <1>1, <1>2, <1>3, <1>5, CallFails
  <2> QED
    BY <2>1 DEF Implemented!Next
<1> QED
  BY <1>4, <1>5

LEMMA NextClusterImplements ==
  ASSUME FileIInv, FileIInv', NextCluster
  PROVE  [Implemented!Next]_(Implemented!vars)
<1>1. PICK ok \in BOOLEAN :
        /\ ReadSecter(FatSecter(Cluster), ok)
        /\ \E next \in NextClusters(ok) :
            IF next = 0 THEN Return(FALSE)
            ELSE /\ pc' = "body"
                 /\ UNCHANGED <<file, SeekPos, nBufferSize, Pos, bSuccess, relied>>
  BY DEF NextCluster
<1>2. PICK next \in NextClusters(ok) :
            IF next = 0 THEN Return(FALSE)
            ELSE /\ pc' = "body"
                 /\ UNCHANGED <<file, SeekPos, nBufferSize, Pos, bSuccess, relied>>
  BY <1>1
<1>3. pc = "next" /\ buffer' = buffer /\ buffer \in Seq(ByteValues)
  BY DEF NextCluster, FileIInv, FileReadInv
<1>4. FatSecter(Cluster) \in Sectors
  BY Layout DEF Sectors
<1>5. /\ fault => fault'
      /\ ok => Secter_Data' = FatSecter(Cluster) /\ fault' = fault
      /\ ~ok => fault'
  BY <1>1, <1>4, SecterRead DEF FileIInv
<1>6. CASE next # 0
  BY <1>2, <1>3, <1>5, <1>6, WithinCall
<1>7. CASE next = 0
  <2>1. fault' \/ ~Sound
    <3> SUFFICES ASSUME Sound, ~fault' PROVE FALSE
      OBVIOUS
    <3>1. ok /\ ~fault
      BY <1>5
    <3>2. OnCourse
      BY <1>3, <3>1, SoundIs
    <3>3. Coherent /\ Here + BytesPerCluster = Reached /\ Missing > 0
      BY <1>3, <3>2 DEF OnCourse, InBody
    <3>4. /\ Here \in Nat /\ SeekPos \in Nat /\ BytesPerCluster \in Nat
          /\ nBufferSize \in Nat /\ FileSize[file] \in Nat /\ Len(buffer) \in Nat
          /\ SeekPos + nBufferSize <= FileSize[file]
      BY <1>3, Numbers DEF FileIInv, FileReadInv
    <3>5. Here + BytesPerCluster < FileSize[file]
      BY <3>3, <3>4 DEF Reached, Missing
    <3>6. ClusterSeq + 1 < Len(Chain[file])
      BY <3>5, MoreClusters DEF FileIInv, Here
    <3> QED
      BY <1>5, <1>7, <3>1, <3>3, <3>6, NextClustersAre DEF FileIInv
  <2>2. Implemented!ReadFails
    BY <1>2, <1>3, <1>5, <1>7, <2>1, CallFails
  <2> QED
    BY <2>2 DEF Implemented!Next
<1> QED
  BY <1>6, <1>7

LEMMA MultiSectorsImplements ==
  ASSUME FileIInv, FileIInv', MultiSectors
  PROVE  [Implemented!Next]_(Implemented!vars)
<1>1. /\ pc = "body"
      /\ \/ /\ fault' = TRUE
            /\ Return(FALSE)
            /\ buffer' = buffer
         \/ /\ pc' \in {"next", "body"}
            /\ UNCHANGED <<handle, nBufferSize, relied, fault>>
  BY DEF MultiSectors
<1>2. CASE fault' = TRUE /\ Return(FALSE) /\ buffer' = buffer
  <2>1. buffer' \in Seq(ByteValues)
    BY <1>1, <1>2 DEF FileIInv, FileReadInv
  <2>2. Implemented!ReadFails
    BY <1>1, <1>2, <2>1, CallFails
  <2> QED
    BY <2>2 DEF Implemented!Next
<1>3. CASE pc' \in {"next", "body"} /\ UNCHANGED <<handle, nBufferSize, relied, fault>>
  BY <1>1, <1>3, WithinCall DEF handle
<1> QED
  BY <1>1, <1>2, <1>3

(* The bytes that were missing are those of one sector.                    *)
LEMMA LastBytes ==
  ASSUME FileIInv, pc = "body", SectorsToRead = 0, Missing > 0, OnCourse,
         NEW t, Adds(t, PhysicalSecter, 0, Missing)
  PROVE  \A k \in 1 .. Len(t) : t[k] = Content[file][SeekPos + k - 1]
<1>1. PICK j \in 0 .. BPB_SecPerCluster - 1 : AtSector(j)
  BY DEF OnCourse, InBody
<1>2. Missing \in Nat /\ Missing < BPB_BytsPerSec /\ buffer \in Seq(ByteValues)
  <2>1. /\ Missing \in Nat
        /\ Missing < SectorsToRead * BPB_BytsPerSec + BPB_BytsPerSec
        /\ BPB_BytsPerSec \in Nat
    BY MissingIs, Numbers DEF FileIInv
  <2>2. SectorsToRead * BPB_BytsPerSec = 0
    BY <2>1
  <2> QED
    BY <2>1, <2>2 DEF FileIInv, FileReadInv
<1>3. j \in Nat /\ j < BPB_SecPerCluster
  BY Numbers DEF FileIInv
<1> DEFINE a == j * BPB_BytsPerSec
<1>4. a \in Nat /\ a + BPB_BytsPerSec <= BytesPerCluster
  BY <1>3, SectorFits
<1>5. /\ PhysicalSecter = FirstSecter(Cluster) + j
      /\ Here + a = Reached
  BY <1>1 DEF AtSector
<1> HIDE DEF a
<1>6. a + 0 + Missing <= BytesPerCluster /\ Here + a + 0 = Reached
  BY <1>2, <1>4, <1>5, Numbers DEF FileIInv
<1>7. /\ Here + j * BPB_BytsPerSec + 0 = Reached
      /\ j * BPB_BytsPerSec + 0 + Missing <= BytesPerCluster
  BY <1>6 DEF a
<1>8. Types /\ Coherent /\ RightBytes
  BY DEF FileIInv, OnCourse
<1> QED
  BY <1>2, <1>3, <1>5, <1>7, <1>8, Fills

(* The end of a call.                                                      *)
LEMMA LastSectorImplements ==
  ASSUME FileIInv, FileIInv', LastSector
  PROVE  [Implemented!Next]_(Implemented!vars)
<1>1. /\ pc = "body" /\ SectorsToRead = 0 /\ UNCHANGED <<Cluster, ClusterSeq>>
      /\ buffer \in Seq(ByteValues) /\ bSuccess \in BOOLEAN
  BY DEF LastSector, FileIInv, FileReadInv, Types
<1>2. /\ Missing \in Nat /\ Len(buffer) \in Nat /\ Len(buffer) + Missing = nBufferSize
  BY <1>1, MissingIs DEF FileIInv
<1>3. ~bSuccess => ~Sound \/ fault
  BY <1>1, SoundIs DEF OnCourse
<1>4. bSuccess => (Sound => OnCourse)
  BY <1>1, SoundIs
<1>5. CASE Missing = 0 /\ Return(bSuccess) /\ UNCHANGED <<cache, buffer, fault>>
  <2>1. CASE bSuccess
    <3>1. bSuccess = TRUE /\ Return(TRUE)
      BY <1>1, <1>5, <2>1
    <3>2. Len(buffer') = nBufferSize /\ buffer' \in Seq(ByteValues)
      BY <1>1, <1>2, <1>5
    <3>3. Sound => \A k \in 1 .. Len(buffer') :
                     buffer'[k] = Content[file][SeekPos + k - 1]
      BY <1>4, <1>5, <2>1 DEF OnCourse, RightBytes
    <3>4. Implemented!ReadSucceeds
      BY <1>1, <1>5, <2>1, <3>1, <3>2, <3>3, CallSucceeds
    <3> QED
      BY <3>4 DEF Implemented!Next
  <2>2. CASE ~bSuccess
    <3>1. /\ Return(FALSE) /\ (fault' \/ ~Sound) /\ (fault => fault')
          /\ buffer' \in Seq(ByteValues)
      BY <1>1, <1>3, <1>5, <2>2
    <3>2. Implemented!ReadFails
      BY <1>1, <3>1, CallFails
    <3> QED
      BY <3>2 DEF Implemented!Next
  <2> QED
    BY <2>1, <2>2
<1>6. ASSUME Missing > 0, NEW ok \in BOOLEAN, ReadSecter(PhysicalSecter, ok),
             buffer' = IF ok THEN buffer \o Bytes(Secter_Data', 0, Missing)
                       ELSE buffer,
             Return(ok /\ bSuccess)
      PROVE  [Implemented!Next]_(Implemented!vars)
  <2>1. /\ Secter_Data' \in Sectors /\ fault => fault'
        /\ ok => Secter_Data' = PhysicalSecter /\ fault' = fault
        /\ ~ok => fault'
    BY <1>6, SecterRead DEF FileIInv, Types
  <2>2. Secter_Data' \in Sectors
    BY <1>6, SecterRead DEF FileIInv, Types
  <2>3. CASE ok /\ bSuccess
    <3>1. (ok /\ bSuccess) = TRUE /\ Return(TRUE)
      BY <1>1, <1>6, <2>3
    <3>2. /\ buffer' \in Seq(ByteValues) /\ Len(buffer') = Len(buffer) + Missing
          /\ \A k \in 1 .. Len(buffer) : buffer'[k] = buffer[k]
          /\ \A k \in 1 .. Missing :
               buffer'[Len(buffer) + k] = Byte(PhysicalSecter, 0 + k - 1)
      <4>1. PhysicalSecter \in Sectors
        BY DEF FileIInv, Types
      <4>2. buffer' = buffer \o Bytes(PhysicalSecter, 0, Missing)
        <5>1. Secter_Data' = PhysicalSecter
          BY <2>1, <2>3
        <5> QED
          BY <1>6, <2>3, <5>1
      <4>3. /\ buffer \o Bytes(PhysicalSecter, 0, Missing) \in Seq(ByteValues)
            /\ Len(buffer \o Bytes(PhysicalSecter, 0, Missing)) = Len(buffer) + Missing
            /\ \A k \in 1 .. Len(buffer) :
                 (buffer \o Bytes(PhysicalSecter, 0, Missing))[k] = buffer[k]
            /\ \A k \in 1 .. Missing :
                 (buffer \o Bytes(PhysicalSecter, 0, Missing))[Len(buffer) + k]
                   = Byte(PhysicalSecter, 0 + k - 1)
        <5>1. 0 \in Nat
          OBVIOUS
        <5> QED
          BY <1>1, <1>2, <4>1, <5>1, Appended, Zenon
      <4> QED
        BY <4>2, <4>3, Zenon
    <3>3. ASSUME Sound, NEW t, t = buffer'
          PROVE  \A k \in 1 .. Len(t) : t[k] = Content[file][SeekPos + k - 1]
      <4>1. Adds(t, PhysicalSecter, 0, Missing)
        BY <3>2, <3>3 DEF Adds
      <4> QED
        BY <1>1, <1>4, <1>6, <2>3, <3>3, <4>1, LastBytes
    <3>4. Implemented!ReadSucceeds
      <4>1. Sound => \A k \in 1 .. Len(buffer') :
                       buffer'[k] = Content[file][SeekPos + k - 1]
        BY <3>3
      <4>2. Len(buffer') = nBufferSize /\ buffer' \in Seq(ByteValues)
        BY <1>2, <3>2
      <4>3. fault' = fault /\ bSuccess /\ pc # "idle"
        BY <1>1, <2>1, <2>3
      <4> QED
        BY <1>1, <3>1, <4>1, <4>2, <4>3, CallSucceeds
    <3> QED
      BY <3>4 DEF Implemented!Next
  <2>4. CASE ~(ok /\ bSuccess)
    <3>1. Return(FALSE)
      <4>1. (ok /\ bSuccess) = FALSE
        BY <1>1, <2>4
      <4> QED
        BY <1>6, <4>1
    <3>2. (fault => fault') /\ (fault' \/ ~Sound)
      <4>1. fault => fault'
        BY <1>6, SecterRead DEF FileIInv, Types
      <4>2. ~ok => fault'
        BY <1>6, SecterRead DEF FileIInv, Types
      <4> QED
        BY <1>3, <2>4, <4>1, <4>2
    <3>3. buffer' \in Seq(ByteValues)
      <4>1. buffer \o Bytes(Secter_Data', 0, Missing) \in Seq(ByteValues)
        BY <1>1, <1>2, <2>2, Appended
      <4> QED
        BY <1>1, <1>6, <4>1
    <3>4. Implemented!ReadFails
      BY <1>1, <3>1, <3>2, <3>3, CallFails
    <3> QED
      BY <3>4 DEF Implemented!Next
  <2> QED
    BY <2>3, <2>4
<1> QED
  BY <1>5, <1>6 DEF LastSector

(* Every step is one of ByteFile, or changes nothing of it.                *)
LEMMA StepFileImplements ==
  ASSUME FileIInv, FileIInv', [Next]_vars
  PROVE  [Implemented!Next]_(Implemented!vars)
<1>1. CASE Fat_FileOpen
  BY <1>1, OpenImplements DEF Implemented!Next
<1>2. ASSUME NEW mode \in {"BEGIN", "CURRENT", "END"}, NEW nOffset \in Offsets,
             Fat_FileSeek(mode, nOffset)
      PROVE  Implemented!Next
  BY <1>2, SeekImplements DEF Implemented!Next
<1>3. ASSUME NEW n \in BufferSizes, BeginRead(n) PROVE Implemented!Next
  BY <1>3, BeginReadImplements DEF Implemented!Next
<1>4. CASE Walk
  BY <1>4, WalkImplements
<1>5. CASE Locate
  BY <1>5, LocateImplements
<1>6. CASE FirstSector
  BY <1>6, FirstSectorImplements
<1>7. CASE NextCluster
  BY <1>7, NextClusterImplements
<1>8. CASE MultiSectors
  BY <1>8, MultiSectorsImplements
<1>9. CASE LastSector
  BY <1>9, LastSectorImplements
<1>10. CASE UNCHANGED vars
  <2>1. UNCHANGED <<file, SeekPos, fault, nBufferSize, pc>>
    BY <1>10 DEF vars, handle, call
  <2>2. Sound' = Sound /\ Outcome' = Outcome
    BY <1>10 DEF Sound, Coherent, Outcome, vars, handle, call
  <2> QED
    BY <2>1, <2>2 DEF Implemented!vars
<1> QED
  BY <1>1, <1>2, <1>3, <1>4, <1>5, <1>6, <1>7, <1>8, <1>9, <1>10
     DEF Next, ReadStep

(* An open file is a sequence of bytes with a position, whatever the       *)
(* layout of the card: a read gives the bytes of the file at the position, *)
(* and moves it behind them, or fails and leaves it; it fails only after a *)
(* failure of the card, in this read or, with no seek in between, in an    *)
(* earlier one.  Sectors of data may fail; of a read in which a sector of  *)
(* the FAT fails, and of those after it up to the next seek, only the      *)
(* number of bytes is promised, which is all the code gives                *)
(* (FatFileSystem.c:390-573 against ByteFile).                             *)
THEOREM FileImplements == Spec => ImplementsByteFile
<1>1. Init => Implemented!Init
  <2> SUFFICES ASSUME Init PROVE Implemented!Init
    OBVIOUS
  <2>1. /\ file \in File /\ SeekPos = 0 /\ ClusterSeq = 0 /\ Cluster = Chain[file][1]
        /\ pc = "idle" /\ buffer = None /\ fault = FALSE
    BY DEF Init
  <2>2. 1 \in DOMAIN Chain[file] /\ 0 + 1 = 1
    BY <2>1, ChainIs
  <2>3. Coherent
    BY <2>1, <2>2 DEF Coherent
  <2>4. ClusterSeq * BytesPerCluster <= SeekPos
    BY <2>1, Sizes
  <2>5. Sound = TRUE
    BY <2>1, <2>3, <2>4 DEF Sound
  <2>6. Outcome = None
    BY <2>1 DEF Outcome
  <2> QED
    BY <2>1, <2>5, <2>6 DEF Implemented!Init
<1> QED
  BY <1>1, StepFileImplements, FileInvariant, PTL
     DEF Spec, ImplementsByteFile, Implemented!Spec
=============================================================================
