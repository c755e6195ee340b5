----------------------------- MODULE MCStorage -----------------------------
(***************************************************************************)
(* The three layers of core 1's storage in one run: finding a video in the *)
(* directory, an open file, the card and its driver.  Each module has the  *)
(* layer below it as an environment that may fail at any access, so a      *)
(* behaviour is one layer's, with the others at rest.                      *)
(***************************************************************************)
EXTENDS FatFile, SdCard, Directory

VARIABLE layer

(* Two files whose clusters are out of order, in two FAT sectors.          *)
MCChain == [f \in File |-> IF f = "video" THEN <<5, 2, 4>> ELSE <<3>>]
MCFileSize == [f \in File |-> IF f = "video" THEN 22 ELSE 7]
MCOffsets == {0 - 3, 0, 4, 9}

Short(n, x, a) == [kind |-> "short", name |-> n, extension |-> x, attributes |-> a]
Piece(k, n) == [kind |-> "long", order |-> k, name |-> n]
Free == [kind |-> "free"]
End == [kind |-> "end"]

(* A label, a video with a long name, which is passed over, and the videos *)
(* with short names between a file, a directory and free entries.          *)
MCDir == << Short("CARD", "", {"volume"}),
            Piece(2, <<"myvideo", "MPG">>), Piece(1, <<"myvideo", "MPG">>),
            Short("MYVIDE~1", "MPG", {"archive"}),
            Short("A", "MPG", {"archive"}), Free,
            Short("README", "TXT", {"archive"}),
            Piece(1, <<"pictures", "">>), Short("PICTUR~1", "", {"directory"}),
            Short("B", "MPG", {"archive"}),
            Free, Short("C", "MPG", {"archive"}), Free, End >>

MCInit == /\ layer \in {"card", "directory", "file"}
          /\ Init
          /\ SdInit
          /\ DirInit
          /\ layer # "file" => file = "video"
          /\ layer # "card" => ~card.hc

MCNext ==
  /\ UNCHANGED layer
  /\ \/ layer = "card" /\ SdNext /\ UNCHANGED <<vars, dirVars>>
     \/ layer = "directory" /\ DirNext /\ UNCHANGED <<vars, sdVars>>
     \/ layer = "file" /\ Next /\ UNCHANGED <<sdVars, dirVars>>

(* The fairness of the three modules.                                      *)
MCSpec == /\ MCInit
          /\ [][MCNext]_<<layer, vars, sdVars, dirVars>>
          /\ WF_vars(layer = "file" /\ ReadStep)
          /\ WF_sdVars(layer = "card" /\ DriverStep)
          /\ WF_dirVars(layer = "directory" /\ (Browse \/ Open))

-----------------------------------------------------------------------------
(* DriverReturns, where the steps of the card are taken.                   *)
CardReturns == layer = "card" => DriverReturns
=============================================================================
