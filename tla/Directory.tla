----------------------------- MODULE Directory -----------------------------
(***************************************************************************)
(* How core 1 finds the next video: findNextVideo() and loadVideo() of     *)
(* main.c over Fat_FileBrowseBegin, Fat_FileBrowseNext, Fat_CheckExtension *)
(* and Fat_FileOpen of FatFileSystem.c.  One step is one round of the loop *)
(* over the entries of the root directory, whose sector may be unreadable. *)
(* The video is found through one browse handle, which lives on, and       *)
(* opened by its name through another, which starts from the beginning.    *)
(***************************************************************************)
EXTENDS Integers, Sequences, FiniteSets

CONSTANTS Dir,        (* the entries of the root directory                 *)
          MaxFaults   (* how often the card fails, a bound of the model    *)

(* An entry is free, a piece of a long name, a short one, or the end.  The *)
(* pieces of a long name precede their short entry, last piece first; the  *)
(* name in a piece stands for the whole one as Fat_FileOpen compares it,   *)
(* without its blanks.                                                     *)
Kinds == {"free", "long", "short", "end"}

HasExtension(e) == e.attributes \cap {"archive", "directory"} # {}

(* fatComposeShortFilename: no extension without one of the attributes.    *)
ShortName(e) == <<e.name, IF HasExtension(e) THEN e.extension ELSE "">>

(* The short entry at i has a long name.                                   *)
Belongs(i) == i > 1 /\ Dir[i - 1].kind = "long"

VideoEntries == {i \in DOMAIN Dir : /\ Dir[i].kind = "short"
                                    /\ "archive" \in Dir[i].attributes
                                    /\ Dir[i].extension = "MPG"
                                    /\ ~Belongs(i)}

(* The pieces of a long name count down to its short entry, which has an  *)
(* extension.                                                              *)
LongNamesWhole ==
  \A i \in DOMAIN Dir :
    Dir[i].kind = "long" =>
      /\ Dir[i].order \in Nat \ {0}
      /\ \/ Dir[i + 1].kind = "long" /\ Dir[i].order = Dir[i + 1].order + 1
         \/ Dir[i + 1].kind = "short" /\ HasExtension(Dir[i + 1])

(* No two names are equal, a long name without its blanks included, and no *)
(* directory is called .MPG.                                               *)
ASSUME DirectoryAssumption ==
  /\ Len(Dir) \in Nat /\ DOMAIN Dir = 1 .. Len(Dir)
  /\ VideoEntries # {}
  /\ \A i \in DOMAIN Dir : /\ Dir[i].kind \in Kinds
                           /\ (Dir[i].kind = "end") <=> (i = Len(Dir))
  /\ \A i \in VideoEntries, j \in DOMAIN Dir :
       /\ Dir[j].kind = "short" /\ ~Belongs(j) /\ ShortName(Dir[j]) = ShortName(Dir[i])
            => j = i
       /\ Dir[j].kind = "long" => Dir[j].name # ShortName(Dir[i])
  /\ \A i \in DOMAIN Dir :
       Dir[i].kind = "short" /\ ~Belongs(i) /\ ShortName(Dir[i])[2] = "MPG"
         => i \in VideoEntries
  /\ LongNamesWhole
  /\ MaxFaults \in Nat

VARIABLES
  search,          (* idle, browse, open, or stopped                       *)
  DirectoryIndex,  (* of FatBrowseHandle; 0 is -1 in the source            *)
  openIndex,       (* of the handle in Fat_FileOpen                        *)
  scan,            (* the local variables of Fat_FileBrowseNext            *)
  wanted,          (* the name of the file that was found                  *)
  opened,          (* fInfo.Directory: the entry of the file that is open  *)
  failures,        (* how often the card has failed                        *)
  cardFailed       (* it has, in this request                              *)

dirVars == <<search, DirectoryIndex, openIndex, scan, wanted, opened,
             failures, cardFailed>>

NoName == <<"", "">>

(* A call of Fat_FileBrowseNext begins.                                    *)
Fresh == [bFind |-> FALSE, bError |-> FALSE, bLongFilename |-> FALSE,
          OrderValue |-> 0, szName |-> NoName]

(* One entry.  A first piece of a long name gives the number of pieces;    *)
(* the next ones have to count down.                                       *)
LongPiece(e, s) ==
  LET order == IF s.OrderValue = 0 THEN e.order ELSE s.OrderValue
      wrong == IF s.OrderValue = 0 THEN s.bLongFilename ELSE e.order # order
  IN  IF wrong THEN [s EXCEPT !.bError = TRUE]
      ELSE [s EXCEPT !.bLongFilename = TRUE, !.OrderValue = order - 1,
                     !.szName = e.name]

(* Mutant: a file with a long name passes for one with a short name.       *)
EveryEntryShort(e, s) == [s EXCEPT !.bFind = TRUE, !.bLongFilename = FALSE,
                                   !.szName = ShortName(e)]
ShortEntry(e, s) ==
  IF ~s.bLongFilename THEN [s EXCEPT !.bFind = TRUE, !.szName = ShortName(e)]
  ELSE IF HasExtension(e) THEN [s EXCEPT !.bFind = TRUE]
  ELSE [s EXCEPT !.bError = TRUE]

Visit(e, s) == CASE e.kind = "long"  -> LongPiece(e, s)
                 [] e.kind = "short" -> ShortEntry(e, s)
                 [] OTHER            -> s

(* The entry at i, or an error when its sector cannot be read.             *)
Look(i, s, ok) == IF ok THEN Visit(Dir[i], s) ELSE [s EXCEPT !.bError = TRUE]

Card(ok) == /\ ~ok => failures < MaxFaults
            /\ failures' = IF ok THEN failures ELSE failures + 1
            /\ cardFailed' = (cardFailed \/ ~ok)

(* Fat_FileBrowseNext gives FALSE: the end, or an error, which looks alike.*)
GivesUp(i, s, ok) == s.bError \/ (ok /\ Dir[i].kind = "end")

(* Fat_CheckExtension: strrchr and strcmp see only the first character of  *)
(* a long name, whose second byte is 0.                                    *)
CheckLowerCase(s) == ~s.bLongFilename /\ s.szName[2] = "mpg"  (* mutant *)
Fat_CheckExtension(s) == ~s.bLongFilename /\ s.szName[2] = "MPG"

-----------------------------------------------------------------------------
DirInit ==
  /\ search = "idle"
  /\ DirectoryIndex = 0
  /\ openIndex = 0
  /\ scan = Fresh
  /\ wanted = NoName
  /\ opened = 0
  /\ failures = 0
  /\ cardFailed = FALSE

(* READ_NEXT_FILE arrives.                                                 *)
Request == /\ search = "idle"
           /\ search' = "browse"
           /\ scan' = Fresh
           /\ cardFailed' = FALSE
           /\ UNCHANGED <<DirectoryIndex, openIndex, wanted, opened, failures>>

(* findNextVideo; given up, the directory is begun again.                  *)
Browse ==
  /\ search = "browse"
  /\ \E ok \in BOOLEAN :
       LET i == DirectoryIndex + 1
           s == Look(i, scan, ok)
       IN  /\ Card(ok)
           /\ DirectoryIndex' = IF GivesUp(i, s, ok) THEN 0 ELSE i
           /\ scan' = IF s.bFind \/ GivesUp(i, s, ok) THEN Fresh ELSE s
           /\ IF s.bFind /\ Fat_CheckExtension(s)
              THEN search' = "open" /\ wanted' = s.szName /\ openIndex' = 0
              ELSE UNCHANGED <<search, wanted, openIndex>>
  /\ UNCHANGED opened

(* Fat_FileOpen.  Without a file the first read of a frame stops core 1 in *)
(* assert_persistent (loadVideo's own assert is compiled out).             *)
Open ==
  /\ search = "open"
  /\ \E ok \in BOOLEAN :
       LET i == openIndex + 1
           s == Look(i, scan, ok)
       IN  /\ Card(ok)
           /\ openIndex' = i
           /\ scan' = IF s.bFind \/ GivesUp(i, s, ok) THEN Fresh ELSE s
           /\ \/ /\ s.bFind /\ s.szName = wanted
                 /\ search' = "idle"
                 /\ opened' = i
              \/ /\ GivesUp(i, s, ok)
                 /\ search' = "stopped"
                 /\ UNCHANGED opened
              \/ /\ ~(s.bFind /\ s.szName = wanted) /\ ~GivesUp(i, s, ok)
                 /\ UNCHANGED <<search, opened>>
  /\ UNCHANGED <<DirectoryIndex, wanted>>

(* while (1) {} of assert_persistent.                                      *)
Stopped == search = "stopped" /\ UNCHANGED dirVars

DirNext == Request \/ Browse \/ Open \/ Stopped

(* Core 1 runs as long as it has something to do.                          *)
DirSpec == DirInit /\ [][DirNext]_dirVars /\ WF_dirVars(Browse \/ Open)

-----------------------------------------------------------------------------
Rank(i) == Cardinality({j \in VideoEntries : j <= i})

AsPlaylist == INSTANCE Playlist WITH
  Videos  <- Cardinality(VideoEntries),
  video   <- IF opened \in VideoEntries THEN Rank(opened) ELSE 0,
  fault   <- cardFailed,
  asked   <- search \in {"browse", "open"},
  stopped <- search = "stopped"

(* The videos are opened in the order of the directory, each once before   *)
(* the first comes again, whatever free entries, long names, labels and    *)
(* other files lie between; the file that is opened by its name is the one *)
(* that was found; only a failure of the card puts the list back or stops  *)
(* it (main.c:166-225 of core 1, FatFileSystem.c:113-203 and 294-349).     *)
ImplementsPlaylist == AsPlaylist!Spec

(* Every request leads to an open file, unless the card fails while the    *)
(* file is opened: the loop without end of main.c:187 finds a video.       *)
VideoIsFound == (search \in {"browse", "open"}) ~> (search \in {"idle", "stopped"})
=============================================================================
