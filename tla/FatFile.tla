------------------------------ MODULE FatFile ------------------------------
(***************************************************************************)
(* An open file of the FAT file system of core 1 (FatFileSystem.c and      *)
(* FatInternal.c): Fat_FileOpen once the directory entry is found,         *)
(* Fat_FileSeek, and Fat_FileRead with each access to the card a step of   *)
(* its own that may fail.  A sector is a number, a byte is the pair of its *)
(* sector and its place in it, so every byte of the card is different.     *)
(*                                                                         *)
(* The handle caches the cluster of the position.  Reading on, and failing *)
(* half way, move the cache; SeekPos moves only when the whole read is     *)
(* done.  A cluster number that comes from nowhere (NextCluster is not     *)
(* initialised when the FAT cannot be read) or from the end mark is Junk.  *)
(***************************************************************************)
EXTENDS Integers, Sequences

CONSTANTS
  File,             (* the files on the card                               *)
  Chain,            (* Chain[f]: the clusters of f in order                *)
  BPB_BytsPerSec,   (* 512 in the source                                   *)
  BPB_SecPerCluster,
  EntriesPerSecter, (* FAT entries in a sector, 256 or 128 in the source   *)
  FatSecters,       (* BPB_NumFATs * BPB_FATSz in the source               *)
  Width,            (* the values of an alt_u32, 2^32 in the source        *)
  FileSize,         (* FileSize[f]: what callers stay below                *)
  BufferSizes,      (* the sizes of reads that are explored                *)
  Offsets,          (* the offsets of seeks that are explored              *)
  Junk, None, Failed

BytesPerCluster == BPB_BytsPerSec * BPB_SecPerCluster
Clusters == UNION {{Chain[f][i] : i \in DOMAIN Chain[f]} : f \in File}
EndMark == 0 - 1  (* 0xFFFF in the source: a number, but of no cluster     *)
ByteValues == {Junk} \cup (Int \X Nat)

ASSUME FatAssumption ==
  /\ BPB_BytsPerSec \in Nat \ {0}
  /\ BPB_SecPerCluster \in Nat \ {0}
  /\ EntriesPerSecter \in Nat \ {0}
  /\ Width \in Nat \ {0}
  /\ Width % BytesPerCluster = 0
  /\ FatSecters \in Nat
  /\ \A f \in File : /\ Chain[f] \in Seq(Nat \ {0, 1})
                     /\ FileSize[f] \in 1 .. Len(Chain[f]) * BytesPerCluster
                     /\ Len(Chain[f]) * BytesPerCluster < Width
  /\ \A f, g \in File : \A i \in DOMAIN Chain[f], j \in DOMAIN Chain[g] :
       Chain[f][i] = Chain[g][j] => f = g /\ i = j
  /\ BufferSizes \subseteq Nat \ {0}
  /\ Offsets \subseteq Int
  /\ {Junk, None} \cap Int = {}
  /\ {None, Failed} \cap Seq(ByteValues) = {}

VARIABLES
  file, SeekPos, Cluster, ClusterSeq,        (* FAT_FILE_INFO              *)
  Secter_Index, Secter_Data,                 (* the sector last read       *)
  pc, nBufferSize, Pos, bSuccess, buffer,    (* of a call of Fat_FileRead  *)
  SectorOffset, PhysicalSecter,
  relied, fault                              (* history, see Sound         *)

handle == <<file, SeekPos, Cluster, ClusterSeq>>
cache == <<Secter_Index, Secter_Data>>
call == <<pc, nBufferSize, Pos, bSuccess, buffer, SectorOffset, PhysicalSecter>>
vars == <<handle, cache, call, relied, fault>>

Wrapped(x) == x % Width

(* The layout of the card: the FAT, the root directory, the data.          *)
FatSecter(c) == IF c \in Clusters THEN c \div EntriesPerSecter ELSE Junk
DirEntrySecter == FatSecters
DataEntrySecter == DirEntrySecter + 1

FirstSecter(c) == IF c \in Clusters
                  THEN (c - 2) * BPB_SecPerCluster + DataEntrySecter
                  ELSE Junk

Later(s, n) == IF s = Junk THEN Junk ELSE s + n

Byte(s, k) == IF s = Junk THEN Junk
              ELSE <<s + k \div BPB_BytsPerSec, k % BPB_BytsPerSec>>

Bytes(s, from, n) == [k \in 1 .. n |-> Byte(s, from + k - 1)]

(* The FAT: the next cluster of the file, or the end mark.                 *)
FatEntry(c) ==
  LET f == CHOOSE g \in File : \E i \in DOMAIN Chain[g] : Chain[g][i] = c
      i == CHOOSE j \in DOMAIN Chain[f] : Chain[f][j] = c
  IN  IF i < Len(Chain[f]) THEN Chain[f][i + 1] ELSE EndMark

(* fatReadSecter: one sector is kept; a failure leaves none.               *)
KeptSecter(s, ok) == s  (* mutant: the old contents pass for sector s      *)
SecterAfter(s, ok) == IF ok THEN s ELSE None

ReadSecter(s, ok) ==
  IF s = Secter_Index /\ s # Junk
  THEN ok /\ UNCHANGED <<cache, fault>>
  ELSE /\ Secter_Index' = SecterAfter(s, ok)
       /\ Secter_Data' = IF ok THEN s ELSE Junk
       /\ fault' = (fault \/ ~ok)

(* fatNextCluster: 0 for none, anything if the entry could not be read.    *)
NextClusters(ok) ==
  IF ok /\ Cluster \in Clusters /\ Secter_Data' = FatSecter(Cluster)
  THEN {FatEntry(Cluster)}
  ELSE {0, Junk}

-----------------------------------------------------------------------------
Coherent == /\ ClusterSeq + 1 \in DOMAIN Chain[file]
            /\ Cluster = Chain[file][ClusterSeq + 1]

(* The cached cluster can be relied on: it is the one its number says, and *)
(* not behind the position, from where the walk could not get back.        *)
Sound == /\ Coherent
         /\ IF pc = "idle" THEN ClusterSeq * BytesPerCluster <= SeekPos
                           ELSE relied

Init ==
  /\ file \in File
  /\ SeekPos = 0
  /\ Cluster = Chain[file][1]
  /\ ClusterSeq = 0
  /\ Secter_Index = None
  /\ Secter_Data = Junk
  /\ pc = "idle"
  /\ nBufferSize = 0
  /\ Pos = 0
  /\ bSuccess = TRUE
  /\ buffer = None
  /\ SectorOffset = 0
  /\ PhysicalSecter = 0
  /\ relied = TRUE
  /\ fault = FALSE

(* Fat_FileOpen of a file in the directory, which it reads through the     *)
(* cached sector; there is one handle, fInfo, for all files.               *)
Fat_FileOpen ==
  /\ pc = "idle"
  /\ ReadSecter(DirEntrySecter, TRUE)
  /\ file' \in File
  /\ SeekPos' = 0
  /\ Cluster' = Chain[file'][1]
  /\ ClusterSeq' = 0
  /\ UNCHANGED <<call, relied>>

(* Back to the first cluster, also for a move forwards.                    *)
Fat_FileSeek(mode, nOffset) ==
  LET position == CASE mode = "BEGIN"   -> nOffset
                    [] mode = "CURRENT" -> SeekPos + nOffset
                    [] mode = "END"     -> FileSize[file] + nOffset
  IN  /\ pc = "idle"
      /\ position \in 0 .. FileSize[file]
      /\ SeekPos' = position
      /\ Cluster' = Chain[file][1]
      /\ ClusterSeq' = 0
      /\ UNCHANGED <<file, cache, call, relied, fault>>

(* Fat_FileRead: the position relative to the cached cluster, unsigned.    *)
BeginRead(n) ==
  /\ pc = "idle"
  /\ SeekPos + n <= FileSize[file]
  /\ nBufferSize' = n
  /\ bSuccess' = TRUE
  /\ buffer' = <<>>
  /\ Pos' = Wrapped(SeekPos - ClusterSeq * BytesPerCluster)
  /\ pc' = IF SeekPos \div BytesPerCluster # ClusterSeq THEN "walk" ELSE "locate"
  /\ relied' = Sound
  /\ fault' = FALSE
  /\ UNCHANGED <<handle, cache, SectorOffset, PhysicalSecter>>

(* One cluster on towards the position; it is counted found or not.        *)
PosKept == Pos         (* mutant: the position stays what it was           *)
PosAfter == Pos - BytesPerCluster

Walk ==
  /\ pc = "walk"
  /\ Pos >= BytesPerCluster
  /\ bSuccess
  /\ \E ok \in BOOLEAN :
       /\ ReadSecter(FatSecter(Cluster), ok)
       /\ \E next \in NextClusters(ok) :
            /\ Cluster' = IF next = 0 THEN Cluster ELSE next
            /\ bSuccess' = (next # 0)
  /\ ClusterSeq' = Wrapped(ClusterSeq + 1)
  /\ Pos' = PosAfter
  /\ UNCHANGED <<file, SeekPos, pc, nBufferSize, buffer, SectorOffset,
                 PhysicalSecter, relied>>

ByteOffset == Pos % BPB_BytsPerSec

(* Where the data begins; after a walk that failed too, which shows only   *)
(* in the result.                                                          *)
Locate ==
  /\ \/ pc = "locate"
     \/ pc = "walk" /\ ~(Pos >= BytesPerCluster /\ bSuccess)
  /\ SectorOffset' = Pos \div BPB_BytsPerSec
  /\ PhysicalSecter' = Later(FirstSecter(Cluster), SectorOffset')
  /\ pc' = IF ByteOffset > 0 \/ nBufferSize < BPB_BytsPerSec THEN "first"
           ELSE "body"
  /\ UNCHANGED <<handle, cache, nBufferSize, Pos, bSuccess, buffer, relied, fault>>

Return(success) ==
  /\ pc' = "idle"
  /\ bSuccess' = success
  /\ SeekPos' = IF success THEN Wrapped(SeekPos + nBufferSize) ELSE SeekPos
  /\ nBufferSize' = 0 /\ Pos' = 0 /\ SectorOffset' = 0 /\ PhysicalSecter' = 0
  /\ relied' = TRUE
  /\ UNCHANGED file

Missing == nBufferSize - Len(buffer)

(* A part of the first sector, through the cache.                          *)
FirstSector ==
  /\ pc = "first"
  /\ \E ok \in BOOLEAN :
       /\ ReadSecter(PhysicalSecter, ok)
       /\ IF ~ok
          THEN Return(FALSE) /\ UNCHANGED <<Cluster, ClusterSeq, buffer>>
          ELSE LET room == BPB_BytsPerSec - ByteOffset
                   nCopyCount == IF nBufferSize > room THEN room ELSE nBufferSize
               IN  /\ buffer' = Bytes(Secter_Data', ByteOffset, nCopyCount)
                   /\ IF /\ nCopyCount < nBufferSize
                         /\ SectorOffset = BPB_SecPerCluster - 1
                      THEN pc' = "next" /\ UNCHANGED <<SectorOffset, PhysicalSecter>>
                      ELSE /\ pc' = "body"
                           /\ SectorOffset' = SectorOffset + 1
                           /\ PhysicalSecter' = Later(PhysicalSecter, 1)
                   /\ UNCHANGED <<handle, nBufferSize, Pos, bSuccess, relied>>

(* The cluster is used up and the buffer not full.                         *)
NextCluster ==
  /\ pc = "next"
  /\ \E ok \in BOOLEAN :
       /\ ReadSecter(FatSecter(Cluster), ok)
       /\ \E next \in NextClusters(ok) :
            IF next = 0
            THEN Return(FALSE) /\ UNCHANGED <<Cluster, ClusterSeq>>
            ELSE /\ Cluster' = next
                 /\ ClusterSeq' = Wrapped(ClusterSeq + 1)
                 /\ PhysicalSecter' = FirstSecter(next)
                 /\ SectorOffset' = 0
                 /\ pc' = "body"
                 /\ UNCHANGED <<file, SeekPos, nBufferSize, Pos, bSuccess, relied>>
  /\ UNCHANGED buffer

SectorsToRead == Missing \div BPB_BytsPerSec

SectorsLeft == Wrapped(BPB_SecPerCluster - SectorOffset)

(* Whole sectors up to the end of the cluster, past the cache.             *)
MultiSectors ==
  /\ pc = "body"
  /\ SectorsToRead > 0
  /\ UNCHANGED cache
  /\ LET nCopySectors == IF SectorsToRead < SectorsLeft THEN SectorsToRead
                         ELSE SectorsLeft
         nCopyCount == nCopySectors * BPB_BytsPerSec
     IN  \/ /\ fault' = TRUE
            /\ Return(FALSE)
            /\ UNCHANGED <<Cluster, ClusterSeq, buffer>>
         \/ /\ buffer' = buffer \o Bytes(PhysicalSecter, 0, nCopyCount)
            /\ PhysicalSecter' = Later(PhysicalSecter, nCopySectors)
            /\ pc' = IF nCopySectors = SectorsLeft /\ nCopyCount < Missing
                     THEN "next" ELSE "body"
            /\ UNCHANGED <<handle, nBufferSize, Pos, bSuccess, SectorOffset,
                           relied, fault>>

(* What is left of the last sector, if anything, and the end.              *)
LastSector ==
  /\ pc = "body"
  /\ SectorsToRead = 0
  /\ \/ Missing = 0 /\ Return(bSuccess) /\ UNCHANGED <<cache, buffer, fault>>
     \/ /\ Missing > 0
        /\ \E ok \in BOOLEAN :
             /\ ReadSecter(PhysicalSecter, ok)
             /\ buffer' = IF ok THEN buffer \o Bytes(Secter_Data', 0, Missing)
                          ELSE buffer
             /\ Return(ok /\ bSuccess)
  /\ UNCHANGED <<Cluster, ClusterSeq>>

ReadStep == Walk \/ Locate \/ FirstSector \/ NextCluster \/ MultiSectors \/ LastSector

Next == \/ Fat_FileOpen
        \/ \E mode \in {"BEGIN", "CURRENT", "END"}, nOffset \in Offsets :
             Fat_FileSeek(mode, nOffset)
        \/ \E n \in BufferSizes : BeginRead(n)
        \/ ReadStep

(* Fat_FileRead runs by itself once it is called; the card answers, well   *)
(* or not.  Nothing is assumed of the callers.                             *)
Spec == Init /\ [][Next]_vars /\ WF_vars(ReadStep)

-----------------------------------------------------------------------------
Content ==
  [f \in File |->
    [i \in 0 .. Len(Chain[f]) * BytesPerCluster - 1 |->
      Byte(FirstSecter(Chain[f][1 + i \div BytesPerCluster]),
           i % BytesPerCluster)]]

Outcome == IF pc # "idle" \/ buffer = None THEN None
           ELSE IF bSuccess THEN buffer ELSE Failed

Implemented == INSTANCE ByteFile WITH
  position <- SeekPos,
  sound    <- Sound,
  asked    <- IF pc = "idle" THEN 0 ELSE nBufferSize,
  result   <- Outcome

(* Wherever the position is in its sector and its cluster and whatever was *)
(* read before, a read in which no sector of the FAT fails gives the bytes *)
(* of the file at the position or fails and stays, also when a sector of   *)
(* data fails; it fails only after a failure of the card, in this read or, *)
(* with no seek in between, in an earlier one.  A read that meets a sector *)
(* of the FAT it cannot read may succeed with other bytes, of the same     *)
(* number, as may those after it up to the next seek                       *)
(* (FatFileSystem.c:390-573 against a byte sequence).                      *)
ImplementsByteFile == Implemented!Spec

(* For a sector of the FAT that cannot be read the callers of              *)
(* fatNextCluster expect the 0 of FatInternal.c:111, "invalid cluster",    *)
(* and then return FALSE (FatFileSystem.c:404, 445, 483).  Then a read     *)
(* that begins with a cluster it can rely on and reports success has given *)
(* the bytes of the file.                                                  *)
SuccessGivesFile ==
  [][pc # "idle" /\ pc' = "idle" /\ bSuccess' /\ relied
       => buffer' = [k \in 1 .. nBufferSize |-> Content[file][SeekPos + k - 1]]]_vars

(* Every read comes to its end, also when the position relative to the     *)
(* cached cluster is negative, that is, after a read that failed half way  *)
(* (the walk of line 394 then runs through the range of an alt_u32).       *)
ReadReturns == (pc # "idle") ~> (pc = "idle")
=============================================================================
