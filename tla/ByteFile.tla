------------------------------ MODULE ByteFile ------------------------------
(***************************************************************************)
(* What core 1 may expect of an open file (Fat_FileOpen, Fat_FileSeek and  *)
(* Fat_FileRead of FatFileSystem.c): bytes with a position.  A read takes  *)
(* its time and then gives the bytes at the position and moves on, or it   *)
(* fails and does not move.  It fails only for a reason: the card failed   *)
(* during this read, or the position had been lost by an earlier failure.  *)
(*                                                                         *)
(* This is weaker than a reader would wish in one respect, which is the    *)
(* code's: when the card fails while the FAT is read, the position may be  *)
(* lost and the read go on, and then it may succeed with any bytes, as may *)
(* those after it.  Opening a file and seeking make the position sound.    *)
(***************************************************************************)
EXTENDS Integers, Sequences

CONSTANTS File,        (* the files on the card                            *)
          Content,     (* Content[f][i]: byte i of file f                  *)
          None, Failed (* no result yet; the read returned FALSE           *)

VARIABLES file,      (* the file that is open                              *)
          position,  (* the byte to be read next                           *)
          sound,     (* the position can be relied on                      *)
          fault,     (* the card failed during the last read               *)
          asked,     (* the bytes the read in progress asks for, or 0      *)
          result     (* what the last read gave                            *)

vars == <<file, position, sound, fault, asked, result>>

Init == /\ file \in File
        /\ position = 0
        /\ sound = TRUE
        /\ fault = FALSE
        /\ asked = 0
        /\ result = None

Open == /\ asked = 0
        /\ file' \in File
        /\ position' = 0
        /\ sound' = TRUE
        /\ UNCHANGED <<fault, asked, result>>

Seek == /\ asked = 0
        /\ position' \in Nat
        /\ sound' = TRUE
        /\ UNCHANGED <<file, fault, asked, result>>

BeginRead == /\ asked = 0
             /\ asked' \in Nat \ {0}
             /\ fault' = FALSE
             /\ result' = None
             /\ UNCHANGED <<file, position, sound>>

(* A sector of the FAT cannot be read, and the read goes on: the position  *)
(* may be lost (FatInternal.c:102-115).  One that was lost may be sound    *)
(* again by chance, in this step or below: nothing was promised of it.     *)
FatFails == /\ asked > 0
            /\ fault' = TRUE
            /\ sound' \in BOOLEAN
            /\ UNCHANGED <<file, position, asked, result>>

(* Of a read whose position is lost nothing is promised but its length.    *)
ReadSucceeds ==
  /\ asked > 0
  /\ asked' = 0
  /\ result' # Failed
  /\ Len(result') = asked
  /\ sound => \A k \in 1 .. asked : result'[k] = Content[file][position + k - 1]
  /\ position' = position + asked
  /\ sound' \in BOOLEAN
  /\ sound => sound'
  /\ UNCHANGED <<file, fault>>

ReadFails == /\ asked > 0
             /\ asked' = 0
             /\ fault' \/ ~sound
             /\ fault => fault'
             /\ sound' \in BOOLEAN
             /\ result' = Failed
             /\ UNCHANGED <<file, position>>

Next == Open \/ Seek \/ BeginRead \/ FatFails \/ ReadSucceeds \/ ReadFails

Spec == Init /\ [][Next]_vars
=============================================================================
