----------------------------- MODULE MCCoding ------------------------------
(***************************************************************************)
(* The two halves of the coding of a video in one run: the file with its   *)
(* frames and its trailer, and the entropy coding of the blocks within a   *)
(* frame.  They share no state, so a behaviour is one part's, with the     *)
(* other at rest.                                                          *)
(***************************************************************************)
EXTENDS VideoFile, Lossless, FiniteSets

VARIABLE part

(* Pictures that differ in a DC, in an AC, and in both.                    *)
Coefficients(dc, ac) == [dc |-> dc, ac |-> ac]
MCPictures == { <<Coefficients(0, 0), Coefficients(0, 0)>>,
                <<Coefficients(2, 0), Coefficients(5, 1)>>,
                <<Coefficients(-3, 1), Coefficients(5, 0)>> }

(* The P-frame is shorter, or the I-frame is not longer; one of the sizes  *)
(* is a multiple of four.                                                  *)
MCCodedSizes == { <<9, 4>>, <<5, 7>> }

(* Small enough for all blocks with few nonzero coefficients.              *)
Sparse(values, most) ==
  UNION { { [k \in 0 .. Last |-> IF k \in places THEN f[k] ELSE 0] :
              f \in [places -> values] } :
          places \in { p \in SUBSET (0 .. Last) : Cardinality(p) <= most } }

(* One block with up to two nonzero coefficients, or three alike, or two   *)
(* blocks.                                                                 *)
SmallInputs ==
  { <<b>> : b \in Sparse({1, -3}, 2) \cup Sparse({1}, 3) \cup Sparse({-3}, 3) } \cup
  { <<b, c>> : b \in Sparse({-1, 2}, 1), c \in Sparse({1, -2}, 1) }

-----------------------------------------------------------------------------
(* A part at rest is in one of its initial states.                         *)
RestingPicture == CHOOSE p \in MCPictures : TRUE
RestingInput == CHOOSE i \in SmallInputs : TRUE

MCInit == /\ part \in {"file", "blocks"}
          /\ CodeInit
          /\ part = "file" => blocks = RestingInput
          /\ Init
          /\ part = "blocks" => prev = RestingPicture /\ coefficients = RestingPicture

(* After the last block both programs stop.                                *)
BlocksDone == stage \in {"done", "outside"} /\ UNCHANGED codeVars

MCNext ==
  /\ UNCHANGED part
  /\ \/ part = "file" /\ Next /\ UNCHANGED codeVars
     \/ part = "blocks" /\ (CodeNext \/ BlocksDone) /\ UNCHANGED vars

(* The fairness of Lossless; VideoFile has none.                           *)
MCSpec == /\ MCInit
          /\ [][MCNext]_<<part, vars, codeVars>>
          /\ WF_codeVars(part = "blocks" /\ CodeNext)
=============================================================================
