-------------------------- MODULE MCLosslessSource --------------------------
(***************************************************************************)
(* An instance of Lossless for TLC with the numbers of the source.         *)
(***************************************************************************)
EXTENDS Lossless

(* One block with one nonzero coefficient.                                 *)
SourceInputs ==
  { << [k \in 0 .. Last |-> IF k = place THEN v ELSE 0] >> :
      place \in 0 .. Last, v \in {1, -1, 2047} }
=============================================================================
