------------------------------ MODULE MCCaches ------------------------------
EXTENDS Caches

(* All layouts that LayoutAssumption allows, but for the names of lines:   *)
(* what may share a line does or does not.                                 *)
MCLayouts ==
  { [w \in Objects |-> {w} \cup UNION {pair \in shared : w \in pair}] :
    shared \in SUBSET Neighbours }
=============================================================================
