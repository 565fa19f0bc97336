---------------------------- MODULE MCMultiMain ----------------------------
(* Instances of MultiMain for TLC. *)
EXTENDS MultiMain
Symmetry == Permutations(Mains)
=============================================================================
