--------------------------- MODULE MCRegularMode ---------------------------
(* Instances of RegularMode for TLC. *)
EXTENDS RegularMode
Symmetry == Permutations(Calls) \cup Permutations(Requests)
=============================================================================
