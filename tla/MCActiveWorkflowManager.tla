---------------------- MODULE MCActiveWorkflowManager ----------------------
(* Instances of ActiveWorkflowManager for TLC. *)
EXTENDS ActiveWorkflowManager
Symmetry == Permutations(Mains) \cup Permutations(Triggers)
=============================================================================
