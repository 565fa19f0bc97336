------------------------------ MODULE MCScaling ------------------------------
(* Instances of Scaling for TLC. *)
EXTENDS Scaling
=============================================================================
