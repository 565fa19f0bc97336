-------------------------- MODULE MCConcurrencyQueue --------------------------
(* Instances of ConcurrencyQueue for TLC, and the mutants of its operators. *)
EXTENDS ConcurrencyQueue
=============================================================================
