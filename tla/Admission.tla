------------------------------ MODULE Admission ------------------------------
(***************************************************************************)
(* What the concurrency queue promises, without its capacity counter: a    *)
(* call starts at once when fewer than Limit run, and otherwise waits in   *)
(* line; whenever a running call ends, or a waiting one is withdrawn, the  *)
(* longest waiting call takes over.                                        *)
(***************************************************************************)
EXTENDS Integers, FiniteSets, SequencesExt

CONSTANTS Calls, Executions, Limit
VARIABLES running, waiting

admissionVars == <<running, waiting>>

AdmissionInit == running = {} /\ waiting = <<>>

HasRoom == Cardinality(running) < Limit

(* The head of line q, if any, joins the calls S. *)
TakeOver(q, S) ==
  \/ q = <<>> /\ waiting' = q /\ running' = S
  \/ q # <<>> /\ waiting' = Tail(q) /\ running' = S \cup {Head(q).call}

StartAtOnce(c) ==
  /\ HasRoom
  /\ running' = running \cup {c}
  /\ UNCHANGED waiting

Wait(c, e) ==
  /\ ~HasRoom
  /\ waiting' = Append(waiting, [executionId |-> e, call |-> c])
  /\ UNCHANGED running

Finish(c) == c \in running /\ TakeOver(waiting, running \ {c})

Withdraw(i) == i \in DOMAIN waiting /\ TakeOver(RemoveAt(waiting, i), running)

AdmissionNext ==
  \/ \E c \in Calls \ running : StartAtOnce(c) \/ \E e \in Executions : Wait(c, e)
  \/ \E c \in Calls : Finish(c)
  \/ \E i \in DOMAIN waiting : Withdraw(i)

AdmissionSpec == AdmissionInit /\ [][AdmissionNext]_admissionVars
=============================================================================
