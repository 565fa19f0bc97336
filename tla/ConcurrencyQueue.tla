-------------------------- MODULE ConcurrencyQueue --------------------------
(***************************************************************************)
(* The FIFO queue that holds back production executions                    *)
(* (src/packages/cli/src/concurrency/concurrency-queue.ts).                *)
(*                                                                         *)
(* A call is one invocation of enqueue(): the promise it returns is        *)
(* identified with the call, so "resolve()" is the call joining admitted.  *)
(* One execution may have several calls (its first run and its resumes),   *)
(* hence several items, so calls and execution ids are kept apart.         *)
(* Everything here runs without an await in between: the operators below   *)
(* are atomic on the JavaScript event loop.                                *)
(***************************************************************************)
EXTENDS Integers, FiniteSets, SequencesExt

CONSTANTS Calls,        \* invocations of enqueue()
          Executions,   \* execution ids
          Limit         \* the initial capacity: the production limit

ASSUME CallsFinite == IsFiniteSet(Calls)
ASSUME LimitPositive == Limit \in Nat \ {0}

VARIABLES capacity,     \* may fall below 0: minus the number of waiting items
          queue,        \* waiting items, oldest first
          admitted      \* calls let through that have not given capacity back

queueVars == <<capacity, queue, admitted>>

Items == [executionId: Executions, call: Calls]

QueueInit ==
  /\ capacity = Limit
  /\ queue = <<>>
  /\ admitted = {}

(* The calls whose promise is still in the queue, and the ids getAll() returns. *)
QueuedCalls == {queue[i].call : i \in DOMAIN queue}
QueuedExecutions == {queue[i].executionId : i \in DOMAIN queue}

(* Mutant of resolveNext(): pop() for shift(). *)
ResolveNextNewest(q, S) ==
  IF q = <<>>
    THEN queue' = q /\ admitted' = S
    ELSE queue' = Front(q) /\ admitted' = S \cup {Last(q).call}

(* resolveNext() on queue q, with the calls S holding capacity. *)
ResolveNext(q, S) ==
  IF q = <<>>
    THEN queue' = q /\ admitted' = S
    ELSE queue' = Tail(q) /\ admitted' = S \cup {Head(q).call}

(* Mutants of enqueue(): the comparison is off by one, either way.           *)
EnqueueEarly(c, e) ==
  /\ capacity' = capacity - 1
  /\ IF capacity - 1 <= 0
       THEN /\ queue' = Append(queue, [executionId |-> e, call |-> c])
            /\ UNCHANGED admitted
       ELSE admitted' = admitted \cup {c} /\ UNCHANGED queue

EnqueueLate(c, e) ==
  /\ capacity' = capacity - 1
  /\ IF capacity - 1 < -1
       THEN /\ queue' = Append(queue, [executionId |-> e, call |-> c])
            /\ UNCHANGED admitted
       ELSE admitted' = admitted \cup {c} /\ UNCHANGED queue

Enqueue(c, e) ==
  /\ capacity' = capacity - 1
  /\ IF capacity - 1 < 0
       THEN /\ queue' = Append(queue, [executionId |-> e, call |-> c])
            /\ UNCHANGED admitted
       ELSE /\ admitted' = admitted \cup {c}
            /\ UNCHANGED queue

(* Mutant of dequeue(): capacity comes back but nobody is woken. *)
DequeueSilently(c) ==
  capacity' = capacity + 1 /\ admitted' = admitted \ {c} /\ UNCHANGED queue

(* dequeue() on behalf of a call that holds capacity. *)
Dequeue(c) ==
  /\ capacity' = capacity + 1
  /\ ResolveNext(queue, admitted \ {c})

(* findIndex(): the position of the first item of e. *)
IsFirstOf(i, e) ==
  /\ i \in DOMAIN queue
  /\ queue[i].executionId = e
  /\ \A j \in 1..(i - 1) : queue[j].executionId # e

(* Mutants of remove(): capacity is not given back; the baton is not passed. *)
RemoveItemKeepsCapacity(i) ==
  UNCHANGED capacity /\ ResolveNext(RemoveAt(queue, i), admitted)

RemoveItemSilently(i) ==
  /\ capacity' = capacity + 1
  /\ queue' = RemoveAt(queue, i)
  /\ UNCHANGED admitted

(* remove() of an execution that has an item at i; without one it does nothing. *)
RemoveItem(i) ==
  /\ capacity' = capacity + 1
  /\ ResolveNext(RemoveAt(queue, i), admitted)

-----------------------------------------------------------------------------
(* The queue alone, its users free to call it in any order. *)

Arrive(c, e) == c \notin admitted \cup QueuedCalls /\ Enqueue(c, e)
Leave(c) == c \in admitted /\ Dequeue(c)
RemoveExecution(e) == \E i \in DOMAIN queue : IsFirstOf(i, e) /\ RemoveItem(i)

QueueNext ==
  \/ \E c \in Calls, e \in Executions : Arrive(c, e)
  \/ \E c \in Calls : Leave(c)
  \/ \E e \in Executions : RemoveExecution(e)

(* An execution that was let through eventually ends and gives capacity back. *)
QueueFairness == \A c \in Calls : WF_queueVars(Leave(c))

QueueSafety == QueueInit /\ [][QueueNext]_queueVars
QueueSpec == QueueSafety /\ QueueFairness

-----------------------------------------------------------------------------
QueueTypeOK ==
  /\ capacity \in Int
  /\ queue \in Seq(Items)
  /\ admitted \in SUBSET Calls

(* Capacity is never lost and never invented: what is missing from the limit *)
(* is exactly one unit for each call let through and one for each waiting    *)
(* item, however enqueue(), dequeue() and remove() interleave.               *)
CapacityAccounting ==
  capacity = Limit - Cardinality(admitted) - Len(queue)

(* Nothing waits while there is room: an item is in the queue only when at   *)
(* least Limit calls hold capacity.                                          *)
WorkConserving == queue # <<>> => Cardinality(admitted) >= Limit

(* A call's promise is resolved at most once and waits in one place: it is   *)
(* never both let through and queued, nor queued twice.                      *)
OnePlace ==
  /\ admitted \cap QueuedCalls = {}
  /\ \A i, j \in DOMAIN queue : queue[i].call = queue[j].call => i = j

(* First come, first served: when a call is let through, no item that was   *)
(* older than the call stays behind in the queue.                            *)
OlderThan(i, c) == \A j \in DOMAIN queue : queue[j].call = c => i < j

NoOvertaking ==
  [][\A c \in admitted' \ admitted : \A i \in DOMAIN queue :
       OlderThan(i, c) => queue[i].call \notin QueuedCalls']_queueVars

(* Only remove() may push the number of calls let through beyond the limit:  *)
(* enqueue() admits within it and dequeue() hands one unit on.               *)
OnlyRemovalOverruns ==
  [][Cardinality(admitted') > Limit /\ admitted \subseteq admitted' /\ admitted # admitted'
       => \E e \in Executions : RemoveExecution(e)]_queueVars

(* Every waiting call is let through or removed. *)
NoStarvation == \A c \in Calls : c \in QueuedCalls ~> c \notin QueuedCalls

(* What the configuration promises: "Max production executions allowed to    *)
(* run concurrently" (config/schema.ts). remove() breaks it.                 *)
LimitRespected == Cardinality(admitted) <= Limit

-----------------------------------------------------------------------------
(* The counter implements a rule without a counter: see Admission. *)
Abstract == INSTANCE Admission WITH running <- admitted, waiting <- queue
RefinesAdmission == Abstract!AdmissionSpec
=============================================================================
