---------------------------- MODULE RegularMode ----------------------------
(***************************************************************************)
(* The main process in regular mode, from start to graceful shutdown or    *)
(* crash and start again: the executions, the wait tracker, the requests   *)
(* to stop, and the startup pass over the executions that were waiting in  *)
(* the concurrency queue (src/packages/cli/src/commands/start.ts).  Only   *)
(* the rows survive the process.                                           *)
(***************************************************************************)
EXTENDS ExecutionService

CONSTANTS MaxRestarts,       \* bound: how often the process goes down
          CreateModes,       \* the modes in which new executions arrive
          EarlyTraffic,      \* may they arrive before the startup pass?
          WebhookResumes     \* do requests to resume URLs arrive?

ASSUME ExecutionIds == Executions \subseteq Nat
ASSUME EnvironmentTypes ==
  /\ MaxRestarts \in Nat
  /\ CreateModes \subseteq Modes
  /\ EarlyTraffic \in BOOLEAN
  /\ WebhookResumes \in BOOLEAN

VARIABLES phase,       \* of the process
          restarts,
          enqueued     \* the ids that the startup pass has still to run

processVars == <<phase, restarts, enqueued>>
vars == <<queueVars, lifeVars, trackerVars, stopVars, processVars>>

(* starting: the server listens, the startup pass is to come. *)
Phases == {"starting", "up", "stopping", "down"}

Init ==
  /\ LifeInit
  /\ TrackerInit
  /\ StopInit
  /\ phase = "starting"
  /\ restarts = 0
  /\ enqueued = {}

IsUp == phase # "down"

-----------------------------------------------------------------------------
NewExecutionArrives(c, e, mode) ==
  /\ IsUp
  /\ phase = "starting" => EarlyTraffic
  /\ \A f \in Executions : f < e => db[f].status # "absent"
  /\ CreateExecution(c, e, mode)
  /\ UNCHANGED <<trackerVars, stopVars, processVars>>

(* runEnqueuedExecutions(): the rows that are new ... *)
NewExecutions == {e \in Executions : db[e].status = "new"}

(* Mutant: the rows that are running are looked up instead. *)
FindEnqueuedRunning ==
  /\ phase = "starting"
  /\ phase' = "up"
  /\ enqueued' = {e \in Executions : db[e].status = "running"}
  /\ UNCHANGED <<queueVars, lifeVars, trackerVars, stopVars, restarts>>

FindEnqueued ==
  /\ phase = "starting"
  /\ phase' = "up"
  /\ enqueued' = NewExecutions
  /\ UNCHANGED <<queueVars, lifeVars, trackerVars, stopVars, restarts>>

(* ... are run one after the other, the oldest first, each up to its first   *)
(* await in add(). Mutant: the list is not advanced.                         *)
IsOldest(e) == e \in enqueued /\ \A f \in enqueued : e <= f

RunEnqueuedAgain(c) ==
  \E e \in Executions :
    /\ IsUp
    /\ IsOldest(e)
    /\ IsFree(c)
    /\ Throttle(c, [Idle EXCEPT !.exec = e, !.mode = db[e].mode, !.resume = TRUE])
    /\ UNCHANGED <<db, active, isEnabled, trackerVars, stopVars, processVars>>

RunEnqueued(c) ==
  \E e \in Executions :
    /\ IsUp
    /\ IsOldest(e)
    /\ IsFree(c)
    /\ Throttle(c, [Idle EXCEPT !.exec = e, !.mode = db[e].mode, !.resume = TRUE])
    /\ enqueued' = enqueued \ {e}
    /\ UNCHANGED <<db, active, isEnabled, trackerVars, stopVars, phase, restarts>>

(* stopProcess(): the timers stop first, then the concurrency control, and   *)
(* the process exits once no entry is left.                                  *)
BeginShutdown ==
  /\ phase = "up"
  /\ restarts < MaxRestarts
  /\ phase' = "stopping"
  /\ StopTracking
  /\ UNCHANGED <<queueVars, lifeVars, stopVars, restarts, enqueued>>

DisableConcurrencyControl ==
  /\ phase = "stopping"
  /\ isEnabled
  /\ isEnabled' = FALSE
  /\ UNCHANGED <<queueVars, db, call, active, trackerVars, stopVars, processVars>>

(* The memory of the process is gone. *)
GoDown ==
  /\ phase' = "down"
  /\ restarts' = restarts + 1
  /\ enqueued' = {}
  /\ capacity' = Limit /\ queue' = <<>> /\ admitted' = {}
  /\ call' = [c \in Calls |-> Idle]
  /\ active' = [e \in Executions |-> NoEntry]
  /\ isEnabled' = TRUE
  /\ isTracking' = TRUE
  /\ waitingExecutions' = [e \in Executions |-> "none"]
  /\ query' = NoQuery
  /\ stop' = [s \in Requests |-> NotStopping]
  /\ UNCHANGED db

Exit ==
  /\ phase = "stopping" /\ ~isEnabled
  /\ \A e \in Executions : active[e] = NoEntry
  /\ GoDown

Crash ==
  /\ IsUp
  /\ restarts < MaxRestarts
  /\ GoDown

(* The event bus marks what was running as crashed, before the server and    *)
(* the wait tracker start.                                                   *)
Restart ==
  /\ phase = "down"
  /\ phase' = "starting"
  /\ db' = [e \in Executions |->
       IF db[e].status = "running" THEN [db[e] EXCEPT !.status = "crashed"] ELSE db[e]]
  /\ UNCHANGED <<queueVars, call, active, isEnabled, trackerVars, stopVars, restarts, enqueued>>

-----------------------------------------------------------------------------
(* The steps of the components, in a process that is up. *)

CallProceeds(c) == IsUp /\ Proceed(c) /\ UNCHANGED <<trackerVars, stopVars, processVars>>
CallDisturbed(c) == IsUp /\ Disturb(c) /\ UNCHANGED <<trackerVars, stopVars, processVars>>

Track == IsUp /\ (Poll \/ ArmTimers) /\ UNCHANGED <<stopVars, processVars>>
TimerFires(c, e) == IsUp /\ FireTimer(c, e) /\ UNCHANGED <<stopVars, processVars>>
RowIsRead(c) == IsUp /\ ReadWaiting(c) /\ UNCHANGED <<stopVars, processVars>>
ResumeWaiting(c) == (\E e \in Executions : TimerFires(c, e)) \/ RowIsRead(c)
ResumeOnRequest(c, e) ==
  IsUp /\ WebhookResumes /\ ResumeByWebhook(c, e) /\ UNCHANGED <<stopVars, processVars>>

StopArrives(s, e) == IsUp /\ RequestStop(s, e) /\ UNCHANGED processVars
StopIsServed(s) == IsUp /\ ServeStop(s) /\ UNCHANGED processVars

Next ==
  \/ \E c \in Calls :
       \/ \E e \in Executions, mode \in CreateModes : NewExecutionArrives(c, e, mode)
       \/ CallProceeds(c)
       \/ CallDisturbed(c)
       \/ RunEnqueued(c)
       \/ ResumeWaiting(c)
       \/ \E e \in Executions : ResumeOnRequest(c, e)
  \/ Track
  \/ \E s \in Requests : (\E e \in Executions : StopArrives(s, e)) \/ StopIsServed(s)
  \/ FindEnqueued
  \/ BeginShutdown
  \/ DisableConcurrencyControl
  \/ Exit
  \/ Crash
  \/ Restart

Safety == Init /\ [][Next]_vars

(* The event loop runs every callback that is due, the database answers,     *)
(* workflows end, and a process that went down is started again. Arrivals,   *)
(* requests, failures and crashes are not forced.                            *)
Fairness ==
  /\ \A c \in Calls : WF_vars(CallProceeds(c)) /\ WF_vars(RowIsRead(c))
  /\ SF_vars(\E c \in Calls : RunEnqueued(c))
  /\ \A e \in Executions : SF_vars(\E c \in Calls : TimerFires(c, e))
  /\ WF_vars(Track)
  /\ \A s \in Requests : WF_vars(StopIsServed(s))
  /\ WF_vars(FindEnqueued)
  /\ WF_vars(DisableConcurrencyControl)
  /\ WF_vars(Exit)
  /\ WF_vars(Restart)

Spec == Safety /\ Fairness

-----------------------------------------------------------------------------
TypeOK ==
  /\ QueueTypeOK
  /\ LifeTypeOK
  /\ TrackerTypeOK
  /\ stop \in [Requests -> StopStates]
  /\ phase \in Phases
  /\ restarts \in 0..MaxRestarts
  /\ enqueued \in SUBSET Executions

(* The process never misuses the queue: a call enters it only when it has    *)
(* neither capacity nor an item, and gives back only capacity that it holds, *)
(* although enqueue() and dequeue() are called from different promises.      *)
QueueUsedProperly == [][QueueNext \/ phase' = "down"]_queueVars

(* Every entry can still be settled: it holds the promise of a call for the  *)
(* same execution that is pending, or settled with its removal to come.      *)
EntriesHaveOwners ==
  \A e \in Executions : active[e] # NoEntry =>
    /\ call[active[e].owner].exec = e
    /\ call[active[e].owner].promise # "none"

(* Capacity is never held by nobody: a call that was let through is still    *)
(* on its way through add(), or its promise will give the capacity back      *)
(* because it is settled or its entry is in the map.                         *)
IsAccountable(c) ==
  \/ call[c].stage \in {"throttled", "marked"}
  \/ call[c].promise = "settled"
  \/ call[c].promise = "pending" /\ active[call[c].exec] # NoEntry
                                 /\ active[call[c].exec].owner = c

NoCapacityLost == isEnabled => \A c \in admitted : IsAccountable(c)

(* When writes fail, and executions are resumed that are running already,    *)
(* capacity may be lost; but only by a write that fails right after          *)
(* throttle(), and by another call for the same execution that replaces or   *)
(* deletes the entry of the first one.                                       *)
CapacityLostOnlyHere ==
  [][\A c \in admitted : isEnabled' /\ c \in admitted' /\ IsAccountable(c) /\ ~IsAccountable(c)' =>
       \/ MarkRunningFails(c)
       \/ \E d \in Calls \ {c} : call[d].exec = call[c].exec /\ (Register(d) \/ RemoveEntry(d))]_vars

(* A workflow that somebody still waits for can be stopped: its execution    *)
(* has an entry, and the workflow is attached to it. Stops and timeouts may  *)
(* come at any point between the two.                                        *)
RunsCanBeStopped ==
  \A c \in Calls : call[c].stage = "running" /\ call[c].promise = "pending" =>
    call[c].tracked /\ active[call[c].exec] = [owner |-> c, run |-> c]

(* An execution does not run twice at the same time. *)
NoDoubleRun ==
  \A c, d \in Calls :
    call[c].stage = "running" /\ call[d].stage = "running" /\ call[c].exec = call[d].exec
      => c = d

(* "Removal of active executions will no longer release capacity back, so    *)
(* that throttled executions cannot resume during shutdown": once shutdown   *)
(* has disabled the concurrency control, nothing leaves the queue.           *)
ThrottledStayDuringShutdown ==
  [][~isEnabled /\ phase' # "down" => UNCHANGED queueVars]_vars

(* An execution that was accepted is run, or stopped, even if the process    *)
(* goes down while it waits in the queue.                                    *)
NewEventuallyRun == \A e \in Executions : db[e].status = "new" ~> db[e].status # "new"

(* A waiting execution is resumed, also by another process after a restart.  *)
WaitingEventuallyResumed ==
  \A e \in Executions : db[e].status = "waiting" ~> db[e].status # "waiting"

(* A call that was let through gives its capacity back, or the process ends. *)
CapacityReturned == \A c \in Calls : c \in admitted ~> c \notin admitted

(* A shutdown comes to its end. *)
ShutdownCompletes == phase = "stopping" ~> phase # "stopping"
=============================================================================
