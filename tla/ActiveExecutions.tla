-------------------------- MODULE ActiveExecutions --------------------------
(***************************************************************************)
(* One execution from its creation to its end in a process that runs       *)
(* workflows itself: ActiveExecutions, ConcurrencyControlService and the   *)
(* parts of WorkflowRunner, WorkflowExecute and the save hooks that change *)
(* shared state (src/packages/cli/src).                                    *)
(*                                                                         *)
(* A call is one invocation of WorkflowRunner.run(), first run or resume.  *)
(* JavaScript runs a call without interruption up to its next await, so an *)
(* action is what happens between two awaits, and a write to the database  *)
(* takes effect in a step of its own, before the caller continues.         *)
(***************************************************************************)
EXTENDS ConcurrencyQueue

CONSTANTS NoCall, NoExecution, NoEntry,
          RunOutcomes,      \* the ways in which workflows end here
          Pausing,          \* the executions whose workflows may pause
          Faults            \* what may go wrong here

VARIABLES db,         \* the execution rows
          call,       \* the invocations of run() in this process
          active,     \* ActiveExecutions.activeExecutions
          isEnabled   \* ConcurrencyControlService.isEnabled

lifeVars == <<db, call, active, isEnabled>>

(* Of the modes, only manual stands for those that are never limited and     *)
(* webhook for those that are.                                               *)
Modes == {"webhook", "manual"}
IsUnlimited(mode) == mode = "manual"

Statuses == {"absent", "new", "running", "waiting",
             "success", "error", "canceled", "crashed"}
Outcomes == {"success", "error", "canceled", "waiting"}

ASSUME RunOutcomesType == RunOutcomes \subseteq Outcomes /\ Pausing \subseteq Executions
ASSUME FaultsType == Faults \subseteq {"storage", "permission", "start", "timeout"}

(* A row: its waitTill (set or not), whether its data holds an error, and    *)
(* the mode it was created with.                                             *)
Rows == [status: Statuses, waitTill: BOOLEAN, hasError: BOOLEAN, mode: Modes]
NoRow == [status |-> "absent", waitTill |-> FALSE, hasError |-> FALSE, mode |-> "manual"]

(* An entry: the call whose postExecutePromise it holds, and the call whose  *)
(* workflowExecution is attached to it.                                      *)
Entries == [owner: Calls, run: Calls \cup {NoCall}]
ASSUME NoEntryType == NoEntry \notin Entries

(* The awaits of a call. *)
Stages == {"idle",        \* not called
           "reading",     \* WaitTracker.startExecution: its query
           "ready",       \* before throttle()
           "throttled",   \* in throttle(): queued, or just let through
           "passed",      \* after a throttle() that did not use the queue
           "marked",      \* the row was set to running, add() is to go on
           "registered",  \* in the permission check
           "starting",    \* the row was set to running again
           "running",     \* the workflow's nodes run
           "saving",      \* the loop ended, the final hook is to write the row
           "saved"}       \* the final hook has written it

(* tracked: run() waits for the workflow to end.  promise: of its            *)
(* postExecutePromise.  canceled: isCanceled of its workflowExecution, and   *)
(* hook: the write of the hook that cancelling it fired is still to come.    *)
CallStates ==
  [stage: Stages, exec: Executions \cup {NoExecution}, mode: Modes, resume: BOOLEAN,
   outcome: Outcomes \cup {"none"}, tracked: BOOLEAN,
   promise: {"none", "pending", "settled"}, canceled: BOOLEAN, hook: BOOLEAN]

Idle == [stage |-> "idle", exec |-> NoExecution, mode |-> "manual", resume |-> FALSE,
         outcome |-> "none", tracked |-> FALSE,
         promise |-> "none", canceled |-> FALSE, hook |-> FALSE]

LifeTypeOK ==
  /\ db \in [Executions -> Rows]
  /\ call \in [Calls -> CallStates]
  /\ active \in [Executions -> Entries \cup {NoEntry}]
  /\ isEnabled \in BOOLEAN

(* The call ends; what is left of it, if anything, is its promise and hook. *)
Return(r) ==
  IF r.promise = "none" /\ ~r.hook
    THEN Idle
    ELSE [r EXCEPT !.stage = "idle", !.tracked = FALSE, !.canceled = FALSE, !.outcome = "none"]

IsFree(c) ==
  /\ call[c] = Idle
  /\ c \notin admitted \cup QueuedCalls
  /\ \A e \in Executions : active[e] # NoEntry => active[e].run # c

ProcessInit ==
  /\ QueueInit
  /\ call = [c \in Calls |-> Idle]
  /\ active = [e \in Executions |-> NoEntry]
  /\ isEnabled = TRUE

LifeInit == ProcessInit /\ db = [e \in Executions |-> NoRow]

-----------------------------------------------------------------------------
(* ConcurrencyControlService *)

IsQueued(e) == isEnabled /\ e \in QueuedExecutions

(* throttle(), called by call c in state r. *)
Throttle(c, r) ==
  IF ~isEnabled \/ IsUnlimited(r.mode)
    THEN /\ call' = [call EXCEPT ![c] = [r EXCEPT !.stage = "passed"]]
         /\ UNCHANGED queueVars
    ELSE /\ call' = [call EXCEPT ![c] = [r EXCEPT !.stage = "throttled"]]
         /\ Enqueue(c, r.exec)

(* Mutant of release(): a disabled service still wakes the next execution. *)
ReleaseAlways(c) ==
  IF IsUnlimited(call[c].mode) \/ c \notin admitted
    THEN UNCHANGED queueVars
    ELSE Dequeue(c)

(* release() at the end of call c. *)
Release(c) ==
  IF ~isEnabled \/ IsUnlimited(call[c].mode)
    THEN UNCHANGED queueVars
    ELSE Dequeue(c)

(* throttle() has returned. *)
IsLetThrough(c) ==
  \/ call[c].stage = "passed"
  \/ call[c].stage = "throttled" /\ c \in admitted

-----------------------------------------------------------------------------
(* Changes to the calls that the operations below share. *)

(* A promise settles once. *)
Settle(f, c) ==
  IF f[c].promise = "pending" THEN [f EXCEPT ![c].promise = "settled"] ELSE f

(* cancel() of the workflow execution of c, which fires the final hook. *)
Cancel(f, c) ==
  IF f[c].stage \in {"running", "saving"} /\ ~f[c].canceled
    THEN [f EXCEPT ![c].canceled = TRUE, ![c].hook = TRUE]
    ELSE f

(* ActiveExecutions.stopExecution(). *)
StopExecution(f, e) ==
  IF active[e] = NoEntry THEN f
  ELSE Settle(IF active[e].run = NoCall THEN f ELSE Cancel(f, active[e].run),
              active[e].owner)

(* ActiveExecutions.finalizeExecution(); without an entry it throws. *)
FinalizeExecution(f, e) ==
  IF active[e] = NoEntry THEN f ELSE Settle(f, active[e].owner)

-----------------------------------------------------------------------------
(* ActiveExecutions.add() *)

(* A new execution: its row is inserted. *)
CreateExecution(c, e, mode) ==
  /\ IsFree(c)
  /\ db[e].status = "absent"
  /\ db' = [db EXCEPT ![e] = [NoRow EXCEPT !.status = "new", !.mode = mode]]
  /\ call' = [call EXCEPT ![c] = [Idle EXCEPT !.stage = "ready", !.exec = e, !.mode = mode]]
  /\ UNCHANGED <<queueVars, active, isEnabled>>

EnterThrottle(c) ==
  /\ call[c].stage = "ready"
  /\ Throttle(c, call[c])
  /\ UNCHANGED <<db, active, isEnabled>>

(* setRunning() of a new execution, updateExistingExecution() of a resumed one. *)
MarkRunning(c) ==
  /\ IsLetThrough(c)
  /\ LET row == db[call[c].exec]
     IN db' = [db EXCEPT ![call[c].exec] =
          [row EXCEPT !.status = "running",
                      !.waitTill = IF call[c].resume THEN FALSE ELSE row.waitTill]]
  /\ call' = [call EXCEPT ![c].stage = "marked"]
  /\ UNCHANGED <<queueVars, active, isEnabled>>

(* That update fails: run() rejects, and nothing gives the capacity back. *)
MarkRunningFails(c) ==
  /\ "storage" \in Faults
  /\ IsLetThrough(c)
  /\ call' = [call EXCEPT ![c] = Idle]
  /\ UNCHANGED <<queueVars, db, active, isEnabled>>

(* The entry is set, in place of one that may still be there. *)
Register(c) ==
  /\ call[c].stage = "marked"
  /\ active' = [active EXCEPT ![call[c].exec] = [owner |-> c, run |-> NoCall]]
  /\ call' = [call EXCEPT ![c].stage = "registered", ![c].promise = "pending"]
  /\ UNCHANGED <<queueVars, db, isEnabled>>

(* Mutants of the finally-callback: it runs twice; the entry stays; the       *)
(* capacity is not given back.                                               *)
RemoveEntryTwice(c) ==
  /\ call[c].promise = "settled"
  /\ Release(c)
  /\ active' = [active EXCEPT ![call[c].exec] = NoEntry]
  /\ UNCHANGED <<db, call, isEnabled>>

RemoveEntryKeepsEntry(c) ==
  /\ call[c].promise = "settled"
  /\ Release(c)
  /\ call' = [call EXCEPT ![c] =
       LET r == [@ EXCEPT !.promise = "none"]
       IN IF r.stage = "idle" THEN Return(r) ELSE r]
  /\ UNCHANGED <<db, active, isEnabled>>

RemoveEntryKeepsCapacity(c) ==
  /\ call[c].promise = "settled"
  /\ active' = [active EXCEPT ![call[c].exec] = NoEntry]
  /\ call' = [call EXCEPT ![c] =
       LET r == [@ EXCEPT !.promise = "none"]
       IN IF r.stage = "idle" THEN Return(r) ELSE r]
  /\ UNCHANGED <<queueVars, db, isEnabled>>

(* The finally-callback of a settled postExecutePromise. It deletes the      *)
(* entry of the execution id, whoever owns it by now.                        *)
RemoveEntry(c) ==
  /\ call[c].promise = "settled"
  /\ Release(c)
  /\ active' = [active EXCEPT ![call[c].exec] = NoEntry]
  /\ call' = [call EXCEPT ![c] =
       LET r == [@ EXCEPT !.promise = "none"]
       IN IF r.stage = "idle" THEN Return(r) ELSE r]
  /\ UNCHANGED <<db, isEnabled>>

-----------------------------------------------------------------------------
(* WorkflowRunner.run() and runMainProcess() *)

(* The permission check fails: the final hook saves a failed execution. *)
RefuseRun(c) ==
  /\ "permission" \in Faults
  /\ call[c].stage = "registered"
  /\ db' = [db EXCEPT ![call[c].exec] = [@ EXCEPT !.status = "error", !.hasError = TRUE]]
  /\ call' = [call EXCEPT ![c].stage = "saved"]
  /\ UNCHANGED <<queueVars, active, isEnabled>>

(* A run with a response promise cannot attach it to a missing entry. *)
RejectRun(c) ==
  /\ call[c].stage = "registered"
  /\ active[call[c].exec] = NoEntry
  /\ call' = [call EXCEPT ![c] = Return(@)]
  /\ UNCHANGED <<queueVars, db, active, isEnabled>>

(* updateStatus(executionId, 'running') *)
PrepareRun(c) ==
  /\ call[c].stage = "registered"
  /\ db' = [db EXCEPT ![call[c].exec].status = "running"]
  /\ call' = [call EXCEPT ![c].stage = "starting"]
  /\ UNCHANGED <<queueVars, active, isEnabled>>

(* That update fails: run() rejects, and its entry stays behind. *)
PrepareRunFails(c) ==
  /\ "storage" \in Faults
  /\ call[c].stage = "registered"
  /\ call' = [call EXCEPT ![c] = Return(@)]
  /\ UNCHANGED <<queueVars, db, active, isEnabled>>

(* Mutant: the workflow is not attached to an entry that is there. *)
StartRunDetached(c) ==
  /\ call[c].stage = "starting"
  /\ call' = [call EXCEPT ![c].stage = "running", ![c].tracked = TRUE]
  /\ UNCHANGED <<queueVars, db, active, isEnabled>>

(* The workflow starts and is then attached to the entry. When the entry is  *)
(* gone attaching throws, run() rejects, and the workflow runs on alone.     *)
StartRun(c) ==
  /\ call[c].stage = "starting"
  /\ LET e == call[c].exec
     IN IF active[e] = NoEntry
          THEN /\ call' = [call EXCEPT ![c].stage = "running"]
               /\ UNCHANGED active
          ELSE /\ call' = [call EXCEPT ![c].stage = "running", ![c].tracked = TRUE]
               /\ active' = [active EXCEPT ![e].run = c]
  /\ UNCHANGED <<queueVars, db, isEnabled>>

(* The workflow cannot start: processError() finalizes the entry first and   *)
(* runs the final hook afterwards; without an entry it throws before it.     *)
StartRunFails(c) ==
  /\ "start" \in Faults
  /\ call[c].stage = "starting"
  /\ LET e == call[c].exec
         f == FinalizeExecution(call, e)
     IN call' = [f EXCEPT ![c] =
          IF active[e] = NoEntry THEN Return(@)
          ELSE [@ EXCEPT !.stage = "saving", !.outcome = "error"]]
  /\ UNCHANGED <<queueVars, db, active, isEnabled>>

(* The loop over the nodes ends; it ends as canceled also when it finds      *)
(* between two nodes that its time is up.                                    *)
EndRun(c, outcome) ==
  /\ call[c].stage = "running"
  /\ outcome \in IF call[c].canceled THEN {"canceled"} ELSE RunOutcomes
  /\ outcome = "waiting" => call[c].exec \in Pausing
  /\ call' = [call EXCEPT ![c].stage = "saving", ![c].outcome = outcome]
  /\ UNCHANGED <<queueVars, db, active, isEnabled>>

(* A node that heeded the abort signal of the cancellation ends the loop     *)
(* with an AbortError, for which the final hook is not run again.            *)
EndAborted(c) ==
  /\ call[c].stage = "running"
  /\ call[c].canceled
  /\ call' = [call EXCEPT ![c] = IF @.tracked THEN [@ EXCEPT !.stage = "saved"] ELSE Return(@)]
  /\ UNCHANGED <<queueVars, db, active, isEnabled>>

(* The row that the final hook writes; an undefined waitTill is not written. *)
SavedRow(row, outcome) ==
  [row EXCEPT !.status = outcome,
              !.waitTill = (outcome = "waiting") \/ @,
              !.hasError = outcome \in {"error", "canceled"}]

SaveRun(c) ==
  /\ call[c].stage = "saving"
  /\ db' = [db EXCEPT ![call[c].exec] = SavedRow(@, call[c].outcome)]
  /\ call' = [call EXCEPT ![c] = IF @.tracked THEN [@ EXCEPT !.stage = "saved"] ELSE Return(@)]
  /\ UNCHANGED <<queueVars, active, isEnabled>>

(* Mutant of the then-callback: the entry is not finalized. *)
FinalizeRunForgets(c) ==
  /\ call[c].stage = "saved"
  /\ call' = [call EXCEPT ![c] = Return(@)]
  /\ UNCHANGED <<queueVars, db, active, isEnabled>>

(* The then-callback of the workflow execution: it finalizes whatever entry  *)
(* the execution id has; without one it throws, and so does processError().  *)
FinalizeRun(c) ==
  /\ call[c].stage = "saved"
  /\ LET f == FinalizeExecution(call, call[c].exec)
     IN call' = [f EXCEPT ![c] = Return(@)]
  /\ UNCHANGED <<queueVars, db, active, isEnabled>>

(* The final hook that cancelling fired writes its row. *)
SaveCanceled(c) ==
  /\ call[c].hook
  /\ db' = [db EXCEPT ![call[c].exec] = [@ EXCEPT !.status = "canceled", !.hasError = FALSE]]
  /\ call' = [call EXCEPT ![c] =
       LET r == [@ EXCEPT !.hook = FALSE]
       IN IF r.stage = "idle" THEN Return(r) ELSE r]
  /\ UNCHANGED <<queueVars, active, isEnabled>>

(* The timer that limits the run's time, cleared by the then-callback. *)
TimeOut(c) ==
  /\ "timeout" \in Faults
  /\ call[c].stage \in {"running", "saving", "saved"}
  /\ call[c].tracked /\ ~call[c].canceled
  /\ active[call[c].exec] # NoEntry
  /\ call' = StopExecution(call, call[c].exec)
  /\ UNCHANGED <<queueVars, db, active, isEnabled>>

(* The steps a call takes on its own, and those that something else decides. *)
Proceed(c) ==
  \/ EnterThrottle(c)
  \/ MarkRunning(c)
  \/ Register(c)
  \/ RemoveEntry(c)
  \/ PrepareRun(c)
  \/ StartRun(c)
  \/ \E outcome \in Outcomes : EndRun(c, outcome)
  \/ EndAborted(c)
  \/ SaveRun(c)
  \/ FinalizeRun(c)
  \/ SaveCanceled(c)

Disturb(c) ==
  \/ MarkRunningFails(c)
  \/ RefuseRun(c)
  \/ RejectRun(c)
  \/ PrepareRunFails(c)
  \/ StartRunFails(c)
  \/ TimeOut(c)
=============================================================================
