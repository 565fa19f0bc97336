------------------------------- MODULE Scaling -------------------------------
(***************************************************************************)
(* Queue mode: a main enqueues executions as jobs (workflow-runner.ts,     *)
(* scaling/scaling.service.ts), workers process them                       *)
(* (scaling/job-processor.ts), and the two meet in the rows of the         *)
(* database and in the queue of Bull, which is not part of the repository: *)
(* a worker holds a job under a lock, and a job whose lock has expired     *)
(* goes back to the queue, or fails when that happens too often.           *)
(***************************************************************************)
EXTENDS Naturals, FiniteSets

CONSTANTS Executions, Workers, NoWorker,
          Concurrency,       \* how many jobs a worker processes at a time
          MaxStalledCount,   \* how often Bull puts a stalled job back
          BatchSize,         \* how many executions one check of queue recovery reads
          Unsaved,           \* the outcomes that the workflow's settings do not save
          Recovering,        \* whether the main schedules queue recovery
          Faults,            \* what may happen to a behaviour, of FaultKinds
          MaxFaults          \* bound: how many of them, each once

ASSUME NoWorkerAssumption == NoWorker \notin Workers
ASSUME StalledAssumption == MaxStalledCount \in Nat

VARIABLES row,          \* the status of each execution in the database
          main,         \* how far WorkflowRunner has come with it
          entry,        \* whether ActiveExecutions of the main has it
          cancelling,   \* its PCancelable is cancelled and has yet to stop the job
          stop,         \* how far a request to stop it has come
          recovery,     \* how far queue recovery has come
          listed,       \* the executions it has listed
          job,          \* where the job of each execution is
          holder,       \* the worker with the lock of the job
          stalled,      \* how often the job was found without a lock
          event,        \* how its job has ended, which Bull tells the main
          unheard,      \* the executions of which the main will not hear it
          phase,        \* whether each worker runs
          proc,         \* how far each worker has come with each execution
          runningJobs,  \* JobProcessor.runningJobs of each worker
          aborts,       \* the abort messages on their way to each worker
          log,          \* the executions unfinished in the event log of each worker
          had           \* the faults that there have been

mainVars == <<main, entry, cancelling>>
recoveryVars == <<recovery, listed>>
jobVars == <<job, holder, stalled, event, unheard>>
workerVars == <<phase, proc, runningJobs, aborts, log>>
vars == <<row, mainVars, stop, recoveryVars, jobVars, workerVars, had>>

InProgress == {"new", "running"}
Final == {"success", "error", "canceled", "crashed"}
Stoppable == InProgress \cup {"waiting"}
Rows == {"none", "deleted"} \cup Stoppable \cup Final
Alive == {"up", "stopping"}

(* addJob(), a hook of the main or processJob() fails; a request to stop an  *)
(* execution; a lock that expires although its worker runs; a worker that    *)
(* crashes or gets a signal; a crash of the main; an event of Bull that does *)
(* not reach the main.                                                       *)
FaultKinds == {"add", "hook", "job", "stop", "lapse", "end", "restart", "loss"}

ASSUME FaultsAssumption == Faults \subseteq FaultKinds

Init ==
  /\ row = [e \in Executions |-> "none"]
  /\ main = [e \in Executions |-> "idle"]
  /\ entry = [e \in Executions |-> FALSE]
  /\ cancelling = [e \in Executions |-> FALSE]
  /\ stop = [e \in Executions |-> "idle"]
  /\ recovery = "idle"
  /\ listed = {}
  /\ job = [e \in Executions |-> "none"]
  /\ holder = [e \in Executions |-> NoWorker]
  /\ stalled = [e \in Executions |-> 0]
  /\ event = [e \in Executions |-> "none"]
  /\ phase = [w \in Workers |-> "up"]
  /\ proc = [w \in Workers |-> [e \in Executions |-> "idle"]]
  /\ runningJobs = [w \in Workers |-> {}]
  /\ aborts = [w \in Workers |-> {}]
  /\ log = [w \in Workers |-> {}]
  /\ unheard = {}
  /\ had = {}

Fault(kind) ==
  /\ kind \in Faults
  /\ kind \notin had /\ Cardinality(had) < MaxFaults
  /\ had' = had \cup {kind}

(* An update by id changes nothing when the row is gone. *)
Written(r, E, status) ==
  [e \in Executions |-> IF e \in E /\ r[e] # "deleted" THEN status ELSE r[e]]
Write(e, status) == row' = Written(row, {e}, status)

Goto(e, step) == main' = [main EXCEPT ![e] = step]
Drop(e) == entry' = [entry EXCEPT ![e] = FALSE]

-----------------------------------------------------------------------------
(* The main: WorkflowRunner.run() and enqueueExecution() *)

Register(e) ==
  /\ main[e] = "idle"
  /\ Write(e, "new")
  /\ entry' = [entry EXCEPT ![e] = TRUE]
  /\ Goto(e, "registered")
  /\ UNCHANGED <<cancelling, stop, recoveryVars, jobVars, workerVars, had>>

Enqueue(e) ==
  /\ main[e] = "registered"
  /\ job' = [job EXCEPT ![e] = "wait"]
  /\ Goto(e, "enqueued")
  /\ UNCHANGED <<row, entry, cancelling, stop, recoveryVars, holder, stalled, event, unheard,
                 workerVars, had>>

(* addJob() or a hook before the execution fails: run() throws. *)
Refuse(e) ==
  /\ \/ main[e] = "registered" /\ Fault("add")
     \/ main[e] = "enqueued" /\ Fault("hook")
  /\ Goto(e, "refused")
  /\ UNCHANGED <<row, entry, cancelling, stop, recoveryVars, jobVars, workerVars>>

Watch(e) ==
  /\ main[e] = "enqueued"
  /\ Goto(e, "watching")
  /\ UNCHANGED <<row, entry, cancelling, stop, recoveryVars, jobVars, workerVars, had>>

(* job.finished() *)
Answer(e) ==
  /\ main[e] = "watching" /\ e \notin unheard
  /\ \/ event[e] = "completed" /\ Goto(e, "reading")
     \/ event[e] = "failed" /\ Goto(e, "failing")
  /\ UNCHANGED <<row, entry, cancelling, stop, recoveryVars, jobVars, workerVars, had>>

(* Mutant: without the watchdog. *)
NoWatchdog(e) == FALSE /\ UNCHANGED vars

(* Mutant: the watchdog takes a job that it cannot read for finished. *)
WatchdogEager(e) ==
  /\ main[e] = "watching"
  /\ Goto(e, "reading")
  /\ UNCHANGED <<row, entry, cancelling, stop, recoveryVars, jobVars, workerVars, had>>

(* The watchdog does not find the job any more, which it takes for success. *)
Watchdog(e) ==
  /\ main[e] = "watching"
  /\ job[e] = "gone"
  /\ Goto(e, "reading")
  /\ UNCHANGED <<row, entry, cancelling, stop, recoveryVars, jobVars, workerVars, had>>

(* processError(): an execution that was successful after all is left alone; *)
(* finalizeExecution() throws when the entry is gone.                        *)
ProcessError(e) ==
  /\ main[e] \in {"failing", "refused"}
  /\ IF row[e] = "success"
     THEN Goto(e, IF main[e] = "failing" THEN "reading" ELSE "thrown") /\ UNCHANGED entry
     ELSE /\ Goto(e, IF main[e] = "failing" THEN IF entry[e] THEN "saving" ELSE "done"
                                            ELSE IF entry[e] THEN "throwing" ELSE "thrown")
          /\ Drop(e)
  /\ UNCHANGED <<row, cancelling, stop, recoveryVars, jobVars, workerVars, had>>

(* The hooks save the error.  What follows in the watcher finds no entry.    *)
SaveError(e) ==
  /\ main[e] \in {"saving", "throwing"}
  /\ Write(e, "error")
  /\ Goto(e, IF main[e] = "saving" THEN "done" ELSE "thrown")
  /\ UNCHANGED <<entry, cancelling, stop, recoveryVars, jobVars, workerVars, had>>

(* determineFinalExecutionStatus(): what has no error is a success, also an  *)
(* execution that waits, since the main does not hand on that it does.       *)
Outcome(status) == IF status \in Stoppable THEN "success" ELSE status
ShouldNotSave(status) ==
  IF Outcome(status) = "success" THEN "success" \in Unsaved ELSE "error" \in Unsaved

(* The result is read from the row and given to those who wait for it. *)
Finalize(e) ==
  /\ main[e] = "reading"
  /\ IF row[e] = "deleted"
     THEN Goto(e, "done") /\ UNCHANGED entry
     ELSE /\ Goto(e, IF entry[e] /\ ShouldNotSave(row[e]) THEN "deleting" ELSE "done")
          /\ Drop(e)
  /\ UNCHANGED <<row, cancelling, stop, recoveryVars, jobVars, workerVars, had>>

HardDelete(e) ==
  /\ main[e] = "deleting"
  /\ row' = [row EXCEPT ![e] = "deleted"]
  /\ Goto(e, "done")
  /\ UNCHANGED <<entry, cancelling, stop, recoveryVars, jobVars, workerVars, had>>

(* A crash of the main and its restart. *)
RestartMain ==
  /\ Fault("restart")
  /\ main' = [e \in Executions |-> IF main[e] = "idle" THEN "idle" ELSE "done"]
  /\ entry' = [e \in Executions |-> FALSE]
  /\ cancelling' = [e \in Executions |-> FALSE]
  /\ stop' = [e \in Executions |-> IF stop[e] = "idle" THEN "idle" ELSE "done"]
  /\ recovery' = "idle" /\ listed' = {}
  /\ UNCHANGED <<row, jobVars, workerVars>>

-----------------------------------------------------------------------------
(* Stopping an execution *)

(* ScalingService.stopJob() *)
StopJob(e) ==
  IF job[e] = "active"
  THEN /\ aborts' = [w \in Workers |-> IF phase[w] \in Alive THEN aborts[w] \cup {e} ELSE aborts[w]]
       /\ UNCHANGED jobVars
  ELSE /\ job' = [job EXCEPT ![e] = IF @ = "wait" THEN "gone" ELSE @]
       /\ UNCHANGED <<holder, stalled, event, unheard, aborts>>

StopStep(e, from, to) == stop[e] = from /\ stop' = [stop EXCEPT ![e] = to]

RequestStop(e) ==
  /\ row[e] \in Stoppable
  /\ StopStep(e, "idle", "stoppable")
  /\ Fault("stop")
  /\ UNCHANGED <<row, mainVars, recoveryVars, jobVars, workerVars>>

(* ActiveExecutions.stopExecution() *)
StopEntry(e) ==
  /\ StopStep(e, "stoppable", "finding")
  /\ cancelling' = [cancelling EXCEPT ![e] =
       entry[e] /\ main[e] \in {"watching", "failing", "reading"}]
  /\ Drop(e)
  /\ UNCHANGED <<row, main, recoveryVars, jobVars, workerVars, had>>

FindJob(e) ==
  /\ StopStep(e, "finding", IF job[e] \in {"wait", "active"} THEN "stopping" ELSE "writing")
  /\ UNCHANGED <<row, mainVars, recoveryVars, jobVars, workerVars, had>>

StopFoundJob(e) ==
  /\ \/ StopStep(e, "stopping", "writing")
     \/ job[e] = "gone" /\ StopStep(e, "stopping", "done")  \* no job to send the message for
  /\ StopJob(e)
  /\ UNCHANGED <<row, mainVars, recoveryVars, phase, proc, runningJobs, log, had>>

StopDuringRun(e) ==
  /\ StopStep(e, "writing", "done")
  /\ Write(e, "canceled")
  /\ UNCHANGED <<mainVars, recoveryVars, jobVars, workerVars, had>>

(* The PCancelable stops the job; its processError() finds no entry. *)
CancelJob(e) ==
  /\ cancelling[e]
  /\ cancelling' = [cancelling EXCEPT ![e] = FALSE]
  /\ StopJob(e)
  /\ UNCHANGED <<row, main, entry, stop, recoveryVars, phase, proc, runningJobs, log, had>>

-----------------------------------------------------------------------------
(* Queue recovery: recoverFromQueue() *)

ListStored ==
  /\ Recovering /\ recovery = "idle"
  /\ LET stored == {e \in Executions : row[e] \in InProgress}
     IN /\ listed' \in {S \in SUBSET stored :
             Cardinality(S) = (IF Cardinality(stored) < BatchSize THEN Cardinality(stored) ELSE BatchSize)}
        /\ listed' # {}
  /\ recovery' = "listed"
  /\ UNCHANGED <<row, mainVars, stop, jobVars, workerVars, had>>

(* With nothing in the queue, jobs of other executions included, nothing is  *)
(* taken for lost.                                                           *)
ListQueued ==
  /\ recovery = "listed"
  /\ LET lost == {e \in listed : job[e] \notin {"wait", "active"}}
     IN \/ recovery' = "idle" /\ listed' = {} /\ (lost = {} \/ \A e \in Executions : job[e] \notin {"wait", "active"})
        \/ recovery' = "marking" /\ listed' = lost /\ lost # {}
  /\ UNCHANGED <<row, mainVars, stop, jobVars, workerVars, had>>

MarkAsCrashed ==
  /\ recovery = "marking"
  /\ row' = Written(row, listed, "crashed")
  /\ recovery' = "idle" /\ listed' = {}
  /\ UNCHANGED <<mainVars, stop, jobVars, workerVars, had>>

-----------------------------------------------------------------------------
(* Bull *)

(* The job has finished, or its failure is recorded, and leaves the queue.   *)
(* The event may be lost.                                                    *)
Leave(e, result) ==
  /\ job' = [job EXCEPT ![e] = "gone"]
  /\ holder' = [holder EXCEPT ![e] = NoWorker]
  /\ event' = [event EXCEPT ![e] = result]
  /\ \/ UNCHANGED <<unheard, had>>
     \/ unheard' = unheard \cup {e} /\ Fault("loss")
  /\ UNCHANGED stalled

(* The worker with the lock is still at the job. *)
Held(e) == phase[holder[e]] \in Alive /\ proc[holder[e]][e] # "idle"

(* Some worker finds an active job without a lock: its worker is down, or    *)
(* was too busy to renew it.                                                 *)
Stall(e) ==
  /\ job[e] = "active"
  /\ \E w \in Workers : phase[w] \in Alive
  /\ IF Held(e) THEN Fault("lapse") ELSE UNCHANGED had
  /\ holder' = [holder EXCEPT ![e] = NoWorker]
  /\ IF stalled[e] < MaxStalledCount
     THEN /\ job' = [job EXCEPT ![e] = "wait"]
          /\ stalled' = [stalled EXCEPT ![e] = @ + 1]
          /\ UNCHANGED <<event, unheard>>
     ELSE /\ job' = [job EXCEPT ![e] = "gone"]
          /\ event' = [event EXCEPT ![e] = "failed"]
          /\ UNCHANGED <<stalled, unheard>>
  /\ UNCHANGED <<row, mainVars, stop, recoveryVars, workerVars>>

-----------------------------------------------------------------------------
(* Workers: JobProcessor *)

ProcGoto(w, e, step) == proc' = [proc EXCEPT ![w][e] = step]

(* Mutant: the job is processed without taking it from the queue. *)
PickUpLeaving(w, e) ==
  /\ phase[w] = "up"
  /\ job[e] = "wait"
  /\ proc[w][e] = "idle"
  /\ ProcGoto(w, e, "picked")
  /\ UNCHANGED <<row, mainVars, stop, recoveryVars, jobVars,
                 phase, runningJobs, aborts, log, had>>

PickUp(w, e) ==
  /\ phase[w] = "up"
  /\ job[e] = "wait"
  /\ Cardinality({f \in Executions : proc[w][f] # "idle"}) < Concurrency
  /\ proc[w][e] = "idle"
  /\ job' = [job EXCEPT ![e] = "active"]
  /\ holder' = [holder EXCEPT ![e] = w]
  /\ ProcGoto(w, e, "picked")
  /\ UNCHANGED <<row, mainVars, stop, recoveryVars, stalled, event, unheard,
                 phase, runningJobs, aborts, log, had>>

(* The row is there and set to running; its status is not looked at. *)
SetRunning(w, e) ==
  /\ proc[w][e] = "picked"
  /\ row[e] # "deleted"
  /\ Write(e, "running")
  /\ ProcGoto(w, e, "starting")
  /\ UNCHANGED <<mainVars, stop, recoveryVars, jobVars, phase, runningJobs, aborts, log, had>>

(* processJob() throws, as it does when the row is gone. *)
FailJob(w, e) ==
  /\ \/ proc[w][e] = "picked" /\ row[e] = "deleted" /\ UNCHANGED had
     \/ proc[w][e] \in {"picked", "starting"} /\ Fault("job")
  /\ ProcGoto(w, e, "failed")
  /\ UNCHANGED <<row, mainVars, stop, recoveryVars, jobVars, phase, runningJobs, aborts, log>>

Start(w, e) ==
  /\ proc[w][e] = "starting"
  /\ ProcGoto(w, e, "running")
  /\ runningJobs' = [runningJobs EXCEPT ![w] = @ \cup {e}]
  /\ log' = [log EXCEPT ![w] = @ \cup {e}]
  /\ UNCHANGED <<row, mainVars, stop, recoveryVars, jobVars, phase, aborts, had>>

(* An abort message arrives.  A job that is not registered yet ignores it;   *)
(* the cancelled run saves the row at once.                                  *)
Abort(w, e) ==
  /\ e \in aborts[w]
  /\ aborts' = [aborts EXCEPT ![w] = @ \ {e}]
  /\ IF e \in runningJobs[w]
     THEN /\ runningJobs' = [runningJobs EXCEPT ![w] = @ \ {e}]
          /\ ProcGoto(w, e, IF proc[w][e] = "running" THEN "canceled" ELSE proc[w][e])
          /\ log' = [log EXCEPT ![w] = @ \ {e}]
          /\ Write(e, "canceled")
     ELSE UNCHANGED <<row, runningJobs, proc, log>>
  /\ UNCHANGED <<mainVars, stop, recoveryVars, jobVars, phase, had>>

(* The run saves how it has ended. *)
Finish(w, e) ==
  /\ \/ proc[w][e] = "running" /\ \E status \in {"success", "error", "waiting"} : Write(e, status)
     \/ proc[w][e] = "canceled" /\ Write(e, "canceled")
     \/ proc[w][e] = "canceled" /\ UNCHANGED row   \* its node was aborted
  /\ ProcGoto(w, e, "saved")
  /\ UNCHANGED <<mainVars, stop, recoveryVars, jobVars, phase, runningJobs, aborts, log, had>>

(* Mutant: the entry of a job is kept when its run has ended. *)
ResolveKeepingEntry(w, e) ==
  /\ proc[w][e] = "saved"
  /\ ProcGoto(w, e, "ended")
  /\ log' = [log EXCEPT ![w] = @ \ {e}]
  /\ UNCHANGED <<row, mainVars, stop, recoveryVars, jobVars, phase, runningJobs, aborts, had>>

(* It logs that it has ended, and resolves. *)
Resolve(w, e) ==
  /\ proc[w][e] = "saved"
  /\ ProcGoto(w, e, "ended")
  /\ runningJobs' = [runningJobs EXCEPT ![w] = @ \ {e}]
  /\ log' = [log EXCEPT ![w] = @ \ {e}]
  /\ UNCHANGED <<row, mainVars, stop, recoveryVars, jobVars, phase, aborts, had>>

Report(w, e) ==
  /\ proc[w][e] \in {"ended", "failed"}
  /\ ProcGoto(w, e, "idle")
  /\ IF holder[e] = w
     THEN Leave(e, IF proc[w][e] = "ended" THEN "completed" ELSE "failed")
     ELSE UNCHANGED <<jobVars, had>>
  /\ UNCHANGED <<row, mainVars, stop, recoveryVars, phase, runningJobs, aborts, log>>

-----------------------------------------------------------------------------
(* Workers: start, stop and crash *)

End(w) ==
  /\ phase' = [phase EXCEPT ![w] = "down"]
  /\ proc' = [proc EXCEPT ![w] = [e \in Executions |-> "idle"]]
  /\ runningJobs' = [runningJobs EXCEPT ![w] = {}]
  /\ aborts' = [aborts EXCEPT ![w] = {}]
  /\ UNCHANGED <<row, mainVars, stop, recoveryVars, jobVars, log>>

Crash(w) ==
  /\ phase[w] \in Alive
  /\ Fault("end")
  /\ End(w)

(* ScalingService.stop(): the worker takes no more jobs, *)
Stop(w) ==
  /\ phase[w] = "up"
  /\ Fault("end")
  /\ phase' = [phase EXCEPT ![w] = "stopping"]
  /\ UNCHANGED <<row, mainVars, stop, recoveryVars, jobVars, proc, runningJobs, aborts, log>>

(* Mutant: it exits at once. *)
ExitAtOnce(w) ==
  /\ phase[w] = "stopping"
  /\ End(w)
  /\ UNCHANGED had

(* and exits when none is registered. *)
Exit(w) ==
  /\ phase[w] = "stopping"
  /\ runningJobs[w] = {}
  /\ End(w)
  /\ UNCHANGED had

(* Mutant: executions are recovered whatever their status is. *)
RestartUnchecked(w) ==
  /\ phase[w] = "down"
  /\ phase' = [phase EXCEPT ![w] = "recovering"]
  /\ UNCHANGED <<row, mainVars, stop, recoveryVars, jobVars, proc, runningJobs, aborts, log, had>>

(* The worker starts again: MessageEventBus.initialize() looks at what its   *)
(* event log says is unfinished and for which a node was started; what has   *)
(* failed stays failed,                                                      *)
Restart(w) ==
  /\ phase[w] = "down"
  /\ phase' = [phase EXCEPT ![w] = "recovering"]
  /\ \E started \in SUBSET log[w] :
       log' = [log EXCEPT ![w] = {e \in started : row[e] \notin {"success", "error", "deleted"}}]
  /\ UNCHANGED <<row, mainVars, stop, recoveryVars, jobVars, proc, runningJobs, aborts, had>>

(* and the rest is marked as crashed. *)
RecoverFromLogs(w) ==
  /\ phase[w] = "recovering"
  /\ phase' = [phase EXCEPT ![w] = "up"]
  /\ row' = Written(row, log[w], "crashed")
  /\ log' = [log EXCEPT ![w] = {}]
  /\ UNCHANGED <<mainVars, stop, recoveryVars, jobVars, proc, runningJobs, aborts, had>>

-----------------------------------------------------------------------------
MainStep(e) ==
  \/ Enqueue(e) \/ Watch(e) \/ Answer(e) \/ Watchdog(e)
  \/ ProcessError(e) \/ SaveError(e) \/ Finalize(e) \/ HardDelete(e)
StopRequestStep(e) ==
  StopEntry(e) \/ FindJob(e) \/ StopFoundJob(e) \/ StopDuringRun(e) \/ CancelJob(e)
Recovery == ListStored \/ ListQueued \/ MarkAsCrashed
WorkerStep(w, e) ==
  \/ PickUp(w, e) \/ SetRunning(w, e) \/ FailJob(w, e) \/ Start(w, e)
  \/ Abort(w, e) \/ Finish(w, e) \/ Resolve(w, e) \/ Report(w, e)
WorkerStart(w) == Restart(w) \/ RecoverFromLogs(w)

Next ==
  \/ \E e \in Executions : \/ Register(e) \/ Refuse(e) \/ MainStep(e)
                           \/ RequestStop(e) \/ StopRequestStep(e) \/ Stall(e)
  \/ RestartMain \/ Recovery
  \/ \E w \in Workers : \/ \E e \in Executions : WorkerStep(w, e)
                        \/ Crash(w) \/ Stop(w) \/ Exit(w) \/ WorkerStart(w)

Safety == Init /\ [][Next]_vars

(* The main, the queue and the workers that run go on; a worker that is down *)
(* is started again.  Nothing is assumed of stop requests and crashes.       *)
Fairness ==
  /\ \A e \in Executions : WF_vars(MainStep(e)) /\ WF_vars(Stall(e)) /\ WF_vars(StopRequestStep(e))
  /\ \A w \in Workers : /\ \A e \in Executions : WF_vars(WorkerStep(w, e))
                        /\ WF_vars(Exit(w)) /\ WF_vars(WorkerStart(w))
Spec == Safety /\ Fairness

-----------------------------------------------------------------------------
(* Properties *)

MainSteps == {"idle", "registered", "enqueued", "refused", "watching", "failing",
              "reading", "saving", "throwing", "deleting", "done", "thrown"}
StopSteps == {"idle", "stoppable", "finding", "stopping", "writing", "done"}
ProcSteps == {"idle", "picked", "starting", "running", "canceled", "saved", "ended", "failed"}

(* The type of the state. *)
ScalingTypeOK ==
  /\ row \in [Executions -> Rows]
  /\ main \in [Executions -> MainSteps]
  /\ entry \in [Executions -> BOOLEAN]
  /\ cancelling \in [Executions -> BOOLEAN]
  /\ stop \in [Executions -> StopSteps]
  /\ recovery \in {"idle", "listed", "marking"} /\ listed \subseteq Executions
  /\ job \in [Executions -> {"none", "wait", "active", "gone"}]
  /\ holder \in [Executions -> Workers \cup {NoWorker}]
  /\ stalled \in [Executions -> 0..MaxStalledCount]
  /\ event \in [Executions -> {"none", "completed", "failed"}]
  /\ unheard \subseteq Executions
  /\ phase \in [Workers -> {"up", "stopping", "down", "recovering"}]
  /\ proc \in [Workers -> [Executions -> ProcSteps]]
  /\ runningJobs \in [Workers -> SUBSET Executions]
  /\ aborts \in [Workers -> SUBSET Executions]
  /\ log \in [Workers -> SUBSET Executions]
  /\ had \subseteq FaultKinds

(* As long as no lock expires under a worker that runs, an execution is at   *)
(* one worker at a time, whatever crashes, signals and stops there are.      *)
OneWorker ==
  "lapse" \notin had =>
    \A e \in Executions, v, w \in Workers :
      proc[v][e] # "idle" /\ proc[w][e] # "idle" => v = w

(* The count by which a worker decides to exit is never too high: each job   *)
(* that it counts is a run that goes on.                                     *)
RunningJobsAreRuns ==
  \A w \in Workers : \A e \in runningJobs[w] : proc[w][e] \in {"running", "saved"}

(* When the main has come to the end of an execution that nobody asked to    *)
(* stop and whose job neither failed nor stalled, the row says how the run   *)
(* has ended.                                                                *)
AnsweredIsSettled ==
  \A e \in Executions :
    main[e] = "done" /\ "restart" \notin had /\ stop[e] = "idle" /\ event[e] # "failed" /\ stalled[e] = 0
      => row[e] \in Final \cup {"waiting", "deleted"}

(* With locks that are renewed in time, and unless the job has failed, only  *)
(* rows of runs that have ended are deleted, although an execution without   *)
(* an error counts as successful whatever its status is, new and running     *)
(* included.                                                                 *)
OnlySettledDeleted ==
  [][\A e \in Executions :
       row[e] # "deleted" /\ row'[e] = "deleted" /\ "lapse" \notin had /\ event[e] # "failed"
         => row[e] \in Final \cup {"waiting"}]_vars

(* A success stands, unless queue recovery listed the execution before, a    *)
(* request to stop it is under way, the main refused an execution that was   *)
(* already enqueued, or the job has stalled and so may run again.            *)
SuccessStands ==
  [][\A e \in Executions :
       row[e] = "success" /\ row'[e] \notin {"success", "deleted"}
         => e \in listed \/ stop[e] = "writing" \/ main[e] = "throwing" \/ stalled[e] > 0
            \/ \E w \in Workers : e \in aborts[w]]_vars

(* A worker exits on a signal only when none of its runs goes on, apart from *)
(* those that were cancelled and those that it was about to start.           *)
ExitWaitsForRuns ==
  [][\A w \in Workers, e \in Executions :
       phase[w] = "stopping" /\ phase'[w] = "down" /\ had' = had
         => proc[w][e] # "running"]_vars

(* Whoever waits for an execution in ActiveExecutions gets an answer, even   *)
(* when the event of the job is lost, or run() has thrown.                   *)
EntriesAreAnswered == \A e \in Executions : entry[e] ~> ~entry[e] \/ main[e] = "thrown"

(* A worker that is told to stop does. *)
StoppingEnds == \A w \in Workers : phase[w] = "stopping" ~> phase[w] # "stopping"

(* What recoverFromQueue() says of itself: only executions that are stored   *)
(* as new or running are marked as crashed.                                  *)
OnlyInProgressMarked ==
  [][\A e \in Executions :
       recovery = "marking" /\ row'[e] = "crashed" /\ row[e] # "crashed" => row[e] \in InProgress]_vars
=============================================================================
