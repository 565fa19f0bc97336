--------------------------- MODULE Scaling_proofs ---------------------------
(***************************************************************************)
(* Queue mode for any number of executions, workers and faults: the types, *)
(* who may process a job, what a worker counts when it is told to stop,    *)
(* which rows are deleted, whether the main can trust the rows it reads,   *)
(* and what may overwrite a success.                                       *)
(***************************************************************************)
EXTENDS Scaling, TLAPS

(* The types of the parts of the state that actions leave alone together. *)
MainOK ==
  /\ main \in [Executions -> MainSteps]
  /\ entry \in [Executions -> BOOLEAN]
  /\ cancelling \in [Executions -> BOOLEAN]
RowOK == row \in [Executions -> Rows]
StopOK == stop \in [Executions -> StopSteps]
RecoveryOK == recovery \in {"idle", "listed", "marking"} /\ listed \subseteq Executions
JobsOK ==
  /\ job \in [Executions -> {"none", "wait", "active", "gone"}]
  /\ holder \in [Executions -> Workers \cup {NoWorker}]
  /\ stalled \in [Executions -> 0..MaxStalledCount]
  /\ event \in [Executions -> {"none", "completed", "failed"}]
  /\ unheard \subseteq Executions
WorkersOK ==
  /\ phase \in [Workers -> {"up", "stopping", "down", "recovering"}]
  /\ proc \in [Workers -> [Executions -> ProcSteps]]
  /\ runningJobs \in [Workers -> SUBSET Executions]
  /\ aborts \in [Workers -> SUBSET Executions]
  /\ log \in [Workers -> SUBSET Executions]
HadOK == had \subseteq FaultKinds

PartsOK == RowOK /\ MainOK /\ StopOK /\ RecoveryOK /\ JobsOK /\ WorkersOK /\ HadOK

LEMMA TypeParts == ScalingTypeOK <=> PartsOK
BY DEF ScalingTypeOK, PartsOK, RowOK, MainOK, StopOK, RecoveryOK, JobsOK, WorkersOK, HadOK

(* Parts of the state that a step does not touch keep their types. *)
LEMMA Untouched ==
  /\ RowOK /\ UNCHANGED row => RowOK'
  /\ MainOK /\ UNCHANGED mainVars => MainOK'
  /\ StopOK /\ UNCHANGED stop => StopOK'
  /\ RecoveryOK /\ UNCHANGED recoveryVars => RecoveryOK'
  /\ JobsOK /\ UNCHANGED jobVars => JobsOK'
  /\ WorkersOK /\ UNCHANGED workerVars => WorkersOK'
  /\ HadOK /\ UNCHANGED had => HadOK'
BY DEF RowOK, MainOK, StopOK, RecoveryOK, JobsOK, WorkersOK, HadOK,
       mainVars, recoveryVars, jobVars, workerVars

LEMMA WrittenType ==
  ASSUME NEW r \in [Executions -> Rows], NEW E, NEW status \in Rows
  PROVE  Written(r, E, status) \in [Executions -> Rows]
BY DEF Written

LEMMA RowNames ==
  /\ {"new", "running", "success", "error", "waiting", "canceled", "crashed", "deleted"} \subseteq Rows
BY DEF Rows, InProgress, Stoppable, Final

(* The sets of executions that each worker keeps. *)
LEMMA SetsType ==
  ASSUME NEW f \in [Workers -> SUBSET Executions], NEW w \in Workers, NEW S \in SUBSET Executions
  PROVE  [f EXCEPT ![w] = S] \in [Workers -> SUBSET Executions]
OBVIOUS

LEMMA GotoType ==
  ASSUME proc \in [Workers -> [Executions -> ProcSteps]], NEW w \in Workers, NEW e \in Executions,
         NEW step \in ProcSteps
  PROVE  [proc EXCEPT ![w][e] = step] \in [Workers -> [Executions -> ProcSteps]]
OBVIOUS

LEMMA FaultType == ASSUME HadOK, NEW kind, Fault(kind) PROVE HadOK'
BY FaultsAssumption DEF HadOK, Fault

-----------------------------------------------------------------------------
(* The types, one group of actions at a time. *)

LEMMA MainTypes ==
  ASSUME PartsOK, NEW e \in Executions, Register(e) \/ Refuse(e) \/ MainStep(e)
  PROVE  PartsOK'
<1> USE Untouched DEF PartsOK
<1>1. CASE Register(e)
  <2>1. RowOK' /\ MainOK'
    BY <1>1, WrittenType, RowNames DEF Register, Write, Goto, RowOK, MainOK, MainSteps
  <2> QED BY <1>1, <2>1 DEF Register
<1>2. CASE Refuse(e)
  <2>1. MainOK' /\ HadOK'
    BY <1>2, FaultType DEF Refuse, Goto, MainOK, MainSteps
  <2> QED BY <1>2, <2>1 DEF Refuse
<1>3. CASE Enqueue(e)
  <2>1. JobsOK' /\ MainOK'
    BY <1>3 DEF Enqueue, Goto, MainOK, MainSteps, JobsOK
  <2> QED BY <1>3, <2>1 DEF Enqueue
<1>4. CASE Watch(e) \/ Answer(e) \/ Watchdog(e)
  <2>1. MainOK'
    BY <1>4 DEF Watch, Answer, Watchdog, Goto, MainOK, MainSteps
  <2> QED BY <1>4, <2>1 DEF Watch, Answer, Watchdog
<1>5. CASE ProcessError(e) \/ Finalize(e)
  <2>1. MainOK'
    BY <1>5 DEF ProcessError, Finalize, Goto, Drop, MainOK, MainSteps
  <2> QED BY <1>5, <2>1 DEF ProcessError, Finalize
<1>6. CASE SaveError(e)
  <2>1. RowOK' /\ MainOK'
    BY <1>6, WrittenType, RowNames DEF SaveError, Write, Goto, RowOK, MainOK, MainSteps
  <2> QED BY <1>6, <2>1 DEF SaveError
<1>7. CASE HardDelete(e)
  <2>1. RowOK' /\ MainOK'
    BY <1>7, RowNames DEF HardDelete, Goto, RowOK, MainOK, MainSteps
  <2> QED BY <1>7, <2>1 DEF HardDelete
<1> QED BY <1>1, <1>2, <1>3, <1>4, <1>5, <1>6, <1>7 DEF MainStep

LEMMA StopJobTypes ==
  ASSUME JobsOK, WorkersOK, NEW e \in Executions, StopJob(e), UNCHANGED <<phase, proc, runningJobs, log>>
  PROVE  JobsOK' /\ WorkersOK'
<1>1. JobsOK'
  BY DEF StopJob, JobsOK, jobVars
<1>2. aborts' \in [Workers -> SUBSET Executions]
  <2>1. ASSUME NEW w \in Workers
        PROVE  (IF phase[w] \in Alive THEN aborts[w] \cup {e} ELSE aborts[w]) \in SUBSET Executions
    BY DEF WorkersOK
  <2> QED BY <2>1 DEF StopJob, WorkersOK
<1> QED BY <1>1, <1>2 DEF WorkersOK

LEMMA StopTypes ==
  ASSUME PartsOK, NEW e \in Executions, RequestStop(e) \/ StopRequestStep(e)
  PROVE  PartsOK'
<1> USE Untouched DEF PartsOK
<1>1. CASE RequestStop(e)
  <2>1. StopOK' /\ HadOK'
    BY <1>1, FaultType DEF RequestStop, StopStep, StopOK, StopSteps
  <2> QED BY <1>1, <2>1 DEF RequestStop
<1>2. CASE StopEntry(e)
  <2>1. StopOK' /\ MainOK'
    BY <1>2 DEF StopEntry, StopStep, Drop, StopOK, StopSteps, MainOK
  <2> QED BY <1>2, <2>1 DEF StopEntry
<1>3. CASE FindJob(e)
  <2>1. StopOK'
    BY <1>3 DEF FindJob, StopStep, StopOK, StopSteps
  <2> QED BY <1>3, <2>1 DEF FindJob
<1>4. CASE StopFoundJob(e)
  <2>1. StopOK' /\ JobsOK' /\ WorkersOK'
    BY <1>4, StopJobTypes DEF StopFoundJob, StopStep, StopOK, StopSteps
  <2> QED BY <1>4, <2>1 DEF StopFoundJob
<1>5. CASE StopDuringRun(e)
  <2>1. StopOK' /\ RowOK'
    BY <1>5, WrittenType, RowNames DEF StopDuringRun, StopStep, StopOK, StopSteps, Write, RowOK
  <2> QED BY <1>5, <2>1 DEF StopDuringRun
<1>6. CASE CancelJob(e)
  <2>1. MainOK' /\ JobsOK' /\ WorkersOK'
    BY <1>6, StopJobTypes DEF CancelJob, MainOK
  <2> QED BY <1>6, <2>1 DEF CancelJob
<1> QED BY <1>1, <1>2, <1>3, <1>4, <1>5, <1>6 DEF StopRequestStep

LEMMA RecoveryTypes ==
  ASSUME PartsOK, Recovery \/ RestartMain
  PROVE  PartsOK'
<1> USE Untouched DEF PartsOK
<1>1. CASE ListStored \/ ListQueued
  <2>1. RecoveryOK'
    BY <1>1 DEF ListStored, ListQueued, RecoveryOK
  <2> QED BY <1>1, <2>1 DEF ListStored, ListQueued
<1>2. CASE MarkAsCrashed
  <2>1. RowOK' /\ RecoveryOK'
    BY <1>2, WrittenType, RowNames DEF MarkAsCrashed, RowOK, RecoveryOK
  <2> QED BY <1>2, <2>1 DEF MarkAsCrashed
<1>3. CASE RestartMain
  <2>1. MainOK' /\ StopOK' /\ RecoveryOK' /\ HadOK'
    BY <1>3, FaultType DEF RestartMain, MainOK, MainSteps, StopOK, StopSteps, RecoveryOK
  <2> QED BY <1>3, <2>1 DEF RestartMain
<1> QED BY <1>1, <1>2, <1>3 DEF Recovery

LEMMA StallTypes ==
  ASSUME PartsOK, NEW e \in Executions, Stall(e)
  PROVE  PartsOK'
<1>1. HadOK'
  BY FaultType, Untouched DEF Stall, PartsOK
<1>2. JobsOK'
  BY StalledAssumption DEF Stall, PartsOK, JobsOK
<1> QED BY <1>1, <1>2, Untouched DEF Stall, PartsOK

LEMMA WorkerTypes ==
  ASSUME PartsOK, NEW w \in Workers, NEW e \in Executions, WorkerStep(w, e)
  PROVE  PartsOK'
<1> USE Untouched DEF PartsOK
<1>1. CASE PickUp(w, e)
  <2>1. JobsOK' /\ WorkersOK'
    BY <1>1 DEF PickUp, ProcGoto, JobsOK, WorkersOK, ProcSteps
  <2> QED BY <1>1, <2>1 DEF PickUp
<1>2. CASE SetRunning(w, e)
  <2>1. RowOK' /\ WorkersOK'
    BY <1>2, WrittenType, RowNames DEF SetRunning, ProcGoto, Write, RowOK, WorkersOK, ProcSteps
  <2> QED BY <1>2, <2>1 DEF SetRunning
<1>3. CASE FailJob(w, e)
  <2>1. WorkersOK' /\ HadOK'
    BY <1>3, FaultType DEF FailJob, ProcGoto, WorkersOK, ProcSteps
  <2> QED BY <1>3, <2>1 DEF FailJob
<1>4. CASE Start(w, e) \/ Resolve(w, e)
  <2>1. runningJobs[w] \cup {e} \in SUBSET Executions /\ log[w] \cup {e} \in SUBSET Executions
        /\ runningJobs[w] \ {e} \in SUBSET Executions /\ log[w] \ {e} \in SUBSET Executions
    BY DEF WorkersOK
  <2>2. "running" \in ProcSteps /\ "ended" \in ProcSteps
    BY DEF ProcSteps
  <2>3. /\ [runningJobs EXCEPT ![w] = @ \cup {e}] \in [Workers -> SUBSET Executions]
        /\ [runningJobs EXCEPT ![w] = @ \ {e}] \in [Workers -> SUBSET Executions]
        /\ [log EXCEPT ![w] = @ \cup {e}] \in [Workers -> SUBSET Executions]
        /\ [log EXCEPT ![w] = @ \ {e}] \in [Workers -> SUBSET Executions]
    BY <2>1, SetsType DEF WorkersOK
  <2>4. proc' \in [Workers -> [Executions -> ProcSteps]]
    <3>1. PICK step \in ProcSteps : ProcGoto(w, e, step)
      BY <1>4, <2>2 DEF Start, Resolve
    <3> QED BY <3>1, GotoType DEF ProcGoto, WorkersOK
  <2>5. WorkersOK'
    BY <1>4, <2>3, <2>4 DEF Start, Resolve, WorkersOK
  <2> QED BY <1>4, <2>5 DEF Start, Resolve
<1>5. CASE Abort(w, e)
  <2>1. aborts[w] \ {e} \in SUBSET Executions /\ runningJobs[w] \ {e} \in SUBSET Executions
        /\ log[w] \ {e} \in SUBSET Executions /\ proc[w][e] \in ProcSteps /\ "canceled" \in ProcSteps
    BY DEF WorkersOK, ProcSteps
  <2>2. /\ [aborts EXCEPT ![w] = @ \ {e}] \in [Workers -> SUBSET Executions]
        /\ [runningJobs EXCEPT ![w] = @ \ {e}] \in [Workers -> SUBSET Executions]
        /\ [log EXCEPT ![w] = @ \ {e}] \in [Workers -> SUBSET Executions]
    BY <2>1, SetsType DEF WorkersOK
  <2>3. proc' \in [Workers -> [Executions -> ProcSteps]]
    <3>1. proc' = proc \/ \E step \in ProcSteps : ProcGoto(w, e, step)
      BY <1>5, <2>1 DEF Abort
    <3>2. proc \in [Workers -> [Executions -> ProcSteps]]
      BY DEF WorkersOK
    <3>3. ASSUME NEW step \in ProcSteps, ProcGoto(w, e, step)
          PROVE  proc' \in [Workers -> [Executions -> ProcSteps]]
      BY <3>2, <3>3, GotoType DEF ProcGoto
    <3> QED BY <3>1, <3>2, <3>3
  <2>4. WorkersOK'
    BY <1>5, <2>2, <2>3 DEF Abort, WorkersOK
  <2>5. RowOK'
    BY <1>5, WrittenType, RowNames DEF Abort, Write, RowOK
  <2> QED BY <1>5, <2>4, <2>5 DEF Abort
<1>6. CASE Finish(w, e)
  <2>1. WorkersOK'
    BY <1>6 DEF Finish, ProcGoto, WorkersOK, ProcSteps
  <2>2. RowOK'
    BY <1>6, WrittenType, RowNames DEF Finish, Write, RowOK
  <2> QED BY <1>6, <2>1, <2>2 DEF Finish
<1>7. CASE Report(w, e)
  <2>1. WorkersOK'
    BY <1>7 DEF Report, ProcGoto, WorkersOK, ProcSteps
  <2>2. JobsOK' /\ HadOK'
    BY <1>7, FaultType DEF Report, Leave, JobsOK, jobVars
  <2> QED BY <1>7, <2>1, <2>2 DEF Report
<1> QED BY <1>1, <1>2, <1>3, <1>4, <1>5, <1>6, <1>7 DEF WorkerStep

LEMMA PhaseTypes ==
  ASSUME PartsOK, NEW w \in Workers, Crash(w) \/ Stop(w) \/ Exit(w) \/ WorkerStart(w)
  PROVE  PartsOK'
<1> USE Untouched DEF PartsOK
<1>1. CASE Crash(w) \/ Exit(w)
  <2>1. WorkersOK'
    <3>1. {} \in SUBSET Executions /\ [e \in Executions |-> "idle"] \in [Executions -> ProcSteps]
      BY DEF ProcSteps
    <3>2. /\ [runningJobs EXCEPT ![w] = {}] \in [Workers -> SUBSET Executions]
          /\ [aborts EXCEPT ![w] = {}] \in [Workers -> SUBSET Executions]
      BY <3>1, SetsType DEF WorkersOK
    <3>3. proc' \in [Workers -> [Executions -> ProcSteps]]
      BY <1>1, <3>1 DEF Crash, Exit, End, WorkersOK
    <3>4. phase' \in [Workers -> {"up", "stopping", "down", "recovering"}]
      BY <1>1 DEF Crash, Exit, End, WorkersOK
    <3> QED BY <1>1, <3>2, <3>3, <3>4 DEF Crash, Exit, End, WorkersOK
  <2>2. HadOK'
    BY <1>1, FaultType DEF Crash, Exit
  <2> QED BY <1>1, <2>1, <2>2 DEF Crash, Exit, End
<1>2. CASE Stop(w)
  <2>1. WorkersOK' /\ HadOK'
    BY <1>2, FaultType DEF Stop, WorkersOK
  <2> QED BY <1>2, <2>1 DEF Stop
<1>3. CASE Restart(w)
  <2>1. WorkersOK'
    BY <1>3 DEF Restart, WorkersOK
  <2> QED BY <1>3, <2>1 DEF Restart
<1>4. CASE RecoverFromLogs(w)
  <2>1. WorkersOK'
    BY <1>4 DEF RecoverFromLogs, WorkersOK
  <2>2. RowOK'
    BY <1>4, WrittenType, RowNames DEF RecoverFromLogs, RowOK
  <2> QED BY <1>4, <2>1, <2>2 DEF RecoverFromLogs
<1> QED BY <1>1, <1>2, <1>3, <1>4 DEF WorkerStart

LEMMA PartsInit == Init => PartsOK
<1> SUFFICES ASSUME Init PROVE PartsOK
  OBVIOUS
<1>1. RowOK /\ MainOK /\ StopOK /\ RecoveryOK /\ HadOK
  BY DEF Init, RowOK, Rows, MainOK, MainSteps, StopOK, StopSteps, RecoveryOK, HadOK
<1>2. JobsOK /\ WorkersOK
  BY StalledAssumption DEF Init, JobsOK, WorkersOK, ProcSteps
<1> QED BY <1>1, <1>2 DEF PartsOK

LEMMA PartsStep == PartsOK /\ [Next]_vars => PartsOK'
<1> SUFFICES ASSUME PartsOK, [Next]_vars PROVE PartsOK'
  OBVIOUS
<1>1. CASE UNCHANGED vars
  BY <1>1, Untouched DEF vars, PartsOK
<1> QED BY <1>1, MainTypes, StopTypes, RecoveryTypes, StallTypes, WorkerTypes, PhaseTypes DEF Next

LEMMA PartsAlways == Safety => []PartsOK
BY PartsInit, PartsStep, PTL DEF Safety

(* The variables of the main, the queue, the workers and the rows keep their *)
(* types; a job is put back no more often than Bull is told to.              *)
THEOREM ScalingTypes == Safety => []ScalingTypeOK
BY TypeParts, PartsAlways, PTL

-----------------------------------------------------------------------------
(* The invariant. *)

NoLapse == "lapse" \notin had
Settled == Final \cup {"waiting", "deleted"}

(* What the main has done decides where the job can be, and an execution     *)
(* that is asked to stop loses its entry before its job.                     *)
JobInv ==
  \A e \in Executions :
    /\ main[e] \in {"idle", "registered"} => job[e] = "none"
    /\ main[e] \in {"failing", "reading", "deleting"} => job[e] = "gone"
    /\ event[e] # "none" => job[e] = "gone"
    /\ main[e] = "idle" => row[e] \notin Stoppable /\ stop[e] = "idle" /\ ~cancelling[e]
    /\ stop[e] \in {"finding", "stopping", "writing", "done"} \/ cancelling[e] => ~entry[e]
    /\ job[e] = "gone" /\ event[e] = "none" => ~entry[e]

(* Who is at an execution: a worker that runs; it has the lock, unless one   *)
(* lapsed; and what it counts are the runs that go on.                       *)
RunInv ==
  \A w \in Workers, e \in Executions :
    /\ proc[w][e] # "idle" => phase[w] \in Alive /\ job[e] # "none"
    /\ e \in runningJobs[w] => proc[w][e] \in {"running", "saved"}
    /\ proc[w][e] = "running" => e \in runningJobs[w]

LockInv ==
  NoLapse => \A w \in Workers, e \in Executions :
    proc[w][e] # "idle" => job[e] = "active" /\ holder[e] = w

(* Where a run has ended the row says how, and so the main finds a result,   *)
(* unless the job failed or nobody waits any more.                           *)
RowInv ==
  NoLapse => \A e \in Executions :
    /\ \A w \in Workers : proc[w][e] \in {"canceled", "saved", "ended"} => row[e] \in Settled
    /\ event[e] = "completed" => row[e] \in Settled
    /\ event[e] # "failed" /\ (main[e] = "deleting" \/ (main[e] = "reading" /\ entry[e]))
         => row[e] \in Settled

IInv == JobInv /\ RunInv /\ LockInv /\ RowInv

LEMMA IInvInit == Init => IInv
BY DEF Init, IInv, JobInv, RunInv, LockInv, RowInv, InProgress, Stoppable

-----------------------------------------------------------------------------
(* Frames: what leaves each part of the invariant as it is. *)

(* All writes but those of "new" and "running" settle the rows they change,  *)
(* and only what was registered comes to wait.                               *)
RowsSettle ==
  \A e \in Executions :
    \/ row'[e] = row[e]
    \/ row'[e] \in Settled /\ (row'[e] = "waiting" => main[e] # "idle")

LEMMA WrittenSettles ==
  ASSUME NEW E, NEW status \in Final, row' = Written(row, E, status)
  PROVE  RowsSettle
BY DEF RowsSettle, Written, Settled, Final

LEMMA WriteSettles ==
  ASSUME NEW e, NEW status \in Final, Write(e, status)
  PROVE  RowsSettle /\ (e \in Executions => row'[e] \in Settled)
BY DEF RowsSettle, Write, Written, Settled, Final

LEMMA WaitSettles ==
  ASSUME NEW e, Write(e, "waiting"), main[e] # "idle"
  PROVE  RowsSettle /\ (e \in Executions => row'[e] \in Settled)
BY DEF RowsSettle, Write, Written, Settled

LEMMA SameSettles == UNCHANGED row => RowsSettle
BY DEF RowsSettle

LEMMA SettledNotStoppable == \A status \in Settled : status \in Stoppable => status = "waiting"
BY DEF Settled, Final, InProgress, Stoppable

(* No step takes a lapse back. *)
LEMMA FaultStays == ASSUME NEW kind, Fault(kind) PROVE NoLapse' => NoLapse
BY DEF Fault, NoLapse

LEMMA JobFrame ==
  ASSUME JobInv, RowsSettle, UNCHANGED <<main, entry, cancelling, stop, job, event>>
  PROVE  JobInv'
BY SettledNotStoppable DEF JobInv, RowsSettle

LEMMA RunFrame ==
  ASSUME RunInv, UNCHANGED <<phase, proc, runningJobs, job>>
  PROVE  RunInv'
BY DEF RunInv

LEMMA LockFrame ==
  ASSUME LockInv, NoLapse' => NoLapse, UNCHANGED <<proc, job, holder>>
  PROVE  LockInv'
BY DEF LockInv

LEMMA RowFrame ==
  ASSUME RowInv, NoLapse' => NoLapse, RowsSettle, UNCHANGED <<main, entry, event, proc>>
  PROVE  RowInv'
BY DEF RowInv, RowsSettle

-----------------------------------------------------------------------------
(* The steps of the main. *)

LEMMA RegisterInv ==
  ASSUME PartsOK, IInv, NEW e \in Executions, Register(e)
  PROVE  IInv'
<1> USE DEF Register, IInv, PartsOK, jobVars, workerVars
<1>1. row \in [Executions -> Rows] /\ main \in [Executions -> MainSteps]
      /\ entry \in [Executions -> BOOLEAN] /\ proc \in [Workers -> [Executions -> ProcSteps]]
  BY DEF RowOK, MainOK, WorkersOK
<1>2. main[e] = "idle" /\ main' = [main EXCEPT ![e] = "registered"]
      /\ entry' = [entry EXCEPT ![e] = TRUE] /\ \A f \in Executions \ {e} : row'[f] = row[f]
  BY <1>1 DEF Goto, Write, Written
<1>3. job[e] = "none" /\ stop[e] = "idle" /\ ~cancelling[e] /\ event[e] = "none"
  BY <1>2 DEF JobInv
<1>4. JobInv'
  BY <1>1, <1>2, <1>3 DEF JobInv
<1>5. RunInv'
  BY RunFrame
<1>6. LockInv'
  BY LockFrame DEF NoLapse
<1>7. \A w \in Workers : proc[w][e] = "idle"
  BY <1>3 DEF RunInv
<1>8. RowInv'
  BY <1>1, <1>2, <1>3, <1>7 DEF RowInv, NoLapse
<1> QED BY <1>4, <1>5, <1>6, <1>8

LEMMA EnqueueInv ==
  ASSUME PartsOK, IInv, NEW e \in Executions, Enqueue(e)
  PROVE  IInv'
<1> USE DEF Enqueue, IInv, PartsOK, workerVars
<1>1. main \in [Executions -> MainSteps] /\ job \in [Executions -> {"none", "wait", "active", "gone"}]
  BY DEF MainOK, JobsOK
<1>2. main[e] = "registered" /\ main' = [main EXCEPT ![e] = "enqueued"] /\ job' = [job EXCEPT ![e] = "wait"]
  BY DEF Goto
<1>3. job[e] = "none" /\ event[e] = "none" /\ \A w \in Workers : proc[w][e] = "idle"
  BY <1>2 DEF JobInv, RunInv
<1>4. JobInv'
  BY <1>1, <1>2, <1>3 DEF JobInv
<1>5. RunInv' /\ LockInv'
  BY <1>1, <1>2, <1>3 DEF RunInv, LockInv, NoLapse
<1>6. RowInv'
  BY <1>1, <1>2 DEF RowInv, NoLapse
<1> QED BY <1>4, <1>5, <1>6

(* A step after which the main is neither at a result nor back where it was  *)
(* before it enqueued, and which settles rows and gives up entries only.     *)
LEMMA GoesOn ==
  ASSUME PartsOK, IInv, NoLapse' => NoLapse, RowsSettle, NEW e \in Executions, NEW step \in MainSteps,
         main' = [main EXCEPT ![e] = step],
         step \notin {"idle", "registered", "failing", "reading", "deleting"}, main[e] # "idle",
         \A f \in Executions : entry'[f] => entry[f],
         UNCHANGED <<cancelling, stop, jobVars, workerVars>>
  PROVE  IInv'
<1> USE DEF IInv, jobVars, workerVars
<1>1. main \in [Executions -> MainSteps]
  BY DEF PartsOK, MainOK
<1>2. JobInv'
  BY <1>1, SettledNotStoppable DEF JobInv, RowsSettle
<1>3. RunInv' /\ LockInv'
  BY RunFrame, LockFrame
<1>4. RowInv'
  BY <1>1 DEF RowInv, RowsSettle
<1> QED BY <1>2, <1>3, <1>4

LEMMA MainInv ==
  ASSUME PartsOK, IInv, NEW e \in Executions, Refuse(e) \/ MainStep(e)
  PROVE  IInv'
<1> DEFINE Same == UNCHANGED <<cancelling, stop, jobVars, workerVars>>
<1>0. /\ main \in [Executions -> MainSteps] /\ entry \in [Executions -> BOOLEAN]
      /\ {"refused", "watching", "saving", "throwing", "done", "thrown"} \subseteq MainSteps
      /\ UNCHANGED had => (NoLapse' => NoLapse)
  BY DEF PartsOK, MainOK, MainSteps, NoLapse
<1>1. CASE Refuse(e)
  <2>1. NoLapse' => NoLapse
    BY <1>1, FaultStays DEF Refuse
  <2> QED BY <1>0, <1>1, <2>1, GoesOn, SameSettles DEF Refuse, Goto
<1>2. CASE Enqueue(e)
  BY <1>2, EnqueueInv
<1>3. CASE Watch(e)
  BY <1>0, <1>3, GoesOn, SameSettles DEF Watch, Goto
<1>4. CASE Answer(e) \/ Watchdog(e)
  <2>1. PICK step \in {"reading", "failing"} :
          /\ main' = [main EXCEPT ![e] = step]
          /\ step = "reading" => event[e] = "completed" \/ job[e] = "gone"
          /\ step = "failing" => event[e] = "failed"
    BY <1>4 DEF Answer, Watchdog, Goto
  <2>2. main[e] = "watching" /\ UNCHANGED <<row, entry, cancelling, stop, jobVars, workerVars, had>>
    BY <1>4 DEF Answer, Watchdog
  <2>3. job[e] = "gone" /\ (step = "reading" /\ entry[e] /\ event[e] # "failed" => event[e] = "completed")
    BY <1>0, <2>1 DEF IInv, JobInv, PartsOK, JobsOK
  <2>4. JobInv'
    BY <1>0, <2>1, <2>2, <2>3 DEF IInv, JobInv, jobVars
  <2>5. RunInv' /\ LockInv'
    BY <1>0, <2>2, RunFrame, LockFrame DEF IInv, jobVars, workerVars
  <2>6. RowInv'
    BY <1>0, <2>1, <2>2, <2>3 DEF IInv, RowInv, jobVars, workerVars, NoLapse
  <2> QED BY <2>4, <2>5, <2>6 DEF IInv
<1>5. CASE ProcessError(e) /\ main'[e] = "reading"
  <2>1. /\ row[e] = "success" /\ main[e] = "failing" /\ main' = [main EXCEPT ![e] = "reading"]
        /\ UNCHANGED <<row, entry, cancelling, stop, jobVars, workerVars, had>>
    BY <1>0, <1>5 DEF ProcessError, Goto, Drop
  <2>2. JobInv'
    BY <1>0, <2>1 DEF IInv, JobInv, jobVars
  <2>3. RunInv' /\ LockInv'
    BY <1>0, <2>1, RunFrame, LockFrame DEF IInv, jobVars, workerVars
  <2>4. RowInv'
    BY <1>0, <2>1 DEF IInv, RowInv, jobVars, workerVars, NoLapse, Settled, Final
  <2> QED BY <2>2, <2>3, <2>4 DEF IInv
<1>6. CASE ProcessError(e) /\ main'[e] # "reading"
  <2>1. PICK step \in {"thrown", "saving", "done", "throwing"} : main' = [main EXCEPT ![e] = step]
    BY <1>0, <1>6 DEF ProcessError, Goto
  <2>2. main[e] # "idle" /\ (\A f \in Executions : entry'[f] => entry[f]) /\ UNCHANGED had /\ UNCHANGED row /\ Same
    BY <1>0, <1>6 DEF ProcessError, Drop
  <2> QED BY <1>0, <2>1, <2>2, GoesOn, SameSettles
<1>7. CASE SaveError(e)
  <2>1. PICK step \in {"thrown", "done"} : main' = [main EXCEPT ![e] = step]
    BY <1>7 DEF SaveError, Goto
  <2>2. RowsSettle
    BY <1>7, WriteSettles DEF SaveError, Final
  <2> QED BY <1>0, <1>7, <2>1, <2>2, GoesOn DEF SaveError
<1>8. CASE Finalize(e) /\ main'[e] = "deleting"
  <2>1. /\ main[e] = "reading" /\ main' = [main EXCEPT ![e] = "deleting"] /\ entry[e]
        /\ entry' = [entry EXCEPT ![e] = FALSE]
        /\ UNCHANGED <<row, cancelling, stop, jobVars, workerVars, had>>
    BY <1>0, <1>8 DEF Finalize, Goto, Drop
  <2>2. JobInv'
    BY <1>0, <2>1 DEF IInv, JobInv, jobVars
  <2>3. RunInv' /\ LockInv'
    BY <1>0, <2>1, RunFrame, LockFrame DEF IInv, jobVars, workerVars
  <2>4. RowInv'
    BY <1>0, <2>1 DEF IInv, RowInv, jobVars, workerVars, NoLapse
  <2> QED BY <2>2, <2>3, <2>4 DEF IInv
<1>9. CASE Finalize(e) /\ main'[e] # "deleting"
  <2>1. main' = [main EXCEPT ![e] = "done"]
    BY <1>0, <1>9 DEF Finalize, Goto
  <2>2. main[e] # "idle" /\ (\A f \in Executions : entry'[f] => entry[f]) /\ UNCHANGED had /\ UNCHANGED row /\ Same
    BY <1>0, <1>9 DEF Finalize, Drop
  <2> QED BY <1>0, <2>1, <2>2, GoesOn, SameSettles
<1>10. CASE HardDelete(e)
  <2>1. RowsSettle
    BY <1>10 DEF HardDelete, RowsSettle, Settled, PartsOK, RowOK
  <2> QED BY <1>0, <1>10, <2>1, GoesOn DEF HardDelete, Goto
<1> QED BY <1>1, <1>2, <1>3, <1>4, <1>5, <1>6, <1>7, <1>8, <1>9, <1>10 DEF MainStep

-----------------------------------------------------------------------------
(* Stopping, restarting the main, and queue recovery. *)

LEMMA StopJobJobs ==
  ASSUME PartsOK, NEW e \in Executions, StopJob(e)
  PROVE  /\ UNCHANGED <<holder, stalled, event, unheard>>
         /\ job' = job \/ (job[e] = "wait" /\ job' = [job EXCEPT ![e] = "gone"])
<1>1. job \in [Executions -> {"none", "wait", "active", "gone"}]
  BY DEF PartsOK, JobsOK
<1> QED BY <1>1 DEF StopJob, jobVars

(* A job that waits is removed only when its execution has lost its entry.   *)
LEMMA StopJobInv ==
  ASSUME PartsOK, IInv, NEW e \in Executions, StopJob(e), ~entry[e], main[e] # "idle",
         stop' = stop \/ (\E step \in {"writing", "done"} : stop' = [stop EXCEPT ![e] = step]),
         \A f \in Executions : cancelling'[f] => cancelling[f],
         UNCHANGED <<row, main, entry, phase, proc, runningJobs, log, had>>
  PROVE  IInv'
<1> USE DEF IInv
<1>1. /\ UNCHANGED <<holder, event>>
      /\ job' = job \/ (job[e] = "wait" /\ job' = [job EXCEPT ![e] = "gone"])
  BY StopJobJobs
<1>2. /\ job \in [Executions -> {"none", "wait", "active", "gone"}]
      /\ stop \in [Executions -> StopSteps]
  BY DEF PartsOK, JobsOK, StopOK
<1>3. JobInv'
  BY <1>1, <1>2 DEF JobInv
<1>4. RunInv'
  BY <1>1, <1>2 DEF RunInv
<1>5. LockInv'
  BY <1>1, <1>2 DEF LockInv, NoLapse
<1>6. RowInv'
  BY <1>1, RowFrame, SameSettles DEF NoLapse
<1> QED BY <1>3, <1>4, <1>5, <1>6

LEMMA StopInv ==
  ASSUME PartsOK, IInv, NEW e \in Executions, RequestStop(e) \/ StopRequestStep(e)
  PROVE  IInv'
<1>0. /\ stop \in [Executions -> StopSteps] /\ cancelling \in [Executions -> BOOLEAN]
      /\ entry \in [Executions -> BOOLEAN]
      /\ UNCHANGED had => (NoLapse' => NoLapse)
  BY DEF PartsOK, StopOK, MainOK, NoLapse
<1>1. CASE RequestStop(e)
  <2>1. (NoLapse' => NoLapse) /\ UNCHANGED <<row, mainVars, jobVars, workerVars>>
        /\ stop' = [stop EXCEPT ![e] = "stoppable"] /\ row[e] \in Stoppable
    BY <1>1, FaultStays DEF RequestStop, StopStep
  <2>2. JobInv'
    BY <1>0, <2>1 DEF IInv, JobInv, mainVars, jobVars
  <2>3. RunInv' /\ LockInv' /\ RowInv'
    BY <2>1, RunFrame, LockFrame, RowFrame, SameSettles DEF IInv, mainVars, jobVars, workerVars
  <2> QED BY <2>2, <2>3 DEF IInv
<1>2. CASE StopEntry(e)
  <2>1. /\ UNCHANGED <<row, main, jobVars, workerVars, had>>
        /\ stop[e] = "stoppable" /\ stop' = [stop EXCEPT ![e] = "finding"]
        /\ entry' = [entry EXCEPT ![e] = FALSE]
        /\ \A f \in Executions \ {e} : cancelling'[f] = cancelling[f]
    BY <1>0, <1>2 DEF StopEntry, StopStep, Drop
  <2>2. JobInv'
    BY <1>0, <2>1 DEF IInv, JobInv, jobVars
  <2>3. RunInv' /\ LockInv'
    BY <1>0, <2>1, RunFrame, LockFrame DEF IInv, jobVars, workerVars
  <2>4. RowInv'
    BY <1>0, <2>1 DEF IInv, RowInv, jobVars, workerVars, NoLapse
  <2> QED BY <2>2, <2>3, <2>4 DEF IInv
<1>3. CASE FindJob(e)
  <2>1. /\ UNCHANGED <<row, mainVars, jobVars, workerVars, had>>
        /\ stop[e] = "finding"
        /\ \E step \in {"stopping", "writing"} : stop' = [stop EXCEPT ![e] = step]
    BY <1>3 DEF FindJob, StopStep
  <2>2. JobInv'
    BY <1>0, <2>1 DEF IInv, JobInv, mainVars, jobVars
  <2>3. RunInv' /\ LockInv' /\ RowInv'
    BY <1>0, <2>1, RunFrame, LockFrame, RowFrame, SameSettles DEF IInv, mainVars, jobVars, workerVars
  <2> QED BY <2>2, <2>3 DEF IInv
<1>4. CASE StopFoundJob(e)
  <2>1. /\ StopJob(e) /\ UNCHANGED <<row, mainVars, phase, proc, runningJobs, log, had>>
        /\ stop[e] = "stopping" /\ \E step \in {"writing", "done"} : stop' = [stop EXCEPT ![e] = step]
    BY <1>4 DEF StopFoundJob, StopStep
  <2>2. ~entry[e] /\ main[e] # "idle"
    BY <2>1 DEF IInv, JobInv
  <2> QED BY <2>1, <2>2, StopJobInv DEF mainVars
<1>5. CASE StopDuringRun(e)
  <2>1. /\ RowsSettle /\ UNCHANGED <<mainVars, jobVars, workerVars, had>>
        /\ stop[e] = "writing" /\ stop' = [stop EXCEPT ![e] = "done"]
    BY <1>5, WriteSettles DEF StopDuringRun, StopStep, Final
  <2>2. JobInv'
    BY <1>0, <2>1, SettledNotStoppable DEF IInv, JobInv, mainVars, jobVars, RowsSettle
  <2>3. RunInv' /\ LockInv' /\ RowInv'
    BY <1>0, <2>1, RunFrame, LockFrame, RowFrame DEF IInv, mainVars, jobVars, workerVars
  <2> QED BY <2>2, <2>3 DEF IInv
<1>6. CASE CancelJob(e)
  <2>1. /\ StopJob(e) /\ UNCHANGED <<row, main, entry, stop, phase, proc, runningJobs, log, had>>
        /\ cancelling[e] /\ \A f \in Executions : cancelling'[f] => cancelling[f]
    BY <1>0, <1>6 DEF CancelJob
  <2>2. ~entry[e] /\ main[e] # "idle"
    BY <2>1 DEF IInv, JobInv
  <2> QED BY <2>1, <2>2, StopJobInv
<1> QED BY <1>1, <1>2, <1>3, <1>4, <1>5, <1>6 DEF StopRequestStep

LEMMA RestartMainInv ==
  ASSUME PartsOK, IInv, RestartMain
  PROVE  IInv'
<1>1. /\ NoLapse' => NoLapse
      /\ UNCHANGED <<row, jobVars, workerVars>>
      /\ \A e \in Executions : /\ main'[e] = IF main[e] = "idle" THEN "idle" ELSE "done"
                               /\ ~entry'[e] /\ ~cancelling'[e]
                               /\ stop'[e] = IF stop[e] = "idle" THEN "idle" ELSE "done"
  BY FaultStays DEF RestartMain
<1>2. JobInv'
  BY <1>1 DEF IInv, JobInv, jobVars
<1>3. RunInv' /\ LockInv'
  BY <1>1, RunFrame, LockFrame DEF IInv, jobVars, workerVars
<1>4. RowInv'
  BY <1>1 DEF IInv, RowInv, jobVars, workerVars
<1> QED BY <1>2, <1>3, <1>4 DEF IInv

LEMMA RecoveryInv ==
  ASSUME IInv, Recovery
  PROVE  IInv'
<1>1. RowsSettle /\ UNCHANGED <<mainVars, stop, jobVars, workerVars, had>>
  <2>1. CASE ListStored \/ ListQueued
    BY <2>1, SameSettles DEF ListStored, ListQueued
  <2>2. CASE MarkAsCrashed
    BY <2>2, WrittenSettles DEF MarkAsCrashed, Final
  <2> QED BY <2>1, <2>2 DEF Recovery
<1>2. NoLapse' => NoLapse
  BY <1>1 DEF NoLapse
<1> QED BY <1>1, <1>2, JobFrame, RunFrame, LockFrame, RowFrame
        DEF IInv, mainVars, jobVars, workerVars

-----------------------------------------------------------------------------
(* The queue and the workers. *)

LEMMA StallInv ==
  ASSUME PartsOK, IInv, NEW e \in Executions, Stall(e)
  PROVE  IInv'
<1>1. /\ job \in [Executions -> {"none", "wait", "active", "gone"}]
      /\ holder \in [Executions -> Workers \cup {NoWorker}]
      /\ event \in [Executions -> {"none", "completed", "failed"}]
  BY DEF PartsOK, JobsOK
<1>2. /\ UNCHANGED <<row, mainVars, stop, workerVars>>
      /\ job[e] = "active" /\ holder' = [holder EXCEPT ![e] = NoWorker]
      /\ \/ job' = [job EXCEPT ![e] = "wait"] /\ UNCHANGED event
         \/ job' = [job EXCEPT ![e] = "gone"] /\ event' = [event EXCEPT ![e] = "failed"]
  BY DEF Stall
<1>3. NoLapse' => NoLapse /\ ~Held(e)
  BY DEF Stall, Fault, NoLapse
<1>4. event[e] = "none"
  BY <1>1, <1>2 DEF IInv, JobInv
<1>5. JobInv'
  BY <1>1, <1>2, <1>4 DEF IInv, JobInv, mainVars
<1>6. RunInv'
  BY <1>1, <1>2 DEF IInv, RunInv, workerVars
<1>7. NoLapse' => \A w \in Workers : proc[w][e] = "idle"
  BY <1>3 DEF IInv, LockInv, RunInv, Held
<1>8. LockInv'
  BY <1>1, <1>2, <1>3, <1>7 DEF IInv, LockInv, workerVars
<1>9. RowInv'
  BY <1>1, <1>2, <1>3 DEF IInv, RowInv, workerVars, mainVars
<1> QED BY <1>5, <1>6, <1>8, <1>9 DEF IInv

LEMMA PickUpInv ==
  ASSUME PartsOK, IInv, NEW w \in Workers, NEW e \in Executions, PickUp(w, e)
  PROVE  IInv'
<1>1. /\ job \in [Executions -> {"none", "wait", "active", "gone"}]
      /\ holder \in [Executions -> Workers \cup {NoWorker}]
      /\ proc \in [Workers -> [Executions -> ProcSteps]]
  BY DEF PartsOK, JobsOK, WorkersOK
<1>2. /\ UNCHANGED <<row, mainVars, stop, event, phase, runningJobs, had>>
      /\ phase[w] \in Alive /\ job[e] = "wait" /\ proc[w][e] = "idle"
      /\ job' = [job EXCEPT ![e] = "active"] /\ holder' = [holder EXCEPT ![e] = w]
      /\ proc' = [proc EXCEPT ![w][e] = "picked"]
  BY DEF PickUp, ProcGoto, Alive
<1>3. JobInv'
  BY <1>1, <1>2 DEF IInv, JobInv, mainVars
<1>4. RunInv'
  BY <1>1, <1>2 DEF IInv, RunInv
<1>5. NoLapse => \A v \in Workers : proc[v][e] = "idle"
  BY <1>2 DEF IInv, LockInv
<1>6. LockInv'
  BY <1>1, <1>2, <1>5 DEF IInv, LockInv, NoLapse
<1>7. RowInv'
  BY <1>1, <1>2 DEF IInv, RowInv, NoLapse, mainVars
<1> QED BY <1>3, <1>4, <1>6, <1>7 DEF IInv

LEMMA SetRunningInv ==
  ASSUME PartsOK, IInv, NEW w \in Workers, NEW e \in Executions, SetRunning(w, e)
  PROVE  IInv'
<1>1. proc \in [Workers -> [Executions -> ProcSteps]] /\ row \in [Executions -> Rows]
  BY DEF PartsOK, RowOK, WorkersOK
<1>2. /\ UNCHANGED <<mainVars, stop, jobVars, phase, runningJobs, had>>
      /\ proc[w][e] = "picked" /\ proc' = [proc EXCEPT ![w][e] = "starting"]
      /\ \A f \in Executions \ {e} : row'[f] = row[f]
  BY <1>1 DEF SetRunning, ProcGoto, Write, Written
<1>3. main[e] # "idle"
  BY <1>2 DEF IInv, RunInv, JobInv
<1>4. JobInv'
  BY <1>2, <1>3 DEF IInv, JobInv, mainVars, jobVars
<1>5. RunInv' /\ LockInv'
  BY <1>1, <1>2 DEF IInv, RunInv, LockInv, NoLapse, jobVars
<1>6. NoLapse => /\ job[e] = "active" /\ \A v \in Workers \ {w} : proc[v][e] = "idle"
                 /\ event[e] = "none" /\ main[e] \notin {"deleting", "reading"}
  BY <1>2 DEF IInv, LockInv, JobInv
<1>7. RowInv'
  BY <1>1, <1>2, <1>6 DEF IInv, RowInv, NoLapse, mainVars, jobVars
<1> QED BY <1>4, <1>5, <1>7 DEF IInv

(* A worker goes on with an execution that it is at, and where the run ends  *)
(* the row is settled; S is what it then counts.                             *)
Works(w, e, step, S) ==
  /\ step \in ProcSteps \ {"idle"}
  /\ proc[w][e] # "idle" /\ proc' = [proc EXCEPT ![w][e] = step]
  /\ NoLapse' => NoLapse
  /\ RowsSettle
  /\ step \in {"canceled", "saved", "ended"} /\ NoLapse => row'[e] \in Settled
  /\ UNCHANGED <<mainVars, stop, jobVars, phase>>
  /\ S \in SUBSET Executions /\ runningJobs' = [runningJobs EXCEPT ![w] = S]
  /\ S \ {e} = runningJobs[w] \ {e}
  /\ e \in S => step \in {"running", "saved"}
  /\ step = "running" => e \in S

LEMMA WorkGoesOn ==
  ASSUME PartsOK, IInv, NEW w \in Workers, NEW e \in Executions, NEW step, NEW S,
         Works(w, e, step, S)
  PROVE  IInv'
<1> USE DEF Works
<1>1. /\ proc \in [Workers -> [Executions -> ProcSteps]]
      /\ runningJobs \in [Workers -> SUBSET Executions]
  BY DEF PartsOK, WorkersOK
<1>2. JobInv'
  BY JobFrame DEF IInv, mainVars, jobVars
<1>3. RunInv'
  <2>2. ASSUME NEW v \in Workers, NEW f \in Executions, v # w \/ f # e
        PROVE  proc'[v][f] = proc[v][f] /\ (f \in runningJobs'[v] <=> f \in runningJobs[v])
    BY <1>1, <2>2
  <2>3. proc'[w][e] = step /\ (e \in runningJobs'[w] <=> e \in S)
    BY <1>1
  <2>4. UNCHANGED <<phase, job>>
    BY DEF jobVars
  <2> QED BY <2>2, <2>3, <2>4 DEF IInv, RunInv
<1>4. LockInv'
  BY <1>1 DEF IInv, LockInv, jobVars
<1>5. RowInv'
  BY <1>1 DEF IInv, RowInv, RowsSettle, mainVars, jobVars
<1> QED BY <1>2, <1>3, <1>4, <1>5 DEF IInv

LEMMA ReportInv ==
  ASSUME PartsOK, IInv, NEW w \in Workers, NEW e \in Executions, Report(w, e)
  PROVE  IInv'
<1>1. /\ job \in [Executions -> {"none", "wait", "active", "gone"}]
      /\ holder \in [Executions -> Workers \cup {NoWorker}]
      /\ event \in [Executions -> {"none", "completed", "failed"}]
      /\ proc \in [Workers -> [Executions -> ProcSteps]]
  BY DEF PartsOK, JobsOK, WorkersOK
<1>2. /\ UNCHANGED <<row, mainVars, stop, phase, runningJobs>>
      /\ proc[w][e] \in {"ended", "failed"} /\ proc' = [proc EXCEPT ![w][e] = "idle"]
  BY DEF Report, ProcGoto
<1>3. e \notin runningJobs[w] /\ job[e] # "none" /\ main[e] # "idle"
  BY <1>2 DEF IInv, RunInv, JobInv
<1>4. CASE holder[e] = w
  <2>1. PICK result \in {"completed", "failed"} :
          /\ result = "completed" => proc[w][e] = "ended"
          /\ Leave(e, result)
    BY <1>2, <1>4 DEF Report
  <2>2. /\ job' = [job EXCEPT ![e] = "gone"] /\ holder' = [holder EXCEPT ![e] = NoWorker]
        /\ event' = [event EXCEPT ![e] = result]
        /\ NoLapse' => NoLapse
    BY <2>1 DEF Leave, Fault, NoLapse
  <2>3. JobInv'
    BY <1>1, <1>2, <1>3, <2>1, <2>2 DEF IInv, JobInv, mainVars
  <2>4. RunInv'
    BY <1>1, <1>2, <1>3, <2>2 DEF IInv, RunInv
  <2>5. LockInv'
    BY <1>1, <1>2, <1>4, <2>2 DEF IInv, LockInv
  <2>6. NoLapse => main[e] \notin {"deleting", "reading"} /\ (result = "completed" => row[e] \in Settled)
    BY <1>2, <2>1 DEF IInv, LockInv, JobInv, RowInv
  <2>7. RowInv'
    BY <1>1, <1>2, <2>2, <2>6 DEF IInv, RowInv, mainVars
  <2> QED BY <2>3, <2>4, <2>5, <2>7 DEF IInv
<1>5. CASE holder[e] # w
  <2>1. UNCHANGED <<jobVars, had>>
    BY <1>5 DEF Report
  <2>2. JobInv'
    BY <1>2, <2>1, JobFrame, SameSettles DEF IInv, mainVars, jobVars
  <2>3. RunInv' /\ LockInv'
    BY <1>1, <1>2, <1>3, <2>1 DEF IInv, RunInv, LockInv, NoLapse, jobVars
  <2>4. RowInv'
    BY <1>1, <1>2, <2>1 DEF IInv, RowInv, NoLapse, mainVars, jobVars
  <2> QED BY <2>2, <2>3, <2>4 DEF IInv
<1> QED BY <1>4, <1>5

LEMMA WorkerInv ==
  ASSUME PartsOK, IInv, NEW w \in Workers, NEW e \in Executions, WorkerStep(w, e)
  PROVE  IInv'
<1>0. /\ runningJobs \in [Workers -> SUBSET Executions] /\ row \in [Executions -> Rows]
      /\ proc \in [Workers -> [Executions -> ProcSteps]]
      /\ {"starting", "failed", "running", "canceled", "saved", "ended"} \subseteq ProcSteps \ {"idle"}
      /\ UNCHANGED had => (NoLapse' => NoLapse)
  BY DEF PartsOK, WorkersOK, RowOK, ProcSteps, NoLapse
<1>s. /\ runningJobs[w] \in SUBSET Executions /\ runningJobs[w] \cup {e} \in SUBSET Executions
      /\ runningJobs[w] \ {e} \in SUBSET Executions
      /\ runningJobs = [runningJobs EXCEPT ![w] = runningJobs[w]]
  BY <1>0
<1>1. CASE PickUp(w, e)
  BY <1>1, PickUpInv
<1>2. CASE SetRunning(w, e)
  BY <1>2, SetRunningInv
<1>3. CASE Report(w, e)
  BY <1>3, ReportInv
<1>4. CASE FailJob(w, e)
  <2>1. /\ proc[w][e] \in {"picked", "starting"} /\ proc' = [proc EXCEPT ![w][e] = "failed"]
        /\ NoLapse' => NoLapse
        /\ UNCHANGED <<row, mainVars, stop, jobVars, phase, runningJobs>>
    BY <1>0, <1>4, FaultStays DEF FailJob, ProcGoto
  <2>2. e \notin runningJobs[w]
    BY <2>1 DEF IInv, RunInv
  <2>3. Works(w, e, "failed", runningJobs[w])
    BY <1>0, <1>s, <2>1, <2>2, SameSettles DEF Works
  <2> QED BY <2>3, WorkGoesOn
<1>5. CASE Start(w, e)
  <2>1. /\ proc[w][e] = "starting" /\ proc' = [proc EXCEPT ![w][e] = "running"]
        /\ runningJobs' = [runningJobs EXCEPT ![w] = runningJobs[w] \cup {e}]
        /\ UNCHANGED <<row, mainVars, stop, jobVars, phase, had>>
    BY <1>5 DEF Start, ProcGoto
  <2>2. (runningJobs[w] \cup {e}) \ {e} = runningJobs[w] \ {e} /\ e \in runningJobs[w] \cup {e}
    OBVIOUS
  <2>3. Works(w, e, "running", runningJobs[w] \cup {e})
    BY <1>0, <1>s, <2>1, <2>2, SameSettles DEF Works
  <2> QED BY <2>3, WorkGoesOn
<1>6. CASE Abort(w, e) /\ e \in runningJobs[w]
  <2>1. /\ proc[w][e] \in {"running", "saved"}
    BY <1>6 DEF IInv, RunInv
  <2>2. PICK step \in {"canceled", "saved"} : proc' = [proc EXCEPT ![w][e] = step]
    BY <1>0, <1>6, <2>1 DEF Abort, ProcGoto
  <2>3. /\ runningJobs' = [runningJobs EXCEPT ![w] = runningJobs[w] \ {e}]
        /\ RowsSettle /\ row'[e] \in Settled
        /\ UNCHANGED <<mainVars, stop, jobVars, phase, had>>
    BY <1>6, WriteSettles DEF Abort, Final
  <2>4. (runningJobs[w] \ {e}) \ {e} = runningJobs[w] \ {e} /\ e \notin runningJobs[w] \ {e}
    OBVIOUS
  <2>5. Works(w, e, step, runningJobs[w] \ {e})
    BY <1>0, <1>s, <2>1, <2>2, <2>3, <2>4 DEF Works
  <2> QED BY <2>5, WorkGoesOn
<1>7. CASE Abort(w, e) /\ e \notin runningJobs[w]
  <2>1. UNCHANGED <<row, runningJobs, proc, mainVars, stop, jobVars, phase, had>>
    BY <1>7 DEF Abort
  <2> QED BY <1>0, <2>1, JobFrame, RunFrame, LockFrame, RowFrame, SameSettles
          DEF IInv, mainVars, jobVars
<1>8. CASE Finish(w, e)
  <2>1. /\ proc[w][e] \in {"running", "canceled"} /\ proc' = [proc EXCEPT ![w][e] = "saved"]
        /\ UNCHANGED <<mainVars, stop, jobVars, phase, runningJobs, had>>
    BY <1>8 DEF Finish, ProcGoto
  <2>2. RowsSettle /\ (NoLapse => row'[e] \in Settled)
    <3>1. CASE \E status \in {"success", "error", "canceled"} : Write(e, status)
      BY <3>1, WriteSettles DEF Final
    <3>2. CASE Write(e, "waiting")
      BY <2>1, <3>2, WaitSettles DEF IInv, JobInv, RunInv
    <3>3. CASE proc[w][e] = "canceled" /\ UNCHANGED row
      BY <3>3, SameSettles DEF IInv, RowInv
    <3> QED BY <1>8, <3>1, <3>2, <3>3 DEF Finish
  <2>3. NoLapse' => NoLapse
    BY <1>0, <2>1
  <2>4. Works(w, e, "saved", runningJobs[w])
    BY <1>0, <1>s, <2>1, <2>2, <2>3 DEF Works
  <2> QED BY <2>4, WorkGoesOn
<1>9. CASE Resolve(w, e)
  <2>1. /\ proc[w][e] = "saved" /\ proc' = [proc EXCEPT ![w][e] = "ended"]
        /\ runningJobs' = [runningJobs EXCEPT ![w] = runningJobs[w] \ {e}]
        /\ UNCHANGED <<row, mainVars, stop, jobVars, phase, had>>
    BY <1>9 DEF Resolve, ProcGoto
  <2>2. NoLapse => row'[e] \in Settled
    BY <2>1 DEF IInv, RowInv
  <2>3. (runningJobs[w] \ {e}) \ {e} = runningJobs[w] \ {e} /\ e \notin runningJobs[w] \ {e}
    OBVIOUS
  <2>4. Works(w, e, "ended", runningJobs[w] \ {e})
    BY <1>0, <1>s, <2>1, <2>2, <2>3, SameSettles DEF Works
  <2> QED BY <2>4, WorkGoesOn
<1> QED BY <1>1, <1>2, <1>3, <1>4, <1>5, <1>6, <1>7, <1>8, <1>9 DEF WorkerStep

LEMMA PhaseInv ==
  ASSUME PartsOK, IInv, NEW w \in Workers, Crash(w) \/ Stop(w) \/ Exit(w) \/ WorkerStart(w)
  PROVE  IInv'
<1>0. /\ phase \in [Workers -> {"up", "stopping", "down", "recovering"}]
      /\ proc \in [Workers -> [Executions -> ProcSteps]]
      /\ runningJobs \in [Workers -> SUBSET Executions]
      /\ UNCHANGED had => (NoLapse' => NoLapse)
  BY DEF PartsOK, WorkersOK, NoLapse
<1>1. CASE Crash(w) \/ Exit(w)
  <2>1. /\ UNCHANGED <<row, mainVars, stop, jobVars>>
        /\ NoLapse' => NoLapse
        /\ phase' = [phase EXCEPT ![w] = "down"]
        /\ proc' = [proc EXCEPT ![w] = [e \in Executions |-> "idle"]]
        /\ runningJobs' = [runningJobs EXCEPT ![w] = {}]
    BY <1>0, <1>1, FaultStays DEF Crash, Exit, End
  <2>2. UNCHANGED <<row, main, entry, cancelling, stop, job, holder, event>>
    BY <2>1 DEF mainVars, jobVars
  <2>3. JobInv'
    BY <2>2, JobFrame, SameSettles DEF IInv
  <2>4. \A v \in Workers, e \in Executions :
          /\ proc'[v][e] # "idle" \/ e \in runningJobs'[v] => v # w
          /\ v # w => /\ proc'[v][e] = proc[v][e] /\ phase'[v] = phase[v]
                      /\ e \in runningJobs'[v] <=> e \in runningJobs[v]
    BY <1>0, <2>1
  <2>5. RunInv'
    BY <2>2, <2>4 DEF IInv, RunInv
  <2>6. LockInv'
    BY <2>1, <2>2, <2>4 DEF IInv, LockInv
  <2>7. RowInv'
    BY <2>1, <2>2, <2>4 DEF IInv, RowInv
  <2> QED BY <2>3, <2>5, <2>6, <2>7 DEF IInv
<1>2. CASE Stop(w) \/ WorkerStart(w)
  <2>1. /\ RowsSettle /\ UNCHANGED <<mainVars, stop, jobVars, proc, runningJobs>>
        /\ NoLapse' => NoLapse
    <3>1. CASE Stop(w)
      BY <3>1, FaultStays, SameSettles DEF Stop
    <3>2. CASE Restart(w)
      BY <1>0, <3>2, SameSettles DEF Restart
    <3>3. CASE RecoverFromLogs(w)
      BY <1>0, <3>3, WrittenSettles DEF RecoverFromLogs, Final
    <3> QED BY <1>2, <3>1, <3>2, <3>3 DEF WorkerStart
  <2>2. \A v \in Workers : phase[v] \in Alive => phase'[v] \in Alive
    BY <1>0, <1>2 DEF Stop, WorkerStart, Restart, RecoverFromLogs, Alive
  <2>3. JobInv' /\ LockInv' /\ RowInv'
    BY <2>1, JobFrame, LockFrame, RowFrame DEF IInv, mainVars, jobVars
  <2>4. RunInv'
    BY <2>1, <2>2 DEF IInv, RunInv, jobVars
  <2> QED BY <2>3, <2>4 DEF IInv
<1> QED BY <1>1, <1>2

LEMMA IInvStep == PartsOK /\ IInv /\ [Next]_vars => IInv'
<1> SUFFICES ASSUME PartsOK, IInv, [Next]_vars PROVE IInv'
  OBVIOUS
<1>1. CASE UNCHANGED vars
  <2>1. UNCHANGED <<row, mainVars, stop, jobVars, workerVars>> /\ (NoLapse' => NoLapse)
    BY <1>1 DEF vars, NoLapse
  <2> QED BY <2>1, JobFrame, RunFrame, LockFrame, RowFrame, SameSettles
          DEF IInv, mainVars, jobVars, workerVars
<1> QED BY <1>1, RegisterInv, MainInv, StopInv, RestartMainInv, RecoveryInv, StallInv, WorkerInv, PhaseInv
        DEF Next

LEMMA IInvAlways == Safety => [](PartsOK /\ IInv)
BY PartsInit, PartsStep, IInvInit, IInvStep, PTL DEF Safety

-----------------------------------------------------------------------------
(* The results. *)

(* As long as no lock expires under a worker that runs, no two workers       *)
(* process the same execution, whatever else fails (JobProcessor and Bull).  *)
THEOREM OneWorkerAtATime == Safety => []OneWorker
<1>1. IInv => OneWorker
  BY DEF IInv, LockInv, OneWorker, NoLapse
<1> QED BY <1>1, IInvAlways, PTL

(* What a worker counts when it decides to exit are runs that go on.         *)
THEOREM CountedAreRuns == Safety => []RunningJobsAreRuns
<1>1. PartsOK /\ IInv => RunningJobsAreRuns
  BY DEF PartsOK, WorkersOK, IInv, RunInv, RunningJobsAreRuns
<1> QED BY <1>1, IInvAlways, PTL

(* A worker that was told to stop does not exit while a run of it goes on    *)
(* that nobody cancelled (ScalingService.stop).                              *)
THEOREM StoppingWorkersFinish == Safety => ExitWaitsForRuns
<1> DEFINE Waits == \A w \in Workers, e \in Executions :
       phase[w] = "stopping" /\ phase'[w] = "down" /\ had' = had => proc[w][e] # "running"
<1>1. ASSUME PartsOK, IInv, [Next]_vars PROVE Waits
  <2> SUFFICES ASSUME NEW w \in Workers, NEW e \in Executions,
                      phase[w] = "stopping", phase'[w] = "down", had' = had
               PROVE  proc[w][e] # "running"
    OBVIOUS
  <2>0. phase \in [Workers -> {"up", "stopping", "down", "recovering"}]
    BY <1>1 DEF PartsOK, WorkersOK
  <2>1. Exit(w)
    <3>1. PICK v \in Workers : Crash(v) \/ Stop(v) \/ Exit(v) \/ WorkerStart(v)
      <4>1. ~UNCHANGED phase
        BY <2>0
      <4>2. ASSUME NEW f \in Executions
            PROVE  ~(Register(f) \/ Refuse(f) \/ MainStep(f))
        BY <4>1 DEF MainStep, Register, Refuse, Enqueue, Watch, Answer, Watchdog, ProcessError,
           SaveError, Finalize, HardDelete, workerVars
      <4>3. ASSUME NEW f \in Executions
            PROVE  ~(RequestStop(f) \/ StopRequestStep(f) \/ Stall(f))
        BY <4>1 DEF RequestStop, StopRequestStep, StopEntry, FindJob, StopFoundJob, StopDuringRun,
           CancelJob, Stall, workerVars
      <4>4. ~RestartMain /\ ~Recovery
        BY <4>1 DEF RestartMain, Recovery, ListStored, ListQueued, MarkAsCrashed, workerVars
      <4>5. ASSUME NEW v \in Workers, NEW f \in Executions
            PROVE  ~WorkerStep(v, f)
        BY <4>1 DEF WorkerStep, PickUp, SetRunning, FailJob, Start, Abort, Finish, Resolve, Report
      <4>6. ~UNCHANGED vars
        BY <4>1 DEF vars, workerVars
      <4> QED BY <1>1, <4>2, <4>3, <4>4, <4>5, <4>6 DEF Next
    <3>2. ~Crash(v) /\ ~Stop(v)
      BY DEF Crash, Stop, Fault
    <3>3. ~WorkerStart(v)
      BY <2>0 DEF WorkerStart, Restart, RecoverFromLogs
    <3> QED BY <2>0, <3>1, <3>2, <3>3 DEF Exit, End
  <2> QED BY <1>1, <2>1 DEF Exit, IInv, RunInv
<1>2. PartsOK /\ IInv /\ [Next]_vars => [Waits]_vars
  BY <1>1
<1> QED BY <1>2, IInvAlways, PTL DEF Safety, ExitWaitsForRuns

(* Unless a lock lapsed or the job failed, only rows of runs that have ended *)
(* are deleted, although the main takes any row without an error for a       *)
(* success (enqueueExecution() and determineFinalExecutionStatus).           *)
THEOREM SettledAreDeleted == Safety => OnlySettledDeleted
<1> DEFINE Deletes == \A e \in Executions :
       row[e] # "deleted" /\ row'[e] = "deleted" /\ "lapse" \notin had /\ event[e] # "failed"
         => row[e] \in Final \cup {"waiting"}
<1>1. ASSUME PartsOK, IInv, [Next]_vars PROVE Deletes
  <2> SUFFICES ASSUME NEW e \in Executions, row[e] # "deleted", row'[e] = "deleted",
                      "lapse" \notin had, event[e] # "failed"
               PROVE  row[e] \in Final \cup {"waiting"}
    OBVIOUS
  <2>0. row \in [Executions -> Rows]
    BY <1>1 DEF PartsOK, RowOK
  <2>1. HardDelete(e)
    <3>1. ASSUME NEW E, NEW status, status # "deleted", row' = Written(row, E, status)
          PROVE  FALSE
      BY <3>1 DEF Written
    <3>2. ~UNCHANGED row
      OBVIOUS
    <3>4. CASE \E f \in Executions : Register(f) \/ Refuse(f) \/ MainStep(f)
      <4>1. PICK f \in Executions : Register(f) \/ Refuse(f) \/ MainStep(f)
        BY <3>4
      <4>2. HardDelete(f)
        BY <3>1, <3>2, <4>1 DEF MainStep, Write, Register, Refuse, Enqueue, Watch, Answer,
           Watchdog, ProcessError, SaveError, Finalize
      <4> QED BY <2>0, <4>2 DEF HardDelete
    <3>5. CASE \E f \in Executions : RequestStop(f) \/ StopRequestStep(f) \/ Stall(f)
      BY <3>1, <3>2, <3>5 DEF RequestStop, StopRequestStep, StopEntry, FindJob, StopFoundJob,
         StopDuringRun, CancelJob, Stall, Write
    <3>6. CASE RestartMain \/ Recovery
      BY <3>1, <3>2, <3>6 DEF RestartMain, Recovery, ListStored, ListQueued, MarkAsCrashed
    <3>7. CASE \E w \in Workers, f \in Executions : WorkerStep(w, f)
      <4>1. PICK w \in Workers, f \in Executions : WorkerStep(w, f)
        BY <3>7
      <4>2. UNCHANGED row \/ \E status \in {"running", "success", "error", "waiting", "canceled"} : Write(f, status)
        BY <4>1 DEF WorkerStep, PickUp, SetRunning, FailJob, Start, Abort, Finish, Resolve, Report
      <4> QED BY <3>1, <3>2, <4>2 DEF Write
    <3>8. CASE \E w \in Workers : Crash(w) \/ Stop(w) \/ Exit(w) \/ WorkerStart(w)
      BY <3>1, <3>2, <3>8 DEF Crash, Stop, Exit, End, WorkerStart, Restart, RecoverFromLogs
    <3> QED BY <1>1, <3>2, <3>4, <3>5, <3>6, <3>7, <3>8 DEF Next, vars
  <2>2. row[e] \in Settled
    BY <1>1, <2>1 DEF HardDelete, IInv, RowInv, NoLapse
  <2> QED BY <2>2 DEF Settled
<1>2. PartsOK /\ IInv /\ [Next]_vars => [Deletes]_vars
  BY <1>1
<1> QED BY <1>2, IInvAlways, PTL DEF Safety, OnlySettledDeleted

-----------------------------------------------------------------------------
(* What the main may believe of an execution, and what holds until its job   *)
(* stalls.                                                                   *)

(* What has come of the execution decides what the others know of it: it is  *)
(* listed and logged only once it is registered, the main takes an error     *)
(* only from a failed job, and what leaves the queue without an event was    *)
(* asked to stop.                                                            *)
Known(e) ==
  /\ main[e] = "idle" => row[e] = "none" /\ e \notin listed /\ \A w \in Workers : e \notin log[w]
  /\ main[e] \in {"failing", "saving"} => event[e] = "failed"
  /\ main[e] = "done" => job[e] = "gone" \/ "restart" \in had
  /\ (job[e] = "gone" /\ event[e] = "none") \/ cancelling[e] => stop[e] # "idle"
  /\ holder[e] # NoWorker => job[e] = "active"

(* The job has not been put back; and if it may be, then its failure is not  *)
(* that it stalled.                                                          *)
FirstRun(e) == stalled[e] = 0 /\ (event[e] = "failed" => MaxStalledCount # 0)

(* Until then one worker at most is at the execution and has it in its log;  *)
(* the row is settled when the run, the job or the main says so; and a       *)
(* success is found where nothing that follows writes the row.               *)
RunOnce(e) ==
  /\ \A w \in Workers :
       /\ proc[w][e] # "idle" => job[e] = "active" /\ holder[e] = w
       /\ e \in log[w] => job[e] = "gone" \/ (job[e] = "active" /\ holder[e] = w)
       /\ proc[w][e] \in {"canceled", "saved", "ended"} => row[e] \in Settled
  /\ event[e] = "completed" => row[e] \in Settled
  /\ stop[e] = "idle" /\ event[e] # "failed"
       /\ (main[e] \in {"reading", "deleting"} \/ (main[e] = "done" /\ "restart" \notin had))
     => row[e] \in Settled
  /\ row[e] = "success" =>
       /\ job[e] \in {"active", "gone"} /\ main[e] # "saving"
       /\ \A w \in Workers : /\ proc[w][e] \in {"idle", "saved", "ended"}
                             /\ phase[w] = "recovering" => e \notin log[w]

History(e) == Known(e) /\ (FirstRun(e) => RunOnce(e))
HistoryInv == \A e \in Executions : History(e)

(* A step that does not touch an execution. *)
Spares(e) ==
  /\ row'[e] = row[e] /\ main'[e] = main[e] /\ stop'[e] = stop[e]
  /\ job'[e] = job[e] /\ holder'[e] = holder[e] /\ stalled'[e] = stalled[e] /\ event'[e] = event[e]
  /\ cancelling'[e] => cancelling[e]
  /\ e \in listed' => e \in listed
  /\ \A w \in Workers : /\ proc'[w][e] = proc[w][e]
                        /\ e \in log'[w] => e \in log[w]
                        /\ phase'[w] = "recovering" => phase[w] = "recovering"
  /\ had \subseteq had'

LEMMA SparedHistory ==
  ASSUME NEW e \in Executions, History(e), Spares(e)
  PROVE  History(e)'
BY DEF Spares, History, Known, FirstRun, RunOnce

LEMMA SparesUntouched ==
  ASSUME UNCHANGED <<row, main, cancelling, stop, listed, job, holder, stalled, event, phase, proc, log>>,
         had \subseteq had'
  PROVE  \A e \in Executions : Spares(e)
BY DEF Spares

LEMMA HadGrows == ASSUME NEW kind, Fault(kind) PROVE had \subseteq had'
BY DEF Fault

LEMMA HistoryInit == Init => HistoryInv
BY DEF Init, HistoryInv, History, Known, RunOnce

LEMMA MainSpares ==
  ASSUME PartsOK, NEW e \in Executions, Register(e) \/ Refuse(e) \/ MainStep(e),
         NEW f \in Executions, f # e
  PROVE  Spares(f)
<1>1. /\ main \in [Executions -> MainSteps] /\ row \in [Executions -> Rows]
      /\ job \in [Executions -> {"none", "wait", "active", "gone"}]
  BY DEF PartsOK, MainOK, RowOK, JobsOK
<1>2. main'[f] = main[f] /\ row'[f] = row[f] /\ job'[f] = job[f] /\ had \subseteq had'
      /\ UNCHANGED <<cancelling, stop, recoveryVars, holder, stalled, event, workerVars>>
  BY <1>1, HadGrows DEF MainStep, Register, Refuse, Enqueue, Watch, Answer, Watchdog, ProcessError,
     SaveError, Finalize, HardDelete, Goto, Write, Written, jobVars
<1> QED BY <1>2 DEF Spares, recoveryVars, workerVars

LEMMA MainHistory ==
  ASSUME PartsOK, IInv, NEW e \in Executions, History(e), Register(e) \/ Refuse(e) \/ MainStep(e)
  PROVE  History(e)'
<1> USE DEF History, Known, FirstRun, IInv, Goto, Drop
<1>0. /\ main \in [Executions -> MainSteps] /\ row \in [Executions -> Rows]
      /\ job \in [Executions -> {"none", "wait", "active", "gone"}]
      /\ event \in [Executions -> {"none", "completed", "failed"}]
      /\ proc \in [Workers -> [Executions -> ProcSteps]]
      /\ entry \in [Executions -> BOOLEAN]
  BY DEF PartsOK, MainOK, RowOK, JobsOK, WorkersOK
<1>1. CASE Register(e)
  <2>1. main[e] = "idle" /\ main'[e] = "registered" /\ job[e] = "none" /\ event[e] = "none"
        /\ row'[e] \in {"new", "deleted"} /\ \A w \in Workers : proc[w][e] = "idle"
    BY <1>0, <1>1 DEF Register, Write, Written, JobInv, RunInv
  <2> QED BY <1>1, <2>1 DEF Register, recoveryVars, jobVars, workerVars, RunOnce
<1>2. CASE Refuse(e)
  <2>1. main'[e] = "refused" /\ had \subseteq had'
    BY <1>0, <1>2, HadGrows DEF Refuse
  <2> QED BY <1>2, <2>1 DEF Refuse, recoveryVars, jobVars, workerVars, RunOnce
<1>3. CASE Enqueue(e)
  <2>1. main[e] = "registered" /\ main'[e] = "enqueued" /\ job[e] = "none" /\ event[e] = "none"
        /\ job'[e] = "wait" /\ \A w \in Workers : proc[w][e] = "idle"
    BY <1>0, <1>3 DEF Enqueue, JobInv, RunInv
  <2> QED BY <1>3, <2>1 DEF Enqueue, recoveryVars, workerVars, RunOnce
<1>4. CASE Watch(e)
  <2>1. main'[e] = "watching"
    BY <1>0, <1>4 DEF Watch
  <2> QED BY <1>4, <2>1 DEF Watch, recoveryVars, jobVars, workerVars, RunOnce
<1>5. CASE Answer(e) \/ Watchdog(e)
  <2>1. /\ UNCHANGED <<row, cancelling, stop, recoveryVars, jobVars, workerVars, had>>
        /\ \/ main'[e] = "reading" /\ (event[e] = "completed" \/ job[e] = "gone")
           \/ main'[e] = "failing" /\ event[e] = "failed"
    BY <1>0, <1>5 DEF Answer, Watchdog
  <2> QED BY <1>0, <2>1 DEF recoveryVars, jobVars, workerVars, RunOnce
<1>6. CASE ProcessError(e)
  <2>1. /\ UNCHANGED <<row, cancelling, stop, recoveryVars, jobVars, workerVars, had>>
        /\ main[e] = "failing" => job[e] = "gone"
        /\ \/ main[e] = "failing" /\ main'[e] \in {"reading", "done"}
           \/ main[e] = "failing" /\ main'[e] = "saving" /\ row[e] # "success"
           \/ main'[e] \in {"throwing", "thrown"}
    BY <1>0, <1>6 DEF ProcessError, JobInv
  <2> QED BY <2>1 DEF recoveryVars, jobVars, workerVars, RunOnce
<1>7. CASE SaveError(e)
  <2>1. /\ UNCHANGED <<cancelling, stop, recoveryVars, jobVars, workerVars, had>>
        /\ row'[e] \in {"error", "deleted"} /\ row'[e] \in Settled
        /\ \/ main[e] = "saving" /\ main'[e] = "done" /\ job[e] = "gone"
           \/ main'[e] = "thrown"
    BY <1>0, <1>7 DEF SaveError, JobInv, Write, Written, Settled, Final
  <2> QED BY <2>1 DEF recoveryVars, jobVars, workerVars, RunOnce
<1>8. CASE Finalize(e)
  <2>1. /\ UNCHANGED <<row, cancelling, stop, recoveryVars, jobVars, workerVars, had>>
        /\ main[e] = "reading" /\ main'[e] \in {"deleting", "done"} /\ job[e] = "gone"
    BY <1>0, <1>8 DEF Finalize, JobInv
  <2> QED BY <2>1 DEF recoveryVars, jobVars, workerVars, RunOnce
<1>9. CASE HardDelete(e)
  <2>1. /\ UNCHANGED <<cancelling, stop, recoveryVars, jobVars, workerVars, had>>
        /\ main[e] = "deleting" /\ main'[e] = "done" /\ job[e] = "gone"
        /\ row'[e] = "deleted" /\ "deleted" \in Settled
    BY <1>0, <1>9 DEF HardDelete, JobInv, Settled
  <2> QED BY <2>1 DEF recoveryVars, jobVars, workerVars, RunOnce
<1> QED BY <1>1, <1>2, <1>3, <1>4, <1>5, <1>6, <1>7, <1>8, <1>9 DEF MainStep

(* Requests to stop. *)
LEMMA StopSpares ==
  ASSUME PartsOK, NEW e \in Executions, RequestStop(e) \/ StopRequestStep(e),
         NEW f \in Executions, f # e
  PROVE  Spares(f)
<1>1. /\ row \in [Executions -> Rows] /\ cancelling \in [Executions -> BOOLEAN]
      /\ stop \in [Executions -> StopSteps]
      /\ job \in [Executions -> {"none", "wait", "active", "gone"}]
  BY DEF PartsOK, MainOK, RowOK, StopOK, JobsOK
<1>2. /\ UNCHANGED <<main, recoveryVars, phase, proc, log>> /\ had \subseteq had'
      /\ stop'[f] = stop[f] /\ cancelling'[f] = cancelling[f] /\ row'[f] = row[f]
      /\ UNCHANGED jobVars \/ StopJob(e)
  BY <1>1, HadGrows DEF RequestStop, StopRequestStep, StopEntry, FindJob, StopFoundJob,
     StopDuringRun, CancelJob, StopStep, Write, Written, mainVars, workerVars
<1>3. job'[f] = job[f] /\ UNCHANGED <<holder, stalled, event>>
  BY <1>1, <1>2, StopJobJobs DEF jobVars
<1> QED BY <1>2, <1>3 DEF Spares, recoveryVars

LEMMA StopHistory ==
  ASSUME PartsOK, IInv, NEW e \in Executions, History(e), RequestStop(e) \/ StopRequestStep(e)
  PROVE  History(e)'
<1> USE DEF History, Known, FirstRun, IInv
<1>0. /\ row \in [Executions -> Rows] /\ stop \in [Executions -> StopSteps]
      /\ cancelling \in [Executions -> BOOLEAN]
      /\ job \in [Executions -> {"none", "wait", "active", "gone"}]
  BY DEF PartsOK, RowOK, MainOK, StopOK, JobsOK
<1>1. CASE RequestStop(e)
  <2>1. stop'[e] = "stoppable" /\ had \subseteq had'
        /\ UNCHANGED <<row, mainVars, recoveryVars, jobVars, workerVars>>
    BY <1>0, <1>1, HadGrows DEF RequestStop, StopStep
  <2> QED BY <2>1 DEF mainVars, recoveryVars, jobVars, workerVars, RunOnce
<1>2. CASE StopEntry(e) \/ FindJob(e)
  <2>1. /\ stop'[e] \in {"finding", "stopping", "writing"}
        /\ UNCHANGED <<row, main, recoveryVars, jobVars, workerVars, had>>
    BY <1>0, <1>2 DEF StopEntry, FindJob, StopStep, mainVars
  <2> QED BY <2>1 DEF recoveryVars, jobVars, workerVars, RunOnce
<1>3. CASE StopFoundJob(e) \/ CancelJob(e)
  <2>1. /\ StopJob(e) /\ stop[e] # "idle" /\ stop'[e] # "idle"
        /\ UNCHANGED <<row, main, recoveryVars, phase, proc, log, had>>
    BY <1>0, <1>3 DEF StopFoundJob, CancelJob, StopStep, mainVars
  <2>2. /\ UNCHANGED <<holder, stalled, event>>
        /\ job' = job \/ (job[e] = "wait" /\ job'[e] = "gone")
    BY <1>0, <2>1, StopJobJobs
  <2>3. main[e] # "idle"
    BY <1>3 DEF JobInv, StopFoundJob, CancelJob, StopStep
  <2> QED BY <2>1, <2>2, <2>3 DEF recoveryVars, RunOnce
<1>4. CASE StopDuringRun(e)
  <2>1. /\ stop'[e] = "done" /\ main[e] # "idle"
        /\ row'[e] \in {"canceled", "deleted"} /\ row'[e] \in Settled
        /\ UNCHANGED <<mainVars, recoveryVars, jobVars, workerVars, had>>
    BY <1>0, <1>4 DEF StopDuringRun, StopStep, Write, Written, Settled, Final, JobInv
  <2> QED BY <2>1 DEF mainVars, recoveryVars, jobVars, workerVars, RunOnce
<1> QED BY <1>1, <1>2, <1>3, <1>4 DEF StopRequestStep

(* A restart of the main, and queue recovery, which touch every execution.   *)
LEMMA RecoveryHistory ==
  ASSUME PartsOK, NEW e \in Executions, History(e), RestartMain \/ Recovery
  PROVE  History(e)'
<1> USE DEF History, Known, FirstRun
<1>0. row \in [Executions -> Rows]
  BY DEF PartsOK, RowOK
<1>1. CASE RestartMain
  <2>1. /\ main'[e] = (IF main[e] = "idle" THEN "idle" ELSE "done") /\ ~cancelling'[e]
        /\ stop'[e] = (IF stop[e] = "idle" THEN "idle" ELSE "done")
        /\ listed' = {} /\ "restart" \in had' /\ UNCHANGED <<row, jobVars, workerVars>>
    BY <1>1 DEF RestartMain, Fault
  <2> QED BY <2>1 DEF jobVars, workerVars, RunOnce
<1>2. CASE ListStored \/ ListQueued
  <2>1. /\ e \in listed' => e \in listed \/ row[e] \in InProgress
        /\ UNCHANGED <<row, mainVars, stop, jobVars, workerVars, had>>
    BY <1>2 DEF ListStored, ListQueued
  <2> QED BY <2>1 DEF mainVars, jobVars, workerVars, RunOnce, InProgress
<1>3. CASE MarkAsCrashed
  <2>1. /\ \/ row'[e] = row[e]
           \/ e \in listed /\ row'[e] = "crashed" /\ row'[e] \in Settled
        /\ listed' = {} /\ UNCHANGED <<mainVars, stop, jobVars, workerVars, had>>
    BY <1>0, <1>3 DEF MarkAsCrashed, Written, Settled, Final
  <2> QED BY <2>1 DEF mainVars, jobVars, workerVars, RunOnce
<1> QED BY <1>1, <1>2, <1>3 DEF Recovery

(* A lock that expires. *)
LEMMA StallSpares ==
  ASSUME PartsOK, NEW e \in Executions, Stall(e), NEW f \in Executions, f # e
  PROVE  Spares(f)
<1>1. /\ job \in [Executions -> {"none", "wait", "active", "gone"}]
      /\ holder \in [Executions -> Workers \cup {NoWorker}]
      /\ stalled \in [Executions -> 0..MaxStalledCount]
      /\ event \in [Executions -> {"none", "completed", "failed"}]
  BY DEF PartsOK, JobsOK
<1>2. had \subseteq had'
  BY HadGrows DEF Stall
<1>3. job'[f] = job[f] /\ holder'[f] = holder[f] /\ stalled'[f] = stalled[f] /\ event'[f] = event[f]
  BY <1>1 DEF Stall
<1> QED BY <1>2, <1>3 DEF Stall, Spares, mainVars, recoveryVars, workerVars

LEMMA StallHistory ==
  ASSUME PartsOK, IInv, NEW e \in Executions, History(e), Stall(e)
  PROVE  History(e)'
<1>1. /\ job \in [Executions -> {"none", "wait", "active", "gone"}]
      /\ holder \in [Executions -> Workers \cup {NoWorker}]
      /\ stalled \in [Executions -> 0..MaxStalledCount]
      /\ event \in [Executions -> {"none", "completed", "failed"}]
      /\ stalled[e] \in Nat /\ MaxStalledCount \in Nat
  BY StalledAssumption DEF PartsOK, JobsOK
<1>2. had \subseteq had'
  BY HadGrows DEF Stall
<1>3. /\ job[e] = "active" /\ holder'[e] = NoWorker
      /\ UNCHANGED <<row, mainVars, stop, recoveryVars, workerVars>>
  BY <1>1 DEF Stall
<1>4. event[e] = "none" /\ main[e] \notin {"idle", "failing", "saving"}
  BY <1>1, <1>3 DEF IInv, JobInv, History, Known
<1>5. CASE stalled[e] < MaxStalledCount
  <2>1. job'[e] = "wait" /\ stalled'[e] = stalled[e] + 1 /\ event'[e] = event[e]
    BY <1>1, <1>5 DEF Stall
  <2>2. stalled'[e] # 0
    BY <1>1, <2>1
  <2> QED BY <1>2, <1>3, <1>4, <2>1, <2>2 DEF History, Known, FirstRun, mainVars, recoveryVars, workerVars
<1>6. CASE ~(stalled[e] < MaxStalledCount)
  <2>1. job'[e] = "gone" /\ event'[e] = "failed" /\ stalled'[e] = stalled[e]
    BY <1>1, <1>6 DEF Stall
  <2>2. ~FirstRun(e)'
    BY <1>1, <1>6, <2>1 DEF FirstRun
  <2> QED BY <1>2, <1>3, <1>4, <2>1, <2>2 DEF History, Known, mainVars, recoveryVars, workerVars
<1> QED BY <1>5, <1>6

(* The steps of a worker. *)
LEMMA WorkerSpares ==
  ASSUME PartsOK, NEW w \in Workers, NEW e \in Executions, WorkerStep(w, e),
         NEW f \in Executions, f # e
  PROVE  Spares(f)
<1>1. /\ row \in [Executions -> Rows]
      /\ job \in [Executions -> {"none", "wait", "active", "gone"}]
      /\ holder \in [Executions -> Workers \cup {NoWorker}]
      /\ event \in [Executions -> {"none", "completed", "failed"}]
      /\ proc \in [Workers -> [Executions -> ProcSteps]]
      /\ log \in [Workers -> SUBSET Executions]
  BY DEF PartsOK, RowOK, JobsOK, WorkersOK
<1>2. had \subseteq had' /\ UNCHANGED <<mainVars, stop, recoveryVars, stalled, phase>>
  BY HadGrows DEF WorkerStep, PickUp, SetRunning, FailJob, Start, Abort, Finish, Resolve, Report,
     Leave, jobVars
<1>3. row'[f] = row[f]
  BY <1>1 DEF WorkerStep, PickUp, SetRunning, FailJob, Start, Abort, Finish, Resolve, Report,
     Write, Written
<1>4. job'[f] = job[f] /\ holder'[f] = holder[f] /\ event'[f] = event[f]
  BY <1>1 DEF WorkerStep, PickUp, SetRunning, FailJob, Start, Abort, Finish, Resolve, Report,
     Leave, jobVars
<1>5. proc' = proc \/ \E step : proc' = [proc EXCEPT ![w][e] = step]
  BY DEF WorkerStep, PickUp, SetRunning, FailJob, Start, Abort, Finish, Resolve, Report, ProcGoto
<1>6. \A v \in Workers : proc'[v][f] = proc[v][f]
  BY <1>1, <1>5
<1>7. \A v \in Workers : f \in log'[v] => f \in log[v]
  BY <1>1 DEF WorkerStep, PickUp, SetRunning, FailJob, Start, Abort, Finish, Resolve, Report
<1> QED BY <1>2, <1>3, <1>4, <1>6, <1>7 DEF Spares, mainVars, recoveryVars

LEMMA WorkerHistory ==
  ASSUME PartsOK, IInv, NEW w \in Workers, NEW e \in Executions, History(e), WorkerStep(w, e)
  PROVE  History(e)'
<1> USE DEF History, Known, FirstRun
<1>0. /\ row \in [Executions -> Rows]
      /\ job \in [Executions -> {"none", "wait", "active", "gone"}]
      /\ holder \in [Executions -> Workers \cup {NoWorker}]
      /\ event \in [Executions -> {"none", "completed", "failed"}]
      /\ proc \in [Workers -> [Executions -> ProcSteps]]
      /\ log \in [Workers -> SUBSET Executions]
  BY DEF PartsOK, RowOK, JobsOK, WorkersOK
<1>a. /\ main[e] = "idle" => job[e] = "none"
      /\ main[e] \in {"failing", "reading", "deleting"} => job[e] = "gone"
      /\ event[e] # "none" => job[e] = "gone"
      /\ proc[w][e] # "idle" => job[e] # "none" /\ phase[w] \in Alive
      /\ e \in runningJobs[w] => proc[w][e] \in {"running", "saved"}
  BY DEF IInv, JobInv, RunInv
<1>1. CASE PickUp(w, e)
  <2>1. /\ job[e] = "wait" /\ job'[e] = "active" /\ holder'[e] = w
        /\ proc'[w][e] = "picked" /\ \A v \in Workers : v # w => proc'[v][e] = proc[v][e]
        /\ UNCHANGED <<row, mainVars, stop, recoveryVars, stalled, event, phase, log, had>>
    BY <1>0, <1>1 DEF PickUp, ProcGoto
  <2> QED BY <1>a, <2>1 DEF mainVars, recoveryVars, RunOnce
<1>2. CASE SetRunning(w, e)
  <2>1. /\ proc[w][e] = "picked" /\ row'[e] = "running"
        /\ proc'[w][e] = "starting" /\ \A v \in Workers : v # w => proc'[v][e] = proc[v][e]
        /\ UNCHANGED <<mainVars, stop, recoveryVars, jobVars, phase, log, had>>
    BY <1>0, <1>2 DEF SetRunning, ProcGoto, Write, Written
  <2>2. FirstRun(e) => job[e] = "active" /\ holder[e] = w
    BY <2>1 DEF RunOnce
  <2>3. FirstRun(e) => \A v \in Workers : v # w => proc[v][e] = "idle"
    BY <2>2 DEF RunOnce
  <2>4. Known(e)'
    BY <1>a, <2>1 DEF mainVars, recoveryVars, jobVars
  <2>5. FirstRun(e) => RunOnce(e)'
    BY <1>a, <2>1, <2>2, <2>3 DEF mainVars, recoveryVars, jobVars, RunOnce
  <2> QED BY <2>1, <2>4, <2>5 DEF jobVars
<1>3. CASE FailJob(w, e)
  <2>1. /\ proc[w][e] \in {"picked", "starting"} /\ had \subseteq had'
        /\ proc'[w][e] = "failed" /\ \A v \in Workers : v # w => proc'[v][e] = proc[v][e]
        /\ UNCHANGED <<row, mainVars, stop, recoveryVars, jobVars, phase, log>>
    BY <1>0, <1>3, HadGrows DEF FailJob, ProcGoto
  <2> QED BY <2>1 DEF mainVars, recoveryVars, jobVars, RunOnce
<1>4. CASE Start(w, e)
  <2>1. /\ proc[w][e] = "starting"
        /\ proc'[w][e] = "running" /\ \A v \in Workers : v # w => proc'[v][e] = proc[v][e]
        /\ \A v \in Workers : v # w => log'[v] = log[v]
        /\ UNCHANGED <<row, mainVars, stop, recoveryVars, jobVars, phase, had>>
    BY <1>0, <1>4 DEF Start, ProcGoto
  <2> QED BY <1>a, <2>1 DEF mainVars, recoveryVars, jobVars, RunOnce
<1>5. CASE Abort(w, e) /\ e \in runningJobs[w]
  <2>1. /\ proc[w][e] \in {"running", "saved"} /\ e \notin log'[w]
        /\ row'[e] \in {"canceled", "deleted"} /\ row'[e] \in Settled
        /\ proc'[w][e] \in {"canceled", "saved"}
        /\ \A v \in Workers : v # w => proc'[v][e] = proc[v][e] /\ log'[v] = log[v]
        /\ UNCHANGED <<mainVars, stop, recoveryVars, jobVars, phase, had>>
    BY <1>0, <1>a, <1>5 DEF Abort, ProcGoto, Write, Written, Settled, Final
  <2> QED BY <1>a, <2>1 DEF mainVars, recoveryVars, jobVars, RunOnce
<1>6. CASE Abort(w, e) /\ e \notin runningJobs[w]
  <2>1. UNCHANGED <<row, proc, log, mainVars, stop, recoveryVars, jobVars, phase, had>>
    BY <1>6 DEF Abort
  <2> QED BY <2>1 DEF mainVars, recoveryVars, jobVars, RunOnce
<1>7. CASE Finish(w, e)
  <2>1. /\ proc[w][e] \in {"running", "canceled"}
        /\ \/ row'[e] \in {"success", "error", "waiting", "canceled", "deleted"} /\ row'[e] \in Settled
           \/ proc[w][e] = "canceled" /\ row'[e] = row[e]
        /\ proc'[w][e] = "saved" /\ \A v \in Workers : v # w => proc'[v][e] = proc[v][e]
        /\ UNCHANGED <<mainVars, stop, recoveryVars, jobVars, phase, log, had>>
    BY <1>0, <1>7 DEF Finish, ProcGoto, Write, Written, Settled, Final
  <2>2. FirstRun(e) => job[e] = "active" /\ holder[e] = w /\ row'[e] \in Settled
    BY <2>1 DEF RunOnce
  <2>3. FirstRun(e) => \A v \in Workers : v # w => proc[v][e] = "idle" /\ e \notin log[v]
    BY <2>2 DEF RunOnce
  <2>4. Known(e)'
    BY <1>a, <2>1 DEF mainVars, recoveryVars, jobVars
  <2>5. FirstRun(e) => RunOnce(e)'
    BY <1>a, <2>1, <2>2, <2>3 DEF mainVars, recoveryVars, jobVars, RunOnce, Alive
  <2> QED BY <2>1, <2>4, <2>5 DEF jobVars
<1>8. CASE Resolve(w, e)
  <2>1. /\ proc[w][e] = "saved" /\ e \notin log'[w]
        /\ proc'[w][e] = "ended"
        /\ \A v \in Workers : v # w => proc'[v][e] = proc[v][e] /\ log'[v] = log[v]
        /\ UNCHANGED <<row, mainVars, stop, recoveryVars, jobVars, phase, had>>
    BY <1>0, <1>8 DEF Resolve, ProcGoto
  <2> QED BY <2>1 DEF mainVars, recoveryVars, jobVars, RunOnce
<1>9. CASE Report(w, e)
  <2>1. /\ proc[w][e] \in {"ended", "failed"}
        /\ proc'[w][e] = "idle" /\ \A v \in Workers : v # w => proc'[v][e] = proc[v][e]
        /\ UNCHANGED <<row, mainVars, stop, recoveryVars, phase, log>>
    BY <1>0, <1>9 DEF Report, ProcGoto
  <2>2. CASE holder[e] = w
    <3>1. job[e] = "active" /\ event[e] = "none"
      BY <1>0, <1>a, <2>2, NoWorkerAssumption
    <3>2. /\ job'[e] = "gone" /\ holder'[e] = NoWorker /\ stalled'[e] = stalled[e]
          /\ event'[e] = IF proc[w][e] = "ended" THEN "completed" ELSE "failed"
      BY <1>0, <1>9, <2>2 DEF Report, Leave
    <3>3. had \subseteq had'
      BY <1>9, <2>2, HadGrows DEF Report, Leave
    <3> QED BY <1>a, <2>1, <3>1, <3>2, <3>3 DEF mainVars, recoveryVars, RunOnce
  <2>3. CASE holder[e] # w
    <3>1. UNCHANGED <<jobVars, had>>
      BY <1>9, <2>3 DEF Report
    <3> QED BY <2>1, <3>1 DEF mainVars, recoveryVars, jobVars, RunOnce
  <2> QED BY <2>2, <2>3
<1> QED BY <1>1, <1>2, <1>3, <1>4, <1>5, <1>6, <1>7, <1>8, <1>9 DEF WorkerStep

(* A worker that ends or starts. *)
LEMMA PhaseHistory ==
  ASSUME PartsOK, NEW w \in Workers, Crash(w) \/ Stop(w) \/ Exit(w) \/ WorkerStart(w),
         NEW e \in Executions, History(e)
  PROVE  History(e)'
<1> USE DEF History, Known, FirstRun
<1>0. /\ row \in [Executions -> Rows]
      /\ proc \in [Workers -> [Executions -> ProcSteps]]
      /\ phase \in [Workers -> {"up", "stopping", "down", "recovering"}]
      /\ log \in [Workers -> SUBSET Executions]
  BY DEF PartsOK, RowOK, WorkersOK
<1>1. CASE Crash(w) \/ Exit(w)
  <2>1. /\ UNCHANGED <<row, mainVars, stop, recoveryVars, jobVars, log>> /\ had \subseteq had'
        /\ phase'[w] = "down" /\ proc'[w][e] = "idle"
        /\ \A v \in Workers : v # w => phase'[v] = phase[v] /\ proc'[v][e] = proc[v][e]
    BY <1>0, <1>1, HadGrows DEF Crash, Exit, End
  <2> QED BY <2>1 DEF mainVars, recoveryVars, jobVars, RunOnce
<1>2. CASE Stop(w)
  <2>1. /\ UNCHANGED <<row, mainVars, stop, recoveryVars, jobVars, proc, log>> /\ had \subseteq had'
        /\ \A v \in Workers : phase'[v] = "recovering" => phase[v] = "recovering"
    BY <1>0, <1>2, HadGrows DEF Stop
  <2> QED BY <2>1 DEF mainVars, recoveryVars, jobVars, RunOnce
<1>3. CASE Restart(w)
  <2>1. /\ UNCHANGED <<row, mainVars, stop, recoveryVars, jobVars, proc, had>>
        /\ e \in log'[w] => e \in log[w] /\ row[e] # "success"
        /\ \A v \in Workers : v # w => phase'[v] = phase[v] /\ log'[v] = log[v]
    BY <1>0, <1>3 DEF Restart
  <2> QED BY <2>1 DEF mainVars, recoveryVars, jobVars, RunOnce
<1>4. CASE RecoverFromLogs(w)
  <2>1. /\ UNCHANGED <<mainVars, stop, recoveryVars, jobVars, proc, had>>
        /\ phase'[w] = "up" /\ e \notin log'[w]
        /\ \A v \in Workers : v # w => phase'[v] = phase[v] /\ log'[v] = log[v]
        /\ \/ row'[e] = row[e]
           \/ e \in log[w] /\ row'[e] = "crashed" /\ row'[e] \in Settled
    BY <1>0, <1>4 DEF RecoverFromLogs, Written, Settled, Final
  <2> QED BY <2>1 DEF mainVars, recoveryVars, jobVars, RunOnce
<1> QED BY <1>1, <1>2, <1>3, <1>4 DEF WorkerStart

LEMMA HistoryStep == PartsOK /\ IInv /\ HistoryInv /\ [Next]_vars => HistoryInv'
<1> SUFFICES ASSUME PartsOK, IInv, HistoryInv, [Next]_vars, NEW e \in Executions
             PROVE  History(e)'
  BY DEF HistoryInv
<1>0. History(e)
  BY DEF HistoryInv
<1>1. CASE UNCHANGED vars
  BY <1>0, <1>1, SparesUntouched, SparedHistory
     DEF vars, mainVars, recoveryVars, jobVars, workerVars
<1>2. CASE \E f \in Executions : Register(f) \/ Refuse(f) \/ MainStep(f)
  BY <1>0, <1>2, MainSpares, MainHistory, SparedHistory
<1>3. CASE \E f \in Executions : RequestStop(f) \/ StopRequestStep(f)
  BY <1>0, <1>3, StopSpares, StopHistory, SparedHistory
<1>4. CASE \E f \in Executions : Stall(f)
  BY <1>0, <1>4, StallSpares, StallHistory, SparedHistory
<1>5. CASE RestartMain \/ Recovery
  BY <1>0, <1>5, RecoveryHistory
<1>6. CASE \E w \in Workers, f \in Executions : WorkerStep(w, f)
  BY <1>0, <1>6, WorkerSpares, WorkerHistory, SparedHistory
<1>7. CASE \E w \in Workers : Crash(w) \/ Stop(w) \/ Exit(w) \/ WorkerStart(w)
  BY <1>0, <1>7, PhaseHistory
<1> QED BY <1>1, <1>2, <1>3, <1>4, <1>5, <1>6, <1>7 DEF Next

LEMMA HistoryAlways == Safety => [](PartsOK /\ IInv /\ HistoryInv)
BY PartsInit, PartsStep, IInvInit, IInvStep, HistoryInit, HistoryStep, PTL DEF Safety

(* When the main has come to the end of an execution that nobody asked to    *)
(* stop, and whose job neither failed nor stalled, the row says how the run  *)
(* has ended (the watcher in enqueueExecution(), with its watchdog).         *)
THEOREM AnswersAreSettled == Safety => []AnsweredIsSettled
<1>1. HistoryInv => AnsweredIsSettled
  BY DEF HistoryInv, History, FirstRun, RunOnce, AnsweredIsSettled, Settled
<1> QED BY <1>1, HistoryAlways, PTL

(* Where Bull puts a stalled job back at least once, as it does by default   *)
(* (maxStalledCount), a success stands: only queue recovery that listed the  *)
(* execution before, a request to stop it, a main that refused it after it   *)
(* was enqueued, or another run of a stalled job can overwrite it.           *)
THEOREM SuccessesStand == ASSUME MaxStalledCount # 0 PROVE Safety => SuccessStands
<1> DEFINE Overwritten(e) ==
             e \in listed \/ stop[e] = "writing" \/ main[e] = "throwing" \/ stalled[e] > 0
             \/ \E w \in Workers : e \in aborts[w]
           Stands == \A e \in Executions :
             row[e] = "success" /\ row'[e] \notin {"success", "deleted"} => Overwritten(e)
<1>1. ASSUME PartsOK, IInv, HistoryInv, [Next]_vars PROVE Stands
  <2> SUFFICES ASSUME NEW e \in Executions, row[e] = "success", row'[e] \notin {"success", "deleted"},
                      stalled[e] = 0
               PROVE  Overwritten(e)
    <3>1. ASSUME NEW e \in Executions, stalled[e] # 0 PROVE stalled[e] > 0
      BY <1>1, <3>1, StalledAssumption DEF PartsOK, JobsOK
    <3> QED BY <3>1
  <2>0. row \in [Executions -> Rows]
    BY <1>1 DEF PartsOK, RowOK
  <2>1. /\ main[e] \notin {"idle", "saving"}
        /\ \A w \in Workers : /\ proc[w][e] \in {"idle", "saved", "ended"}
                              /\ phase[w] = "recovering" => e \notin log[w]
    BY <1>1 DEF HistoryInv, History, Known, FirstRun, RunOnce
  <2>2. ~UNCHANGED row
    OBVIOUS
  <2>3. ASSUME NEW E, NEW status, row' = Written(row, E, status) PROVE e \in E
    BY <2>3 DEF Written
  <2>4. CASE \E f \in Executions : Register(f) \/ Refuse(f) \/ MainStep(f)
    <3>1. PICK f \in Executions : Register(f) \/ Refuse(f) \/ MainStep(f)
      BY <2>4
    <3>2. ~HardDelete(f)
      BY <2>0 DEF HardDelete
    <3>3. Register(f) \/ SaveError(f)
      BY <2>2, <3>1, <3>2 DEF MainStep, Refuse, Enqueue, Watch, Answer, Watchdog, ProcessError, Finalize
    <3>4. f = e
      BY <2>3, <3>3 DEF Register, SaveError, Write
    <3> QED BY <2>1, <3>3, <3>4 DEF Register, SaveError
  <2>5. CASE \E f \in Executions : RequestStop(f) \/ StopRequestStep(f) \/ Stall(f)
    BY <2>2, <2>3, <2>5 DEF RequestStop, StopRequestStep, StopEntry, FindJob, StopFoundJob,
       StopDuringRun, CancelJob, Stall, StopStep, Write
  <2>6. CASE RestartMain \/ Recovery
    BY <2>2, <2>3, <2>6 DEF RestartMain, Recovery, ListStored, ListQueued, MarkAsCrashed
  <2>7. CASE \E w \in Workers, f \in Executions : WorkerStep(w, f)
    <3>1. PICK w \in Workers, f \in Executions : WorkerStep(w, f)
      BY <2>7
    <3>2. SetRunning(w, f) \/ Abort(w, f) \/ Finish(w, f)
      BY <2>2, <3>1 DEF WorkerStep, PickUp, FailJob, Start, Resolve, Report
    <3>3. f = e
      BY <2>2, <2>3, <3>2 DEF SetRunning, Abort, Finish, Write
    <3> QED BY <2>1, <3>2, <3>3 DEF SetRunning, Abort, Finish
  <2>8. CASE \E w \in Workers : Crash(w) \/ Stop(w) \/ Exit(w) \/ WorkerStart(w)
    BY <2>1, <2>2, <2>3, <2>8 DEF Crash, Stop, Exit, End, WorkerStart, Restart, RecoverFromLogs
  <2> QED BY <1>1, <2>2, <2>4, <2>5, <2>6, <2>7, <2>8 DEF Next, vars
<1>2. PartsOK /\ IInv /\ HistoryInv /\ [Next]_vars => [Stands]_vars
  BY <1>1
<1> QED BY <1>2, HistoryAlways, PTL DEF Safety, SuccessStands
=============================================================================
