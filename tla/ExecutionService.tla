-------------------------- MODULE ExecutionService --------------------------
(***************************************************************************)
(* Requests to stop an execution (ExecutionService.stop() in               *)
(* src/packages/cli/src/executions/execution.service.ts) in a process that *)
(* runs workflows itself.  A request reads the row, acts on the memory of  *)
(* the process, and writes the row: three steps with awaits in between.    *)
(***************************************************************************)
EXTENDS WaitTracker

CONSTANT Requests

VARIABLE stop       \* the requests being served

stopVars == <<stop>>

(* found: the row was read; before, during: the memory was changed, as for   *)
(* an execution that is queued and for any other, and the row is still to be *)
(* written. mode is the row's, as read.                                      *)
NotStopping == [stage |-> "idle", exec |-> NoExecution, mode |-> "manual"]
StopStates ==
  [stage: {"found", "before", "during"}, exec: Executions, mode: Modes] \cup {NotStopping}

StopInit == stop = [s \in Requests |-> NotStopping]

(* assertStoppable() *)
StoppableStatuses == {"new", "waiting", "running"}

RequestStop(s, e) ==
  /\ stop[s] = NotStopping
  /\ db[e].status \in StoppableStatuses
  /\ stop' = [stop EXCEPT ![s] = [stage |-> "found", exec |-> e, mode |-> db[e].mode]]
  /\ UNCHANGED <<queueVars, lifeVars, trackerVars>>

(* The first item of e leaves the queue, unless remove() finds that the mode *)
(* is not limited; its promise never settles, so its call ends there.        *)
RemoveFromQueue(e, mode) ==
  IF IsUnlimited(mode)
    THEN UNCHANGED <<queueVars, call>>
    ELSE \E i \in DOMAIN queue :
           /\ IsFirstOf(i, e)
           /\ RemoveItem(i)
           /\ call' = [call EXCEPT ![queue[i].call] = Idle]

(* stopInRegularMode() up to its write. *)
StopQueued(s) ==
  /\ stop[s].stage = "found"
  /\ IsQueued(stop[s].exec)
  /\ RemoveFromQueue(stop[s].exec, stop[s].mode)
  /\ stop' = [stop EXCEPT ![s].stage = "before"]
  /\ UNCHANGED <<db, active, isEnabled, trackerVars>>

StopOther(s) ==
  /\ stop[s].stage = "found"
  /\ ~IsQueued(stop[s].exec)
  /\ call' = StopExecution(call, stop[s].exec)
  /\ waitingExecutions' = WithoutTimer(stop[s].exec)
  /\ stop' = [stop EXCEPT ![s].stage = "during"]
  /\ UNCHANGED <<queueVars, db, active, isEnabled, isTracking, query>>

(* stopBeforeRun() and stopDuringRun() *)
WriteStopped(s) ==
  /\ stop[s].stage \in {"before", "during"}
  /\ LET e == stop[s].exec
     IN db' = [db EXCEPT ![e] =
          IF stop[s].stage = "before"
            THEN [@ EXCEPT !.status = "canceled"]
            ELSE [@ EXCEPT !.status = "canceled", !.waitTill = FALSE, !.hasError = TRUE]]
  /\ stop' = [stop EXCEPT ![s] = NotStopping]
  /\ UNCHANGED <<queueVars, call, active, isEnabled, trackerVars>>

ServeStop(s) == StopQueued(s) \/ StopOther(s) \/ WriteStopped(s)
=============================================================================
