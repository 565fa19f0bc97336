---------------------------- MODULE WaitTracker ----------------------------
(***************************************************************************)
(* Resuming executions that wait: the timers of WaitTracker                *)
(* (src/packages/cli/src/wait-tracker.ts) and the requests of              *)
(* WaitingWebhooks (webhooks/waiting-webhooks.ts), on top of the           *)
(* executions of this process.                                             *)
(*                                                                         *)
(* Time is left out: a set waitTill may be due at any moment, so a timer   *)
(* may fire as soon as it is armed.  The one thing kept of time is that a  *)
(* wait lasts longer than a run needs to end once it has saved the wait:   *)
(* the Wait node sleeps through anything below 65 seconds.                 *)
(***************************************************************************)
EXTENDS ActiveExecutions

CONSTANT NoQuery

VARIABLES isTracking,          \* the interval timer runs
          waitingExecutions,   \* the map of timers
          query                \* the ids read by a poll whose answer is on its way

trackerVars == <<isTracking, waitingExecutions, query>>

(* stopTracking() clears the timers but keeps their entries in the map. *)
Timers == {"none", "armed", "cleared"}

TrackerTypeOK ==
  /\ isTracking \in BOOLEAN
  /\ waitingExecutions \in [Executions -> Timers]
  /\ query \in (SUBSET Executions) \cup {NoQuery}

TrackerInit ==
  /\ isTracking = TRUE
  /\ waitingExecutions = [e \in Executions |-> "none"]
  /\ query = NoQuery

(* getWaitingExecutions() of the repository. *)
DueExecutions == {e \in Executions : db[e].waitTill /\ db[e].status # "crashed"}

(* A poll reads the due executions, and arms their timers when the answer    *)
(* arrives, whatever has happened to them in between.                        *)
Poll ==
  /\ isTracking
  /\ query = NoQuery
  /\ DueExecutions # {}
  /\ query' = DueExecutions
  /\ UNCHANGED <<queueVars, lifeVars, isTracking, waitingExecutions>>

ArmTimers ==
  /\ query # NoQuery
  /\ waitingExecutions' = [e \in Executions |->
       IF e \in query /\ waitingExecutions[e] = "none" THEN "armed" ELSE waitingExecutions[e]]
  /\ query' = NoQuery
  /\ UNCHANGED <<queueVars, lifeVars, isTracking>>

HasEnded(e) ==
  \A c \in Calls : call[c].exec = e => call[c].stage # "saved" /\ call[c].promise # "settled"

(* Mutant of startExecution(): the entry of the timer that fired stays. *)
FireTimerKeepsEntry(c, e) ==
  /\ waitingExecutions[e] = "armed"
  /\ HasEnded(e)
  /\ IsFree(c)
  /\ waitingExecutions' = [waitingExecutions EXCEPT ![e] = "cleared"]
  /\ call' = [call EXCEPT ![c] = [Idle EXCEPT !.stage = "reading", !.exec = e, !.resume = TRUE]]
  /\ UNCHANGED <<queueVars, db, active, isEnabled, isTracking, query>>

(* startExecution(): the map entry goes at once, the rest is asynchronous. *)
FireTimer(c, e) ==
  /\ waitingExecutions[e] = "armed"
  /\ HasEnded(e)
  /\ IsFree(c)
  /\ waitingExecutions' = [waitingExecutions EXCEPT ![e] = "none"]
  /\ call' = [call EXCEPT ![c] = [Idle EXCEPT !.stage = "reading", !.exec = e, !.resume = TRUE]]
  /\ UNCHANGED <<queueVars, db, active, isEnabled, isTracking, query>>

(* Its query: only an execution that has succeeded is not started again. *)
ReadWaiting(c) ==
  /\ call[c].stage = "reading"
  /\ LET row == db[call[c].exec]
     IN call' = [call EXCEPT ![c] =
          IF row.status = "success" THEN Idle
          ELSE [@ EXCEPT !.stage = "ready", !.mode = row.mode]]
  /\ UNCHANGED <<queueVars, db, active, isEnabled, trackerVars>>

(* A request to the resume URL of e: refused for an execution that runs, has *)
(* succeeded or has an error, and without a node that waited.                *)
IsResumable(e) ==
  /\ db[e].status \notin {"absent", "new", "running", "success"}
  /\ ~db[e].hasError

ResumeByWebhook(c, e) ==
  /\ IsFree(c)
  /\ IsResumable(e)
  /\ call' = [call EXCEPT ![c] =
       [Idle EXCEPT !.stage = "ready", !.exec = e, !.mode = "webhook", !.resume = TRUE]]
  /\ UNCHANGED <<queueVars, db, active, isEnabled, trackerVars>>

(* stopTracking() *)
ClearedTimers ==
  [e \in Executions |-> IF waitingExecutions[e] = "armed" THEN "cleared" ELSE waitingExecutions[e]]

StopTracking ==
  /\ isTracking
  /\ isTracking' = FALSE
  /\ waitingExecutions' = ClearedTimers
  /\ UNCHANGED query

(* stopExecution(): the timer of e is cleared and its entry deleted. *)
WithoutTimer(e) == [waitingExecutions EXCEPT ![e] = "none"]
=============================================================================
