----------------------- MODULE ActiveWorkflowManager -----------------------
(***************************************************************************)
(* The triggers that the mains of a multi-main setup keep in memory:       *)
(* ActiveWorkflowManager (src/packages/cli/src/active-workflow-manager.ts) *)
(* and ActiveWorkflows (src/packages/core/src/ActiveWorkflows.ts).  Adding *)
(* and removing are asynchronous: the role of the main is read before the  *)
(* trigger is started, and nothing keeps the events of its MultiMainSetup  *)
(* and the commands of other mains from being handled in between.  There   *)
(* is one active workflow with one trigger node, which keeps a connection  *)
(* of its own; each start of the node gives another trigger.               *)
(***************************************************************************)
EXTENDS LeaderElection

CONSTANTS Triggers,      \* bound: the triggers that may run in a main
          Removals,      \* bound: the removals that may be under way in a main
          StopRemoval,   \* the one of stopProcess() and of the shutdown before it
          MaxUnderWay,   \* bound: what is under way in a main when a check starts
          MaxFailures,   \* bound: triggers that fail, or fail to start or to close
          MaxTroubles    \* bound: lapses, departures, other failures

ASSUME StopRemovalAssumption == StopRemoval \in Removals
ASSUME ManagerBounds == {MaxUnderWay, MaxFailures, MaxTroubles} \subseteq Nat

VARIABLES activeRow,   \* the workflow is active according to its row
          started,     \* each main: 1 when it listens to events, 2 after init()
          stage,       \* of its shutdown
          pending,     \* events and commands that it has yet to handle
          passing,     \* additions under way that were decided on as a follower
          decided,     \* ... as a leader, before ActiveWorkflows.add()
          starting,    \* ... in add(), while the trigger starts
          listed,      \* the mains with an entry for the workflow
          responses,   \* the triggers of the entry: triggerResponses
          removals,    \* the removals under way
          running,     \* the triggers that run
          queued,      \* the mains that are to try the activation again
          failures,
          disordered   \* history: the mains in which an addition met another one
                       \* or a removal, or a trigger could not be closed

entryVars == <<listed, responses>>
additionVars == <<passing, decided, starting>>
managerVars == <<activeRow, started, stage, pending, additionVars, entryVars, removals, running,
                 queued, failures, disordered>>
vars == <<electionVars, managerVars>>

Kinds == {"remove", "add", "command"}
Additions == {"add", "command"}

(* 1 and 4: a removal is under way; 2: the removal of the shutdown is over;  *)
(* 3: stopProcess() has begun; 5: its removal is over.                       *)
Stages == 0..5

(* What a removal closes: the triggers of the entry as it then is, or, when  *)
(* the entry was replaced, those that the old one had.                       *)
None == [of |-> "none", ids |-> {}]
Current == [of |-> "current", ids |-> {}]
Old(ids) == [of |-> "old", ids |-> ids]

Init ==
  /\ ElectionInit
  /\ activeRow = TRUE
  /\ started = [m \in Mains |-> 0]
  /\ stage = [m \in Mains |-> 0]
  /\ pending = [m \in Mains |-> [k \in Kinds |-> 0]]
  /\ passing = [m \in Mains |-> 0]
  /\ decided = [m \in Mains |-> [k \in Additions |-> 0]]
  /\ starting = [m \in Mains |-> [k \in Additions |-> 0]]
  /\ listed = {}
  /\ responses = [m \in Mains |-> {}]
  /\ removals = [m \in Mains |-> [i \in Removals |-> None]]
  /\ running = [m \in Mains |-> {}]
  /\ queued = {}
  /\ failures = 0
  /\ disordered = {}

-----------------------------------------------------------------------------
(* Events and commands: start.ts, handle-command-message-main.ts *)

More(f, m, k) == [f EXCEPT ![m][k] = @ + 1]
Less(f, m, k) == [f EXCEPT ![m][k] = @ - 1]

(* An event is emitted; its handler renews the license before it goes on.    *)
Emit(m, kind) ==
  /\ pending' = IF started[m] = 0 THEN pending ELSE More(pending, m, kind)
  /\ UNCHANGED <<activeRow, started, stage, additionVars, entryVars, removals, running, queued,
                 failures, disordered>>

(* Mutants: nobody listens to an event. *)
OnStepdownIgnored(m) == UNCHANGED managerVars
OnTakeoverIgnored(m) == UNCHANGED managerVars

OnStepdown(m) == Emit(m, "remove")
OnTakeover(m) == Emit(m, "add")

(* initOrchestration() is over. *)
Listen(m) ==
  /\ phase[m] = "up" /\ started[m] = 0
  /\ started' = [started EXCEPT ![m] = 1]
  /\ UNCHANGED <<electionVars, activeRow, stage, pending, additionVars, entryVars, removals,
                 running, queued, failures, disordered>>

(* init() of the manager adds the active workflows. *)
InitManager(m) ==
  /\ phase[m] = "up" /\ started[m] = 1
  /\ started' = [started EXCEPT ![m] = 2]
  /\ pending' = More(pending, m, "add")
  /\ UNCHANGED <<electionVars, activeRow, stage, additionVars, entryVars, removals, running,
                 queued, failures, disordered>>

-----------------------------------------------------------------------------
(* Additions *)

(* add() asks for the role first.  Neither an earlier event whose handler    *)
(* has yet to remove triggers nor a shutdown that is removing them for the   *)
(* last time, or has, keeps it from going on.                                *)
Decide(m, k) ==
  /\ decided' = More(decided, m, k)
  /\ disordered' = IF pending[m]["remove"] > 0 \/ stage[m] >= 4 THEN disordered \cup {m} ELSE disordered
  /\ UNCHANGED <<passing, starting>>

(* addActiveWorkflows() has found the workflow.  In a follower add() starts  *)
(* no trigger, but does the rest.                                            *)
(* Mutant: it starts the trigger in a follower, too.                         *)
HandleAddAlways(m) ==
  /\ pending[m]["add"] > 0
  /\ pending' = Less(pending, m, "add")
  /\ IF activeRow THEN Decide(m, "add") ELSE UNCHANGED <<additionVars, disordered>>
  /\ UNCHANGED <<electionVars, activeRow, started, stage, entryVars, removals, running, queued, failures>>

HandleAdd(m) ==
  /\ pending[m]["add"] > 0
  /\ pending' = Less(pending, m, "add")
  /\ \/ activeRow /\ role[m] = "leader" /\ Decide(m, "add")
     \/ /\ activeRow /\ role[m] # "leader"
        /\ passing' = [passing EXCEPT ![m] = @ + 1]
        /\ UNCHANGED <<decided, starting, disordered>>
     \/ ~activeRow /\ UNCHANGED <<additionVars, disordered>>
  /\ UNCHANGED <<electionVars, activeRow, started, stage, entryVars, removals, running, queued, failures>>

(* The command that retries publish: only a leader adds the workflow, be its *)
(* row active or not.                                                        *)
HandleCommand(m) ==
  /\ pending[m]["command"] > 0
  /\ pending' = Less(pending, m, "command")
  /\ IF role[m] = "leader" THEN Decide(m, "command") ELSE UNCHANGED <<additionVars, disordered>>
  /\ UNCHANGED <<electionVars, activeRow, started, stage, entryVars, removals, running, queued, failures>>

(* An addition has failed, with Q queued before: it is to be tried again, or *)
(* the workflow is deactivated.                                              *)
Fails(m, k, Q) ==
  IF k = "add" THEN queued' = Q \cup {m} /\ UNCHANGED activeRow
  ELSE activeRow' = FALSE /\ queued' = Q

(* What has gone wrong, the shutdowns under way included. *)
IsQuitting(m) == stage[m] # 0
Troubles == lapses + departures + failures + Cardinality({n \in Mains : IsQuitting(n) /\ phase[n] = "up"})
(* A failure; closing may fail where something has gone wrong already, since *)
(* only then is there anything to close.                                     *)
ClosingFailure == failures < MaxFailures /\ failures' = failures + 1
Failure == Troubles < MaxTroubles /\ ClosingFailure

Pass(m) ==
  /\ passing[m] > 0
  /\ passing' = [passing EXCEPT ![m] = @ - 1]
  /\ \/ queued' = queued \ {m} /\ UNCHANGED failures
     \/ queued' = queued \cup {m} /\ Failure
  /\ UNCHANGED <<electionVars, activeRow, started, stage, pending, decided, starting, entryVars,
                 removals, running, disordered>>

(* It fails before ActiveWorkflows.add(), or in it, where the entry stays.   *)
FailAddition(m, k) ==
  /\ \/ decided[m][k] > 0 /\ decided' = Less(decided, m, k) /\ UNCHANGED starting
     \/ starting[m][k] > 0 /\ starting' = Less(starting, m, k) /\ UNCHANGED decided
  /\ Failure
  /\ Fails(m, k, queued)
  /\ UNCHANGED <<electionVars, started, stage, pending, passing, entryVars, removals, running, disordered>>

Count(f, m) == f[m]["add"] + f[m]["command"]

(* The entry is replaced: removals under way go on with the old one.         *)
Replaced(m) == [i \in Removals |-> IF removals[m][i].of = "current" THEN Old(responses[m]) ELSE removals[m][i]]

(* ActiveWorkflows.add(), up to runTrigger(). *)
Register(m, k) ==
  /\ decided[m][k] > 0
  /\ decided' = Less(decided, m, k)
  /\ starting' = More(starting, m, k)
  /\ listed' = listed \cup {m}
  /\ responses' = [responses EXCEPT ![m] = {}]
  /\ removals' = [removals EXCEPT ![m] = Replaced(m)]
  /\ disordered' = IF responses[m] # {} \/ Count(starting, m) > 0 \/ \E i \in Removals : removals[m][i] # None
                   THEN disordered \cup {m} ELSE disordered
  /\ UNCHANGED <<electionVars, activeRow, started, stage, pending, passing, running, queued, failures>>

(* The trigger has started.  Its response is kept in the entry, if there is  *)
(* one; if there is none, the addition fails, but the trigger runs.  It may  *)
(* also fail afterwards, when the count of triggers is written.              *)
StartTrigger(m, k) ==
  /\ starting[m][k] > 0
  /\ starting' = Less(starting, m, k)
  /\ \E t \in Triggers \ running[m] :
       /\ running' = [running EXCEPT ![m] = @ \cup {t}]
       /\ responses' = IF m \in listed THEN [responses EXCEPT ![m] = @ \cup {t}] ELSE responses
  /\ \/ m \in listed /\ queued' = queued \ {m} /\ UNCHANGED <<activeRow, failures>>
     \/ m \in listed /\ Failure /\ Fails(m, k, queued \ {m})
     \/ m \notin listed /\ Fails(m, k, queued) /\ UNCHANGED failures
  /\ UNCHANGED <<electionVars, started, stage, pending, passing, decided, listed, removals, disordered>>

(* The timeout of a queued activation: add() publishes a command, which the  *)
(* mains that listen receive, and that is all.  (It waits until the bound on *)
(* triggers allows for one more in each main.)                               *)
Retry(m) ==
  /\ m \in queued
  /\ \A n \in Mains : Cardinality(running[n]) + pending[n]["command"] + Count(decided, n) + Count(starting, n)
                        < Cardinality(Triggers)
  /\ phase[m] \in {"up", "stopping"}
  /\ queued' = queued \ {m}
  /\ pending' = [n \in Mains |->
       IF started[n] > 0 /\ phase[n] \in {"up", "stopping"} THEN [pending[n] EXCEPT !["command"] = @ + 1]
       ELSE pending[n]]
  /\ UNCHANGED <<electionVars, activeRow, started, stage, additionVars, entryVars, removals, running,
                 failures, disordered>>

-----------------------------------------------------------------------------
(* Removals *)

Adds(m) == Count(decided, m) + Count(starting, m) > 0

(* ActiveWorkflows.remove(): without a trigger to close, the entry is gone   *)
(* at once.                                                                  *)
BeginRemoval(m, i) ==
  /\ removals[m][i] = None
  /\ IF responses[m] = {}
       THEN listed' = listed \ {m} /\ UNCHANGED removals
       ELSE removals' = [removals EXCEPT ![m][i] = Current] /\ UNCHANGED listed
  /\ disordered' = IF Adds(m) THEN disordered \cup {m} ELSE disordered
  /\ UNCHANGED responses

HandleRemove(m) ==
  /\ pending[m]["remove"] > 0
  /\ pending' = Less(pending, m, "remove")
  /\ \E i \in Removals \ {StopRemoval} : BeginRemoval(m, i)
  /\ UNCHANGED <<electionVars, activeRow, started, stage, additionVars, running, queued, failures>>

(* emitError: the trigger is removed, and will be added again. *)
EmitError(m) ==
  /\ running[m] # {}
  /\ Failure
  /\ \E i \in Removals \ {StopRemoval} : BeginRemoval(m, i)
  /\ queued' = queued \cup {m}
  /\ UNCHANGED <<electionVars, activeRow, started, stage, pending, additionVars, running>>

(* The triggers are closed, and the entry is deleted, whichever it is.       *)
Closed(m, i) == IF removals[m][i].of = "current" THEN responses[m] ELSE removals[m][i].ids
Left(m, ids) == [j \in Removals |->
  IF removals[m][j].of = "current" THEN Old(responses[m] \ ids)
  ELSE [removals[m][j] EXCEPT !.ids = @ \ ids]]

(* Mutant: the entry is deleted, but no trigger is closed. *)
EndRemovalClosingNone(m, i) ==
  /\ removals[m][i] # None
  /\ listed' = listed \ {m}
  /\ responses' = [responses EXCEPT ![m] = {}]
  /\ removals' = [removals EXCEPT ![m] = [Left(m, {}) EXCEPT ![i] = None]]
  /\ stage' = IF i = StopRemoval THEN [stage EXCEPT ![m] = @ + 1] ELSE stage
  /\ UNCHANGED <<electionVars, activeRow, started, pending, additionVars, running, queued, failures, disordered>>

EndRemoval(m, i) ==
  /\ removals[m][i] # None
  /\ running' = [running EXCEPT ![m] = @ \ Closed(m, i)]
  /\ listed' = listed \ {m}
  /\ responses' = [responses EXCEPT ![m] = {}]
  /\ removals' = [removals EXCEPT ![m] = [Left(m, Closed(m, i)) EXCEPT ![i] = None]]
  /\ stage' = IF i = StopRemoval THEN [stage EXCEPT ![m] = @ + 1] ELSE stage
  /\ UNCHANGED <<electionVars, activeRow, started, pending, additionVars, queued, failures, disordered>>

(* A trigger cannot be closed, and the entry stays.  In stopProcess() that   *)
(* ends the process, as a crash does.                                        *)
FailRemoval(m, i) ==
  /\ removals[m][i] # None
  /\ i = StopRemoval => stage[m] = 1
  /\ ClosingFailure
  /\ removals' = [removals EXCEPT ![m][i] = None]
  /\ stage' = IF i = StopRemoval THEN [stage EXCEPT ![m] = 2] ELSE stage
  /\ disordered' = disordered \cup {m}
  /\ UNCHANGED <<electionVars, activeRow, started, pending, additionVars, entryVars, running, queued>>

-----------------------------------------------------------------------------
(* Shutdown and process end *)

(* The shutdown handlers remove the triggers, and so does stopProcess()      *)
(* after them.                                                               *)
RemovalOfStop(m) ==
  /\ BeginRemoval(m, StopRemoval)
  /\ stage' = [stage EXCEPT ![m] = IF responses[m] = {} THEN @ + 2 ELSE @ + 1]

BeginShutdown(m) ==
  /\ phase[m] = "up" /\ started[m] = 2 /\ stage[m] = 0
  /\ Troubles < MaxTroubles
  /\ departures + Cardinality({n \in Mains : IsQuitting(n) /\ phase[n] = "up"}) < MaxDepartures
  /\ RemovalOfStop(m)
  /\ UNCHANGED <<electionVars, activeRow, started, pending, additionVars, running, queued, failures>>

StopProcess(m) ==
  /\ stage[m] = 2
  /\ stage' = [stage EXCEPT ![m] = 3]
  /\ queued' = queued \ {m}
  /\ UNCHANGED <<electionVars, activeRow, started, pending, additionVars, entryVars, removals, running,
                 failures, disordered>>

RemoveAgain(m) ==
  /\ stage[m] = 3
  /\ RemovalOfStop(m)
  /\ UNCHANGED <<electionVars, activeRow, started, pending, additionVars, running, queued, failures>>

(* The process is gone, and its memory with it. *)
Forget(m) ==
  /\ started' = [started EXCEPT ![m] = 0]
  /\ stage' = [stage EXCEPT ![m] = 0]
  /\ pending' = [pending EXCEPT ![m] = [k \in Kinds |-> 0]]
  /\ passing' = [passing EXCEPT ![m] = 0]
  /\ decided' = [decided EXCEPT ![m] = [k \in Additions |-> 0]]
  /\ starting' = [starting EXCEPT ![m] = [k \in Additions |-> 0]]
  /\ listed' = listed \ {m}
  /\ responses' = [responses EXCEPT ![m] = {}]
  /\ removals' = [removals EXCEPT ![m] = [i \in Removals |-> None]]
  /\ running' = [running EXCEPT ![m] = {}]
  /\ queued' = queued \ {m}
  /\ disordered' = disordered \ {m}
  /\ UNCHANGED <<activeRow, failures>>

-----------------------------------------------------------------------------
(* As in MultiMain, the interval is longer than the initialisation; within   *)
(* the bound it is longer than what the events of earlier checks have begun. *)
UnderWay(m) ==
    pending[m]["remove"] + pending[m]["add"] + pending[m]["command"]
  + passing[m] + Count(decided, m) + Count(starting, m)
  + Cardinality({i \in Removals : removals[m][i] # None})

Check(m) ==
  /\ CheckLeader(m)
  /\ started[m] = 2
  /\ UnderWay(m) <= MaxUnderWay
  /\ UNCHANGED managerVars

Elect(m) ==
  \/ (Execute(m) \/ Connect(m) \/ Quiet(m) \/ KeyCleared(m)) /\ UNCHANGED managerVars
  \/ StepDown(m) /\ OnStepdown(m)
  \/ TakeOver(m) /\ OnTakeover(m)
  \/ Exit(m) /\ Forget(m)

Depart(m) == stage[m] = 5 /\ Shutdown(m) /\ UNCHANGED managerVars

(* What a main does by itself. *)
GoOn(m) == Listen(m) \/ InitManager(m) \/ StopProcess(m) \/ RemoveAgain(m)

Adding(m) ==
  \/ HandleAdd(m) \/ HandleCommand(m) \/ Pass(m) \/ Retry(m)
  \/ \E k \in Additions : Register(m, k) \/ StartTrigger(m, k)

Removing(m) == HandleRemove(m) \/ \E i \in Removals : EndRemoval(m, i)

(* What goes wrong. *)
Failing(m) ==
  \/ EmitError(m)
  \/ \E k \in Additions : FailAddition(m, k)
  \/ \E i \in Removals : FailRemoval(m, i)

Next ==
  \/ \E m \in Mains :
       \/ Elect(m) \/ Check(m) \/ GoOn(m) \/ Adding(m) \/ Removing(m) \/ Failing(m)
       \/ BeginShutdown(m) \/ Depart(m)
       \/ (Troubles < MaxTroubles \/ IsQuitting(m)) /\ Crash(m) /\ Forget(m)
  \/ (Troubles < MaxTroubles \/ HolderIsGone) /\ Lapse /\ UNCHANGED managerVars

Safety == Init /\ [][Next]_vars

(* As in LeaderElection; and whatever a main awaits comes. *)
Fairness ==
  /\ \A m \in Mains :
       /\ WF_vars(Elect(m)) /\ WF_vars(Check(m)) /\ WF_vars(Depart(m))
       /\ WF_vars(GoOn(m)) /\ WF_vars(Adding(m)) /\ WF_vars(Removing(m))
  /\ WF_vars(HolderIsGone /\ Lapse /\ UNCHANGED managerVars)

Spec == Safety /\ Fairness

-----------------------------------------------------------------------------
(* The type of the state. *)
ManagerTypeOK ==
  /\ activeRow \in BOOLEAN
  /\ started \in [Mains -> 0..2]
  /\ stage \in [Mains -> Stages]
  /\ pending \in [Mains -> [Kinds -> Nat]]
  /\ passing \in [Mains -> Nat]
  /\ decided \in [Mains -> [Additions -> Nat]]
  /\ starting \in [Mains -> [Additions -> Nat]]
  /\ listed \in SUBSET Mains
  /\ responses \in [Mains -> SUBSET Triggers]
  /\ removals \in [Mains -> [Removals -> [of : {"none", "current", "old"}, ids : SUBSET Triggers]]]
  /\ running \in [Mains -> SUBSET Triggers]
  /\ queued \in SUBSET Mains
  /\ failures \in 0..MaxFailures
  /\ disordered \in SUBSET Mains

(* Unless an addition met another one or a removal, a main can close every   *)
(* trigger that runs in it, which is one at most.                            *)
TriggersCanBeClosed ==
  \A m \in Mains \ disordered :
    /\ running[m] \subseteq responses[m]
    /\ responses[m] # {} => m \in listed
    /\ \A t, u \in running[m] : t = u

(* As long as no key lapsed and no reply was lost, two mains never run the   *)
(* trigger at once, unless that happened in one of them, not even when the   *)
(* leader shuts down and the next one takes over.                            *)
OneRunner ==
  Reliable => \A m, n \in Mains \ disordered : running[m] # {} /\ running[n] # {} => m = n

(* A main that has lost leadership closes its trigger, unless an addition    *)
(* met a removal.                                                            *)
StepdownClosesTriggers ==
  \A m \in Mains :
    running[m] # {} /\ role[m] = "follower" ~> running[m] = {} \/ role[m] = "leader" \/ m \in disordered

(* A leader runs the trigger of the active workflow, unless one fails, an    *)
(* addition met a removal, or it loses leadership or shuts down.             *)
LeadersRunTriggers ==
  \A m \in Mains :
    role[m] = "leader" /\ started[m] = 2 /\ activeRow
      ~> \/ running[m] # {}
         \/ role[m] # "leader" \/ IsQuitting(m) \/ m \in disordered
         \/ failures > 0 \/ ~activeRow
=============================================================================
