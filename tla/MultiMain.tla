----------------------------- MODULE MultiMain -----------------------------
(***************************************************************************)
(* What the leader of a multi-main setup does by timers and its followers  *)
(* must not: tracking waiting executions (wait-tracker.ts), recovering     *)
(* executions that the queue has lost (scaling/scaling.service.ts) and     *)
(* pruning (services/pruning.service.ts).  The services of a main react to *)
(* the events of its MultiMainSetup, which are emitted in the middle of    *)
(* the steps of LeaderElection, at once.  One execution waits to be        *)
(* resumed.  (The triggers in memory are in ActiveWorkflowManager.)        *)
(***************************************************************************)
EXTENDS LeaderElection

CONSTANT MaxTroubles  \* bound: lapses and departures together

ASSUME ServiceBounds == MaxTroubles \in Nat

VARIABLES started,      \* how many services each main has initialised
          timer,        \* the timer that each service of each main can clear
          leaked,       \* the services with a timer that they can no longer clear
          working,      \* the cycles of queue recovery under way in each main
          quitting,     \* the mains that have stopped their services
          due,          \* the waiting execution is still to be resumed
          polling,      \* the mains whose wait tracker has found it in a poll
          entry         \* its entry in WaitTracker.waitingExecutions

serviceVars == <<started, timer, leaked, working, quitting>>
waitVars == <<due, polling, entry>>
vars == <<electionVars, serviceVars, waitVars>>

(* In the order in which start.ts initialises them. *)
InitOrder == <<"tracking", "recovery", "pruning">>
Timed == {"tracking", "recovery", "pruning"}

Init ==
  /\ ElectionInit
  /\ started = [m \in Mains |-> 0]
  /\ timer = [m \in Mains |-> {}]
  /\ leaked = [m \in Mains |-> {}]
  /\ working = [m \in Mains |-> 0]
  /\ quitting = {}
  /\ due = TRUE
  /\ polling = {}
  /\ entry = [m \in Mains |-> "none"]

-----------------------------------------------------------------------------
(* Starting and stopping timers.  Starting sets a timer without clearing the *)
(* one that is there, which then nobody can clear.                           *)

StartTimers(m, S) ==
  /\ timer' = [timer EXCEPT ![m] = @ \cup S]
  /\ leaked' = [leaked EXCEPT ![m] = @ \cup (timer[m] \cap S)]

StopTimers(m, S) ==
  /\ timer' = [timer EXCEPT ![m] = @ \ S]
  /\ UNCHANGED leaked

(* Stopping to track clears the timer of the execution but keeps its entry. *)
ClearEntry(m) == entry' = [entry EXCEPT ![m] = IF @ = "armed" THEN "cleared" ELSE @]

(* PruningService.isPruningEnabled() *)
MayPrune(m) == role'[m] # "follower"
PruningIf(condition) == IF condition THEN {"pruning"} ELSE {}

(* The services that listen to the events, by their place in the order. *)
Listening(m) == {InitOrder[i] : i \in 1..started[m]}

(* Mutants: nobody listens to an event. *)
OnStepdownIgnored(m) == UNCHANGED <<serviceVars, waitVars>>
OnTakeoverIgnored(m) == UNCHANGED <<serviceVars, waitVars>>

OnStepdown(m) ==
  /\ StopTimers(m, Listening(m) \cap ({"tracking", "recovery"} \cup PruningIf(MayPrune(m))))
  /\ IF started[m] > 0 THEN ClearEntry(m) ELSE UNCHANGED entry
  /\ UNCHANGED <<started, working, quitting, due, polling>>

OnTakeover(m) ==
  /\ StartTimers(m, Listening(m) \cap
       ({"tracking", "recovery"} \cup PruningIf(MayPrune(m) /\ m \notin quitting)))
  /\ UNCHANGED <<started, working, quitting, waitVars>>

-----------------------------------------------------------------------------
(* The services *)

(* init() of the next service, which starts it in a leader. *)
InitService(m) ==
  /\ phase[m] = "up" /\ m \notin quitting
  /\ started[m] < Len(InitOrder)
  /\ LET service == InitOrder[started[m] + 1]
     IN /\ started' = [started EXCEPT ![m] = @ + 1]
        /\ StartTimers(m, IF role[m] = "leader" THEN {service} ELSE {})
  /\ UNCHANGED <<electionVars, working, quitting, waitVars>>

(* A cycle of queue recovery: the timeout fires, and once the cycle is over  *)
(* it sets the next one.                                                     *)
BeginRecovery(m) ==
  /\ working[m] = 0
  /\ "recovery" \in timer[m]
  /\ timer' = [timer EXCEPT ![m] = @ \ {"recovery"}]
  /\ working' = [working EXCEPT ![m] = @ + 1]
  /\ UNCHANGED <<electionVars, started, leaked, quitting, waitVars>>

EndRecovery(m) ==
  /\ working[m] > 0
  /\ working' = [working EXCEPT ![m] = @ - 1]
  /\ StartTimers(m, {"recovery"})
  /\ UNCHANGED <<electionVars, started, quitting, waitVars>>

(* The wait tracker: a poll, the arming of the timer, and the resumption. *)
Poll(m) ==
  /\ "tracking" \in timer[m] \cup leaked[m]
  /\ due /\ m \notin polling
  /\ polling' = polling \cup {m}
  /\ UNCHANGED <<electionVars, serviceVars, due, entry>>

ArmTimer(m) ==
  /\ m \in polling
  /\ polling' = polling \ {m}
  /\ entry' = [entry EXCEPT ![m] = IF @ = "none" THEN "armed" ELSE @]
  /\ UNCHANGED <<electionVars, serviceVars, due>>

Resume(m) ==
  /\ entry[m] = "armed"
  /\ entry' = [entry EXCEPT ![m] = "none"]
  /\ due' = FALSE
  /\ UNCHANGED <<electionVars, serviceVars, polling>>

(* The lapses and departures so far, the shutdowns under way included. *)
Troubles == lapses + departures + Cardinality({n \in quitting : phase[n] = "up"})

(* The shutdown handlers and the start of stopProcess(), before shutdown().  *)
StopServices(m) ==
  /\ phase[m] = "up" /\ m \notin quitting
  /\ started[m] = Len(InitOrder)
  /\ departures + Cardinality({n \in quitting : phase[n] = "up"}) < MaxDepartures
  /\ Troubles < MaxTroubles
  /\ quitting' = quitting \cup {m}
  /\ StopTimers(m, {"tracking", "recovery"} \cup PruningIf(role[m] # "follower"))
  /\ ClearEntry(m)
  /\ UNCHANGED <<electionVars, started, working, due, polling>>

(* The process is gone, and its memory with it. *)
Forget(m) ==
  /\ started' = [started EXCEPT ![m] = 0]
  /\ timer' = [timer EXCEPT ![m] = {}]
  /\ leaked' = [leaked EXCEPT ![m] = {}]
  /\ working' = [working EXCEPT ![m] = 0]
  /\ quitting' = quitting \ {m}
  /\ polling' = polling \ {m}
  /\ entry' = [entry EXCEPT ![m] = "none"]
  /\ UNCHANGED due

-----------------------------------------------------------------------------
(* The interval is longer than the initialisation. *)
Check(m) ==
  /\ CheckLeader(m)
  /\ started[m] = Len(InitOrder)
  /\ UNCHANGED <<serviceVars, waitVars>>

Elect(m) ==
  \/ (Execute(m) \/ Connect(m) \/ Quiet(m) \/ KeyCleared(m)) /\ UNCHANGED <<serviceVars, waitVars>>
  \/ StepDown(m) /\ OnStepdown(m)
  \/ TakeOver(m) /\ OnTakeover(m)
  \/ Exit(m) /\ Forget(m)

Serve(m) ==
  \/ InitService(m)
  \/ BeginRecovery(m) \/ EndRecovery(m)
  \/ Poll(m) \/ ArmTimer(m) \/ Resume(m)

Next ==
  \/ \E m \in Mains :
       \/ Elect(m) \/ Check(m) \/ Serve(m)
       \/ StopServices(m)
       \/ m \in quitting /\ Shutdown(m) /\ UNCHANGED <<serviceVars, waitVars>>
       \/ (Troubles < MaxTroubles \/ m \in quitting) /\ Crash(m) /\ Forget(m)
  \/ (Troubles < MaxTroubles \/ HolderIsGone) /\ Lapse /\ UNCHANGED <<serviceVars, waitVars>>

Safety == Init /\ [][Next]_vars

(* As in LeaderElection; handlers and timers of a main go on as well. *)
Fairness ==
  /\ \A m \in Mains :
       /\ WF_vars(Elect(m)) /\ WF_vars(Check(m))
       /\ WF_vars(InitService(m)) /\ WF_vars(EndRecovery(m))
       /\ WF_vars(Poll(m)) /\ WF_vars(ArmTimer(m)) /\ WF_vars(Resume(m))
       /\ WF_vars(m \in quitting /\ Shutdown(m) /\ UNCHANGED <<serviceVars, waitVars>>)
  /\ WF_vars(HolderIsGone /\ Lapse /\ UNCHANGED <<serviceVars, waitVars>>)

Spec == Safety /\ Fairness

-----------------------------------------------------------------------------
TypeOK ==
  /\ ElectionTypeOK
  /\ started \in [Mains -> 0..Len(InitOrder)]
  /\ timer \in [Mains -> SUBSET Timed]
  /\ leaked \in [Mains -> SUBSET Timed]
  /\ working \in [Mains -> Nat]
  /\ quitting \in SUBSET Mains
  /\ due \in BOOLEAN
  /\ polling \in SUBSET Mains
  /\ entry \in [Mains -> {"none", "armed", "cleared"}]

(* Nothing of the election is under way in a main that has come up. *)
IsSettled(m) ==
  /\ phase[m] = "up" /\ started[m] = Len(InitOrder) /\ m \notin quitting
  /\ sent[m] = <<>> /\ replies[m] = <<>>

(* Two mains never track waiting executions at the same time, so that none   *)
(* is resumed twice, as long as no key lapsed and no reply was lost.         *)
Tracks(m) == IsActive(m) /\ "tracking" \in timer[m] \cup leaked[m]
OneTracker == Reliable => \A m, n \in Mains : Tracks(m) /\ Tracks(n) => m = n

(* When checks do not overlap, a settled main tracks if and only if it       *)
(* leads, with one timer, which it can clear; and a settled leader prunes    *)
(* and recovers from the queue, be it between two cycles or in one.          *)
ServicesFollowRole ==
  \A m \in Mains : IsSettled(m) =>
    /\ "tracking" \in timer[m] <=> role[m] = "leader"
    /\ "tracking" \notin leaked[m]
    /\ role[m] = "leader" => /\ "pruning" \in timer[m]
                             /\ "recovery" \in timer[m] \/ working[m] > 0

(* A waiting execution that is due is resumed, whoever leads then, unless    *)
(* the entry of a cleared timer keeps a main that leads again from arming    *)
(* another one, or the key of a main that is gone does not expire.           *)
WaitingIsResumed ==
  due ~> \/ ~due
         \/ \E m \in Mains : role[m] = "leader" /\ entry[m] = "cleared"
         \/ key = Departed /\ ~expires
=============================================================================
