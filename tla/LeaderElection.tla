--------------------------- MODULE LeaderElection ---------------------------
(***************************************************************************)
(* The election of a leader among the main processes of a multi-main       *)
(* setup: MultiMainSetup                                                   *)
(* (src/packages/cli/src/services/orchestration/main/multi-main-setup.ee.ts) *)
(* and the four Redis commands of Publisher that it uses                   *)
(* (scaling/pubsub/publisher.service.ts).                                  *)
(*                                                                         *)
(* A main sends its commands over one connection, so Redis executes them,  *)
(* and the main handles the replies, in the order in which they were sent. *)
(* Each call of checkLeader() has one command on its way at any time; the  *)
(* interval starts the next call whether or not the last one is done.      *)
(***************************************************************************)
EXTENDS Integers, SequencesExt

CONSTANTS Mains, NoMain,
          Departed,        \* the id of a process that is gone
          MaxChecks,       \* bound: calls of checkLeader() under way in one main
          MaxLapses,       \* bound: how often the key of a live main expires
          MaxDepartures,   \* bound: shutdowns and crashes
          MaxReconnects    \* bound: connections lost, and their replies with them

ASSUME MainIds == NoMain \notin Mains /\ Departed \notin Mains /\ NoMain # Departed
ASSUME ElectionBounds == {MaxChecks, MaxLapses, MaxDepartures, MaxReconnects} \subseteq Nat

VARIABLES key,        \* the value of the leader key
          expires,    \* does the key have a time to live?
          phase,      \* of each main
          role,       \* InstanceSettings.instanceRole of each main
          sent,       \* the commands of each main that Redis has not executed
          replies,    \* the replies of Redis that each main has not handled
          lapses, departures, reconnects

redisVars == <<key, expires>>
mainVars == <<phase, role, sent, replies>>
boundVars == <<lapses, departures, reconnects>>
electionVars == <<redisVars, mainVars, boundVars>>

(* joining: in init(), before the interval is set; stopping: in shutdown(),  *)
(* waiting for the key to be deleted; exiting: disconnected from Redis.      *)
Phases == {"down", "joining", "up", "stopping", "exiting"}
Roles == {"unset", "leader", "follower"}

(* The command that each reply answers.  expireTaken and expireRenewed are    *)
(* the EXPIRE commands of tryBecomeLeader() and of checkLeader().            *)
CommandOf ==
  [self  |-> "get",   other |-> "get", vacant |-> "get",
   set   |-> "setnx", kept  |-> "setnx",
   taken |-> "expireTaken", renewed |-> "expireRenewed", cleared |-> "del"]

Replies == DOMAIN CommandOf
Commands == {CommandOf[r] : r \in Replies}

ElectionInit ==
  /\ key = NoMain /\ expires = FALSE
  /\ phase = [m \in Mains |-> "down"]
  /\ role = [m \in Mains |-> "unset"]
  /\ sent = [m \in Mains |-> <<>>]
  /\ replies = [m \in Mains |-> <<>>]
  /\ lapses = 0 /\ departures = 0 /\ reconnects = 0

-----------------------------------------------------------------------------
(* Redis *)

(* What the first command of m answers, and what it leaves in the key. *)
Answer(m) ==
  CASE Head(sent[m]) = "get" -> IF key = NoMain THEN "vacant" ELSE IF key = m THEN "self" ELSE "other"
    [] Head(sent[m]) = "setnx" -> IF key = NoMain THEN "set" ELSE "kept"
    [] Head(sent[m]) = "expireTaken" -> "taken"
    [] Head(sent[m]) = "expireRenewed" -> "renewed"
    [] Head(sent[m]) = "del" -> "cleared"

(* Mutant: SET in place of SETNX. *)
StoreOverwrites(m, reply) ==
  /\ key' = IF reply \in {"set", "kept"} THEN m ELSE key
  /\ UNCHANGED expires

Store(m, reply) ==
  CASE reply = "set" -> key' = m /\ expires' = FALSE
    [] reply \in {"taken", "renewed"} -> expires' = (key # NoMain) /\ UNCHANGED key
    [] reply = "cleared" -> key' = NoMain /\ expires' = FALSE
    [] OTHER -> UNCHANGED redisVars

Execute(m) ==
  /\ sent[m] # <<>>
  /\ Store(m, Answer(m))
  /\ sent' = [sent EXCEPT ![m] = Tail(@)]
  /\ replies' = [replies EXCEPT ![m] = Append(@, Answer(m))]
  /\ UNCHANGED <<phase, role, boundVars>>

(* The key expires because nobody renews it, or, within the bound, because   *)
(* its holder was too slow.                                                  *)
HolderIsGone == key = Departed \/ (key \in Mains /\ phase[key] = "exiting")

Lapse ==
  /\ key # NoMain /\ expires
  /\ IF HolderIsGone THEN UNCHANGED lapses ELSE lapses < MaxLapses /\ lapses' = lapses + 1
  /\ key' = NoMain /\ expires' = FALSE
  /\ UNCHANGED <<mainVars, departures, reconnects>>

(* The connection of m is lost and opened again: the client sends every      *)
(* command again whose reply it has not seen.                                *)
Reconnect(m) ==
  /\ replies[m] # <<>>
  /\ reconnects < MaxReconnects /\ reconnects' = reconnects + 1
  /\ sent' = [sent EXCEPT ![m] = [i \in DOMAIN replies[m] |-> CommandOf[replies[m][i]]] \o @]
  /\ replies' = [replies EXCEPT ![m] = <<>>]
  /\ UNCHANGED <<redisVars, phase, role, lapses, departures>>

-----------------------------------------------------------------------------
(* MultiMainSetup: each reply is handled up to the next await. *)

(* The reply to handle is one of R; the commands cmds are sent next. *)
Receive(m, R, cmds) ==
  /\ replies[m] # <<>>
  /\ Head(replies[m]) \in R
  /\ replies' = [replies EXCEPT ![m] = Tail(@)]
  /\ sent' = [sent EXCEPT ![m] = @ \o cmds]
  /\ UNCHANGED <<redisVars, boundVars>>

Become(m, r) == role' = [role EXCEPT ![m] = r]

(* init() is over once tryBecomeLeader() is. *)
Joined(m) == phase' = [phase EXCEPT ![m] = IF @ = "joining" THEN "up" ELSE @]

Connect(m) ==
  /\ phase[m] = "down"
  /\ phase' = [phase EXCEPT ![m] = "joining"]
  /\ sent' = [sent EXCEPT ![m] = <<"setnx">>]
  /\ UNCHANGED <<redisVars, role, replies, boundVars>>

(* The interval calls checkLeader(). *)
CheckLeader(m) ==
  /\ phase[m] = "up"
  /\ Len(sent[m]) + Len(replies[m]) < MaxChecks
  /\ sent' = [sent EXCEPT ![m] = Append(@, "get")]
  /\ UNCHANGED <<redisVars, phase, role, replies, boundVars>>

Renew(m) == Receive(m, {"self"}, <<"expireRenewed">>) /\ UNCHANGED <<phase, role>>

Follow(m) == Receive(m, {"other"}, <<>>) /\ role[m] # "leader" /\ UNCHANGED <<phase, role>>

(* Mutants: a leader that finds another leader goes on; a main that finds    *)
(* leadership vacant does not try to become the leader.                      *)
StepDownNever(m) ==
  \/ Receive(m, {"other"}, <<>>) /\ role[m] = "leader" /\ UNCHANGED <<phase, role>>
  \/ Receive(m, {"vacant"}, <<"setnx">>) /\ Become(m, "follower") /\ UNCHANGED phase

StepDownOnly(m) ==
  \/ Receive(m, {"other"}, <<>>) /\ role[m] = "leader" /\ Become(m, "follower") /\ UNCHANGED phase
  \/ Receive(m, {"vacant"}, <<>>) /\ Become(m, "follower") /\ UNCHANGED phase

(* leader-stepdown is emitted. *)
StepDown(m) ==
  \/ Receive(m, {"other"}, <<>>) /\ role[m] = "leader" /\ Become(m, "follower") /\ UNCHANGED phase
  \/ Receive(m, {"vacant"}, <<"setnx">>) /\ Become(m, "follower") /\ UNCHANGED phase

(* tryBecomeLeader(): the key was set, or is kept. *)
KeySet(m) == Receive(m, {"set"}, <<"expireTaken">>) /\ Become(m, "leader") /\ UNCHANGED phase
KeyKept(m) == Receive(m, {"kept"}, <<>>) /\ Become(m, "follower") /\ Joined(m)

Renewed(m) == Receive(m, {"renewed"}, <<>>) /\ UNCHANGED <<phase, role>>

(* leader-takeover is emitted. *)
TakeOver(m) == Receive(m, {"taken"}, <<>>) /\ Joined(m) /\ UNCHANGED role

Disconnected(m) ==
  /\ sent' = [sent EXCEPT ![m] = <<>>]
  /\ replies' = [replies EXCEPT ![m] = <<>>]

(* Mutant of shutdown(): the key is deleted by followers too. *)
ShutdownClearsAlways(m) ==
  /\ phase[m] = "up"
  /\ departures < MaxDepartures /\ departures' = departures + 1
  /\ phase' = [phase EXCEPT ![m] = "stopping"]
  /\ sent' = [sent EXCEPT ![m] = Append(@, "del")]
  /\ UNCHANGED <<redisVars, role, lapses, reconnects, replies>>

(* shutdown(), and the disconnection that OrchestrationService does next. *)
Shutdown(m) ==
  /\ phase[m] = "up"
  /\ departures < MaxDepartures /\ departures' = departures + 1
  /\ IF role[m] = "leader"
       THEN /\ phase' = [phase EXCEPT ![m] = "stopping"]
            /\ sent' = [sent EXCEPT ![m] = Append(@, "del")]
            /\ UNCHANGED replies
       ELSE /\ phase' = [phase EXCEPT ![m] = "exiting"]
            /\ Disconnected(m)
  /\ UNCHANGED <<redisVars, role, lapses, reconnects>>

KeyCleared(m) ==
  /\ replies[m] # <<>>
  /\ Head(replies[m]) = "cleared"
  /\ phase' = [phase EXCEPT ![m] = "exiting"]
  /\ Disconnected(m)
  /\ UNCHANGED <<redisVars, role, boundVars>>

(* The process ends; the next one has another id. *)
Leave(m) ==
  /\ phase' = [phase EXCEPT ![m] = "down"]
  /\ role' = [role EXCEPT ![m] = "unset"]
  /\ key' = IF key = m THEN Departed ELSE key
  /\ Disconnected(m)
  /\ UNCHANGED <<expires, lapses, reconnects>>

Exit(m) == phase[m] = "exiting" /\ Leave(m) /\ UNCHANGED departures

Crash(m) ==
  /\ phase[m] \notin {"down", "exiting"}
  /\ departures < MaxDepartures /\ departures' = departures + 1
  /\ Leave(m)

(* The steps that emit no event. *)
Quiet(m) == Renew(m) \/ Follow(m) \/ KeySet(m) \/ KeyKept(m) \/ Renewed(m)

ElectionNext ==
  \/ \E m \in Mains :
       \/ Execute(m) \/ Reconnect(m)
       \/ Connect(m) \/ CheckLeader(m)
       \/ Quiet(m) \/ StepDown(m) \/ TakeOver(m)
       \/ Shutdown(m) \/ KeyCleared(m) \/ Exit(m) \/ Crash(m)
  \/ Lapse

ElectionSafety == ElectionInit /\ [][ElectionNext]_electionVars

(* Redis executes what was sent, the event loop handles replies, the         *)
(* interval goes on, processes are started again, and a key with a time to   *)
(* live that nobody renews expires.                                          *)
ElectionFairness ==
  /\ \A m \in Mains :
       /\ WF_electionVars(Execute(m))
       /\ WF_electionVars(Quiet(m) \/ StepDown(m) \/ TakeOver(m) \/ KeyCleared(m))
       /\ WF_electionVars(CheckLeader(m))
       /\ WF_electionVars(Connect(m))
       /\ WF_electionVars(Exit(m))
  /\ WF_electionVars(HolderIsGone /\ Lapse)

ElectionSpec == ElectionSafety /\ ElectionFairness

-----------------------------------------------------------------------------
ElectionTypeOK ==
  /\ key \in Mains \cup {NoMain, Departed}
  /\ expires \in BOOLEAN
  /\ phase \in [Mains -> Phases]
  /\ role \in [Mains -> Roles]
  /\ sent \in [Mains -> Seq(Commands)]
  /\ replies \in [Mains -> Seq(Replies)]
  /\ lapses \in 0..MaxLapses
  /\ departures \in 0..MaxDepartures
  /\ reconnects \in 0..MaxReconnects

(* Leading: the role, in a main that is not shutting down. *)
IsActive(m) == phase[m] \in {"joining", "up"}
Leads(m) == IsActive(m) /\ role[m] = "leader"

(* Up to now every holder has renewed the key in time, and no reply was lost. *)
Reliable == lapses = 0 /\ reconnects = 0

(* While this is so, two mains never lead at once, however their checks and  *)
(* shutdowns interleave.                                                     *)
AtMostOneLeader == Reliable => \A m, n \in Mains : Leads(m) /\ Leads(n) => m = n

(* As long, a main that is not shutting down keeps the key until it crashes: *)
(* nobody deletes or takes it, not even a main that deletes the key while it *)
(* shuts down.                                                               *)
KeyNotTakenAway ==
  [][Reliable' =>
     \A m \in Mains : key = m /\ key' # m /\ IsActive(m) => phase'[m] = "down"]_electionVars

(* The main whose id is in the key leads, or gives the key up: unless two    *)
(* checks of the same main overlap, or a reply is lost.                      *)
HolderLeads == \A m \in Mains : key = m ~> key # m \/ role[m] = "leader"

(* A main that has lost the key learns of it. *)
StaleLeaderStepsDown ==
  \A m \in Mains : role[m] = "leader" /\ key # m ~> role[m] # "leader" \/ key = m

(* When the main that holds the key is gone, another one takes the key, as   *)
(* long as the key can expire.                                               *)
LeadershipPassesOn == key = Departed /\ expires ~> key \in Mains
=============================================================================
