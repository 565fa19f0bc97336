-------------------------- MODULE MultiMain_proofs --------------------------
(***************************************************************************)
(* The services leave the election as it is, so what is proved of the      *)
(* election alone holds with them; and while keys do not lapse and no      *)
(* reply is lost, two mains never track waiting executions at once.  When  *)
(* checks do not overlap, the services of a main follow its role.          *)
(***************************************************************************)
EXTENDS MultiMain, LeaderElection_proofs

(* Every step of the mains and their services is a step of the election, or  *)
(* leaves the election alone.                                                *)
LEMMA StepElects == [Next]_vars => [ElectionNext]_electionVars
<1>1. ASSUME NEW m \in Mains, Elect(m) PROVE ElectionNext
  BY <1>1 DEF Elect, ElectionNext
<1>2. ASSUME NEW m \in Mains, Check(m) PROVE ElectionNext
  BY <1>2 DEF Check, ElectionNext
<1>3. ASSUME NEW m \in Mains, Serve(m) \/ StopServices(m) PROVE UNCHANGED electionVars
  BY <1>3 DEF Serve, InitService, BeginRecovery, EndRecovery,
              Poll, ArmTimer, Resume, StopServices
<1>4. ASSUME NEW m \in Mains, Shutdown(m) \/ Crash(m) PROVE ElectionNext
  BY <1>4 DEF ElectionNext
<1>5. Lapse => ElectionNext
  BY DEF ElectionNext
<1>6. UNCHANGED vars => UNCHANGED electionVars
  BY DEF vars
<1>7. QED
  BY <1>1, <1>2, <1>3, <1>4, <1>5, <1>6 DEF Next

(* The services implement the election: no handler, timer or shutdown step   *)
(* of theirs interferes with checkLeader() and its commands.                 *)
THEOREM ServicesElect == Safety => ElectionSafety
<1>1. Init => ElectionInit
  BY DEF Init
<1>2. QED
  BY <1>1, StepElects, PTL DEF Safety, ElectionSafety

-----------------------------------------------------------------------------
(* The types of the services. *)

TimersOK ==
  timer \in [Mains -> SUBSET Timed] /\ leaked \in [Mains -> SUBSET Timed]
WorkOK == working \in [Mains -> Nat]
StateOK ==
  /\ started \in [Mains -> 0..Len(InitOrder)]
  /\ quitting \in SUBSET Mains
WaitOK ==
  due \in BOOLEAN /\ polling \in SUBSET Mains /\ entry \in [Mains -> {"none", "armed", "cleared"}]
ServicesOK == TimersOK /\ WorkOK /\ StateOK /\ WaitOK

LEMMA TypeIsServices ==
  /\ TypeOK <=> ElectionTypeOK /\ ServicesOK
  /\ TypeOK' <=> ElectionTypeOK' /\ ServicesOK'
BY DEF TypeOK, ServicesOK, TimersOK, WorkOK, StateOK, WaitOK

LEMMA OrderFacts ==
  /\ Len(InitOrder) = 3
  /\ InitOrder[1] = "tracking" /\ InitOrder[2] = "recovery"
  /\ InitOrder[3] = "pruning"
BY DEF InitOrder

LEMMA StartTimersType ==
  ASSUME TimersOK, NEW m \in Mains, NEW S, S \cap Timed = S, StartTimers(m, S)
  PROVE  TimersOK'
BY DEF TimersOK, StartTimers

LEMMA StopTimersType ==
  ASSUME TimersOK, NEW m \in Mains, NEW S, StopTimers(m, S)
  PROVE  TimersOK'
BY DEF TimersOK, StopTimers

LEMMA ClearEntryType ==
  ASSUME WaitOK, NEW m \in Mains, ClearEntry(m), UNCHANGED <<due, polling>>
  PROVE  WaitOK'
BY DEF WaitOK, ClearEntry

(* The parts of TypeOK that the events, the end of a process, and the        *)
(* services' own steps keep.                                                 *)
LEMMA EventTypes ==
  ASSUME ServicesOK, NEW m \in Mains, OnStepdown(m) \/ OnTakeover(m)
  PROVE  ServicesOK'
<1>1. working' = working => WorkOK'
  BY DEF ServicesOK, WorkOK
<1>2. CASE OnStepdown(m)
  <2>1. TimersOK'
    BY <1>2, StopTimersType DEF OnStepdown, ServicesOK
  <2>2. WorkOK'
    BY <1>1, <1>2 DEF OnStepdown
  <2>3. WaitOK'
    BY <1>2, ClearEntryType DEF OnStepdown, ServicesOK, WaitOK
  <2>4. StateOK'
    BY <1>2 DEF OnStepdown, ServicesOK, StateOK
  <2>5. QED
    BY <2>1, <2>2, <2>3, <2>4 DEF ServicesOK
<1>3. CASE OnTakeover(m)
  <2>1. PICK S : StartTimers(m, Listening(m) \cap ({"tracking", "recovery"} \cup S)) /\ S \subseteq Timed
    BY <1>3 DEF OnTakeover, PruningIf, Timed
  <2>2. TimersOK'
    <3>1. Listening(m) \cap ({"tracking", "recovery"} \cup S) \subseteq Timed
      BY <2>1 DEF Timed
    <3>2. QED
      BY <2>1, <3>1, StartTimersType DEF ServicesOK
  <2>3. WorkOK'
    BY <1>1, <1>3 DEF OnTakeover
  <2>4. StateOK' /\ WaitOK'
    BY <1>3 DEF OnTakeover, ServicesOK, StateOK, WaitOK, waitVars
  <2>5. QED
    BY <2>2, <2>3, <2>4 DEF ServicesOK
<1>4. QED
  BY <1>2, <1>3

LEMMA ForgetTypes ==
  ASSUME ServicesOK, NEW m \in Mains, Forget(m)
  PROVE  ServicesOK'
<1>1. TimersOK'
  BY DEF ServicesOK, TimersOK, Forget
<1>2. WorkOK'
  BY DEF ServicesOK, WorkOK, Forget
<1>3. StateOK'
  BY OrderFacts DEF ServicesOK, StateOK, Forget
<1>4. WaitOK'
  BY DEF ServicesOK, WaitOK, Forget
<1>5. QED
  BY <1>1, <1>2, <1>3, <1>4 DEF ServicesOK

LEMMA ServeTypes ==
  ASSUME ServicesOK, NEW m \in Mains, Serve(m) \/ StopServices(m)
  PROVE  ServicesOK'
<1> USE DEF ServicesOK
<1>1. CASE InitService(m)
  <2>1. TimersOK'
    <3>1. PICK S : StartTimers(m, S) /\ S \subseteq Timed
      <4>1. started[m] \in {0, 1, 2}
        BY <1>1, OrderFacts DEF InitService, StateOK
      <4>2. {InitOrder[started[m] + 1]} \subseteq Timed
        BY <4>1, OrderFacts DEF Timed
      <4> QED BY <1>1, <4>2 DEF InitService
    <3>2. QED
      BY <3>1, StartTimersType
  <2>2. WorkOK'
    BY <1>1 DEF InitService, WorkOK
  <2>3. StateOK'
    BY <1>1, OrderFacts DEF InitService, StateOK
  <2>4. WaitOK'
    BY <1>1 DEF InitService, WaitOK, waitVars
  <2>5. QED
    BY <2>1, <2>2, <2>3, <2>4
<1>2. CASE BeginRecovery(m)
  <2>1. TimersOK' /\ WorkOK'
    BY <1>2 DEF BeginRecovery, TimersOK, WorkOK
  <2>2. StateOK' /\ WaitOK'
    BY <1>2 DEF BeginRecovery, StateOK, WaitOK, waitVars
  <2>3. QED
    BY <2>1, <2>2
<1>3. CASE EndRecovery(m)
  <2>1. TimersOK'
    BY <1>3, StartTimersType DEF EndRecovery, Timed
  <2>2. WorkOK'
    BY <1>3 DEF EndRecovery, WorkOK
  <2>3. StateOK' /\ WaitOK'
    BY <1>3 DEF EndRecovery, StateOK, WaitOK, waitVars
  <2>4. QED
    BY <2>1, <2>2, <2>3
<1>4. CASE Poll(m) \/ ArmTimer(m) \/ Resume(m)
  <2>1. UNCHANGED serviceVars
    BY <1>4 DEF Poll, ArmTimer, Resume
  <2>2. TimersOK' /\ WorkOK' /\ StateOK'
    BY <2>1 DEF serviceVars, TimersOK, WorkOK, StateOK
  <2>3. WaitOK'
    BY <1>4 DEF Poll, ArmTimer, Resume, WaitOK
  <2>4. QED
    BY <2>2, <2>3
<1>5. CASE StopServices(m)
  <2>1. TimersOK'
    BY <1>5, StopTimersType DEF StopServices
  <2>2. WaitOK'
    BY <1>5, ClearEntryType DEF StopServices
  <2>3. WorkOK' /\ StateOK'
    BY <1>5 DEF StopServices, WorkOK, StateOK
  <2>4. QED
    BY <2>1, <2>2, <2>3
<1>6. QED
  BY <1>1, <1>2, <1>3, <1>4, <1>5 DEF Serve

(* What a step of the mains does to the services. *)
LEMMA StepServes ==
  ASSUME [Next]_vars
  PROVE  \/ UNCHANGED <<serviceVars, waitVars>>
         \/ \E m \in Mains : \/ StepDown(m) /\ OnStepdown(m)
                             \/ TakeOver(m) /\ OnTakeover(m)
                             \/ (Exit(m) \/ Crash(m)) /\ Forget(m)
                             \/ Serve(m) \/ StopServices(m)
BY DEF Next, Elect, Check, vars

LEMMA ServicesStep == ServicesOK /\ [Next]_vars => ServicesOK'
<1> SUFFICES ASSUME ServicesOK, [Next]_vars PROVE ServicesOK'
  OBVIOUS
<1>1. CASE UNCHANGED <<serviceVars, waitVars>>
  BY <1>1 DEF serviceVars, waitVars, ServicesOK, TimersOK, WorkOK, StateOK, WaitOK
<1>2. QED
  BY <1>1, StepServes, EventTypes, ForgetTypes, ServeTypes

(* The variables of the mains and their services keep their types. *)
THEOREM ServiceTypes == Safety => []TypeOK
<1>1. Init => ServicesOK
  BY OrderFacts DEF Init, ServicesOK, TimersOK, WorkOK, StateOK, WaitOK
<1>2. Safety => []ServicesOK
  BY <1>1, ServicesStep, PTL DEF Safety
<1>3. ElectionTypeOK /\ ServicesOK => TypeOK
  BY TypeIsServices
<1>4. QED
  BY <1>2, <1>3, ServicesElect, ElectionTypes, PTL

-----------------------------------------------------------------------------
(* Who tracks holds the key, or is gone from the election.  A main is about  *)
(* to track from the moment its SETNX has succeeded: its EXPIRE, and then    *)
(* the reply to it, is on its way, and when that is handled it takes over.   *)

HasTracker(m) == "tracking" \in timer[m] \cup leaked[m]
TakesOver(m) == Has(sent[m], "expireTaken") \/ Has(replies[m], "taken")

TrackInv ==
  \A m \in Mains :
    /\ phase[m] = "down" => ~HasTracker(m)
    /\ IsActive(m) /\ (HasTracker(m) \/ TakesOver(m)) => key = m

(* In the election: a main is about to track only from a successful SETNX    *)
(* on, and then the key is its own.                                          *)
LEMMA TakesOverNext ==
  ASSUME ElectionTypeOK, LeaseInv, Reliable', [ElectionNext]_electionVars,
         NEW m \in Mains, IsActive(m)'
  PROVE  /\ IsActive(m) \/ phase[m] = "down"
         /\ TakesOver(m)' => IsActive(m) /\ (TakesOver(m) \/ key = m)
<1> DEFINE Goal == /\ IsActive(m) \/ phase[m] = "down"
                   /\ TakesOver(m)' => IsActive(m) /\ (TakesOver(m) \/ key = m)
<1>1. /\ sent[m] \in Seq(Commands) /\ replies[m] \in Seq(Replies)
      /\ phase \in [Mains -> Phases]
  BY DEF ElectionTypeOK
<1>2. Sound(m, key, phase[m], role[m], sent[m], replies[m])
  BY DEF LeaseInv
<1>3. CASE phase'[m] = phase[m] /\ sent'[m] = sent[m] /\ replies'[m] = replies[m]
  <2>1. IsActive(m)
    BY <1>3 DEF IsActive
  <2>2. TakesOver(m)' => TakesOver(m)
    BY <1>3 DEF TakesOver
  <2>3. TakesOver(m) => sent[m] # <<>> \/ replies[m] # <<>>
    BY HasFacts, <1>1 DEF TakesOver
  <2>4. QED
    BY <2>1, <2>2
<1>4. CASE Execute(m)
  <2>1. /\ sent[m] # <<>> /\ phase' = phase
        /\ sent'[m] = Tail(sent[m]) /\ replies'[m] = Append(replies[m], Answer(m))
    BY <1>1, <1>4 DEF Execute, ElectionTypeOK
  <2>2. Answer(m) \in Replies /\ Head(sent[m]) \in Commands
    BY <2>1, AnswerType
  <2>3. Answer(m) = "taken" => Head(sent[m]) = "expireTaken"
    BY <2>2, ReplyNames DEF Answer
  <2>4. /\ Has(Tail(sent[m]), "expireTaken") => Has(sent[m], "expireTaken")
        /\ Has(Append(replies[m], Answer(m)), "taken") <=> Has(replies[m], "taken") \/ "taken" = Answer(m)
        /\ Head(sent[m]) = "expireTaken" => Has(sent[m], "expireTaken")
    BY <1>1, <2>1, <2>2, HasFacts
  <2>5. TakesOver(m)' => TakesOver(m)
    BY <2>1, <2>3, <2>4 DEF TakesOver
  <2>6. QED
    BY <2>1, <2>5 DEF IsActive
<1>5. ~Reconnect(m)
  BY DEF Reconnect, ElectionTypeOK, Reliable
<1>6. CASE Connect(m)
  <2>1. phase[m] = "down" /\ replies'[m] = replies[m] /\ sent'[m] = <<"setnx">>
    BY <1>6 DEF Connect, ElectionTypeOK
  <2>2. replies[m] = <<>>
    BY <1>2, <2>1 DEF Sound
  <2>3. ~Has(<<"setnx">>, "expireTaken") /\ ~Has(<<>>, "taken")
    BY DEF Has
  <2>4. QED
    BY <2>1, <2>2, <2>3 DEF TakesOver
<1>7. CASE CheckLeader(m)
  <2>1. phase' = phase /\ replies' = replies /\ sent'[m] = Append(sent[m], "get")
    BY <1>7 DEF CheckLeader, ElectionTypeOK
  <2>2. "get" \in Commands
    BY ReplyNames
  <2>3. Has(Append(sent[m], "get"), "expireTaken") <=> Has(sent[m], "expireTaken")
    BY <1>1, <2>2, HasFacts
  <2>4. QED
    BY <2>1, <2>3 DEF TakesOver, IsActive
<1>8. CASE Quiet(m) \/ StepDown(m) \/ TakeOver(m)
  <2>1. PICK R : \E cmds \in {<<>>, <<"setnx">>, <<"expireTaken">>, <<"expireRenewed">>}, r \in Roles :
          Handles(m, R, cmds, r) /\ (cmds = <<"expireTaken">> => R = {"set"})
    BY <1>8 DEF Quiet, StepDown, TakeOver, Renew, Follow, KeySet, KeyKept, Renewed,
                Handles, Become, Joined, Roles
  <2>2. PICK cmds \in {<<>>, <<"setnx">>, <<"expireTaken">>, <<"expireRenewed">>}, r \in Roles :
          Handles(m, R, cmds, r) /\ (cmds = <<"expireTaken">> => R = {"set"})
    BY <2>1
  <2>3. cmds \in {<<>>} \cup {<<c>> : c \in Commands}
    BY ReplyNames
  <2>4. /\ replies[m] # <<>> /\ Head(replies[m]) \in R
        /\ replies'[m] = Tail(replies[m]) /\ sent'[m] = sent[m] \o cmds
    BY <2>2, <2>3, ReceiveType DEF Handles
  <2>5. phase'[m] = phase[m] \/ phase[m] = "joining"
    BY <1>1, <2>2 DEF Handles
  <2>6. IsActive(m)
    BY <2>5 DEF IsActive
  <2>7. Has(Tail(replies[m]), "taken") => Has(replies[m], "taken")
    BY <1>1, <2>4, HasFacts
  <2>8. cmds = <<"expireTaken">> => key = m
    <3>1. Head(replies[m]) = "set" => Has(replies[m], "set")
      BY <1>1, <2>4, HasFacts
    <3>2. QED
      BY <1>2, <2>2, <2>4, <2>6, <3>1 DEF Sound, IsActive
  <2>9. cmds # <<"expireTaken">> => (Has(sent[m] \o cmds, "expireTaken") => Has(sent[m], "expireTaken"))
    <3>1. sent[m] \o <<>> = sent[m]
      BY <1>1, SendFacts
    <3>2. ASSUME NEW c \in {"setnx", "expireRenewed"}
          PROVE  Has(sent[m] \o <<c>>, "expireTaken") <=> Has(sent[m], "expireTaken")
      <4>1. c \in Commands /\ c # "expireTaken"
        BY ReplyNames
      <4>2. sent[m] \o <<c>> = Append(sent[m], c)
        BY <1>1, <4>1, SendFacts
      <4>3. Has(Append(sent[m], c), "expireTaken") <=> Has(sent[m], "expireTaken") \/ "expireTaken" = c
        BY <1>1, <4>1, HasFacts
      <4>4. QED
        BY <4>1, <4>2, <4>3
    <3>3. QED
      BY <3>1, <3>2
  <2>10. TakesOver(m)' => TakesOver(m) \/ key = m
    BY <2>4, <2>7, <2>8, <2>9 DEF TakesOver
  <2>11. QED
    BY <2>6, <2>10
<1>9. Shutdown(m) \/ KeyCleared(m) \/ Exit(m) \/ Crash(m) => ~IsActive(m)'
  BY <1>1 DEF Shutdown, KeyCleared, Exit, Crash, Leave, IsActive
<1>10. ASSUME NEW n \in Mains \ {m},
              \/ Execute(n) \/ Connect(n) \/ CheckLeader(n) \/ Reconnect(n)
              \/ Shutdown(n) \/ KeyCleared(n) \/ Exit(n) \/ Crash(n)
       PROVE  phase'[m] = phase[m] /\ sent'[m] = sent[m] /\ replies'[m] = replies[m]
  BY <1>10 DEF ElectionTypeOK, Execute, Connect, CheckLeader, Reconnect, Shutdown, KeyCleared,
               Exit, Crash, Leave, Disconnected
<1>11. ASSUME NEW n \in Mains \ {m}, Quiet(n) \/ StepDown(n) \/ TakeOver(n)
       PROVE  phase'[m] = phase[m] /\ sent'[m] = sent[m] /\ replies'[m] = replies[m]
  <2>1. PICK R : \E cmds \in {<<>>} \cup {<<c>> : c \in Commands}, r \in Roles : Handles(n, R, cmds, r)
    BY <1>11, HandlesAll
  <2>2. QED
    BY <2>1 DEF Handles, Receive, ElectionTypeOK
<1>12. Lapse \/ UNCHANGED electionVars
         => phase'[m] = phase[m] /\ sent'[m] = sent[m] /\ replies'[m] = replies[m]
  BY DEF Lapse, electionVars, mainVars
<1>13. QED
  BY <1>3, <1>4, <1>5, <1>6, <1>7, <1>8, <1>9, <1>10, <1>11, <1>12 DEF ElectionNext

(* In the services: a main starts to track only when it takes over, or when  *)
(* its tracker is initialised while it leads.                                *)
LEMMA TrackerGains ==
  ASSUME ElectionTypeOK, LeaseInv, ServicesOK, [Next]_vars,
         NEW m \in Mains, HasTracker(m)', ~HasTracker(m)
  PROVE  /\ phase[m] # "down" /\ phase'[m] # "down"
         /\ IsActive(m) => TakesOver(m) \/ key = m
<1>1. Sound(m, key, phase[m], role[m], sent[m], replies[m])
  BY DEF LeaseInv
<1>2. /\ timer \in [Mains -> SUBSET Timed] /\ leaked \in [Mains -> SUBSET Timed]
      /\ replies[m] \in Seq(Replies) /\ phase \in [Mains -> Phases]
  BY DEF ServicesOK, TimersOK, ElectionTypeOK
<1>3. ASSUME NEW n \in Mains, NEW S, StartTimers(n, S) PROVE n = m /\ "tracking" \in S
  BY <1>2, <1>3 DEF StartTimers, HasTracker
<1>4. ASSUME NEW n \in Mains, NEW S PROVE ~StopTimers(n, S)
  BY <1>2 DEF StopTimers, HasTracker
<1>5. ~UNCHANGED <<timer, leaked>>
  BY DEF HasTracker
<1>6. ASSUME NEW n \in Mains, TakeOver(n), OnTakeover(n)
      PROVE  /\ phase[m] # "down" /\ phase'[m] # "down"
             /\ TakesOver(m)
  <2>1. n = m
    BY <1>3, <1>6 DEF OnTakeover
  <2>2. replies[m] # <<>> /\ Head(replies[m]) = "taken"
    BY <1>6, <2>1 DEF TakeOver, Receive
  <2>3. Has(replies[m], "taken")
    BY <1>2, <2>2, HasFacts
  <2>4. phase[m] # "down"
    BY <1>1, <2>2 DEF Sound
  <2>5. phase'[m] # "down"
    BY <1>2, <1>6, <2>1, <2>4 DEF TakeOver, Joined
  <2>6. QED
    BY <2>3, <2>4, <2>5 DEF TakesOver
<1>7. ASSUME NEW n \in Mains, InitService(n)
      PROVE  /\ phase[m] # "down" /\ phase'[m] # "down"
             /\ key = m
  <2>1. PICK S : StartTimers(n, S) /\ (S # {} => role[n] = "leader")
    BY <1>7 DEF InitService
  <2>2. n = m /\ role[m] = "leader"
    BY <1>3, <2>1
  <2>3. phase[m] = "up" /\ phase' = phase
    BY <1>7, <2>2 DEF InitService, electionVars, mainVars
  <2>4. QED
    BY <1>1, <2>2, <2>3 DEF Sound
<1>8. ASSUME NEW n \in Mains PROVE ~BeginRecovery(n) /\ ~EndRecovery(n)
  <2>1. ~EndRecovery(n)
    BY <1>3 DEF EndRecovery
  <2>2. ~BeginRecovery(n)
    BY <1>2 DEF BeginRecovery, HasTracker
  <2>3. QED
    BY <2>1, <2>2
<1>9. ASSUME NEW n \in Mains
      PROVE  ~OnStepdown(n) /\ ~Forget(n) /\ ~StopServices(n)
  <2>1. ~OnStepdown(n) /\ ~StopServices(n)
    BY <1>4 DEF OnStepdown, StopServices
  <2>2. ~Forget(n)
    BY <1>2 DEF Forget, HasTracker
  <2>3. QED
    BY <2>1, <2>2
<1>10. ASSUME NEW n \in Mains
       PROVE  ~Poll(n) /\ ~ArmTimer(n) /\ ~Resume(n)
  BY <1>5 DEF Poll, ArmTimer, Resume, serviceVars
<1>11. ~UNCHANGED <<serviceVars, waitVars>>
  BY <1>5 DEF serviceVars
<1>12. QED
  BY <1>6, <1>7, <1>8, <1>9, <1>10, <1>11, StepServes DEF Serve

(* A process that ends takes its timers with it. *)
LEMMA TrackerEnds ==
  ASSUME ElectionTypeOK, ServicesOK, [Next]_vars,
         NEW m \in Mains, phase[m] # "down", phase'[m] = "down"
  PROVE  ~HasTracker(m)'
<1>1. phase \in [Mains -> Phases] /\ timer \in [Mains -> SUBSET Timed] /\ leaked \in [Mains -> SUBSET Timed]
  BY DEF ElectionTypeOK, ServicesOK, TimersOK
<1>2. ASSUME NEW n \in Mains, (Exit(n) \/ Crash(n)) /\ Forget(n) PROVE ~HasTracker(m)'
  <2>1. n = m
    BY <1>1, <1>2 DEF Exit, Crash, Leave
  <2>2. QED
    BY <1>1, <1>2, <2>1 DEF Forget, HasTracker
<1>3. ASSUME NEW n \in Mains, Quiet(n) \/ StepDown(n) \/ TakeOver(n) PROVE FALSE
  <2>1. PICK R : \E cmds \in {<<>>} \cup {<<c>> : c \in Commands}, r \in Roles : Handles(n, R, cmds, r)
    BY <1>3, HandlesAll
  <2>2. QED
    BY <1>1, <2>1 DEF Handles
<1>4. ASSUME NEW n \in Mains,
             Execute(n) \/ Connect(n) \/ KeyCleared(n) \/ Check(n) \/ Shutdown(n)
      PROVE  FALSE
  BY <1>1, <1>4 DEF Execute, Connect, KeyCleared, Check, CheckLeader, Shutdown
<1>5. ASSUME NEW n \in Mains, Serve(n) \/ StopServices(n) PROVE FALSE
  BY <1>5 DEF Serve, InitService, BeginRecovery, EndRecovery,
              Poll, ArmTimer, Resume, StopServices, electionVars, mainVars
<1>6. ~Lapse /\ ~UNCHANGED vars
  BY DEF Lapse, vars, electionVars, mainVars
<1>7. QED
  BY <1>2, <1>3, <1>4, <1>5, <1>6 DEF Next, Elect

(* A main that tracks or is about to track keeps its key (LeaseStep), and    *)
(* one that starts to has it already.                                        *)
LEMMA TrackStep ==
  ASSUME ElectionTypeOK, LeaseInv, ServicesOK, TrackInv, [Next]_vars, Reliable'
  PROVE  TrackInv'
<1>1. [ElectionNext]_electionVars
  BY StepElects
<1>2. LeaseStep
  BY <1>1, ElectionStep
<1>3. ASSUME NEW m \in Mains, phase'[m] = "down" PROVE ~HasTracker(m)'
  BY <1>3, TrackerGains, TrackerEnds DEF TrackInv
<1>4. ASSUME NEW m \in Mains, IsActive(m)', HasTracker(m)' \/ TakesOver(m)'
      PROVE  key' = m
  <2>1. /\ IsActive(m) \/ phase[m] = "down"
        /\ TakesOver(m)' => IsActive(m) /\ (TakesOver(m) \/ key = m)
    BY <1>1, <1>4, TakesOverNext
  <2>2. HasTracker(m)' => IsActive(m) /\ (HasTracker(m) \/ TakesOver(m) \/ key = m)
    BY <2>1, TrackerGains DEF TrackInv
  <2>3. IsActive(m) /\ key = m
    BY <1>4, <2>1, <2>2 DEF TrackInv
  <2>4. phase'[m] # "down"
    BY <1>4 DEF IsActive
  <2>5. QED
    BY <1>2, <2>3, <2>4 DEF LeaseStep
<1>5. QED
  BY <1>3, <1>4 DEF TrackInv

LEMMA TrackAlways == Safety => [](Reliable => TrackInv)
<1>1. Init => TrackInv
  BY HasFacts DEF Init, ElectionInit, TrackInv, HasTracker, TakesOver, Has, IsActive
<1>2. ElectionTypeOK /\ (Reliable => LeaseInv) /\ ServicesOK /\ (Reliable => TrackInv) /\ [Next]_vars
        => (Reliable => TrackInv)'
  BY TrackStep, StepElects, ReliableBefore
<1>3. TypeOK => ServicesOK
  BY TypeIsServices
<1>4. QED
  BY <1>1, <1>2, <1>3, ServicesElect, LeaseAlways, ServiceTypes, PTL DEF Safety

(* While every holder has renewed the key in time and no reply was lost, two *)
(* mains never track waiting executions at the same time: for any number of  *)
(* mains and of overlapping checks.                                          *)
THEOREM TrackedOnce == Safety => []OneTracker
<1>1. (Reliable => TrackInv) => OneTracker
  BY DEF TrackInv, OneTracker, Tracks, HasTracker
<1>2. QED
  BY <1>1, TrackAlways, PTL

-----------------------------------------------------------------------------
(* When checks do not overlap, the services follow the role.  One command of *)
(* a main is then on its way at a time, and which one it is says whether the *)
(* services are those of a leader: a main campaigns from the SETNX until it  *)
(* hears that another one has the key, or takes over.                        *)

Idle(m) == sent[m] = <<>> /\ replies[m] = <<>>
Awaits(m, c) ==
  \/ sent[m] = <<c>> /\ replies[m] = <<>>
  \/ sent[m] = <<>> /\ \E r \in Replies : CommandOf[r] = c /\ replies[m] = <<r>>
Holds(m) == Idle(m) \/ Awaits(m, "get") \/ Awaits(m, "expireRenewed")
Campaigns(m) == Awaits(m, "setnx") \/ (Awaits(m, "expireTaken") /\ role[m] = "leader")

(* A main without a process, or about to be, has no command on its way; one  *)
(* that comes up has none from when it has joined until all its services     *)
(* are there.                                                                *)
CommandsOK(m) ==
  /\ phase[m] \in {"down", "exiting"} => Idle(m)
  /\ phase[m] = "down" => /\ started[m] = 0 /\ timer[m] = {} /\ leaked[m] = {}
                         /\ working[m] = 0 /\ m \notin quitting
  /\ phase[m] = "joining" => Campaigns(m) /\ started[m] = 0
  /\ phase[m] = "up" => Holds(m) \/ Campaigns(m)
  /\ phase[m] = "up" /\ started[m] < 3 => Idle(m)

Leading(m) == role[m] = "leader" /\ Holds(m)

(* The services that are there follow the role. *)
FollowsRole(m) ==
  IsActive(m) /\ m \notin quitting =>
    /\ "tracking" \in timer[m] <=> started[m] >= 1 /\ Leading(m)
    /\ "tracking" \notin leaked[m]
    /\ Leading(m) => /\ started[m] >= 2 => "recovery" \in timer[m] \/ working[m] > 0
                     /\ started[m] >= 3 => "pruning" \in timer[m]

RoleInv == \A m \in Mains : CommandsOK(m) /\ FollowsRole(m)

(* The steps of one main. *)
Acts(m) ==
  \/ Elect(m) \/ Check(m) \/ Serve(m) \/ StopServices(m)
  \/ Shutdown(m) /\ UNCHANGED <<serviceVars, waitVars>>
  \/ Crash(m) /\ Forget(m)

Same(m) ==
  /\ phase'[m] = phase[m] /\ role'[m] = role[m] /\ sent'[m] = sent[m] /\ replies'[m] = replies[m]
  /\ started'[m] = started[m] /\ timer'[m] = timer[m] /\ leaked'[m] = leaked[m]
  /\ working'[m] = working[m] /\ (m \in quitting' <=> m \in quitting)

LEMMA SameRole ==
  ASSUME NEW m \in Mains, CommandsOK(m) /\ FollowsRole(m), Same(m)
  PROVE  (CommandsOK(m) /\ FollowsRole(m))'
BY DEF Same, CommandsOK, FollowsRole, Leading, Holds, Campaigns, Idle, Awaits, IsActive

LEMMA OthersSame ==
  ASSUME ElectionTypeOK, ServicesOK, NEW m \in Mains, Acts(m), NEW n \in Mains, n # m
  PROVE  Same(n)
<1>1. /\ phase \in [Mains -> Phases] /\ role \in [Mains -> Roles]
      /\ sent \in [Mains -> Seq(Commands)] /\ replies \in [Mains -> Seq(Replies)]
      /\ started \in [Mains -> 0..Len(InitOrder)] /\ working \in [Mains -> Nat]
      /\ timer \in [Mains -> SUBSET Timed] /\ leaked \in [Mains -> SUBSET Timed]
  BY DEF ElectionTypeOK, ServicesOK, TimersOK, WorkOK, StateOK
<1>2. ASSUME NEW R, NEW cmds \in {<<>>} \cup {<<c>> : c \in Commands}, NEW r \in Roles, Handles(m, R, cmds, r)
      PROVE  phase'[n] = phase[n] /\ role'[n] = role[n] /\ sent'[n] = sent[n] /\ replies'[n] = replies[n]
  BY <1>1, <1>2, ReceiveType DEF Handles
<1>3. phase'[n] = phase[n] /\ role'[n] = role[n] /\ sent'[n] = sent[n] /\ replies'[n] = replies[n]
  <2>1. CASE Quiet(m) \/ StepDown(m) \/ TakeOver(m)
    BY <1>2, <2>1, HandlesAll
  <2>2. CASE Execute(m) \/ Connect(m) \/ KeyCleared(m) \/ Exit(m) \/ Check(m) \/ Shutdown(m) \/ Crash(m)
    BY <1>1, <2>2 DEF Execute, Connect, KeyCleared, Exit, Check, CheckLeader, Shutdown, Crash,
       Leave, Disconnected
  <2>3. CASE Serve(m) \/ StopServices(m)
    BY <2>3 DEF Serve, InitService, BeginRecovery, EndRecovery,
       Poll, ArmTimer, Resume, StopServices, electionVars, mainVars
  <2> QED BY <2>1, <2>2, <2>3 DEF Acts, Elect
<1>4. /\ started'[n] = started[n] /\ timer'[n] = timer[n] /\ leaked'[n] = leaked[n]
      /\ working'[n] = working[n] /\ (n \in quitting' <=> n \in quitting)
  <2>1. ASSUME NEW S, StartTimers(m, S) \/ StopTimers(m, S)
        PROVE  timer'[n] = timer[n] /\ leaked'[n] = leaked[n]
    BY <1>1, <2>1 DEF StartTimers, StopTimers
  <2>2. CASE UNCHANGED serviceVars
    BY <2>2 DEF serviceVars
  <2>3. CASE OnStepdown(m) \/ OnTakeover(m)
    BY <2>1, <2>3 DEF OnStepdown, OnTakeover
  <2>4. CASE Forget(m)
    BY <1>1, <2>4 DEF Forget
  <2>5. CASE InitService(m) \/ EndRecovery(m) \/ StopServices(m)
    BY <1>1, <2>1, <2>5 DEF InitService, EndRecovery, StopServices
  <2>6. CASE BeginRecovery(m) \/ Poll(m) \/ ArmTimer(m) \/ Resume(m)
    BY <1>1, <2>6 DEF BeginRecovery, Poll, ArmTimer, Resume, serviceVars
  <2> QED BY <2>2, <2>3, <2>4, <2>5, <2>6 DEF Acts, Elect, Check, Serve
<1> QED BY <1>3, <1>4 DEF Same

LEMMA OneMessage ==
  /\ \A x : Head(<<x>>) = x /\ Tail(<<x>>) = <<>> /\ Append(<<>>, x) = <<x>> /\ <<x>> # <<>>
  /\ \A x, y : <<x>> = <<y>> => x = y
OBVIOUS

LEMMA AwaitsOne ==
  ASSUME NEW m, NEW c, NEW d
  PROVE  /\ Awaits(m, c) => ~Idle(m) /\ (Awaits(m, d) => c = d)
         /\ Awaits(m, c)' => ~Idle(m)' /\ (Awaits(m, d)' => c = d)
BY OneMessage DEF Idle, Awaits

(* Where the one command is known, so is the reply that is handled, and what *)
(* is then on its way.                                                       *)
LEMMA ReplyHandled ==
  ASSUME ElectionTypeOK, NEW m \in Mains, CommandsOK(m), IsActive(m),
         NEW R, NEW cmds \in {<<>>} \cup {<<c>> : c \in Commands}, Receive(m, R, cmds)
  PROVE  /\ ~Idle(m) /\ (phase[m] = "joining" \/ ~(started[m] < 3))
         /\ sent'[m] = cmds /\ replies'[m] = <<>>
         /\ \E r \in R \cap Replies : Awaits(m, CommandOf[r])
<1>1. /\ sent \in [Mains -> Seq(Commands)] /\ replies \in [Mains -> Seq(Replies)]
      /\ replies[m] # <<>> /\ Head(replies[m]) \in R
      /\ replies'[m] = Tail(replies[m]) /\ sent'[m] = sent[m] \o cmds
  BY ReceiveType DEF ElectionTypeOK
<1>2. ~Idle(m)
  BY <1>1 DEF Idle
<1>3. Holds(m) \/ Campaigns(m)
  BY DEF CommandsOK, IsActive
<1>4. PICK c : Awaits(m, c)
  BY <1>2, <1>3 DEF Holds, Campaigns
<1>5. PICK r \in Replies : sent[m] = <<>> /\ CommandOf[r] = c /\ replies[m] = <<r>>
  BY <1>1, <1>4 DEF Awaits
<1>6. r \in R /\ replies'[m] = <<>>
  BY <1>1, <1>5, OneMessage
<1>7. cmds \in Seq(Commands)
  BY SeqTypes
<1>8. sent'[m] = cmds
  BY <1>1, <1>5, <1>7
<1> QED BY <1>2, <1>4, <1>5, <1>6, <1>8 DEF CommandsOK, IsActive

(* The commands that the replies answer. *)
LEMMA Answers ==
  /\ CommandOf["self"] = "get" /\ CommandOf["other"] = "get" /\ CommandOf["vacant"] = "get"
  /\ CommandOf["set"] = "setnx" /\ CommandOf["kept"] = "setnx"
  /\ CommandOf["taken"] = "expireTaken" /\ CommandOf["renewed"] = "expireRenewed"
BY DEF CommandOf

(* Redis executes the command. *)
LEMMA ExecuteRole ==
  ASSUME ElectionTypeOK, NEW m \in Mains, CommandsOK(m) /\ FollowsRole(m),
         Execute(m), UNCHANGED <<serviceVars, waitVars>>
  PROVE  (CommandsOK(m) /\ FollowsRole(m))'
<1>1. /\ sent \in [Mains -> Seq(Commands)] /\ replies \in [Mains -> Seq(Replies)]
  BY DEF ElectionTypeOK
<1>2. /\ sent[m] # <<>> /\ UNCHANGED <<phase, role>>
      /\ sent'[m] = Tail(sent[m]) /\ replies'[m] = Append(replies[m], Answer(m))
  BY <1>1 DEF Execute
<1>3. ASSUME NEW c, Awaits(m, c) PROVE Awaits(m, c)'
  <2>1. sent[m] = <<c>> /\ replies[m] = <<>>
    BY <1>2, <1>3 DEF Awaits
  <2>2. sent'[m] = <<>> /\ replies'[m] = <<Answer(m)>> /\ Head(sent[m]) = c
    BY <1>2, <2>1, OneMessage
  <2>3. Answer(m) \in Replies /\ c \in Commands
    BY <1>2, <2>2, AnswerType
  <2>4. CommandOf[Answer(m)] = c
    BY <2>2, <2>3, ReplyNames DEF Answer, CommandOf
  <2> QED BY <2>2, <2>3, <2>4 DEF Awaits
<1>4. ~Idle(m)
  BY <1>2 DEF Idle
<1>5. (Holds(m) => Holds(m)') /\ (Campaigns(m) => Campaigns(m)' /\ ~Holds(m)')
  BY <1>2, <1>3, <1>4, AwaitsOne DEF Holds, Campaigns
<1>6. IsActive(m) => (Leading(m)' <=> Leading(m))
  BY <1>2, <1>5 DEF Leading, CommandsOK, IsActive
<1> QED BY <1>2, <1>4, <1>5, <1>6 DEF CommandsOK, FollowsRole, IsActive, serviceVars

(* A reply is handled. *)
LEMMA HandleRole ==
  ASSUME ElectionTypeOK, ServicesOK, NEW m \in Mains, CommandsOK(m) /\ FollowsRole(m),
         \/ Quiet(m) /\ UNCHANGED <<serviceVars, waitVars>>
         \/ StepDown(m) /\ OnStepdown(m)
         \/ TakeOver(m) /\ OnTakeover(m)
  PROVE  (CommandsOK(m) /\ FollowsRole(m))'
<1>1. /\ phase \in [Mains -> Phases] /\ role \in [Mains -> Roles]
      /\ timer \in [Mains -> SUBSET Timed] /\ leaked \in [Mains -> SUBSET Timed]
      /\ started[m] \in 0..3 /\ replies \in [Mains -> Seq(Replies)]
  BY OrderFacts DEF ElectionTypeOK, ServicesOK, TimersOK, StateOK
<1>2. replies[m] # <<>>
  BY DEF Quiet, Renew, Follow, KeySet, KeyKept, Renewed, StepDown, TakeOver, Receive
<1>3. phase[m] \in {"joining", "up", "stopping"}
  BY <1>1, <1>2 DEF CommandsOK, Idle, Phases
<1>4. phase'[m] \in {phase[m], "up"} /\ (phase[m] # "joining" => phase'[m] = phase[m])
  BY <1>1 DEF Quiet, Renew, Follow, KeySet, KeyKept, Renewed, StepDown, TakeOver, Joined
<1>5. CASE phase[m] = "stopping"
  BY <1>4, <1>5 DEF CommandsOK, FollowsRole, IsActive
<1>6. ASSUME phase[m] \in {"joining", "up"}, NEW r \in Replies, NEW cmds \in {<<>>} \cup {<<c>> : c \in Commands},
             Receive(m, {r}, cmds)
      PROVE  /\ phase[m] = "joining" \/ ~(started[m] < 3)
             /\ sent'[m] = cmds /\ replies'[m] = <<>> /\ Awaits(m, CommandOf[r])
  BY <1>6, ReplyHandled DEF IsActive
<1>7. \A c \in Commands : sent'[m] = <<c>> /\ replies'[m] = <<>> => Awaits(m, c)'
  BY DEF Awaits
<1>8. sent'[m] = <<>> /\ replies'[m] = <<>> => Idle(m)' /\ Holds(m)'
  BY DEF Idle, Holds
<1>9. <<>> \in {<<>>} \cup {<<c>> : c \in Commands}
      /\ \A c \in {"setnx", "expireTaken", "expireRenewed"} :
            c \in Commands /\ <<c>> \in {<<>>} \cup {<<d>> : d \in Commands}
      /\ {"self", "other", "vacant", "set", "kept", "taken", "renewed"} \subseteq Replies
  BY ReplyNames
<1>10. ASSUME NEW c
       PROVE  /\ Awaits(m, c) /\ c \in {"get", "expireRenewed"} => Holds(m) /\ ~Campaigns(m)
              /\ Awaits(m, c) /\ c \in {"setnx", "expireTaken"} => ~Holds(m) /\ (IsActive(m) => Campaigns(m))
              /\ Awaits(m, c)' /\ c \in {"setnx", "expireTaken"} => ~Holds(m)'
  BY AwaitsOne DEF Holds, Campaigns, CommandsOK, IsActive
<1> USE DEF CommandsOK, FollowsRole, IsActive, Leading
<1>11. CASE phase[m] \in {"joining", "up"} /\ Quiet(m) /\ UNCHANGED <<serviceVars, waitVars>>
  <2>1. UNCHANGED <<started, timer, leaked, working, quitting>>
    BY <1>11 DEF serviceVars
  <2>2. CASE Renew(m)
    <3>1. Awaits(m, "get") /\ Awaits(m, "expireRenewed")' /\ UNCHANGED <<phase, role>>
          /\ (phase[m] = "joining" \/ ~(started[m] < 3))
      BY <1>6, <1>7, <1>9, <1>11, <2>2, Answers DEF Renew
    <3>2. Holds(m) /\ ~Campaigns(m) /\ Holds(m)'
      BY <1>10, <3>1 DEF Holds
    <3> QED BY <1>3, <2>1, <3>1, <3>2
  <2>3. CASE Follow(m)
    <3>1. Awaits(m, "get") /\ Idle(m)' /\ Holds(m)' /\ role[m] # "leader" /\ UNCHANGED <<phase, role>>
      BY <1>6, <1>8, <1>9, <1>11, <2>3, Answers DEF Follow
    <3>2. ~Campaigns(m)
      BY <1>10, <3>1
    <3> QED BY <1>3, <1>11, <2>1, <3>1, <3>2
  <2>4. CASE KeySet(m)
    <3>1. Awaits(m, "setnx") /\ Awaits(m, "expireTaken")' /\ role'[m] = "leader" /\ UNCHANGED phase
          /\ (phase[m] = "joining" \/ ~(started[m] < 3))
      BY <1>1, <1>6, <1>7, <1>9, <1>11, <2>4, Answers DEF KeySet, Become
    <3>2. ~Holds(m) /\ ~Holds(m)' /\ Campaigns(m)'
      BY <1>10, <3>1 DEF Campaigns
    <3> QED BY <1>3, <1>11, <2>1, <3>1, <3>2
  <2>5. CASE KeyKept(m)
    <3>1. Awaits(m, "setnx") /\ Idle(m)' /\ Holds(m)' /\ role'[m] = "follower" /\ phase'[m] = "up"
      BY <1>1, <1>6, <1>8, <1>9, <1>11, <2>5, Answers DEF KeyKept, Become, Joined
    <3>2. ~Holds(m)
      BY <1>10, <3>1
    <3> QED BY <1>3, <1>11, <2>1, <3>1, <3>2
  <2>6. CASE Renewed(m)
    <3>1. Awaits(m, "expireRenewed") /\ Idle(m)' /\ Holds(m)' /\ UNCHANGED <<phase, role>>
      BY <1>6, <1>8, <1>9, <1>11, <2>6, Answers DEF Renewed
    <3>2. ~Campaigns(m) /\ Holds(m)
      BY <1>10, <3>1
    <3> QED BY <1>3, <1>11, <2>1, <3>1, <3>2
  <2> QED BY <1>11, <2>2, <2>3, <2>4, <2>5, <2>6 DEF Quiet
<1>12. CASE phase[m] \in {"joining", "up"} /\ StepDown(m) /\ OnStepdown(m)
  <2>1. /\ Awaits(m, "get") /\ (phase[m] = "joining" \/ ~(started[m] < 3))
        /\ role'[m] = "follower" /\ UNCHANGED phase
        /\ Idle(m)' \/ Awaits(m, "setnx")'
    BY <1>1, <1>6, <1>7, <1>8, <1>9, <1>12, Answers DEF StepDown, Become
  <2>2. ~Campaigns(m) /\ (Holds(m) \/ Campaigns(m))'
    BY <1>10, <2>1 DEF Holds, Campaigns
  <2>3. started[m] = 3 /\ phase[m] = "up"
    BY <1>1, <1>12, <2>1, <2>2
  <2>4. "tracking" \in Listening(m)
    BY <2>3, OrderFacts DEF Listening
  <2>5. /\ "tracking" \notin timer'[m] /\ leaked' = leaked
        /\ UNCHANGED <<started, working, quitting>>
    BY <1>1, <1>12, <2>4 DEF OnStepdown, StopTimers
  <2> QED BY <2>1, <2>2, <2>3, <2>5
<1>13. CASE phase[m] \in {"joining", "up"} /\ TakeOver(m) /\ OnTakeover(m)
  <2>1. /\ Awaits(m, "expireTaken") /\ Idle(m)' /\ Holds(m)'
        /\ phase'[m] = "up" /\ UNCHANGED role
    BY <1>1, <1>6, <1>8, <1>9, <1>13, Answers DEF TakeOver, Joined
  <2>2. role[m] = "leader" /\ ~Holds(m)
    BY <1>10, <1>13, <2>1, AwaitsOne DEF Campaigns
  <2>3. Listening(m) \subseteq {InitOrder[i] : i \in 1..3}
        /\ ("tracking" \in Listening(m) <=> started[m] >= 1)
        /\ (started[m] >= 2 => "recovery" \in Listening(m))
        /\ (started[m] >= 3 => "pruning" \in Listening(m))
    <3>1. \A i \in 1..3 : InitOrder[i] = "tracking" <=> i = 1
      BY OrderFacts
    <3>2. 1..started[m] \subseteq 1..3 /\ \A i \in 1..3 : i \in 1..started[m] <=> i <= started[m]
      BY <1>1
    <3> QED BY <1>1, <3>1, <3>2, OrderFacts DEF Listening
  <2>4. CASE m \in quitting
    BY <1>13, <2>1, <2>4 DEF OnTakeover
  <2>5. CASE m \notin quitting
    <3>1. PruningIf(MayPrune(m) /\ m \notin quitting) = {"pruning"}
      BY <2>1, <2>2, <2>5 DEF PruningIf, MayPrune
    <3>2. "tracking" \notin timer[m] /\ "tracking" \notin leaked[m]
      BY <1>13, <2>2, <2>5
    <3>3. /\ timer'[m] = timer[m] \cup (Listening(m) \cap {"tracking", "recovery", "pruning"})
          /\ "tracking" \notin leaked'[m]
          /\ UNCHANGED <<started, working, quitting>>
      BY <1>1, <1>13, <3>1, <3>2 DEF OnTakeover, StartTimers
    <3> QED BY <2>1, <2>2, <2>3, <3>2, <3>3
  <2> QED BY <2>4, <2>5
<1> QED BY <1>3, <1>5, <1>11, <1>12, <1>13

(* The process comes and goes. *)
LEMMA LifeRole ==
  ASSUME ElectionTypeOK, ServicesOK, NEW m \in Mains, CommandsOK(m) /\ FollowsRole(m),
         \/ (Connect(m) \/ KeyCleared(m) \/ Shutdown(m)) /\ UNCHANGED <<serviceVars, waitVars>>
         \/ (Exit(m) \/ Crash(m)) /\ Forget(m)
         \/ StopServices(m)
  PROVE  (CommandsOK(m) /\ FollowsRole(m))'
<1>1. /\ phase \in [Mains -> Phases] /\ role \in [Mains -> Roles]
      /\ sent \in [Mains -> Seq(Commands)] /\ replies \in [Mains -> Seq(Replies)]
      /\ started \in [Mains -> 0..Len(InitOrder)] /\ working \in [Mains -> Nat]
      /\ timer \in [Mains -> SUBSET Timed] /\ leaked \in [Mains -> SUBSET Timed]
  BY DEF ElectionTypeOK, ServicesOK, TimersOK, WorkOK, StateOK
<1> USE DEF CommandsOK, FollowsRole
<1>2. CASE Connect(m) /\ UNCHANGED <<serviceVars, waitVars>>
  <2>1. /\ phase[m] = "down" /\ phase'[m] = "joining"
        /\ sent'[m] = <<"setnx">> /\ replies'[m] = <<>>
        /\ UNCHANGED <<started, timer, leaked, quitting>>
    BY <1>1, <1>2 DEF Connect, Idle, serviceVars
  <2>2. Awaits(m, "setnx")' /\ Campaigns(m)'
    BY <2>1 DEF Awaits, Campaigns
  <2> QED BY <2>1, <2>2 DEF Leading
<1>3. CASE (KeyCleared(m) \/ Shutdown(m)) /\ UNCHANGED <<serviceVars, waitVars>>
  <2>1. \/ phase'[m] = "stopping"
        \/ phase'[m] = "exiting" /\ Idle(m)'
    BY <1>1, <1>3 DEF KeyCleared, Shutdown, Disconnected, Idle
  <2> QED BY <2>1 DEF IsActive
<1>4. CASE (Exit(m) \/ Crash(m)) /\ Forget(m)
  <2>1. /\ phase'[m] = "down" /\ Idle(m)'
        /\ started'[m] = 0 /\ timer'[m] = {} /\ leaked'[m] = {} /\ working'[m] = 0 /\ m \notin quitting'
    BY <1>1, <1>4 DEF Exit, Crash, Leave, Disconnected, Idle, Forget
  <2> QED BY <2>1 DEF IsActive
<1>5. CASE StopServices(m)
  <2>1. /\ phase[m] = "up" /\ started[m] = 3 /\ m \in quitting'
        /\ UNCHANGED <<phase, role, sent, replies, started>>
    BY <1>5, OrderFacts DEF StopServices, electionVars, mainVars
  <2> QED BY <2>1 DEF Holds, Campaigns, Idle, Awaits
<1> QED BY <1>2, <1>3, <1>4, <1>5

(* The interval starts the next check, when none is under way. *)
LEMMA CheckRole ==
  ASSUME MaxChecks <= 1, ElectionTypeOK, NEW m \in Mains, CommandsOK(m) /\ FollowsRole(m), Check(m)
  PROVE  (CommandsOK(m) /\ FollowsRole(m))'
<1>1. /\ sent[m] \in Seq(Commands) /\ replies[m] \in Seq(Replies)
      /\ Len(sent[m]) + Len(replies[m]) < MaxChecks /\ MaxChecks \in Nat
      /\ phase[m] = "up" /\ started[m] = 3
      /\ UNCHANGED <<phase, role, replies, started, timer, leaked, working, quitting>>
      /\ sent'[m] = Append(sent[m], "get")
  BY BoundTypes, OrderFacts DEF Check, CheckLeader, ElectionTypeOK, serviceVars
<1>2. Len(sent[m]) = 0 /\ Len(replies[m]) = 0
  <2>1. Len(sent[m]) \in Nat /\ Len(replies[m]) \in Nat
    BY <1>1
  <2>2. \A a, b, c \in Nat : a + b < c /\ c <= 1 => a = 0 /\ b = 0
    OBVIOUS
  <2> QED BY <1>1, <2>1, <2>2, Zenon
<1>3. sent[m] = <<>> /\ replies[m] = <<>>
  BY <1>1, <1>2
<1>4. Holds(m) /\ Awaits(m, "get")'
  BY <1>1, <1>3, OneMessage DEF Holds, Idle, Awaits
<1> QED BY <1>1, <1>4 DEF CommandsOK, FollowsRole, Leading, Holds, IsActive

(* The services' own steps. *)
LEMMA ServeRole ==
  ASSUME ElectionTypeOK, ServicesOK, NEW m \in Mains, CommandsOK(m) /\ FollowsRole(m), Serve(m)
  PROVE  (CommandsOK(m) /\ FollowsRole(m))'
<1>1. /\ started \in [Mains -> 0..3] /\ working \in [Mains -> Nat]
      /\ timer \in [Mains -> SUBSET Timed] /\ leaked \in [Mains -> SUBSET Timed]
  BY OrderFacts DEF ServicesOK, TimersOK, WorkOK, StateOK
<1>2. UNCHANGED <<phase, role, sent, replies, quitting>>
  BY DEF Serve, InitService, BeginRecovery, EndRecovery, Poll,
     ArmTimer, Resume, serviceVars, electionVars, mainVars
<1>3. /\ Idle(m)' <=> Idle(m)
      /\ Holds(m)' <=> Holds(m)
      /\ Campaigns(m)' <=> Campaigns(m)
  BY <1>2 DEF Holds, Campaigns, Idle, Awaits
<1> USE DEF CommandsOK, FollowsRole, IsActive, Leading
<1>4. CASE InitService(m)
  <2>1. /\ phase[m] = "up" /\ m \notin quitting /\ started[m] < 3
        /\ started'[m] = started[m] + 1 /\ UNCHANGED working
    BY <1>1, <1>4, OrderFacts DEF InitService
  <2>2. Idle(m) /\ Holds(m)
    BY <2>1 DEF Holds
  <2> DEFINE service == InitOrder[started[m] + 1]
  <2>3. StartTimers(m, IF role[m] = "leader" THEN {service} ELSE {})
    BY <1>4 DEF InitService
  <2>i. \/ started[m] = 0 /\ started'[m] = 1 /\ service = "tracking"
        \/ started[m] = 1 /\ started'[m] = 2 /\ service = "recovery"
        \/ started[m] = 2 /\ started'[m] = 3 /\ service = "pruning"
    <3>1. started[m] \in {0, 1, 2}
      BY <1>1, <2>1
    <3>2. 0 + 1 = 1 /\ 1 + 1 = 2 /\ 2 + 1 = 3
      OBVIOUS
    <3> QED BY <2>1, <3>1, <3>2, OrderFacts
  <2> HIDE DEF service
  <2>4. /\ service = "tracking" <=> started[m] = 0
        /\ service = "recovery" <=> started[m] = 1
        /\ service = "pruning" <=> started[m] = 2
    BY <2>i
  <2>5. /\ \A t : t \in timer'[m] <=> t \in timer[m] \/ (role[m] = "leader" /\ t = service)
        /\ "tracking" \in leaked'[m] => "tracking" \in leaked[m] \/ ("tracking" \in timer[m] /\ service = "tracking")
    BY <1>1, <2>3 DEF StartTimers
  <2>6. "tracking" \in timer'[m] <=> role[m] = "leader"
    <3>1. "tracking" \in timer[m] <=> started[m] # 0 /\ role[m] = "leader"
      BY <1>1, <2>1, <2>2
    <3> QED BY <2>4, <2>5, <3>1 DEF Timed
  <2>7. "tracking" \notin leaked'[m]
    BY <1>1, <2>1, <2>2, <2>4, <2>5
  <2>8. role[m] = "leader" => /\ started'[m] >= 2 => "recovery" \in timer'[m] \/ working[m] > 0
                              /\ started'[m] >= 3 => "pruning" \in timer'[m]
    <3>1. timer[m] \subseteq timer'[m]
      BY <2>5
    <3>2. role[m] = "leader" => /\ started[m] = 1 => "recovery" \in timer'[m]
                                /\ started[m] = 2 => "pruning" \in timer'[m]
      BY <2>i, <2>5 DEF Timed
    <3>3. CASE started[m] = 0 \/ started[m] = 1
      BY <2>1, <2>i, <3>2, <3>3
    <3>4. CASE started[m] = 2
      BY <2>1, <2>2, <2>i, <3>1, <3>2, <3>4
    <3> QED BY <2>i, <3>3, <3>4
  <2> QED BY <1>1, <1>2, <1>3, <2>1, <2>2, <2>6, <2>7, <2>8
<1>5. CASE BeginRecovery(m)
  <2>1. /\ timer'[m] = timer[m] \ {"recovery"} /\ "recovery" \in timer[m]
        /\ working'[m] > 0 /\ UNCHANGED <<started, leaked>>
    BY <1>1, <1>5 DEF BeginRecovery
  <2> QED BY <1>2, <1>3, <2>1
<1>6. CASE EndRecovery(m)
  <2>1. /\ timer'[m] = timer[m] \cup {"recovery"} /\ working[m] > 0 /\ UNCHANGED started
        /\ "tracking" \in leaked'[m] => "tracking" \in leaked[m]
    BY <1>1, <1>6 DEF EndRecovery, StartTimers
  <2> QED BY <1>1, <1>2, <1>3, <2>1
<1>7. CASE Poll(m) \/ ArmTimer(m) \/ Resume(m)
  <2>1. UNCHANGED <<started, timer, leaked, working>>
    BY <1>7 DEF Poll, ArmTimer, Resume, serviceVars
  <2> QED BY <1>2, <1>3, <2>1
<1> QED BY <1>4, <1>5, <1>6, <1>7 DEF Serve

LEMMA RoleStep ==
  ASSUME MaxChecks <= 1, ElectionTypeOK, ServicesOK, RoleInv, [Next]_vars
  PROVE  RoleInv'
<1> SUFFICES ASSUME NEW m \in Mains PROVE (CommandsOK(m) /\ FollowsRole(m))'
  BY DEF RoleInv
<1>1. CommandsOK(m) /\ FollowsRole(m)
  BY DEF RoleInv
<1>2. CASE Acts(m)
  <2>1. CASE Elect(m)
    BY <1>1, <2>1, ExecuteRole, HandleRole, LifeRole DEF Elect
  <2> QED BY <1>1, <1>2, <2>1, CheckRole, ServeRole, LifeRole DEF Acts
<1>3. CASE \E n \in Mains \ {m} : Acts(n)
  BY <1>1, <1>3, OthersSame, SameRole
<1>4. CASE (Lapse /\ UNCHANGED <<serviceVars, waitVars>>) \/ UNCHANGED vars
  <2>1. Same(m)
    BY <1>4 DEF Lapse, vars, electionVars, mainVars, serviceVars, Same
  <2> QED BY <1>1, <2>1, SameRole
<1> QED BY <1>2, <1>3, <1>4 DEF Next, Acts

(* When the checks of a main do not overlap, its services follow its role,   *)
(* for any number of mains and whatever lapses and leaves: once nothing of   *)
(* the election is under way, it tracks waiting executions if and only if it *)
(* leads, by a timer that it can clear, and a leader prunes and recovers.    *)
THEOREM RolesAreServed == ASSUME MaxChecks <= 1 PROVE Safety => []ServicesFollowRole
<1>1. Init => RoleInv
  BY DEF Init, ElectionInit, RoleInv, CommandsOK, FollowsRole, Idle, IsActive
<1>2. ElectionTypeOK /\ ServicesOK /\ RoleInv /\ [Next]_vars => RoleInv'
  BY RoleStep
<1>3. RoleInv => ServicesFollowRole
  BY OrderFacts DEF RoleInv, CommandsOK, FollowsRole, ServicesFollowRole, IsSettled, IsActive, Leading, Holds, Idle
<1>4. TypeOK => ServicesOK
  BY TypeIsServices
<1> QED BY <1>1, <1>2, <1>3, <1>4, ServicesElect, ElectionTypes, ServiceTypes, PTL DEF Safety
=============================================================================
