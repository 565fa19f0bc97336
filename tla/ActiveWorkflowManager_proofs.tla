-------------------- MODULE ActiveWorkflowManager_proofs --------------------
(***************************************************************************)
(* The triggers of the mains: their steps leave the election as it is; for *)
(* every number of mains, triggers and removals, a main in which no        *)
(* addition met another one or a removal can close every trigger that runs *)
(* in it; and while keys do not lapse and no reply is lost, two such mains *)
(* never run the trigger at once.                                          *)
(***************************************************************************)
EXTENDS ActiveWorkflowManager, LeaderElection_proofs

(* The steps of one main that leave the election alone, and what it does     *)
(* when the election makes a step.                                           *)
Manages(m) ==
  \/ Emit(m, "remove") \/ Emit(m, "add")
  \/ GoOn(m) \/ Adding(m) \/ Removing(m) \/ Failing(m) \/ BeginShutdown(m)
  \/ (Exit(m) \/ Crash(m)) /\ Forget(m)

LEMMA StepManages ==
  ASSUME [Next]_vars
  PROVE  UNCHANGED managerVars \/ \E m \in Mains : Manages(m)
BY DEF Next, Elect, Check, Depart, vars, Manages, OnStepdown, OnTakeover

(* Every step of the mains and their managers is a step of the election, or  *)
(* leaves the election alone.                                                *)
LEMMA StepElects == [Next]_vars => [ElectionNext]_electionVars
<1>1. ASSUME NEW m \in Mains, Elect(m) PROVE ElectionNext
  BY <1>1 DEF Elect, ElectionNext
<1>2. ASSUME NEW m \in Mains, Check(m) \/ Depart(m) PROVE ElectionNext
  BY <1>2 DEF Check, Depart, ElectionNext
<1>3. ASSUME NEW m \in Mains, GoOn(m) \/ Removing(m) \/ Failing(m) \/ BeginShutdown(m)
      PROVE  UNCHANGED electionVars
  BY <1>3 DEF GoOn, Listen, InitManager, StopProcess, RemoveAgain, Removing, HandleRemove,
              EndRemoval, Failing, EmitError, FailAddition, FailRemoval, BeginShutdown
<1>4. ASSUME NEW m \in Mains, Adding(m)
      PROVE  UNCHANGED electionVars
  BY <1>4 DEF Adding, HandleAdd, HandleCommand, Pass, Retry, Register, StartTrigger
<1>5. ASSUME NEW m \in Mains, Crash(m) PROVE ElectionNext
  BY <1>5 DEF ElectionNext
<1>6. Lapse => ElectionNext
  BY DEF ElectionNext
<1>7. UNCHANGED vars => UNCHANGED electionVars
  BY DEF vars
<1>8. QED
  BY <1>1, <1>2, <1>3, <1>4, <1>5, <1>6, <1>7 DEF Next

(* The managers implement the election: no event, command or shutdown step   *)
(* of theirs interferes with checkLeader() and its commands.                 *)
THEOREM ManagersElect == Safety => ElectionSafety
<1>1. Init => ElectionInit
  BY DEF Init
<1>2. QED
  BY <1>1, StepElects, PTL DEF Safety, ElectionSafety

-----------------------------------------------------------------------------
(* The types.  That a removal of the shutdown is under way only at the       *)
(* stages 1 and 4 keeps the stage among the stages.                          *)

LEMMA MoreFacts ==
  ASSUME NEW S, NEW f \in [Mains -> [S -> Nat]], NEW m \in Mains, NEW k \in S
  PROVE  /\ More(f, m, k) \in [Mains -> [S -> Nat]]
         /\ \A n \in Mains \ {m} : More(f, m, k)[n] = f[n] /\ Less(f, m, k)[n] = f[n]
         /\ f[m][k] > 0 => Less(f, m, k) \in [Mains -> [S -> Nat]]
BY DEF More, Less

LEMMA CountFacts ==
  ASSUME NEW f \in [Mains -> [Additions -> Nat]], NEW m \in Mains, NEW k \in Additions
  PROVE  /\ Count(f, m) \in Nat
         /\ Count(More(f, m, k), m) = Count(f, m) + 1
         /\ f[m][k] > 0 => Count(f, m) > 0 /\ Count(Less(f, m, k), m) = Count(f, m) - 1
<1>1. f[m]["add"] \in Nat /\ f[m]["command"] \in Nat
  BY DEF Additions
<1>2. CASE k = "add"
  BY <1>1, <1>2 DEF Additions, Count, More, Less
<1>3. CASE k = "command"
  BY <1>1, <1>3 DEF Additions, Count, More, Less
<1>4. QED
  BY <1>2, <1>3 DEF Additions

RemovalRecords == {None, Current} \cup {Old(ids) : ids \in SUBSET Triggers}

LEMMA RemovalFacts ==
  /\ None \in RemovalRecords /\ Current \in RemovalRecords
  /\ \A ids \in SUBSET Triggers : Old(ids) \in RemovalRecords /\ Old(ids) # None
  /\ Current # None
  /\ \A r \in RemovalRecords : r.of \in {"none", "current", "old"} /\ r.ids \in SUBSET Triggers
  /\ \A r \in RemovalRecords \ {None} : r.of \in {"current", "old"}
<1>1. /\ None.of = "none" /\ None.ids = {}
      /\ Current.of = "current" /\ Current.ids = {}
  BY DEF None, Current
<1>2. \A ids : Old(ids).of = "old" /\ Old(ids).ids = ids
  BY DEF Old
<1>3. QED
  BY <1>1, <1>2 DEF RemovalRecords

RowsOK == activeRow \in BOOLEAN /\ queued \in SUBSET Mains /\ failures \in 0..MaxFailures
StartsOK == started \in [Mains -> 0..2] /\ pending \in [Mains -> [Kinds -> Nat]]
AdditionsOK ==
  /\ passing \in [Mains -> Nat]
  /\ decided \in [Mains -> [Additions -> Nat]]
  /\ starting \in [Mains -> [Additions -> Nat]]
EntriesOK ==
  /\ listed \in SUBSET Mains
  /\ responses \in [Mains -> SUBSET Triggers]
  /\ running \in [Mains -> SUBSET Triggers]
  /\ disordered \in SUBSET Mains
RemovalsOK ==
  /\ removals \in [Mains -> [Removals -> RemovalRecords]]
  /\ stage \in [Mains -> Stages]
  /\ \A m \in Mains : removals[m][StopRemoval] # None => stage[m] \in {1, 4}

ManagerOK == RowsOK /\ StartsOK /\ AdditionsOK /\ EntriesOK /\ RemovalsOK

LEMMA TypeIsManager == ManagerOK => ManagerTypeOK
<1>1. RemovalRecords \subseteq [of : {"none", "current", "old"}, ids : SUBSET Triggers]
  BY DEF RemovalRecords, None, Current, Old
<1>2. QED
  BY <1>1 DEF ManagerOK, RowsOK, StartsOK, AdditionsOK, EntriesOK, RemovalsOK, ManagerTypeOK

LEMMA FailureTypes ==
  ASSUME RowsOK, ClosingFailure
  PROVE  failures' \in 0..MaxFailures
BY ManagerBounds DEF RowsOK, ClosingFailure

LEMMA FailsTypes ==
  ASSUME RowsOK, NEW m \in Mains, NEW k, NEW Q \in SUBSET Mains, Fails(m, k, Q)
  PROVE  activeRow' \in BOOLEAN /\ queued' \in SUBSET Mains
BY DEF RowsOK, Fails

LEMMA MorePending ==
  ASSUME StartsOK, NEW m \in Mains, NEW k \in Kinds
  PROVE  More(pending, m, k) \in [Mains -> [Kinds -> Nat]]
BY DEF StartsOK, More

LEMMA EventTypes ==
  ASSUME ManagerOK, NEW m \in Mains,
         \/ Emit(m, "remove") \/ Emit(m, "add") \/ Listen(m) \/ InitManager(m)
  PROVE  ManagerOK'
<1>1. StartsOK'
  <2>1. ASSUME NEW k \in {"remove", "add"}, Emit(m, k) PROVE StartsOK'
    <3>1. k \in Kinds /\ started' = started /\ (pending' = pending \/ pending' = More(pending, m, k))
      BY <2>1 DEF Emit, Kinds
    <3>2. More(pending, m, k) \in [Mains -> [Kinds -> Nat]]
      BY <3>1, MorePending DEF ManagerOK
    <3>3. QED
      BY <3>1, <3>2 DEF ManagerOK, StartsOK
  <2>2. CASE Listen(m)
    BY <2>2 DEF Listen, ManagerOK, StartsOK
  <2>3. CASE InitManager(m)
    <3>1. "add" \in Kinds /\ started' = [started EXCEPT ![m] = 2] /\ pending' = More(pending, m, "add")
      BY <2>3 DEF InitManager, Kinds
    <3>2. More(pending, m, "add") \in [Mains -> [Kinds -> Nat]]
      BY <3>1, MorePending DEF ManagerOK
    <3>3. QED
      BY <3>1, <3>2 DEF ManagerOK, StartsOK
  <2>4. QED
    BY <2>1, <2>2, <2>3
<1>2. UNCHANGED <<activeRow, stage, additionVars, entryVars, removals, running, queued, failures, disordered>>
  BY DEF Emit, Listen, InitManager
<1>3. RowsOK' /\ AdditionsOK' /\ EntriesOK' /\ RemovalsOK'
  BY <1>2 DEF ManagerOK, RowsOK, AdditionsOK, EntriesOK, RemovalsOK, additionVars, entryVars
<1>4. QED
  BY <1>1, <1>3 DEF ManagerOK

(* The role is asked for. *)
LEMMA HandleTypes ==
  ASSUME ManagerOK, NEW m \in Mains, HandleAdd(m) \/ HandleCommand(m)
  PROVE  ManagerOK'
<1>1. ASSUME NEW k \in Additions, Decide(m, k)
      PROVE  AdditionsOK' /\ disordered' \in SUBSET Mains
  <2>1. decided' \in [Mains -> [Additions -> Nat]]
    BY <1>1, MoreFacts DEF Decide, ManagerOK, AdditionsOK
  <2>2. QED
    BY <1>1, <2>1 DEF Decide, ManagerOK, AdditionsOK, EntriesOK
<1>2. passing' = [passing EXCEPT ![m] = @ + 1] /\ UNCHANGED <<decided, starting>> => AdditionsOK'
  BY DEF ManagerOK, AdditionsOK
<1>3. UNCHANGED <<additionVars, disordered>> => AdditionsOK' /\ disordered' \in SUBSET Mains
  BY DEF additionVars, ManagerOK, AdditionsOK, EntriesOK
<1>4. AdditionsOK' /\ disordered' \in SUBSET Mains
  <2>1. "add" \in Additions /\ "command" \in Additions
    BY DEF Additions
  <2>2. CASE HandleAdd(m)
    <3>1. \/ Decide(m, "add")
          \/ /\ passing' = [passing EXCEPT ![m] = @ + 1] /\ UNCHANGED <<decided, starting>>
             /\ disordered' = disordered
          \/ UNCHANGED <<additionVars, disordered>>
      BY <2>2 DEF HandleAdd
    <3>2. QED
      BY <1>1, <1>2, <1>3, <2>1, <3>1 DEF ManagerOK, EntriesOK
  <2>3. CASE HandleCommand(m)
    BY <1>1, <1>3, <2>1, <2>3 DEF HandleCommand
  <2>4. QED
    BY <2>2, <2>3
<1>5. StartsOK'
  <2>1. PICK k \in Kinds : pending[m][k] > 0 /\ pending' = Less(pending, m, k)
    BY DEF HandleAdd, HandleCommand, Kinds
  <2>2. pending' \in [Mains -> [Kinds -> Nat]]
    BY <2>1, MoreFacts DEF ManagerOK, StartsOK
  <2>3. QED
    BY <2>2 DEF HandleAdd, HandleCommand, ManagerOK, StartsOK
<1>6. UNCHANGED <<activeRow, stage, entryVars, removals, running, queued, failures>>
  BY DEF HandleAdd, HandleCommand
<1>7. RowsOK' /\ EntriesOK' /\ RemovalsOK'
  BY <1>4, <1>6 DEF ManagerOK, RowsOK, EntriesOK, RemovalsOK, entryVars
<1>8. QED
  BY <1>4, <1>5, <1>7 DEF ManagerOK

LEMMA RetryTypes ==
  ASSUME ManagerOK, NEW m \in Mains, Retry(m)
  PROVE  ManagerOK'
<1>1. RowsOK'
  BY DEF Retry, ManagerOK, RowsOK
<1>2. StartsOK'
  <2>1. ASSUME NEW n \in Mains
        PROVE  /\ pending[n] \in [Kinds -> Nat]
               /\ [pending[n] EXCEPT !["command"] = @ + 1] \in [Kinds -> Nat]
    BY DEF ManagerOK, StartsOK, Kinds
  <2>2. pending' \in [Mains -> [Kinds -> Nat]]
    BY <2>1 DEF Retry
  <2>3. QED
    BY <2>2 DEF Retry, ManagerOK, StartsOK
<1>3. UNCHANGED <<stage, additionVars, entryVars, removals, running, disordered>>
  BY DEF Retry
<1>4. AdditionsOK' /\ EntriesOK' /\ RemovalsOK'
  BY <1>3 DEF ManagerOK, AdditionsOK, EntriesOK, RemovalsOK, additionVars, entryVars
<1>5. QED
  BY <1>1, <1>2, <1>4 DEF ManagerOK

LEMMA AddTypes ==
  ASSUME ManagerOK, NEW m \in Mains, NEW k \in Additions,
         Pass(m) \/ FailAddition(m, k) \/ Register(m, k) \/ StartTrigger(m, k)
  PROVE  ManagerOK'
<1> USE DEF ManagerOK
<1>1. StartsOK'
  BY DEF Pass, FailAddition, Register, StartTrigger, StartsOK
<1>2. AdditionsOK'
  <2>1. CASE Pass(m)
    BY <2>1 DEF Pass, AdditionsOK
  <2>2. CASE FailAddition(m, k)
    <3>1. /\ decided[m][k] > 0 => Less(decided, m, k) \in [Mains -> [Additions -> Nat]]
          /\ starting[m][k] > 0 => Less(starting, m, k) \in [Mains -> [Additions -> Nat]]
      BY MoreFacts DEF AdditionsOK
    <3>2. /\ decided' = decided \/ (decided[m][k] > 0 /\ decided' = Less(decided, m, k))
          /\ starting' = starting \/ (starting[m][k] > 0 /\ starting' = Less(starting, m, k))
          /\ passing' = passing
      BY <2>2 DEF FailAddition
    <3>3. QED
      BY <3>1, <3>2 DEF AdditionsOK
  <2>3. CASE Register(m, k)
    BY <2>3, MoreFacts DEF Register, AdditionsOK
  <2>4. CASE StartTrigger(m, k)
    BY <2>4, MoreFacts DEF StartTrigger, AdditionsOK
  <2>5. QED
    BY <2>1, <2>2, <2>3, <2>4
<1>3. RowsOK'
  <2>1. CASE Pass(m)
    <3>1. queued' \in SUBSET Mains /\ activeRow' = activeRow
      BY <2>1 DEF Pass, RowsOK
    <3>2. failures' = failures \/ ClosingFailure
      BY <2>1 DEF Pass, Failure
    <3>3. QED
      BY <3>1, <3>2, FailureTypes DEF RowsOK
  <2>2. CASE FailAddition(m, k)
    <3>1. ClosingFailure /\ Fails(m, k, queued)
      BY <2>2 DEF FailAddition, Failure
    <3>2. queued \in SUBSET Mains
      BY DEF RowsOK
    <3>3. QED
      BY <3>1, <3>2, FailureTypes, FailsTypes DEF RowsOK
  <2>3. CASE Register(m, k)
    BY <2>3 DEF Register, RowsOK
  <2>4. CASE StartTrigger(m, k)
    <3>1. \/ queued' = queued \ {m} /\ UNCHANGED <<activeRow, failures>>
          \/ \E Q \in SUBSET Mains : Fails(m, k, Q) /\ (ClosingFailure \/ UNCHANGED failures)
      BY <2>4 DEF StartTrigger, RowsOK, Failure
    <3>2. QED
      BY <3>1, FailureTypes, FailsTypes DEF RowsOK
  <2>5. QED
    BY <2>1, <2>2, <2>3, <2>4
<1>4. EntriesOK'
  <2>1. CASE Pass(m) \/ FailAddition(m, k)
    BY <2>1 DEF Pass, FailAddition, EntriesOK, entryVars
  <2>2. CASE Register(m, k)
    BY <2>2 DEF Register, EntriesOK
  <2>3. CASE StartTrigger(m, k)
    BY <2>3 DEF StartTrigger, EntriesOK
  <2>4. QED
    BY <2>1, <2>2, <2>3
<1>5. RemovalsOK'
  <2>1. CASE Pass(m) \/ FailAddition(m, k) \/ StartTrigger(m, k)
    BY <2>1 DEF Pass, FailAddition, StartTrigger, RemovalsOK
  <2>2. CASE Register(m, k)
    <3>1. removals' = [removals EXCEPT ![m] = Replaced(m)] /\ stage' = stage
      BY <2>2 DEF Register
    <3>2. ASSUME NEW i \in Removals
          PROVE  /\ Replaced(m)[i] \in RemovalRecords
                 /\ Replaced(m)[i] # None => removals[m][i] # None
      <4>1. removals[m][i] \in RemovalRecords /\ responses[m] \in SUBSET Triggers
        BY DEF RemovalsOK, EntriesOK
      <4>2. Replaced(m)[i] = IF removals[m][i].of = "current" THEN Old(responses[m]) ELSE removals[m][i]
        BY DEF Replaced
      <4>3. None.of # "current"
        BY DEF None
      <4>4. QED
        BY <4>1, <4>2, <4>3, RemovalFacts
    <3>3. Replaced(m) \in [Removals -> RemovalRecords]
      BY <3>2 DEF Replaced
    <3>4. QED
      BY <3>1, <3>2, <3>3, StopRemovalAssumption DEF RemovalsOK
  <2>3. QED
    BY <2>1, <2>2
<1>6. QED
  BY <1>1, <1>2, <1>3, <1>4, <1>5

(* What a removal that begins does to the entry and to the other removals.   *)
LEMMA BeginTypes ==
  ASSUME EntriesOK, RemovalsOK, NEW m \in Mains, NEW i \in Removals, BeginRemoval(m, i)
  PROVE  /\ listed' \in SUBSET Mains /\ disordered' \in SUBSET Mains /\ responses' = responses
         /\ removals' \in [Mains -> [Removals -> RemovalRecords]]
         /\ \A n \in Mains, j \in Removals : n # m \/ j # i => removals'[n][j] = removals[n][j]
         /\ removals'[m][i] # None <=> responses[m] # {}
<1>1. /\ listed' \in SUBSET Mains /\ disordered' \in SUBSET Mains /\ responses' = responses
      /\ removals[m][i] = None
      /\ IF responses[m] = {} THEN removals' = removals ELSE removals' = [removals EXCEPT ![m][i] = Current]
  BY DEF BeginRemoval, EntriesOK
<1>2. removals \in [Mains -> [Removals -> RemovalRecords]]
  BY DEF RemovalsOK
<1>3. CASE responses[m] = {}
  BY <1>1, <1>2, <1>3
<1>4. CASE responses[m] # {}
  <2>1. removals' = [removals EXCEPT ![m][i] = Current]
    BY <1>1, <1>4
  <2>2. Current \in RemovalRecords /\ Current # None
    BY RemovalFacts
  <2>3. removals' \in [Mains -> [Removals -> RemovalRecords]] /\ removals'[m][i] = Current
    BY <1>2, <2>1, <2>2
  <2>4. \A n \in Mains, j \in Removals : n # m \/ j # i => removals'[n][j] = removals[n][j]
    BY <1>2, <2>1
  <2>5. QED
    BY <1>1, <1>4, <2>2, <2>3, <2>4
<1>5. QED
  BY <1>3, <1>4

LEMMA ShutdownTypes ==
  ASSUME EntriesOK, RemovalsOK, NEW m \in Mains, RemovalOfStop(m), stage[m] \in {0, 3}
  PROVE  RemovalsOK'
<1>1. BeginRemoval(m, StopRemoval)
  BY DEF RemovalOfStop
<1>2. stage' = [stage EXCEPT ![m] = IF responses[m] = {} THEN stage[m] + 2 ELSE stage[m] + 1]
  BY DEF RemovalOfStop
<1>3. /\ removals' \in [Mains -> [Removals -> RemovalRecords]]
      /\ \A n \in Mains \ {m} : removals'[n][StopRemoval] = removals[n][StopRemoval]
      /\ removals'[m][StopRemoval] # None <=> responses[m] # {}
  BY <1>1, BeginTypes, StopRemovalAssumption
<1>4. stage' \in [Mains -> Stages] /\ (responses[m] # {} => stage'[m] \in {1, 4})
      /\ \A n \in Mains \ {m} : stage'[n] = stage[n]
  BY <1>2 DEF RemovalsOK, Stages
<1>5. QED
  BY <1>3, <1>4 DEF RemovalsOK

LEMMA LeftFacts ==
  ASSUME EntriesOK, RemovalsOK, NEW m \in Mains, NEW ids \in SUBSET Triggers
  PROVE  /\ Left(m, ids) \in [Removals -> RemovalRecords]
         /\ \A j \in Removals :
              /\ Left(m, ids)[j] # None => removals[m][j] # None
              /\ Left(m, ids)[j].of # "current"
<1>1. ASSUME NEW j \in Removals
      PROVE  /\ Left(m, ids)[j] \in RemovalRecords
             /\ Left(m, ids)[j] # None => removals[m][j] # None
             /\ Left(m, ids)[j].of # "current"
  <2>1. removals[m][j] \in RemovalRecords /\ responses[m] \in SUBSET Triggers
    BY DEF RemovalsOK, EntriesOK
  <2>2. CASE removals[m][j] = None
    <3>1. Left(m, ids)[j] = [of |-> "none", ids |-> {} \ ids]
      BY <2>2 DEF Left, None
    <3>2. QED
      BY <2>2, <3>1, RemovalFacts DEF None
  <2>3. CASE removals[m][j] = Current
    <3>1. Left(m, ids)[j] = Old(responses[m] \ ids)
      BY <2>3 DEF Left, Current
    <3>2. QED
      BY <2>1, <2>3, <3>1, RemovalFacts DEF Old
  <2>4. ASSUME NEW S \in SUBSET Triggers, removals[m][j] = Old(S)
        PROVE  /\ Left(m, ids)[j] \in RemovalRecords
               /\ removals[m][j] # None /\ Left(m, ids)[j].of # "current"
    <3>1. Left(m, ids)[j] = Old(S \ ids)
      BY <2>4 DEF Left, Old
    <3>2. QED
      BY <2>4, <3>1, RemovalFacts DEF Old
  <2>5. QED
    BY <2>1, <2>2, <2>3, <2>4 DEF RemovalRecords
<1>2. QED
  BY <1>1 DEF Left

LEMMA RemoveTypes ==
  ASSUME ManagerOK, NEW m \in Mains, NEW i \in Removals,
         HandleRemove(m) \/ EmitError(m) \/ EndRemoval(m, i) \/ FailRemoval(m, i)
  PROVE  ManagerOK'
<1> USE DEF ManagerOK
<1>1. AdditionsOK'
  BY DEF HandleRemove, EmitError, EndRemoval, FailRemoval, AdditionsOK, additionVars
<1>2. StartsOK'
  <2>1. "remove" \in Kinds /\ pending \in [Mains -> [Kinds -> Nat]]
    BY DEF Kinds, StartsOK
  <2>2. pending[m]["remove"] > 0 => Less(pending, m, "remove") \in [Mains -> [Kinds -> Nat]]
    BY <2>1, MoreFacts
  <2>3. QED
    BY <2>2 DEF HandleRemove, EmitError, EndRemoval, FailRemoval, StartsOK
<1>3. RowsOK'
  <2>1. CASE HandleRemove(m) \/ EndRemoval(m, i)
    BY <2>1 DEF HandleRemove, EndRemoval, RowsOK
  <2>2. CASE EmitError(m) \/ FailRemoval(m, i)
    <3>1. ClosingFailure /\ activeRow' = activeRow /\ queued' \in SUBSET Mains
      BY <2>2 DEF EmitError, FailRemoval, RowsOK, Failure
    <3>2. QED
      BY <3>1, FailureTypes DEF RowsOK
  <2>3. QED
    BY <2>1, <2>2
<1>4. EntriesOK' /\ RemovalsOK'
  <2>1. CASE HandleRemove(m) \/ EmitError(m)
    <3>1. PICK j \in Removals \ {StopRemoval} : BeginRemoval(m, j)
      BY <2>1 DEF HandleRemove, EmitError
    <3>2. running' = running /\ stage' = stage
      BY <2>1 DEF HandleRemove, EmitError
    <3>3. QED
      BY <3>1, <3>2, BeginTypes, StopRemovalAssumption DEF EntriesOK, RemovalsOK
  <2>2. CASE EndRemoval(m, i)
    <3>1. Closed(m, i) \in SUBSET Triggers
      BY RemovalFacts DEF Closed, EntriesOK, RemovalsOK
    <3>2. EntriesOK'
      BY <2>2 DEF EndRemoval, EntriesOK
    <3>3. removals[m][i] # None /\ removals' = [removals EXCEPT ![m] = [Left(m, Closed(m, i)) EXCEPT ![i] = None]]
      BY <2>2 DEF EndRemoval
    <3>4. removals' \in [Mains -> [Removals -> RemovalRecords]]
      BY <3>1, <3>3, LeftFacts, RemovalFacts DEF RemovalsOK
    <3>5. stage' = IF i = StopRemoval THEN [stage EXCEPT ![m] = stage[m] + 1] ELSE stage
      BY <2>2 DEF EndRemoval
    <3>6. stage' \in [Mains -> Stages]
      BY <3>3, <3>5 DEF RemovalsOK, Stages
    <3>7. ASSUME NEW n \in Mains, removals'[n][StopRemoval] # None PROVE stage'[n] \in {1, 4}
      <4>1. CASE n # m
        BY <3>3, <3>5, <3>7, <4>1 DEF RemovalsOK
      <4>2. CASE n = m
        <5>1. i # StopRemoval
          BY <3>1, <3>3, <3>7, <4>2, LeftFacts, StopRemovalAssumption DEF RemovalsOK
        <5>2. Left(m, Closed(m, i))[StopRemoval] # None
          BY <3>1, <3>3, <3>7, <4>2, <5>1, LeftFacts, StopRemovalAssumption DEF RemovalsOK
        <5>3. removals[m][StopRemoval] # None
          BY <3>1, <5>2, LeftFacts, StopRemovalAssumption
        <5>4. QED
          BY <3>5, <4>2, <5>1, <5>3 DEF RemovalsOK
      <4>3. QED
        BY <4>1, <4>2
    <3>8. QED
      BY <3>2, <3>4, <3>6, <3>7 DEF RemovalsOK
  <2>3. CASE FailRemoval(m, i)
    <3>1. EntriesOK'
      BY <2>3 DEF FailRemoval, EntriesOK, entryVars
    <3>2. /\ removals' = [removals EXCEPT ![m][i] = None]
          /\ stage' = IF i = StopRemoval THEN [stage EXCEPT ![m] = 2] ELSE stage
      BY <2>3 DEF FailRemoval
    <3>3. QED
      BY <3>1, <3>2, RemovalFacts, StopRemovalAssumption DEF RemovalsOK, Stages
  <2>4. QED
    BY <2>1, <2>2, <2>3
<1>5. QED
  BY <1>1, <1>2, <1>3, <1>4

LEMMA QuitTypes ==
  ASSUME ManagerOK, NEW m \in Mains,
         BeginShutdown(m) \/ StopProcess(m) \/ RemoveAgain(m) \/ Forget(m)
  PROVE  ManagerOK'
<1> USE DEF ManagerOK
<1>1. RowsOK'
  BY DEF BeginShutdown, StopProcess, RemoveAgain, Forget, RowsOK
<1>2. StartsOK'
  <2>1. BeginShutdown(m) \/ StopProcess(m) \/ RemoveAgain(m) => StartsOK'
    BY DEF BeginShutdown, StopProcess, RemoveAgain, StartsOK
  <2>2. Forget(m) => StartsOK'
    <3>1. [k \in Kinds |-> 0] \in [Kinds -> Nat]
      OBVIOUS
    <3>2. QED
      BY <3>1 DEF Forget, StartsOK
  <2>3. QED
    BY <2>1, <2>2
<1>3. AdditionsOK'
  <2>1. BeginShutdown(m) \/ StopProcess(m) \/ RemoveAgain(m) => AdditionsOK'
    BY DEF BeginShutdown, StopProcess, RemoveAgain, AdditionsOK, additionVars
  <2>2. Forget(m) => AdditionsOK'
    <3>1. [k \in Additions |-> 0] \in [Additions -> Nat]
      OBVIOUS
    <3>2. QED
      BY <3>1 DEF Forget, AdditionsOK
  <2>3. QED
    BY <2>1, <2>2
<1>4. CASE BeginShutdown(m) \/ RemoveAgain(m)
  <2>1. RemovalOfStop(m) /\ stage[m] \in {0, 3} /\ running' = running
    BY <1>4 DEF BeginShutdown, RemoveAgain
  <2>2. BeginRemoval(m, StopRemoval)
    BY <2>1 DEF RemovalOfStop
  <2>3. EntriesOK'
    BY <2>1, <2>2, BeginTypes, StopRemovalAssumption DEF EntriesOK
  <2>4. QED
    BY <1>1, <1>2, <1>3, <2>1, <2>3, ShutdownTypes
<1>5. CASE StopProcess(m)
  <2>1. EntriesOK'
    BY <1>5 DEF StopProcess, EntriesOK, entryVars
  <2>2. RemovalsOK'
    BY <1>5 DEF StopProcess, RemovalsOK, Stages
  <2>3. QED
    BY <1>1, <1>2, <1>3, <2>1, <2>2
<1>6. CASE Forget(m)
  <2>1. EntriesOK'
    BY <1>6 DEF Forget, EntriesOK
  <2>2. RemovalsOK'
    BY <1>6, RemovalFacts, StopRemovalAssumption DEF Forget, RemovalsOK, Stages
  <2>3. QED
    BY <1>1, <1>2, <1>3, <2>1, <2>2
<1>7. QED
  BY <1>4, <1>5, <1>6

LEMMA ManagerStep == ManagerOK /\ [Next]_vars => ManagerOK'
<1> SUFFICES ASSUME ManagerOK, [Next]_vars PROVE ManagerOK'
  OBVIOUS
<1>1. CASE UNCHANGED managerVars
  BY <1>1 DEF managerVars, additionVars, entryVars, ManagerOK, RowsOK, StartsOK, AdditionsOK,
              EntriesOK, RemovalsOK
<1>2. ASSUME NEW m \in Mains, Manages(m) PROVE ManagerOK'
  <2>1. "add" \in Additions
    BY DEF Additions
  <2>2. Adding(m) => ManagerOK'
    BY <2>1, HandleTypes, RetryTypes, AddTypes DEF Adding
  <2>3. Removing(m) \/ Failing(m) => ManagerOK'
    BY StopRemovalAssumption, AddTypes, RemoveTypes DEF Removing, Failing
  <2>4. QED
    BY <1>2, <2>2, <2>3, EventTypes, QuitTypes DEF Manages, GoOn
<1>3. QED
  BY <1>1, <1>2, StepManages

LEMMA ManagerAlways == Safety => []ManagerOK
<1>1. Init => ManagerOK
  BY RemovalFacts, StopRemovalAssumption, ManagerBounds
     DEF Init, ManagerOK, RowsOK, StartsOK, AdditionsOK, EntriesOK, RemovalsOK, Stages
<1>2. QED
  BY <1>1, ManagerStep, PTL DEF Safety

(* The variables of the managers keep their types for every choice of the    *)
(* bounds: no count of what is under way falls below zero, and a removal of  *)
(* the shutdown is over when the next stage begins.                          *)
THEOREM ManagerTypes == Safety => []ManagerTypeOK
BY ManagerAlways, TypeIsManager, PTL

-----------------------------------------------------------------------------
(* As long as no addition of a main met another one or a removal, the entry  *)
(* has one trigger at most, which is the only one that may run; while it     *)
(* starts, the entry waits for it, and no removal is under way; and what a   *)
(* removal has of an old entry is closed already.                            *)
Orderly(m) ==
  /\ running[m] \subseteq responses[m]
  /\ responses[m] # {} => m \in listed
  /\ \A t, u \in responses[m] : t = u
  /\ Count(starting, m) > 0 =>
       /\ m \in listed /\ responses[m] = {} /\ Count(starting, m) = 1
       /\ \A i \in Removals : removals[m][i] = None
  /\ (\E i \in Removals : removals[m][i].of = "old") => m \notin listed

(* The last removal of a shutdown leaves nothing behind. *)
Ended(m) ==
  /\ stage[m] >= 4 => ~Adds(m)
  /\ stage[m] = 5 => running[m] = {}

OrderInv == \A m \in Mains \ disordered : Orderly(m) /\ Ended(m)

(* What these say of a main that a step leaves alone. *)
SameBooks(m) ==
  /\ stage'[m] = stage[m] /\ decided'[m] = decided[m] /\ starting'[m] = starting[m]
  /\ responses'[m] = responses[m] /\ removals'[m] = removals[m] /\ running'[m] = running[m]
  /\ m \in listed' <=> m \in listed
  /\ m \in disordered' <=> m \in disordered

LEMMA SameOrder ==
  ASSUME NEW m, SameBooks(m), Orderly(m) /\ Ended(m)
  PROVE  (Orderly(m) /\ Ended(m))'
BY DEF SameBooks, Orderly, Ended, Adds, Count

(* A step changes the books of the main that makes it only, if at all.       *)
LEMMA OthersSame ==
  ASSUME ManagerOK, NEW m \in Mains, Manages(m), NEW n \in Mains \ {m}
  PROVE  SameBooks(n)
<1> USE DEF ManagerOK, AdditionsOK, EntriesOK, RemovalsOK
<1>1. ASSUME NEW k \in Additions
      PROVE  /\ More(decided, m, k)[n] = decided[n] /\ Less(decided, m, k)[n] = decided[n]
             /\ More(starting, m, k)[n] = starting[n] /\ Less(starting, m, k)[n] = starting[n]
  BY DEF More, Less
<1>2. ASSUME NEW k \in Additions, Decide(m, k)
      PROVE  decided'[n] = decided[n] /\ starting' = starting /\ (n \in disordered' <=> n \in disordered)
  BY <1>1, <1>2 DEF Decide
<1>3. ASSUME NEW i \in Removals, BeginRemoval(m, i)
      PROVE  /\ responses' = responses /\ removals'[n] = removals[n]
             /\ n \in listed' <=> n \in listed
             /\ n \in disordered' <=> n \in disordered
  BY <1>3 DEF BeginRemoval
<1>4. "add" \in Additions /\ "command" \in Additions
  BY DEF Additions
<1>5. CASE Emit(m, "remove") \/ Emit(m, "add") \/ Listen(m) \/ InitManager(m) \/ Pass(m) \/ Retry(m)
  BY <1>5 DEF Emit, Listen, InitManager, Pass, Retry, additionVars, entryVars, SameBooks
<1>6. CASE HandleAdd(m) \/ HandleCommand(m)
  <2>1. UNCHANGED <<stage, entryVars, removals, running>>
    BY <1>6 DEF HandleAdd, HandleCommand
  <2>2. \/ Decide(m, "add") \/ Decide(m, "command")
        \/ decided' = decided /\ starting' = starting /\ disordered' = disordered
    BY <1>6 DEF HandleAdd, HandleCommand, additionVars
  <2>3. QED
    BY <1>2, <1>4, <2>1, <2>2 DEF SameBooks, entryVars
<1>7. ASSUME NEW k \in Additions, Register(m, k) \/ StartTrigger(m, k) \/ FailAddition(m, k)
      PROVE  SameBooks(n)
  <2>1. CASE Register(m, k)
    BY <1>1, <2>1 DEF Register, SameBooks
  <2>2. CASE StartTrigger(m, k)
    BY <1>1, <2>2 DEF StartTrigger, SameBooks
  <2>3. CASE FailAddition(m, k)
    BY <1>1, <2>3 DEF FailAddition, SameBooks, entryVars
  <2>4. QED
    BY <1>7, <2>1, <2>2, <2>3
<1>8. CASE HandleRemove(m) \/ EmitError(m)
  <2>1. PICK i \in Removals : BeginRemoval(m, i)
    BY <1>8 DEF HandleRemove, EmitError
  <2>2. UNCHANGED <<stage, decided, starting, running>>
    BY <1>8 DEF HandleRemove, EmitError, additionVars
  <2>3. QED
    BY <1>3, <2>1, <2>2 DEF SameBooks
<1>9. ASSUME NEW i \in Removals, EndRemoval(m, i) \/ FailRemoval(m, i)
      PROVE  SameBooks(n)
  BY <1>9 DEF EndRemoval, FailRemoval, SameBooks, additionVars, entryVars
<1>10. CASE BeginShutdown(m) \/ RemoveAgain(m)
  <2>1. BeginRemoval(m, StopRemoval) /\ stage'[n] = stage[n]
    BY <1>10 DEF BeginShutdown, RemoveAgain, RemovalOfStop
  <2>2. UNCHANGED <<decided, starting, running>>
    BY <1>10 DEF BeginShutdown, RemoveAgain, additionVars
  <2>3. QED
    BY <1>3, <2>1, <2>2, StopRemovalAssumption DEF SameBooks
<1>11. CASE StopProcess(m)
  BY <1>11 DEF StopProcess, SameBooks, additionVars, entryVars
<1>12. CASE Forget(m)
  BY <1>12 DEF Forget, SameBooks
<1>13. QED
  BY <1>5, <1>6, <1>7, <1>8, <1>9, <1>10, <1>11, <1>12
     DEF Manages, GoOn, Adding, Removing, Failing

(* Additions. *)
LEMMA AddsFacts ==
  ASSUME ManagerOK, NEW m \in Mains
  PROVE  /\ Count(decided, m) \in Nat /\ Count(starting, m) \in Nat
         /\ ~Adds(m) <=> Count(decided, m) = 0 /\ Count(starting, m) = 0
<1>1. "add" \in Additions
  BY DEF Additions
<1>2. Count(decided, m) \in Nat /\ Count(starting, m) \in Nat
  BY <1>1, CountFacts DEF ManagerOK, AdditionsOK
<1>3. QED
  BY <1>2 DEF Adds

LEMMA DecideOrder ==
  ASSUME ManagerOK, OrderInv, NEW m \in Mains, HandleAdd(m) \/ HandleCommand(m),
         m \notin disordered'
  PROVE  (Orderly(m) /\ Ended(m))'
<1>1. UNCHANGED <<stage, starting, entryVars, removals, running>>
  BY DEF HandleAdd, HandleCommand, additionVars, Decide
<1>2. m \notin disordered /\ (decided' = decided \/ stage[m] < 4)
  BY DEF HandleAdd, HandleCommand, Decide, additionVars, ManagerOK, RemovalsOK, Stages
<1>3. Orderly(m) /\ Ended(m)
  BY <1>2 DEF OrderInv
<1>4. QED
  BY <1>1, <1>2, <1>3 DEF Orderly, Ended, Adds, Count, entryVars, ManagerOK, RemovalsOK, Stages

LEMMA AddOrder ==
  ASSUME ManagerOK, OrderInv, NEW m \in Mains, NEW k \in Additions,
         Register(m, k) \/ StartTrigger(m, k) \/ FailAddition(m, k),
         m \notin disordered'
  PROVE  (Orderly(m) /\ Ended(m))'
<1>1. /\ decided \in [Mains -> [Additions -> Nat]] /\ starting \in [Mains -> [Additions -> Nat]]
      /\ responses \in [Mains -> SUBSET Triggers] /\ running \in [Mains -> SUBSET Triggers]
      /\ removals \in [Mains -> [Removals -> RemovalRecords]] /\ stage[m] \in Stages
  BY DEF ManagerOK, AdditionsOK, EntriesOK, RemovalsOK
<1>2. /\ Count(decided, m) \in Nat /\ Count(starting, m) \in Nat
      /\ ~Adds(m) <=> Count(decided, m) = 0 /\ Count(starting, m) = 0
  BY AddsFacts
<1>3. /\ Count(More(starting, m, k), m) = Count(starting, m) + 1
      /\ decided[m][k] > 0 => Count(decided, m) > 0
      /\ starting[m][k] > 0 => /\ Count(starting, m) > 0
                               /\ Count(Less(starting, m, k), m) = Count(starting, m) - 1
  BY <1>1, CountFacts
<1>4. m \notin disordered
  BY DEF Register, StartTrigger, FailAddition
<1>5. Orderly(m) /\ Ended(m)
  BY <1>4 DEF OrderInv
<1>6. stage[m] < 4 /\ stage' = stage
  BY <1>1, <1>2, <1>3, <1>5 DEF Register, StartTrigger, FailAddition, Ended, Stages
<1>7. Ended(m)'
  BY <1>1, <1>6 DEF Ended, Stages
<1>8. CASE Register(m, k)
  <2>1. /\ responses[m] = {} /\ Count(starting, m) = 0 /\ \A i \in Removals : removals[m][i] = None
        /\ starting' = More(starting, m, k) /\ listed' = listed \cup {m}
        /\ responses' = [responses EXCEPT ![m] = {}] /\ running' = running
        /\ removals' = [removals EXCEPT ![m] = Replaced(m)]
    BY <1>2, <1>4, <1>8 DEF Register
  <2>2. running[m] = {}
    BY <1>5, <2>1 DEF Orderly
  <2>3. \A i \in Removals : removals'[m][i] = None
    BY <1>1, <2>1 DEF Replaced, None
  <2>4. Count(starting', m) = 1
    BY <1>3, <2>1
  <2>5. Orderly(m)'
    BY <1>1, <2>1, <2>2, <2>3, <2>4 DEF Orderly, Count, None
  <2>6. QED
    BY <1>7, <2>5
<1>9. CASE StartTrigger(m, k)
  <2>1. starting[m][k] > 0 /\ starting' = Less(starting, m, k) /\ UNCHANGED <<listed, removals>>
    BY <1>9 DEF StartTrigger
  <2>2. /\ m \in listed /\ responses[m] = {} /\ running[m] = {} /\ Count(starting, m) = 1
        /\ \A i \in Removals : removals[m][i] = None
    BY <1>3, <1>5, <2>1 DEF Orderly
  <2>3. PICK t \in Triggers : /\ running' = [running EXCEPT ![m] = running[m] \cup {t}]
                              /\ responses' = [responses EXCEPT ![m] = responses[m] \cup {t}]
    BY <1>9, <2>2 DEF StartTrigger
  <2>4. running'[m] = {t} /\ responses'[m] = {t}
    BY <1>1, <2>2, <2>3
  <2>5. Count(starting', m) = 0
    BY <1>2, <1>3, <2>1, <2>2
  <2>6. Orderly(m)'
    BY <2>1, <2>2, <2>4, <2>5 DEF Orderly, Count, None
  <2>7. QED
    BY <1>7, <2>6
<1>10. CASE FailAddition(m, k)
  <2>1. /\ starting' = starting \/ (starting[m][k] > 0 /\ starting' = Less(starting, m, k))
        /\ UNCHANGED <<listed, responses, removals, running>>
    BY <1>10 DEF FailAddition, entryVars
  <2>2. Count(starting', m) = Count(starting, m) \/ Count(starting', m) = 0
    BY <1>2, <1>3, <1>5, <2>1 DEF Orderly
  <2>3. Orderly(m)'
    BY <1>5, <2>1, <2>2 DEF Orderly, Count
  <2>4. QED
    BY <1>7, <2>3
<1>11. QED
  BY <1>8, <1>9, <1>10

(* Removals. *)
LEMMA BeginOrder ==
  ASSUME ManagerOK, OrderInv, NEW m \in Mains, NEW i \in Removals, BeginRemoval(m, i),
         UNCHANGED <<decided, starting, running>>, m \notin disordered'
  PROVE  /\ Orderly(m)' /\ ~Adds(m) /\ ~Adds(m)'
         /\ m \notin disordered /\ Ended(m)
         /\ responses[m] = {} => running[m] = {}
<1>1. m \notin disordered /\ ~Adds(m) /\ responses' = responses
  BY DEF BeginRemoval
<1>2. Orderly(m) /\ Ended(m)
  BY <1>1 DEF OrderInv
<1>3. Count(starting, m) = 0
  BY <1>1, AddsFacts
<1>4. ~Adds(m)' /\ Count(starting', m) = 0
  BY <1>1, <1>3 DEF Adds, Count
<1>5. CASE responses[m] = {}
  <2>1. listed' = listed \ {m} /\ removals' = removals
    BY <1>5 DEF BeginRemoval
  <2>2. Orderly(m)'
    BY <1>1, <1>2, <1>4, <1>5, <2>1 DEF Orderly, Count
  <2>3. QED
    BY <1>1, <1>2, <1>4, <1>5, <2>2 DEF Orderly
<1>6. CASE responses[m] # {}
  <2>1. listed' = listed /\ removals' = [removals EXCEPT ![m][i] = Current]
    BY <1>6 DEF BeginRemoval
  <2>2. \A j \in Removals : removals'[m][j] = removals[m][j] \/ removals'[m][j].of = "current"
    BY <2>1 DEF Current, ManagerOK, RemovalsOK
  <2>3. Orderly(m)'
    <3>1. (\E j \in Removals : removals'[m][j].of = "old") => m \notin listed'
      BY <1>2, <2>1, <2>2 DEF Orderly
    <3>2. QED
      BY <1>1, <1>2, <1>4, <2>1, <3>1 DEF Orderly, Count
  <2>4. QED
    BY <1>1, <1>2, <1>4, <1>6, <2>3
<1>7. QED
  BY <1>5, <1>6

LEMMA RemoveOrder ==
  ASSUME ManagerOK, OrderInv, NEW m \in Mains,
         HandleRemove(m) \/ EmitError(m) \/ BeginShutdown(m) \/ RemoveAgain(m),
         m \notin disordered'
  PROVE  (Orderly(m) /\ Ended(m))'
<1>1. PICK i \in Removals : BeginRemoval(m, i)
  BY StopRemovalAssumption DEF HandleRemove, EmitError, BeginShutdown, RemoveAgain, RemovalOfStop
<1>2. UNCHANGED <<decided, starting, running>>
  BY DEF HandleRemove, EmitError, BeginShutdown, RemoveAgain, additionVars
<1>3. /\ Orderly(m)' /\ ~Adds(m)' /\ Ended(m)
      /\ responses[m] = {} => running[m] = {}
  BY <1>1, <1>2, BeginOrder
<1>4. stage'[m] = 5 => running'[m] = {}
  <2>1. CASE HandleRemove(m) \/ EmitError(m)
    BY <1>2, <1>3, <2>1 DEF HandleRemove, EmitError, Ended
  <2>2. CASE BeginShutdown(m) \/ RemoveAgain(m)
    <3>1. stage[m] \in {0, 3} /\ stage' = [stage EXCEPT ![m] = IF responses[m] = {} THEN stage[m] + 2 ELSE stage[m] + 1]
      BY <2>2 DEF BeginShutdown, RemoveAgain, RemovalOfStop
    <3>2. QED
      BY <1>2, <1>3, <3>1 DEF ManagerOK, RemovalsOK
  <2>3. QED
    BY <2>1, <2>2
<1>5. QED
  BY <1>3, <1>4 DEF Ended

LEMMA EndOrder ==
  ASSUME ManagerOK, OrderInv, NEW m \in Mains, NEW i \in Removals, EndRemoval(m, i),
         m \notin disordered'
  PROVE  (Orderly(m) /\ Ended(m))'
<1>1. m \notin disordered /\ UNCHANGED <<decided, starting>> /\ removals[m][i] # None
  BY DEF EndRemoval, additionVars
<1>2. Orderly(m) /\ Ended(m)
  BY <1>1 DEF OrderInv
<1>3. Count(starting, m) = 0
  BY <1>1, <1>2, AddsFacts DEF Orderly
<1>4. listed' = listed \ {m} /\ responses'[m] = {} /\ running'[m] = running[m] \ Closed(m, i)
  BY DEF EndRemoval, ManagerOK, EntriesOK
<1>5. running'[m] = {}
  <2>1. removals[m][i].of = "current" \/ removals[m][i].of = "old"
    BY <1>1, RemovalFacts DEF ManagerOK, RemovalsOK
  <2>2. removals[m][i].of = "current" => Closed(m, i) = responses[m]
    BY DEF Closed
  <2>3. removals[m][i].of = "old" => running[m] = {}
    BY <1>2 DEF Orderly
  <2>4. QED
    BY <1>2, <1>4, <2>1, <2>2, <2>3 DEF Orderly
<1>6. Orderly(m)'
  BY <1>1, <1>3, <1>4, <1>5 DEF Orderly, Count
<1>7. stage'[m] >= 4 => stage[m] >= 4
  <2>1. CASE i # StopRemoval
    BY <2>1 DEF EndRemoval
  <2>2. CASE i = StopRemoval
    <3>1. stage[m] \in {1, 4} /\ stage' = [stage EXCEPT ![m] = stage[m] + 1]
      BY <1>1, <2>2 DEF EndRemoval, ManagerOK, RemovalsOK
    <3>2. QED
      BY <3>1 DEF ManagerOK, RemovalsOK
  <2>3. QED
    BY <2>1, <2>2
<1>8. QED
  BY <1>1, <1>2, <1>5, <1>6, <1>7 DEF Ended, Adds, Count

LEMMA OtherOrder ==
  ASSUME ManagerOK, OrderInv, NEW m \in Mains,
         \/ Emit(m, "remove") \/ Emit(m, "add") \/ Listen(m) \/ InitManager(m) \/ Pass(m) \/ Retry(m)
         \/ StopProcess(m) \/ Forget(m),
         m \notin disordered'
  PROVE  (Orderly(m) /\ Ended(m))'
<1>1. CASE StopProcess(m)
  <2>1. m \notin disordered /\ stage[m] = 2 /\ stage' = [stage EXCEPT ![m] = 3]
        /\ UNCHANGED <<starting, listed, responses, removals, running>>
    BY <1>1 DEF StopProcess, additionVars, entryVars
  <2>2. Orderly(m)
    BY <2>1 DEF OrderInv
  <2>3. stage'[m] = 3
    BY <2>1 DEF ManagerOK, RemovalsOK
  <2>4. QED
    BY <2>1, <2>2, <2>3 DEF Orderly, Ended, Count
<1>2. CASE Forget(m)
  <2>1. /\ stage'[m] = 0 /\ responses'[m] = {} /\ running'[m] = {} /\ m \notin listed'
        /\ starting'[m] = [k \in Additions |-> 0]
    BY <1>2 DEF Forget, ManagerOK, RemovalsOK, AdditionsOK, EntriesOK
  <2>2. Count(starting', m) = 0
    BY <2>1 DEF Count, Additions
  <2>3. QED
    BY <2>1, <2>2 DEF Orderly, Ended, Count
<1>3. CASE Emit(m, "remove") \/ Emit(m, "add") \/ Listen(m) \/ InitManager(m) \/ Pass(m) \/ Retry(m)
  <2>1. SameBooks(m)
    BY <1>3 DEF Emit, Listen, InitManager, Pass, Retry, additionVars, entryVars, SameBooks
  <2>2. Orderly(m) /\ Ended(m)
    BY <2>1 DEF SameBooks, OrderInv
  <2>3. QED
    BY <2>1, <2>2, SameOrder
<1>4. QED
  BY <1>1, <1>2, <1>3

LEMMA OrderStep == ManagerOK /\ OrderInv /\ [Next]_vars => OrderInv'
<1> SUFFICES ASSUME ManagerOK, OrderInv, [Next]_vars, NEW m \in Mains, m \notin disordered'
             PROVE  (Orderly(m) /\ Ended(m))'
  BY DEF OrderInv
<1>1. CASE UNCHANGED managerVars
  <2>1. SameBooks(m)
    BY <1>1 DEF managerVars, additionVars, entryVars, SameBooks
  <2>2. QED
    BY <2>1, SameOrder DEF SameBooks, OrderInv
<1>2. ASSUME NEW n \in Mains, Manages(n) PROVE (Orderly(m) /\ Ended(m))'
  <2>1. CASE n # m
    BY <1>2, <2>1, OthersSame, SameOrder DEF SameBooks, OrderInv
  <2>2. CASE n = m
    <3>1. CASE Adding(m)
      BY <3>1, DecideOrder, OtherOrder, AddOrder DEF Adding
    <3>2. ASSUME NEW i \in Removals, FailRemoval(m, i) PROVE FALSE
      BY <3>2 DEF FailRemoval
    <3>3. CASE Removing(m) \/ Failing(m)
      BY <3>2, <3>3, RemoveOrder, EndOrder, AddOrder DEF Removing, Failing
    <3>4. CASE GoOn(m)
      BY <3>4, OtherOrder, RemoveOrder DEF GoOn
    <3>5. CASE Emit(m, "remove") \/ Emit(m, "add") \/ BeginShutdown(m) \/ Forget(m)
      BY <3>5, OtherOrder, RemoveOrder
    <3>6. QED
      BY <1>2, <2>2, <3>1, <3>3, <3>4, <3>5 DEF Manages
  <2>3. QED
    BY <2>1, <2>2
<1>3. QED
  BY <1>1, <1>2, StepManages

LEMMA OrderAlways == Safety => []OrderInv
<1>1. ASSUME Init, NEW m \in Mains PROVE Orderly(m) /\ Ended(m)
  <2>1. starting[m] = [k \in Additions |-> 0] /\ stage[m] = 0
    BY <1>1 DEF Init
  <2>2. Count(starting, m) = 0
    BY <2>1 DEF Count, Additions
  <2>3. QED
    BY <1>1, <2>1, <2>2 DEF Init, Orderly, Ended, None
<1>2. Init => OrderInv
  BY <1>1 DEF OrderInv
<1>3. QED
  BY <1>2, OrderStep, ManagerAlways, PTL DEF Safety

(* Unless an addition met another one or a removal, or a trigger could not   *)
(* be closed, a main has every trigger that runs in it in the entry that the *)
(* next removal closes, and it runs one at most: for any number of mains, of *)
(* removals and failures, and wherever the process is in its shutdown.       *)
THEOREM TriggersClosable == Safety => []TriggersCanBeClosed
<1>1. OrderInv => TriggersCanBeClosed
  BY DEF OrderInv, Orderly, TriggersCanBeClosed
<1>2. QED
  BY <1>1, OrderAlways, PTL

-----------------------------------------------------------------------------
(* Who runs the trigger, or is about to, holds the key, or is gone from the  *)
(* election; and who is gone from it has closed its trigger before.          *)
Works(m) == running[m] # {} \/ Adds(m)

RunInv ==
  \A m \in Mains :
    /\ phase[m] = "down" => ~Works(m)
    /\ phase[m] \in {"stopping", "exiting"} => stage[m] = 5
    /\ m \notin disordered /\ IsActive(m) /\ Works(m) => key = m

(* Only a leader begins to work. *)
LEMMA WorkGains ==
  ASSUME ManagerOK, [Next]_vars, NEW m \in Mains, ~Works(m), Works(m)'
  PROVE  role[m] = "leader" /\ UNCHANGED electionVars
<1>1. ~UNCHANGED <<running, decided, starting>>
  BY DEF Works, Adds, Count
<1>2. ~UNCHANGED managerVars
  BY <1>1 DEF managerVars, additionVars
<1>3. PICK n \in Mains : Manages(n)
  BY <1>2, StepManages
<1>4. n = m
  <2>1. SUFFICES ASSUME n # m PROVE FALSE
    OBVIOUS
  <2>2. SameBooks(m)
    BY <1>3, <2>1, OthersSame
  <2>3. QED
    BY <2>2 DEF SameBooks, Works, Adds, Count
<1>5. running[m] = {} /\ Count(decided, m) = 0 /\ Count(starting, m) = 0
  BY AddsFacts DEF Works
<1>6. ASSUME NEW k \in Additions PROVE ~(decided[m][k] > 0) /\ ~(starting[m][k] > 0)
  BY <1>5, CountFacts DEF ManagerOK, AdditionsOK
<1>7. ASSUME NEW k \in Additions
      PROVE  ~Register(m, k) /\ ~StartTrigger(m, k) /\ ~FailAddition(m, k)
  BY <1>6 DEF Register, StartTrigger, FailAddition
<1>8. ~Emit(m, "remove") /\ ~Emit(m, "add") /\ ~GoOn(m) /\ ~Pass(m) /\ ~Retry(m) /\ ~HandleRemove(m)
      /\ ~EmitError(m) /\ ~BeginShutdown(m)
  BY <1>1 DEF Emit, GoOn, Listen, InitManager, StopProcess, RemoveAgain, Pass, Retry, HandleRemove,
              EmitError, BeginShutdown, additionVars
<1>9. ~Forget(m)
  <2>1. SUFFICES ASSUME Forget(m) PROVE FALSE
    OBVIOUS
  <2>2. /\ running'[m] = {} /\ decided'[m] = [k \in Additions |-> 0]
        /\ starting'[m] = [k \in Additions |-> 0]
    BY <2>1 DEF Forget, ManagerOK, AdditionsOK, EntriesOK
  <2>3. QED
    BY <2>2 DEF Works, Adds, Count, Additions
<1>10. ASSUME NEW i \in Removals PROVE ~EndRemoval(m, i) /\ ~FailRemoval(m, i)
  <2>1. ~FailRemoval(m, i)
    BY <1>1 DEF FailRemoval, additionVars
  <2>2. ~EndRemoval(m, i)
    BY <1>5 DEF EndRemoval, additionVars, Works, Adds, Count, ManagerOK, EntriesOK
  <2>3. QED
    BY <2>1, <2>2
<1>11. HandleAdd(m) \/ HandleCommand(m)
  BY <1>3, <1>4, <1>7, <1>8, <1>9, <1>10 DEF Manages, Adding, Removing, Failing
<1>12. UNCHANGED <<running, electionVars>>
  BY <1>11 DEF HandleAdd, HandleCommand
<1>13. (decided' = decided /\ starting' = starting) \/ role[m] = "leader"
  BY <1>11 DEF HandleAdd, HandleCommand, additionVars
<1>14. QED
  BY <1>1, <1>12, <1>13

(* The end of a process takes its triggers with it, and nothing else makes   *)
(* up for an addition that met another one or a removal.                     *)
LEMMA Forgotten ==
  ASSUME ManagerOK, NEW m \in Mains, Forget(m)
  PROVE  ~Works(m)'
<1>1. /\ running'[m] = {} /\ decided'[m] = [k \in Additions |-> 0]
      /\ starting'[m] = [k \in Additions |-> 0]
  BY DEF Forget, ManagerOK, AdditionsOK, EntriesOK
<1>2. QED
  BY <1>1 DEF Works, Adds, Count, Additions

LEMMA DisorderStays ==
  ASSUME ManagerOK, [Next]_vars, NEW m \in Mains, m \in disordered, Works(m)'
  PROVE  m \in disordered'
<1>1. CASE UNCHANGED managerVars
  BY <1>1 DEF managerVars
<1>2. ASSUME NEW n \in Mains, Manages(n) PROVE m \in disordered'
  <2>1. CASE n # m
    BY <1>2, <2>1, OthersSame DEF SameBooks
  <2>2. CASE n = m
    <3>1. ~Forget(m)
      BY Forgotten
    <3>2. CASE Emit(m, "remove") \/ Emit(m, "add") \/ GoOn(m) \/ BeginShutdown(m)
      BY <3>2 DEF Emit, GoOn, Listen, InitManager, StopProcess, RemoveAgain, BeginShutdown,
                  RemovalOfStop, BeginRemoval
    <3>3. CASE Adding(m)
      BY <3>3 DEF Adding, HandleAdd, HandleCommand, Decide, Pass, Retry, Register, StartTrigger
    <3>4. CASE Removing(m) \/ Failing(m)
      BY <3>4 DEF Removing, HandleRemove, EndRemoval, Failing, EmitError, FailAddition, FailRemoval,
                  BeginRemoval
    <3>5. QED
      BY <1>2, <2>2, <3>1, <3>2, <3>3, <3>4 DEF Manages
  <2>3. QED
    BY <2>1, <2>2
<1>3. QED
  BY <1>1, <1>2, StepManages

(* The phase of a main changes in few ways. *)
LEMMA PhaseNext ==
  ASSUME ElectionTypeOK, LeaseInv, [Next]_vars, NEW m \in Mains, phase'[m] # phase[m]
  PROVE  \/ phase[m] = "down" /\ phase'[m] = "joining" /\ UNCHANGED managerVars
         \/ phase[m] = "joining" /\ phase'[m] = "up"
         \/ phase[m] = "stopping" /\ phase'[m] = "exiting" /\ UNCHANGED managerVars
         \/ stage[m] = 5 /\ phase[m] = "up" /\ phase'[m] \in {"stopping", "exiting"} /\ UNCHANGED managerVars
         \/ phase'[m] = "down" /\ Forget(m)
<1>1. phase \in [Mains -> Phases] /\ replies \in [Mains -> Seq(Replies)]
  BY DEF ElectionTypeOK
<1>2. ASSUME NEW n \in Mains, GoOn(n) \/ Adding(n) \/ Removing(n) \/ Failing(n) \/ BeginShutdown(n)
      PROVE  FALSE
  <2>1. UNCHANGED electionVars
    BY <1>2 DEF GoOn, Listen, InitManager, StopProcess, RemoveAgain, Removing, HandleRemove,
                EndRemoval, Failing, EmitError, FailAddition, FailRemoval, BeginShutdown,
                Adding, HandleAdd, HandleCommand, Pass, Retry, Register, StartTrigger
  <2>2. QED
    BY <2>1 DEF electionVars, mainVars
<1>3. ASSUME NEW n \in Mains, Execute(n) \/ Check(n) PROVE FALSE
  BY <1>3 DEF Execute, Check, CheckLeader
<1>4. ASSUME NEW n \in Mains, Connect(n) PROVE phase[m] = "down" /\ phase'[m] = "joining"
  BY <1>1, <1>4 DEF Connect
<1>5. ASSUME NEW n \in Mains, Quiet(n) \/ StepDown(n) \/ TakeOver(n)
      PROVE  phase[m] = "joining" /\ phase'[m] = "up"
  <2>1. PICK R : \E cmds \in {<<>>} \cup {<<c>> : c \in Commands}, r \in Roles : Handles(n, R, cmds, r)
    BY <1>5, HandlesAll
  <2>2. QED
    BY <1>1, <2>1 DEF Handles
<1>6. ASSUME NEW n \in Mains, KeyCleared(n) PROVE phase[m] = "stopping" /\ phase'[m] = "exiting"
  <2>1. n = m /\ phase'[m] = "exiting" /\ replies[m] # <<>> /\ Head(replies[m]) = "cleared"
    BY <1>1, <1>6 DEF KeyCleared
  <2>2. Has(replies[m], "cleared")
    BY <1>1, <2>1, HasFacts
  <2>3. QED
    BY <2>1, <2>2 DEF LeaseInv, Sound
<1>7. ASSUME NEW n \in Mains, Depart(n)
      PROVE  stage[m] = 5 /\ phase[m] = "up" /\ phase'[m] \in {"stopping", "exiting"}
  BY <1>1, <1>7 DEF Depart, Shutdown
<1>8. ASSUME NEW n \in Mains, Exit(n) \/ Crash(n) PROVE n = m /\ phase'[m] = "down"
  BY <1>1, <1>8 DEF Exit, Crash, Leave
<1>9. ~Lapse /\ ~UNCHANGED vars
  BY DEF Lapse, vars, electionVars, mainVars
<1>10. ASSUME NEW n \in Mains, Elect(n)
       PROVE  \/ phase[m] = "down" /\ phase'[m] = "joining" /\ UNCHANGED managerVars
              \/ phase[m] = "joining" /\ phase'[m] = "up"
              \/ phase[m] = "stopping" /\ phase'[m] = "exiting" /\ UNCHANGED managerVars
              \/ phase'[m] = "down" /\ Forget(m)
  BY <1>3, <1>4, <1>5, <1>6, <1>8, <1>10 DEF Elect
<1>11. QED
  BY <1>2, <1>3, <1>7, <1>8, <1>9, <1>10 DEF Next, Depart

(* The last stage is left only with the process. *)
LEMMA StageStays ==
  ASSUME ElectionTypeOK, ManagerOK, [Next]_vars, NEW m \in Mains, stage[m] = 5
  PROVE  stage'[m] = 5 \/ phase'[m] = "down"
<1>1. CASE UNCHANGED managerVars
  BY <1>1 DEF managerVars
<1>2. ASSUME NEW n \in Mains, Manages(n) PROVE stage'[m] = 5 \/ phase'[m] = "down"
  <2>1. CASE n # m
    BY <1>2, <2>1, OthersSame DEF SameBooks
  <2>2. CASE n = m
    <3>1. ~BeginShutdown(m) /\ ~RemoveAgain(m) /\ ~StopProcess(m)
      BY DEF BeginShutdown, RemoveAgain, StopProcess
    <3>2. ASSUME NEW i \in Removals, EndRemoval(m, i) \/ FailRemoval(m, i) PROVE stage'[m] = 5
      <4>1. removals[m][i] # None
        BY <3>2 DEF EndRemoval, FailRemoval
      <4>2. i # StopRemoval
        BY <4>1 DEF ManagerOK, RemovalsOK
      <4>3. QED
        BY <3>2, <4>2 DEF EndRemoval, FailRemoval
    <3>3. CASE Emit(m, "remove") \/ Emit(m, "add") \/ Listen(m) \/ InitManager(m)
      BY <3>3 DEF Emit, Listen, InitManager
    <3>4. CASE Adding(m)
      BY <3>4 DEF Adding, HandleAdd, HandleCommand, Pass, Retry, Register, StartTrigger
    <3>5. HandleRemove(m) \/ EmitError(m) \/ (\E k \in Additions : FailAddition(m, k)) => stage' = stage
      BY DEF HandleRemove, EmitError, FailAddition
    <3>6. Exit(m) \/ Crash(m) => phase'[m] = "down"
      BY DEF Exit, Crash, Leave, ElectionTypeOK
    <3>7. QED
      BY <1>2, <2>2, <3>1, <3>2, <3>3, <3>4, <3>5, <3>6 DEF Manages, GoOn, Removing, Failing
  <2>3. QED
    BY <2>1, <2>2
<1>3. QED
  BY <1>1, <1>2, StepManages

LEMMA RunStep ==
  ASSUME ElectionTypeOK, LeaseInv, ManagerOK, OrderInv, RunInv, [Next]_vars, Reliable'
  PROVE  RunInv'
<1>1. LeaseStep
  BY StepElects, ElectionStep
<1>2. ASSUME NEW m \in Mains
      PROVE  Sound(m, key, phase[m], role[m], sent[m], replies[m]) /\ phase[m] \in Phases
  BY DEF LeaseInv, ElectionTypeOK
<1>3. ASSUME NEW m \in Mains, phase'[m] = "down" PROVE ~Works(m)'
  <2>1. CASE phase[m] = "down"
    <3>1. ~Works(m) /\ role[m] # "leader"
      BY <1>2, <2>1 DEF RunInv, Sound
    <3>2. QED
      BY <3>1, WorkGains
  <2>2. CASE phase[m] # "down"
    <3>1. Forget(m)
      BY <1>3, <2>2, PhaseNext
    <3>2. QED
      BY <3>1, Forgotten
  <2>3. QED
    BY <2>1, <2>2
<1>4. ASSUME NEW m \in Mains, phase'[m] \in {"stopping", "exiting"} PROVE stage'[m] = 5
  <2>1. CASE phase'[m] = phase[m]
    <3>1. stage[m] = 5
      BY <1>4, <2>1 DEF RunInv
    <3>2. QED
      BY <1>4, <3>1, StageStays
  <2>2. CASE phase'[m] # phase[m]
    <3>1. stage[m] = 5 /\ UNCHANGED managerVars
      BY <1>4, <2>2, PhaseNext DEF RunInv
    <3>2. QED
      BY <3>1 DEF managerVars
  <2>3. QED
    BY <2>1, <2>2
<1>5. ASSUME NEW m \in Mains, m \notin disordered', IsActive(m)', Works(m)'
      PROVE  key' = m
  <2>1. phase[m] = "down" \/ IsActive(m)
    <3>1. phase'[m] \in {"joining", "up"}
      BY <1>5 DEF IsActive
    <3>2. QED
      BY <3>1, PhaseNext DEF IsActive
  <2>2. m \notin disordered
    BY <1>5, DisorderStays
  <2>3. CASE Works(m)
    <3>1. key = m /\ IsActive(m)
      BY <2>1, <2>2, <2>3 DEF RunInv
    <3>2. QED
      BY <1>1, <1>5, <3>1 DEF LeaseStep, IsActive
  <2>4. CASE ~Works(m)
    <3>1. role[m] = "leader" /\ UNCHANGED electionVars
      BY <1>5, <2>4, WorkGains
    <3>2. key = m
      BY <1>2, <2>1, <3>1 DEF Sound, IsActive
    <3>3. QED
      BY <3>1, <3>2 DEF electionVars, redisVars
  <2>5. QED
    BY <2>3, <2>4
<1>6. QED
  BY <1>3, <1>4, <1>5 DEF RunInv

LEMMA RunAlways == Safety => [](Reliable => RunInv)
<1>1. Init => RunInv
  <2>1. ASSUME Init, NEW m \in Mains PROVE ~Works(m) /\ phase[m] = "down"
    <3>1. /\ running[m] = {} /\ decided[m] = [k \in Additions |-> 0]
          /\ starting[m] = [k \in Additions |-> 0] /\ phase[m] = "down"
      BY <2>1 DEF Init, ElectionInit
    <3>2. QED
      BY <3>1 DEF Works, Adds, Count, Additions
  <2>2. QED
    BY <2>1 DEF RunInv
<1>2. ElectionTypeOK /\ (Reliable => LeaseInv) /\ ManagerOK /\ OrderInv /\ (Reliable => RunInv) /\ [Next]_vars
        => (Reliable => RunInv)'
  BY RunStep, StepElects, ReliableBefore
<1>3. QED
  BY <1>1, <1>2, ManagersElect, LeaseAlways, ManagerAlways, OrderAlways, PTL DEF Safety

(* While every holder has renewed the key in time and no reply was lost, two *)
(* mains never run the trigger at once, unless in one of them an addition    *)
(* met another one or a removal, or a trigger could not be closed: a main    *)
(* keeps the key from before it starts the trigger until its shutdown has    *)
(* closed it, however many mains there are and however their checks overlap. *)
THEOREM OneRunnerOnly == Safety => []OneRunner
<1>1. ASSUME ElectionTypeOK, OrderInv, RunInv, NEW m \in Mains \ disordered, running[m] # {}
      PROVE  key = m
  <2>1. phase[m] \in Phases
    BY <1>1 DEF ElectionTypeOK
  <2>2. stage[m] # 5
    BY <1>1 DEF OrderInv, Ended
  <2>3. IsActive(m) /\ Works(m)
    BY <1>1, <2>1, <2>2 DEF RunInv, Works, Phases, IsActive
  <2>4. QED
    BY <1>1, <2>3 DEF RunInv
<1>2. ElectionTypeOK /\ OrderInv /\ (Reliable => RunInv) => OneRunner
  BY <1>1 DEF OneRunner
<1>3. QED
  BY <1>2, LeaseAlways, OrderAlways, RunAlways, ManagersElect, PTL
=============================================================================
