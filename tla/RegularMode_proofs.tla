------------------------- MODULE RegularMode_proofs -------------------------
(***************************************************************************)
(* Whatever the number of calls, executions and requests, and whatever     *)
(* fails, the process uses the concurrency queue as the queue demands, so  *)
(* its accounting holds in the whole process and not only in isolation.    *)
(***************************************************************************)
EXTENDS RegularMode, ConcurrencyQueue_proofs

(* What a call's place in add() says about its capacity: before throttle()   *)
(* it has none and waits for none; once throttle() has let a limited call    *)
(* through it holds capacity for as long as its promise exists; and a call   *)
(* that is not limited never enters the queue.                               *)
BeforeEntry == {"reading", "ready", "throttled", "passed", "marked"}

Fits(r, on, has, placed) ==
  /\ r.stage # "idle" \/ r.promise # "none" => r.exec \in Executions
  /\ r.stage = "saving" => r.outcome \in Outcomes
  /\ r.stage \in BeforeEntry => r.promise = "none"
  /\ r.stage \in {"reading", "ready"} => ~placed
  /\ on /\ r.stage = "passed" => r.mode = "manual"
  /\ on /\ (r.stage = "marked" \/ r.promise # "none") /\ r.mode # "manual" => has
  /\ (r.stage # "idle" \/ r.promise # "none") /\ r.mode = "manual" => ~placed

Placed(c) == c \in admitted \cup QueuedCalls

CallInv == \A c \in Calls : Fits(call[c], isEnabled, c \in admitted, Placed(c))

Inv ==
  /\ TypeOK
  /\ QueueInv
  /\ CallInv
  /\ phase = "stopping" => restarts < MaxRestarts

-----------------------------------------------------------------------------
(* The states of a call. *)

LEMMA IdleType == Idle \in CallStates
BY DEF Idle, CallStates, Stages, Modes

LEMMA ReturnType ==
  ASSUME NEW r \in CallStates
  PROVE  /\ Return(r) \in CallStates
         /\ Return(r).stage = "idle"
         /\ Return(r).promise = r.promise
         /\ r.promise # "none" => Return(r).mode = r.mode /\ Return(r).exec = r.exec
<1>1. CASE r.promise = "none" /\ ~r.hook
  <2>1. Return(r) = Idle
    BY <1>1 DEF Return
  <2>2. QED
    BY <1>1, <2>1, IdleType DEF Idle
<1>2. CASE ~(r.promise = "none" /\ ~r.hook)
  <2>1. Return(r) = [r EXCEPT !.stage = "idle", !.tracked = FALSE, !.canceled = FALSE, !.outcome = "none"]
    BY <1>2 DEF Return
  <2>2. "idle" \in Stages /\ "none" \in Outcomes \cup {"none"}
    BY DEF Stages
  <2>3. QED
    BY <2>1, <2>2 DEF CallStates
<1>3. QED
  BY <1>1, <1>2

LEMMA SettleType ==
  ASSUME NEW f \in [Calls -> CallStates], NEW c \in Calls
  PROVE  /\ Settle(f, c) \in [Calls -> CallStates]
         /\ \A d \in Calls : /\ Settle(f, c)[d].stage = f[d].stage
                             /\ Settle(f, c)[d].exec = f[d].exec
                             /\ Settle(f, c)[d].mode = f[d].mode
                             /\ Settle(f, c)[d].outcome = f[d].outcome
                             /\ Settle(f, c)[d].promise # "none" <=> f[d].promise # "none"
BY DEF Settle, CallStates

LEMMA CancelType ==
  ASSUME NEW f \in [Calls -> CallStates], NEW c \in Calls
  PROVE  /\ Cancel(f, c) \in [Calls -> CallStates]
         /\ \A d \in Calls : /\ Cancel(f, c)[d].stage = f[d].stage
                             /\ Cancel(f, c)[d].exec = f[d].exec
                             /\ Cancel(f, c)[d].mode = f[d].mode
                             /\ Cancel(f, c)[d].outcome = f[d].outcome
                             /\ Cancel(f, c)[d].promise = f[d].promise
<1> DEFINE r == [f[c] EXCEPT !.canceled = TRUE, !.hook = TRUE]
<1>1. Cancel(f, c) = f \/ Cancel(f, c) = [f EXCEPT ![c] = r]
  BY DEF Cancel
<1>2. r \in CallStates
  BY DEF CallStates
<1>3. /\ r.stage = f[c].stage /\ r.exec = f[c].exec /\ r.mode = f[c].mode
      /\ r.outcome = f[c].outcome /\ r.promise = f[c].promise
  BY DEF CallStates
<1> HIDE DEF r
<1> QED BY <1>1, <1>2, <1>3

-----------------------------------------------------------------------------
(* Where the operations of the queue leave the calls: only enqueue() gives a *)
(* call a place, and only dequeue() on its behalf takes its capacity.        *)

LEMMA QueueFacts ==
  ASSUME QueueInv
  PROVE  /\ Line(queue, admitted)
         /\ queue \in Seq(Items)
         /\ DOMAIN queue = 1..Len(queue)
         /\ \A i \in DOMAIN queue : queue[i].call \in Calls
         /\ \A d : Placed(d) <=> d \in admitted \/ \E i \in 1..Len(queue) : queue[i].call = d
<1>1. Line(queue, admitted) /\ queue \in Seq(Items)
  BY QueueInvLine DEF LineInv, Line
<1>2. DOMAIN queue = 1..Len(queue)
  BY <1>1, LenProperties
<1>3. \A i \in 1..Len(queue) : queue[i] \in Items
  BY <1>1, ElementOfSeq
<1> QED BY <1>1, <1>2, <1>3 DEF Items, Placed, QueuedCalls

LEMMA QueueFactsNext ==
  ASSUME QueueInv'
  PROVE  /\ queue' \in Seq(Items)
         /\ \A d : Placed(d)' <=> d \in admitted' \/ \E i \in 1..Len(queue') : queue'[i].call = d
<1>1. Line(queue', admitted') /\ queue' \in Seq(Items)
  BY QueueInvLineNext DEF LineInv, Line
<1>2. DOMAIN queue' = 1..Len(queue')
  BY <1>1, LenProperties
<1> QED BY <1>1, <1>2 DEF Placed, QueuedCalls

LEMMA EnqueuePlaces ==
  ASSUME QueueInv, QueueInv', NEW c \in Calls, NEW e \in Executions, Enqueue(c, e)
  PROVE  /\ admitted \subseteq admitted'
         /\ \A d \in Calls : d # c /\ ~Placed(d) => ~Placed(d)'
<1> DEFINE item == [executionId |-> e, call |-> c]
<1>1. item \in Items
  BY DEF Items
<1>2. /\ Len(Append(queue, item)) = Len(queue) + 1
      /\ \A i \in 1..Len(queue) : Append(queue, item)[i] = queue[i]
      /\ Append(queue, item)[Len(queue) + 1] = item
      /\ Len(queue) \in Nat
  BY <1>1, QueueFacts, AppendProperties, LenProperties
<1> HIDE DEF item
<1>3. item.call = c
  BY DEF item
<1>4. admitted \subseteq admitted' /\ admitted' \subseteq admitted \cup {c}
  BY DEF Enqueue
<1>5. queue' = queue \/ queue' = Append(queue, item)
  BY DEF Enqueue, item
<1>6. ASSUME NEW i \in 1..Len(queue'), queue'[i].call # c
      PROVE  i \in 1..Len(queue) /\ queue[i] = queue'[i]
  BY <1>2, <1>3, <1>5, <1>6
<1> QED BY <1>4, <1>6, QueueFacts, QueueFactsNext

LEMMA ResolveNextPlaces ==
  ASSUME NEW q, NEW S, Line(q, S), ResolveNext(q, S), QueueInv'
  PROVE  /\ S \subseteq admitted'
         /\ \A d : d \notin S /\ (\A i \in 1..Len(q) : q[i].call # d) => ~Placed(d)'
<1>1. CASE q = <<>>
  BY <1>1, QueueFactsNext DEF ResolveNext
<1>2. CASE q # <<>>
  <2>1. queue' = Tail(q) /\ admitted' = S \cup {Head(q).call}
    BY <1>2 DEF ResolveNext
  <2>2. /\ Head(q) = q[1]
        /\ Len(q) \in Nat \ {0}
        /\ Len(Tail(q)) = Len(q) - 1
        /\ \A i \in 1..Len(Tail(q)) : Tail(q)[i] = q[i + 1]
    BY <1>2, HeadTailProperties, EmptySeq DEF Line
  <2>3. 1 \in 1..Len(q) /\ \A i \in 1..Len(Tail(q)) : i + 1 \in 1..Len(q)
    BY <2>2
  <2> QED BY <2>1, <2>2, <2>3, QueueFactsNext
<1> QED BY <1>1, <1>2

LEMMA DequeuePlaces ==
  ASSUME QueueInv, QueueInv', NEW c \in Calls, Dequeue(c)
  PROVE  /\ admitted \ {c} \subseteq admitted'
         /\ \A d \in Calls : ~Placed(d) => ~Placed(d)'
<1>1. ResolveNext(queue, admitted \ {c})
  BY DEF Dequeue
<1>2. Line(queue, admitted \ {c})
  BY QueueFacts DEF Line
<1> QED BY <1>1, <1>2, ResolveNextPlaces, QueueFacts

LEMMA RemoveItemPlaces ==
  ASSUME QueueInv, QueueInv', NEW i \in 1..Len(queue), RemoveItem(i)
  PROVE  /\ admitted \subseteq admitted'
         /\ \A d \in Calls : ~Placed(d) => ~Placed(d)'
<1> DEFINE q == RemoveAt(queue, i)
<1>1. Line(q, admitted)
  BY QueueFacts, RemoveAtLine
<1>2. ASSUME NEW d \in Calls, ~Placed(d)
      PROVE  \A j \in 1..Len(q) : q[j].call # d
  <2>1. Line(queue, admitted \cup {d})
    BY <1>2, QueueFacts DEF Line
  <2>2. Line(q, admitted \cup {d})
    BY <2>1, RemoveAtLine
  <2> HIDE DEF q
  <2> QED BY <2>2 DEF Line
<1>3. ResolveNext(q, admitted)
  BY DEF RemoveItem
<1> HIDE DEF q
<1> QED BY <1>1, <1>2, <1>3, ResolveNextPlaces DEF Placed

-----------------------------------------------------------------------------
(* A step that changes the state of one call. *)
LEMMA OneCallChanges ==
  ASSUME LifeTypeOK, CallInv, UNCHANGED isEnabled,
         NEW c \in Calls, NEW r \in CallStates, call' = [call EXCEPT ![c] = r],
         admitted \ {c} \subseteq admitted',
         \A d \in Calls : d # c /\ ~Placed(d) => ~Placed(d)',
         Fits(r, isEnabled, c \in admitted', Placed(c)')
  PROVE  call' \in [Calls -> CallStates] /\ CallInv'
<1>1. call' \in [Calls -> CallStates]
  BY DEF LifeTypeOK
<1>2. ASSUME NEW d \in Calls
      PROVE  Fits(call[d], isEnabled, d \in admitted, Placed(d))'
  <2>1. CASE d = c
    BY <2>1 DEF LifeTypeOK
  <2>2. CASE d # c
    <3>1. call'[d] = call[d]
      BY <2>2 DEF LifeTypeOK
    <3>2. Fits(call[d], isEnabled, d \in admitted, Placed(d))
      BY DEF CallInv
    <3>3. Fits(call[d], isEnabled, d \in admitted', Placed(d)')
      BY <2>2, <3>2 DEF Fits
    <3> QED BY <3>1, <3>3
  <2> QED BY <2>1, <2>2
<1> QED BY <1>1, <1>2 DEF CallInv

(* The same when the queue is left alone. *)
LEMMA OneCallChangesAlone ==
  ASSUME LifeTypeOK, CallInv, UNCHANGED isEnabled, UNCHANGED queueVars,
         NEW c \in Calls, NEW r \in CallStates, call' = [call EXCEPT ![c] = r],
         Fits(r, isEnabled, c \in admitted, Placed(c))
  PROVE  call' \in [Calls -> CallStates] /\ CallInv'
<1>1. admitted' = admitted /\ \A d : Placed(d)' <=> Placed(d)
  BY DEF queueVars, Placed, QueuedCalls
<1> QED BY <1>1, OneCallChanges

(* Settling and cancelling change neither how far a call has come nor        *)
(* whether it has a promise.                                                 *)
Alike(f) ==
  \A d \in Calls : /\ f[d].stage = call[d].stage
                   /\ f[d].exec = call[d].exec
                   /\ f[d].mode = call[d].mode
                   /\ f[d].outcome = call[d].outcome
                   /\ f[d].promise # "none" <=> call[d].promise # "none"

LEMMA StopExecutionType ==
  ASSUME LifeTypeOK, NEW e \in Executions
  PROVE  /\ StopExecution(call, e) \in [Calls -> CallStates]
         /\ Alike(StopExecution(call, e))
         /\ FinalizeExecution(call, e) \in [Calls -> CallStates]
         /\ Alike(FinalizeExecution(call, e))
<1>1. call \in [Calls -> CallStates] /\ Alike(call)
  BY DEF LifeTypeOK, Alike
<1>2. CASE active[e] = NoEntry
  BY <1>1, <1>2 DEF StopExecution, FinalizeExecution
<1>3. CASE active[e] # NoEntry
  <2> DEFINE f == IF active[e].run = NoCall THEN call ELSE Cancel(call, active[e].run)
  <2>1. active[e].owner \in Calls /\ active[e].run \in Calls \cup {NoCall}
    BY <1>3 DEF LifeTypeOK, Entries
  <2>2. f \in [Calls -> CallStates] /\ Alike(f)
    BY <1>1, <2>1, CancelType DEF Alike
  <2> HIDE DEF f
  <2>3. Settle(f, active[e].owner) \in [Calls -> CallStates] /\ Alike(Settle(f, active[e].owner))
    BY <2>1, <2>2, SettleType DEF Alike
  <2>4. /\ Settle(call, active[e].owner) \in [Calls -> CallStates]
        /\ Alike(Settle(call, active[e].owner))
    BY <1>1, <2>1, SettleType DEF Alike
  <2> QED BY <1>3, <2>3, <2>4 DEF StopExecution, FinalizeExecution, f
<1> QED BY <1>2, <1>3

LEMMA CallsGoOn ==
  ASSUME LifeTypeOK, CallInv, UNCHANGED isEnabled, UNCHANGED queueVars,
         NEW f \in [Calls -> CallStates], Alike(f),
         NEW c \in Calls, NEW r \in CallStates, Fits(r, isEnabled, c \in admitted, Placed(c)),
         call' = f \/ call' = [f EXCEPT ![c] = r]
  PROVE  call' \in [Calls -> CallStates] /\ CallInv'
<1>1. admitted' = admitted /\ \A d : Placed(d)' <=> Placed(d)
  BY DEF queueVars, Placed, QueuedCalls
<1>2. call' \in [Calls -> CallStates]
  OBVIOUS
<1>3. ASSUME NEW d \in Calls
      PROVE  Fits(call[d], isEnabled, d \in admitted, Placed(d))'
  <2>1. Fits(call[d], isEnabled, d \in admitted, Placed(d))
    BY DEF CallInv
  <2>2. Fits(f[d], isEnabled, d \in admitted, Placed(d))
    <3>1. /\ f[d].stage = call[d].stage
          /\ f[d].exec = call[d].exec
          /\ f[d].mode = call[d].mode
          /\ f[d].outcome = call[d].outcome
          /\ f[d].promise # "none" <=> call[d].promise # "none"
      BY DEF Alike
    <3> QED BY <2>1, <3>1 DEF Fits
  <2>3. call'[d] = f[d] \/ (d = c /\ call'[d] = r)
    OBVIOUS
  <2> QED BY <1>1, <2>2, <2>3
<1> QED BY <1>2, <1>3 DEF CallInv

-----------------------------------------------------------------------------
(* The steps of ActiveExecutions. *)
Safe == LifeTypeOK /\ QueueInv /\ CallInv
KeepsSafe == [QueueNext]_queueVars /\ LifeTypeOK' /\ CallInv'

LEMMA ThrottleKeeps ==
  ASSUME Safe, NEW c \in Calls, NEW r \in CallStates, r.exec \in Executions,
         r.promise = "none", ~Placed(c), Throttle(c, r), UNCHANGED isEnabled
  PROVE  [QueueNext]_queueVars /\ call' \in [Calls -> CallStates] /\ CallInv'
<1> DEFINE passed == [r EXCEPT !.stage = "passed"]
           throttled == [r EXCEPT !.stage = "throttled"]
<1>1. passed \in CallStates /\ throttled \in CallStates
  BY DEF CallStates, Stages
<1>2. /\ passed.exec = r.exec /\ passed.promise = r.promise /\ passed.mode = r.mode
      /\ passed.stage = "passed"
      /\ throttled.exec = r.exec /\ throttled.promise = r.promise
      /\ throttled.stage = "throttled" /\ throttled.mode = r.mode
  BY DEF CallStates
<1>3. CASE ~isEnabled \/ IsUnlimited(r.mode)
  <2>1. call' = [call EXCEPT ![c] = passed] /\ UNCHANGED queueVars
    BY <1>3 DEF Throttle
  <2>2. Fits(passed, isEnabled, c \in admitted, Placed(c))
    BY <1>2, <1>3 DEF Fits, IsUnlimited, BeforeEntry
  <2> HIDE DEF passed
  <2> QED BY <1>1, <2>1, <2>2, OneCallChangesAlone DEF Safe
<1>4. CASE ~(~isEnabled \/ IsUnlimited(r.mode))
  <2>1. call' = [call EXCEPT ![c] = throttled] /\ Enqueue(c, r.exec)
    BY <1>4 DEF Throttle
  <2>2. QueueNext
    BY <2>1 DEF QueueNext, Arrive, Placed
  <2>3. QueueInv'
    BY <2>2, QueueNextInv DEF Safe
  <2>4. admitted \subseteq admitted' /\ \A d \in Calls : d # c /\ ~Placed(d) => ~Placed(d)'
    BY <2>1, <2>3, EnqueuePlaces DEF Safe
  <2>5. Fits(throttled, isEnabled, c \in admitted', Placed(c)')
    BY <1>2, <1>4 DEF Fits, BeforeEntry, IsUnlimited
  <2> HIDE DEF throttled
  <2> QED BY <1>1, <2>1, <2>2, <2>4, <2>5, OneCallChanges DEF Safe
<1> QED BY <1>3, <1>4

LEMMA CallFacts ==
  ASSUME Safe, NEW c \in Calls
  PROVE  call[c] \in CallStates /\ Fits(call[c], isEnabled, c \in admitted, Placed(c))
BY DEF Safe, LifeTypeOK, CallInv

LEMMA FreeFacts ==
  ASSUME NEW c \in Calls, IsFree(c)
  PROVE  ~Placed(c)
BY DEF IsFree, Placed

LEMMA CreateExecutionKeeps ==
  ASSUME Safe, NEW c \in Calls, NEW e \in Executions, NEW mode \in Modes,
         CreateExecution(c, e, mode)
  PROVE  KeepsSafe
<1> DEFINE r == [Idle EXCEPT !.stage = "ready", !.exec = e, !.mode = mode]
<1>1. r \in CallStates
  BY DEF CallStates, Idle, Stages
<1>2. Fits(r, isEnabled, c \in admitted, Placed(c))
  BY FreeFacts DEF CreateExecution, Fits, BeforeEntry, Idle
<1>3. db' \in [Executions -> Rows]
  BY DEF CreateExecution, Safe, LifeTypeOK, Rows, NoRow, Statuses
<1>4. call' = [call EXCEPT ![c] = r] /\ UNCHANGED <<queueVars, active, isEnabled>>
  BY DEF CreateExecution
<1> HIDE DEF r
<1> QED BY <1>1, <1>2, <1>3, <1>4, OneCallChangesAlone DEF Safe, KeepsSafe, LifeTypeOK

LEMMA EnterThrottleKeeps ==
  ASSUME Safe, NEW c \in Calls, EnterThrottle(c)
  PROVE  KeepsSafe
<1>1. /\ call[c].exec \in Executions
      /\ call[c].promise = "none"
      /\ ~Placed(c)
  BY CallFacts DEF EnterThrottle, Fits, BeforeEntry
<1> QED BY <1>1, CallFacts, ThrottleKeeps DEF EnterThrottle, KeepsSafe, Safe, LifeTypeOK

LEMMA MarkRunningKeeps ==
  ASSUME Safe, NEW c \in Calls, MarkRunning(c)
  PROVE  KeepsSafe
<1> DEFINE r == [call[c] EXCEPT !.stage = "marked"]
<1>1. r \in CallStates
  BY CallFacts DEF CallStates, Stages
<1>2. /\ r.stage = "marked" /\ r.exec = call[c].exec /\ r.promise = call[c].promise
      /\ r.mode = call[c].mode
  BY CallFacts DEF CallStates
<1>3. Fits(r, isEnabled, c \in admitted, Placed(c))
  BY <1>2, CallFacts DEF MarkRunning, IsLetThrough, Fits, BeforeEntry
<1>4. db' \in [Executions -> Rows]
  <2> DEFINE row == db[call[c].exec]
             new == [row EXCEPT !.status = "running",
                                !.waitTill = IF call[c].resume THEN FALSE ELSE row.waitTill]
  <2>1. db \in [Executions -> Rows] /\ call[c].exec \in Executions
    BY CallFacts DEF MarkRunning, IsLetThrough, Fits, Safe, LifeTypeOK
  <2>2. row \in Rows
    BY <2>1
  <2>3. new \in Rows
    <3> HIDE DEF row
    <3> QED BY <2>2 DEF Rows, Statuses
  <2>4. db' = [db EXCEPT ![call[c].exec] = new]
    BY DEF MarkRunning
  <2> HIDE DEF row, new
  <2> QED BY <2>1, <2>3, <2>4
<1>5. call' = [call EXCEPT ![c] = r] /\ UNCHANGED <<queueVars, active, isEnabled>>
  BY DEF MarkRunning
<1> HIDE DEF r
<1> QED BY <1>1, <1>3, <1>4, <1>5, OneCallChangesAlone DEF Safe, KeepsSafe, LifeTypeOK

LEMMA MarkRunningFailsKeeps ==
  ASSUME Safe, NEW c \in Calls, MarkRunningFails(c)
  PROVE  KeepsSafe
<1>1. Fits(Idle, isEnabled, c \in admitted, Placed(c))
  BY DEF Fits, BeforeEntry, Idle
<1> QED BY <1>1, IdleType, OneCallChangesAlone
        DEF MarkRunningFails, Safe, KeepsSafe, LifeTypeOK

LEMMA RegisterKeeps ==
  ASSUME Safe, NEW c \in Calls, Register(c)
  PROVE  KeepsSafe
<1> DEFINE r == [call[c] EXCEPT !.stage = "registered", !.promise = "pending"]
<1>1. r \in CallStates
  BY CallFacts DEF CallStates, Stages
<1>2. /\ r.stage = "registered" /\ r.exec = call[c].exec /\ r.promise = "pending"
      /\ r.mode = call[c].mode
  BY CallFacts DEF CallStates
<1>3. Fits(r, isEnabled, c \in admitted, Placed(c))
  BY <1>2, CallFacts DEF Register, Fits, BeforeEntry
<1>4. active' \in [Executions -> Entries \cup {NoEntry}]
  BY DEF Register, Safe, LifeTypeOK, Entries
<1>5. call' = [call EXCEPT ![c] = r] /\ UNCHANGED <<queueVars, db, isEnabled>>
  BY DEF Register
<1> HIDE DEF r
<1> QED BY <1>1, <1>3, <1>4, <1>5, OneCallChangesAlone DEF Safe, KeepsSafe, LifeTypeOK

LEMMA RemoveEntryKeeps ==
  ASSUME Safe, NEW c \in Calls, RemoveEntry(c)
  PROVE  KeepsSafe
<1> DEFINE r == [call[c] EXCEPT !.promise = "none"]
           new == IF r.stage = "idle" THEN Return(r) ELSE r
<1>1. r \in CallStates
  BY CallFacts DEF CallStates
<1>2. /\ r.stage = call[c].stage /\ r.exec = call[c].exec /\ r.promise = "none"
      /\ r.outcome = call[c].outcome /\ r.mode = call[c].mode
  BY CallFacts DEF CallStates
<1>3. /\ new \in CallStates
      /\ new.promise = "none"
      /\ new.stage = call[c].stage
      /\ new.stage # "idle" => /\ new.exec = call[c].exec /\ new.outcome = call[c].outcome
                              /\ new.mode = call[c].mode
  <2> HIDE DEF r
  <2> QED BY <1>1, <1>2, ReturnType
<1>4. call[c].stage \notin BeforeEntry
  BY CallFacts DEF RemoveEntry, Fits
<1>5. ASSUME NEW has, NEW placed, placed => Placed(c)
      PROVE  Fits(new, isEnabled, has, placed)
  <2> HIDE DEF new
  <2> QED BY <1>3, <1>4, <1>5, CallFacts DEF RemoveEntry, Fits, BeforeEntry
<1>6. /\ call' = [call EXCEPT ![c] = new]
      /\ UNCHANGED <<db, isEnabled>>
      /\ Release(c)
  BY DEF RemoveEntry
<1>7. active' \in [Executions -> Entries \cup {NoEntry}]
  BY DEF RemoveEntry, Safe, LifeTypeOK
<1> HIDE DEF new
<1>8. CASE ~isEnabled \/ IsUnlimited(call[c].mode)
  <2>1. UNCHANGED queueVars
    BY <1>6, <1>8 DEF Release
  <2> QED BY <1>3, <1>5, <1>6, <1>7, <2>1, OneCallChangesAlone DEF Safe, KeepsSafe, LifeTypeOK
<1>9. CASE ~(~isEnabled \/ IsUnlimited(call[c].mode))
  <2>1. Dequeue(c)
    BY <1>6, <1>9 DEF Release
  <2>2. c \in admitted
    BY <1>9, CallFacts DEF RemoveEntry, Fits, IsUnlimited
  <2>3. QueueNext
    BY <2>1, <2>2 DEF QueueNext, Leave
  <2>4. QueueInv'
    BY <2>3, QueueNextInv DEF Safe
  <2>5. admitted \ {c} \subseteq admitted' /\ \A d \in Calls : ~Placed(d) => ~Placed(d)'
    BY <2>1, <2>4, DequeuePlaces DEF Safe
  <2>6. Fits(new, isEnabled, c \in admitted', Placed(c)')
    BY <1>5, <2>5
  <2> QED BY <1>3, <1>6, <1>7, <2>3, <2>5, <2>6, OneCallChanges DEF Safe, KeepsSafe, LifeTypeOK
<1> QED BY <1>8, <1>9

(* A row that is written. *)
LEMMA RowWritten ==
  ASSUME LifeTypeOK, NEW e, NEW row \in Rows
  PROVE  [db EXCEPT ![e] = row] \in [Executions -> Rows]
BY DEF LifeTypeOK

LEMMA SavedRowType ==
  ASSUME NEW row \in Rows, NEW outcome \in Outcomes
  PROVE  SavedRow(row, outcome) \in Rows
<1> DEFINE waits == (outcome = "waiting") \/ row.waitTill
           fails == outcome \in {"error", "canceled"}
<1>1. waits \in BOOLEAN /\ fails \in BOOLEAN /\ outcome \in Statuses
  BY DEF Outcomes, Statuses
<1>2. SavedRow(row, outcome) =
        [row EXCEPT !.status = outcome, !.waitTill = waits, !.hasError = fails]
  BY DEF SavedRow
<1> HIDE DEF waits, fails
<1> QED BY <1>1, <1>2 DEF Rows

LEMMA RefuseRunKeeps ==
  ASSUME Safe, NEW c \in Calls, RefuseRun(c)
  PROVE  KeepsSafe
<1> DEFINE r == [call[c] EXCEPT !.stage = "saved"]
           row == [db[call[c].exec] EXCEPT !.status = "error", !.hasError = TRUE]
<1>1. r \in CallStates
  BY CallFacts DEF CallStates, Stages
<1>2. Fits(r, isEnabled, c \in admitted, Placed(c))
  BY CallFacts DEF RefuseRun, Fits, BeforeEntry, CallStates
<1>3. row \in Rows
  BY CallFacts DEF RefuseRun, Safe, LifeTypeOK, Rows, Statuses, Fits
<1>4. /\ call' = [call EXCEPT ![c] = r]
      /\ db' = [db EXCEPT ![call[c].exec] = row]
      /\ UNCHANGED <<queueVars, active, isEnabled>>
  BY DEF RefuseRun
<1> HIDE DEF r, row
<1> QED BY <1>1, <1>2, <1>3, <1>4, OneCallChangesAlone, RowWritten DEF Safe, KeepsSafe, LifeTypeOK

(* A call that returns without touching anything else. *)
LEMMA ReturnKeeps ==
  ASSUME Safe, NEW c \in Calls, call' = [call EXCEPT ![c] = Return(call[c])],
         UNCHANGED <<queueVars, db, active, isEnabled>>
  PROVE  KeepsSafe
<1>1. /\ Return(call[c]) \in CallStates
      /\ Return(call[c]).stage = "idle"
      /\ Return(call[c]).promise = call[c].promise
      /\ call[c].promise # "none" => /\ Return(call[c]).mode = call[c].mode
                                     /\ Return(call[c]).exec = call[c].exec
  BY CallFacts, ReturnType
<1>2. Fits(Return(call[c]), isEnabled, c \in admitted, Placed(c))
  BY <1>1, CallFacts DEF Fits, BeforeEntry
<1> QED BY <1>1, <1>2, OneCallChangesAlone DEF Safe, KeepsSafe, LifeTypeOK

LEMMA RejectRunKeeps ==
  ASSUME Safe, NEW c \in Calls, RejectRun(c) \/ PrepareRunFails(c)
  PROVE  KeepsSafe
BY ReturnKeeps DEF RejectRun, PrepareRunFails

LEMMA PrepareRunKeeps ==
  ASSUME Safe, NEW c \in Calls, PrepareRun(c)
  PROVE  KeepsSafe
<1> DEFINE r == [call[c] EXCEPT !.stage = "starting"]
           row == [db[call[c].exec] EXCEPT !.status = "running"]
<1>1. r \in CallStates
  BY CallFacts DEF CallStates, Stages
<1>2. Fits(r, isEnabled, c \in admitted, Placed(c))
  BY CallFacts DEF PrepareRun, Fits, BeforeEntry, CallStates
<1>3. row \in Rows
  BY CallFacts DEF PrepareRun, Safe, LifeTypeOK, Rows, Statuses, Fits
<1>4. /\ call' = [call EXCEPT ![c] = r]
      /\ db' = [db EXCEPT ![call[c].exec] = row]
      /\ UNCHANGED <<queueVars, active, isEnabled>>
  BY DEF PrepareRun
<1> HIDE DEF r, row
<1> QED BY <1>1, <1>2, <1>3, <1>4, OneCallChangesAlone, RowWritten DEF Safe, KeepsSafe, LifeTypeOK

LEMMA StartRunKeeps ==
  ASSUME Safe, NEW c \in Calls, StartRun(c)
  PROVE  KeepsSafe
<1>1. ASSUME NEW r \in {[call[c] EXCEPT !.stage = "running"],
                        [call[c] EXCEPT !.stage = "running", !.tracked = TRUE]}
      PROVE  r \in CallStates /\ Fits(r, isEnabled, c \in admitted, Placed(c))
  <2>1. r \in CallStates
    BY <1>1, CallFacts DEF CallStates, Stages
  <2>2. /\ r.stage = "running" /\ r.exec = call[c].exec /\ r.mode = call[c].mode
        /\ r.promise = call[c].promise
    BY <1>1, CallFacts DEF CallStates
  <2> QED BY <2>1, <2>2, CallFacts DEF StartRun, Fits, BeforeEntry
<1>2. active' \in [Executions -> Entries \cup {NoEntry}]
  <2>1. ASSUME active[call[c].exec] # NoEntry
        PROVE  [active EXCEPT ![call[c].exec].run = c] \in [Executions -> Entries \cup {NoEntry}]
    BY <2>1 DEF Safe, LifeTypeOK, Entries
  <2> QED BY <2>1 DEF StartRun, Safe, LifeTypeOK
<1>3. PICK r \in {[call[c] EXCEPT !.stage = "running"],
                  [call[c] EXCEPT !.stage = "running", !.tracked = TRUE]} :
        call' = [call EXCEPT ![c] = r]
  BY DEF StartRun
<1>4. UNCHANGED <<queueVars, db, isEnabled>>
  BY DEF StartRun
<1> QED BY <1>1, <1>2, <1>3, <1>4, OneCallChangesAlone DEF Safe, KeepsSafe, LifeTypeOK

LEMMA StartRunFailsKeeps ==
  ASSUME Safe, NEW c \in Calls, StartRunFails(c)
  PROVE  KeepsSafe
<1> DEFINE f == FinalizeExecution(call, call[c].exec)
           r == IF active[call[c].exec] = NoEntry THEN Return(f[c])
                ELSE [f[c] EXCEPT !.stage = "saving", !.outcome = "error"]
<1>1. call[c].exec \in Executions
  BY CallFacts DEF StartRunFails, Fits
<1>2. f \in [Calls -> CallStates] /\ Alike(f)
  BY <1>1, StopExecutionType DEF Safe
<1>3. call' = [f EXCEPT ![c] = r] /\ UNCHANGED <<queueVars, db, active, isEnabled>>
  BY DEF StartRunFails
<1> HIDE DEF f
<1>4. /\ f[c] \in CallStates /\ f[c].exec = call[c].exec /\ f[c].mode = call[c].mode
      /\ f[c].promise # "none" <=> call[c].promise # "none"
  BY <1>2 DEF Alike
<1>5. /\ Return(f[c]) \in CallStates
      /\ Fits(Return(f[c]), isEnabled, c \in admitted, Placed(c))
  BY <1>4, ReturnType, CallFacts DEF Fits, BeforeEntry
<1>6. /\ [f[c] EXCEPT !.stage = "saving", !.outcome = "error"] \in CallStates
      /\ Fits([f[c] EXCEPT !.stage = "saving", !.outcome = "error"],
              isEnabled, c \in admitted, Placed(c))
  BY <1>1, <1>4, CallFacts
     DEF StartRunFails, Fits, BeforeEntry, CallStates, Stages, Outcomes
<1>7. r \in CallStates /\ Fits(r, isEnabled, c \in admitted, Placed(c))
  BY <1>5, <1>6
<1> HIDE DEF r
<1> QED BY <1>2, <1>3, <1>7, CallsGoOn DEF Safe, KeepsSafe, LifeTypeOK

LEMMA EndRunKeeps ==
  ASSUME Safe, NEW c \in Calls, NEW outcome \in Outcomes, EndRun(c, outcome)
  PROVE  KeepsSafe
<1> DEFINE r == [call[c] EXCEPT !.stage = "saving", !.outcome = outcome]
<1>1. r \in CallStates
  BY CallFacts DEF CallStates, Stages
<1>2. /\ r.stage = "saving" /\ r.exec = call[c].exec /\ r.mode = call[c].mode
      /\ r.promise = call[c].promise
  BY CallFacts DEF CallStates
<1>3. Fits(r, isEnabled, c \in admitted, Placed(c))
  BY <1>2, CallFacts DEF EndRun, Fits, BeforeEntry
<1>4. call' = [call EXCEPT ![c] = r] /\ UNCHANGED <<queueVars, db, active, isEnabled>>
  BY DEF EndRun
<1> HIDE DEF r
<1> QED BY <1>1, <1>3, <1>4, OneCallChangesAlone DEF Safe, KeepsSafe, LifeTypeOK

LEMMA EndAbortedKeeps ==
  ASSUME Safe, NEW c \in Calls, EndAborted(c)
  PROVE  KeepsSafe
<1> DEFINE saved == [call[c] EXCEPT !.stage = "saved"]
           r == IF call[c].tracked THEN saved ELSE Return(call[c])
<1>1. saved \in CallStates /\ Return(call[c]) \in CallStates
  BY CallFacts, ReturnType DEF CallStates, Stages
<1>2. Fits(saved, isEnabled, c \in admitted, Placed(c))
  BY CallFacts DEF EndAborted, Fits, BeforeEntry, CallStates
<1>3. Fits(Return(call[c]), isEnabled, c \in admitted, Placed(c))
  BY CallFacts, ReturnType DEF Fits, BeforeEntry
<1>4. r \in CallStates /\ Fits(r, isEnabled, c \in admitted, Placed(c))
  BY <1>1, <1>2, <1>3
<1>5. call' = [call EXCEPT ![c] = r] /\ UNCHANGED <<queueVars, db, active, isEnabled>>
  BY DEF EndAborted
<1> HIDE DEF r
<1> QED BY <1>4, <1>5, OneCallChangesAlone DEF Safe, KeepsSafe, LifeTypeOK

LEMMA SaveRunKeeps ==
  ASSUME Safe, NEW c \in Calls, SaveRun(c)
  PROVE  KeepsSafe
<1> DEFINE saved == [call[c] EXCEPT !.stage = "saved"]
           r == IF call[c].tracked THEN saved ELSE Return(call[c])
           row == SavedRow(db[call[c].exec], call[c].outcome)
<1>1. saved \in CallStates /\ Return(call[c]) \in CallStates
  BY CallFacts, ReturnType DEF CallStates, Stages
<1>2. Fits(saved, isEnabled, c \in admitted, Placed(c))
  BY CallFacts DEF SaveRun, Fits, BeforeEntry, CallStates
<1>3. Fits(Return(call[c]), isEnabled, c \in admitted, Placed(c))
  BY CallFacts, ReturnType DEF Fits, BeforeEntry
<1>4. r \in CallStates /\ Fits(r, isEnabled, c \in admitted, Placed(c))
  BY <1>1, <1>2, <1>3
<1>5. db[call[c].exec] \in Rows
  BY CallFacts DEF SaveRun, Fits, Safe, LifeTypeOK
<1>6. row \in Rows
  <2>1. call[c].outcome \in Outcomes
    BY CallFacts DEF SaveRun, Fits
  <2> QED BY <1>5, <2>1, SavedRowType
<1>7. /\ call' = [call EXCEPT ![c] = r]
      /\ db' = [db EXCEPT ![call[c].exec] = row]
      /\ UNCHANGED <<queueVars, active, isEnabled>>
  BY DEF SaveRun
<1> HIDE DEF r, row
<1> QED BY <1>4, <1>6, <1>7, OneCallChangesAlone, RowWritten DEF Safe, KeepsSafe, LifeTypeOK

LEMMA FinalizeRunKeeps ==
  ASSUME Safe, NEW c \in Calls, FinalizeRun(c)
  PROVE  KeepsSafe
<1> DEFINE f == FinalizeExecution(call, call[c].exec)
<1>1. call[c].exec \in Executions
  BY CallFacts DEF FinalizeRun, Fits
<1>2. f \in [Calls -> CallStates] /\ Alike(f)
  BY <1>1, StopExecutionType DEF Safe
<1>3. call' = [f EXCEPT ![c] = Return(f[c])] /\ UNCHANGED <<queueVars, db, active, isEnabled>>
  BY DEF FinalizeRun
<1> HIDE DEF f
<1>4. /\ f[c] \in CallStates /\ f[c].exec = call[c].exec /\ f[c].mode = call[c].mode
      /\ f[c].promise # "none" <=> call[c].promise # "none"
  BY <1>2 DEF Alike
<1>5. /\ Return(f[c]) \in CallStates
      /\ Fits(Return(f[c]), isEnabled, c \in admitted, Placed(c))
  BY <1>4, ReturnType, CallFacts DEF Fits, BeforeEntry
<1> QED BY <1>2, <1>3, <1>5, CallsGoOn DEF Safe, KeepsSafe, LifeTypeOK

LEMMA SaveCanceledKeeps ==
  ASSUME Safe, NEW c \in Calls, SaveCanceled(c)
  PROVE  KeepsSafe
<1> DEFINE r == [call[c] EXCEPT !.hook = FALSE]
           new == IF r.stage = "idle" THEN Return(r) ELSE r
           row == [db[call[c].exec] EXCEPT !.status = "canceled", !.hasError = FALSE]
<1>1. r \in CallStates
  BY CallFacts DEF CallStates
<1>2. /\ r.stage = call[c].stage /\ r.exec = call[c].exec /\ r.mode = call[c].mode
      /\ r.outcome = call[c].outcome /\ r.promise = call[c].promise
  BY CallFacts DEF CallStates
<1>3. new \in CallStates /\ Fits(new, isEnabled, c \in admitted, Placed(c))
  <2> HIDE DEF r
  <2>1. Fits(r, isEnabled, c \in admitted, Placed(c))
    BY <1>2, CallFacts DEF Fits
  <2>2. Return(r) \in CallStates /\ Fits(Return(r), isEnabled, c \in admitted, Placed(c))
    BY <1>1, <2>1, ReturnType DEF Fits, BeforeEntry
  <2> QED BY <1>1, <2>1, <2>2
<1>4. db' \in [Executions -> Rows]
  <2>1. CASE call[c].exec \in Executions
    <3>1. row \in Rows
      <4>1. db[call[c].exec] \in Rows
        BY <2>1 DEF Safe, LifeTypeOK
      <4> QED BY <4>1 DEF Rows, Statuses
    <3> HIDE DEF row
    <3> QED BY <3>1, RowWritten DEF SaveCanceled, Safe, row
  <2>2. CASE call[c].exec \notin Executions
    BY <2>2 DEF SaveCanceled, Safe, LifeTypeOK
  <2> QED BY <2>1, <2>2
<1>5. call' = [call EXCEPT ![c] = new] /\ UNCHANGED <<queueVars, active, isEnabled>>
  BY DEF SaveCanceled
<1> HIDE DEF new
<1> QED BY <1>3, <1>4, <1>5, OneCallChangesAlone DEF Safe, KeepsSafe, LifeTypeOK

LEMMA TimeOutKeeps ==
  ASSUME Safe, NEW c \in Calls, TimeOut(c)
  PROVE  KeepsSafe
<1> DEFINE f == StopExecution(call, call[c].exec)
<1>1. call[c].exec \in Executions
  BY CallFacts DEF TimeOut, Fits
<1>2. f \in [Calls -> CallStates] /\ Alike(f)
  BY <1>1, StopExecutionType DEF Safe
<1>3. call' = f /\ UNCHANGED <<queueVars, db, active, isEnabled>>
  BY DEF TimeOut
<1> HIDE DEF f
<1> QED BY <1>2, <1>3, CallFacts, CallsGoOn DEF Safe, KeepsSafe, LifeTypeOK

LEMMA CallKeepsSafe ==
  ASSUME Safe, NEW c \in Calls, Proceed(c) \/ Disturb(c)
  PROVE  KeepsSafe
<1>1. ASSUME Proceed(c)
      PROVE  KeepsSafe
  <2>1. CASE EnterThrottle(c)
    BY <2>1, EnterThrottleKeeps
  <2>2. CASE MarkRunning(c)
    BY <2>2, MarkRunningKeeps
  <2>3. CASE Register(c)
    BY <2>3, RegisterKeeps
  <2>4. CASE RemoveEntry(c)
    BY <2>4, RemoveEntryKeeps
  <2>5. CASE PrepareRun(c)
    BY <2>5, PrepareRunKeeps
  <2>6. CASE StartRun(c)
    BY <2>6, StartRunKeeps
  <2>7. CASE \E outcome \in Outcomes : EndRun(c, outcome)
    BY <2>7, EndRunKeeps
  <2>8. CASE SaveRun(c)
    BY <2>8, SaveRunKeeps
  <2>9. CASE FinalizeRun(c)
    BY <2>9, FinalizeRunKeeps
  <2>10. CASE SaveCanceled(c)
    BY <2>10, SaveCanceledKeeps
  <2>11. CASE EndAborted(c)
    BY <2>11, EndAbortedKeeps
  <2> QED BY <1>1, <2>1, <2>2, <2>3, <2>4, <2>5, <2>6, <2>7, <2>8, <2>9, <2>10, <2>11 DEF Proceed
<1>2. ASSUME Disturb(c)
      PROVE  KeepsSafe
  <2>1. CASE MarkRunningFails(c)
    BY <2>1, MarkRunningFailsKeeps
  <2>2. CASE RefuseRun(c)
    BY <2>2, RefuseRunKeeps
  <2>3. CASE RejectRun(c) \/ PrepareRunFails(c)
    BY <2>3, RejectRunKeeps
  <2>4. CASE StartRunFails(c)
    BY <2>4, StartRunFailsKeeps
  <2>5. CASE TimeOut(c)
    BY <2>5, TimeOutKeeps
  <2> QED BY <1>2, <2>1, <2>2, <2>3, <2>4, <2>5 DEF Disturb
<1> QED BY <1>1, <1>2

-----------------------------------------------------------------------------
(* The steps of WaitTracker and ExecutionService. *)

LEMMA NothingKeepsSafe ==
  ASSUME Safe, UNCHANGED <<queueVars, lifeVars>>
  PROVE  KeepsSafe
<1>1. \A d : Placed(d)' <=> Placed(d)
  BY DEF queueVars, Placed, QueuedCalls
<1>2. CallInv'
  BY <1>1 DEF Safe, CallInv, queueVars, lifeVars
<1> QED BY <1>2 DEF Safe, KeepsSafe, LifeTypeOK, lifeVars

LEMMA TrackKeeps ==
  ASSUME Safe, TrackerTypeOK, Poll \/ ArmTimers
  PROVE  KeepsSafe /\ TrackerTypeOK'
<1>1. KeepsSafe
  BY NothingKeepsSafe DEF Poll, ArmTimers
<1>2. CASE Poll
  <2>1. query' \in SUBSET Executions
    BY <1>2 DEF Poll, DueExecutions
  <2> QED BY <1>1, <1>2, <2>1 DEF Poll, TrackerTypeOK
<1>3. CASE ArmTimers
  <2>1. waitingExecutions' \in [Executions -> Timers]
    BY <1>3 DEF ArmTimers, TrackerTypeOK, Timers
  <2>2. isTracking' = isTracking /\ query' = NoQuery
    BY <1>3 DEF ArmTimers
  <2>3. isTracking' \in BOOLEAN
    BY <2>2 DEF TrackerTypeOK
  <2>4. query' \in (SUBSET Executions) \cup {NoQuery}
    BY <2>2
  <2> QED BY <1>1, <2>1, <2>3, <2>4 DEF TrackerTypeOK
<1> QED BY <1>1, <1>2, <1>3

LEMMA FireTimerKeeps ==
  ASSUME Safe, TrackerTypeOK, NEW c \in Calls, NEW e \in Executions, FireTimer(c, e)
  PROVE  KeepsSafe /\ TrackerTypeOK'
<1> DEFINE r == [Idle EXCEPT !.stage = "reading", !.exec = e, !.resume = TRUE]
<1>1. r \in CallStates
  BY DEF CallStates, Idle, Stages, Modes
<1>2. Fits(r, isEnabled, c \in admitted, Placed(c))
  BY FreeFacts DEF FireTimer, Fits, BeforeEntry, Idle
<1>3. call' = [call EXCEPT ![c] = r] /\ UNCHANGED <<queueVars, db, active, isEnabled>>
  BY DEF FireTimer
<1>4. TrackerTypeOK'
  BY DEF FireTimer, TrackerTypeOK, Timers
<1> HIDE DEF r
<1> QED BY <1>1, <1>2, <1>3, <1>4, OneCallChangesAlone DEF Safe, KeepsSafe, LifeTypeOK

LEMMA ReadWaitingKeeps ==
  ASSUME Safe, NEW c \in Calls, ReadWaiting(c)
  PROVE  KeepsSafe
<1> DEFINE row == db[call[c].exec]
           ready == [call[c] EXCEPT !.stage = "ready", !.mode = row.mode]
           r == IF row.status = "success" THEN Idle ELSE ready
<1>1. row \in Rows
  BY CallFacts DEF ReadWaiting, Fits, Safe, LifeTypeOK
<1>2. row.mode \in Modes
  BY <1>1 DEF Rows
<1>3. call' = [call EXCEPT ![c] = r] /\ UNCHANGED <<queueVars, db, active, isEnabled>>
  BY DEF ReadWaiting
<1> HIDE DEF row
<1>4. ready \in CallStates /\ Fits(ready, isEnabled, c \in admitted, Placed(c))
  BY <1>2, CallFacts DEF ReadWaiting, CallStates, Stages, Fits, BeforeEntry
<1>5. Fits(Idle, isEnabled, c \in admitted, Placed(c))
  BY DEF Fits, BeforeEntry, Idle
<1>6. r \in CallStates /\ Fits(r, isEnabled, c \in admitted, Placed(c))
  BY <1>4, <1>5, IdleType
<1> HIDE DEF r
<1> QED BY <1>3, <1>6, OneCallChangesAlone DEF Safe, KeepsSafe, LifeTypeOK

LEMMA ResumeByWebhookKeeps ==
  ASSUME Safe, NEW c \in Calls, NEW e \in Executions, ResumeByWebhook(c, e)
  PROVE  KeepsSafe
<1> DEFINE r == [Idle EXCEPT !.stage = "ready", !.exec = e, !.mode = "webhook", !.resume = TRUE]
<1>1. r \in CallStates
  BY DEF CallStates, Idle, Stages, Modes
<1>2. Fits(r, isEnabled, c \in admitted, Placed(c))
  BY FreeFacts DEF ResumeByWebhook, Fits, BeforeEntry, Idle
<1>3. call' = [call EXCEPT ![c] = r] /\ UNCHANGED <<queueVars, db, active, isEnabled>>
  BY DEF ResumeByWebhook
<1> HIDE DEF r
<1> QED BY <1>1, <1>2, <1>3, OneCallChangesAlone DEF Safe, KeepsSafe, LifeTypeOK

StopTypeOK == stop \in [Requests -> StopStates]

LEMMA RequestStopKeeps ==
  ASSUME Safe, TrackerTypeOK, StopTypeOK, NEW s \in Requests, NEW e \in Executions,
         RequestStop(s, e)
  PROVE  KeepsSafe /\ TrackerTypeOK' /\ StopTypeOK'
<1>1. KeepsSafe
  BY NothingKeepsSafe DEF RequestStop
<1>2. TrackerTypeOK'
  BY DEF RequestStop, TrackerTypeOK, trackerVars
<1>3. StopTypeOK'
  BY DEF RequestStop, StopTypeOK, StopStates, Safe, LifeTypeOK, Rows
<1> QED BY <1>1, <1>2, <1>3

LEMMA StopFacts ==
  ASSUME StopTypeOK, NEW s \in Requests, stop[s].stage # "idle"
  PROVE  /\ stop[s].exec \in Executions
         /\ \A stage \in {"found", "before", "during"} :
              [stop EXCEPT ![s].stage = stage] \in [Requests -> StopStates]
BY DEF StopTypeOK, StopStates, NotStopping

LEMMA StopQueuedKeeps ==
  ASSUME Safe, StopTypeOK, NEW s \in Requests, StopQueued(s)
  PROVE  KeepsSafe /\ StopTypeOK'
<1>1. StopTypeOK'
  BY StopFacts DEF StopQueued, StopTypeOK
<1>2. UNCHANGED <<db, active, isEnabled>>
  BY DEF StopQueued
<1>3. CASE IsUnlimited(stop[s].mode)
  BY <1>1, <1>3, NothingKeepsSafe DEF StopQueued, RemoveFromQueue, lifeVars
<1>4. CASE ~IsUnlimited(stop[s].mode)
  <2>1. PICK i \in DOMAIN queue : /\ IsFirstOf(i, stop[s].exec)
                                  /\ RemoveItem(i)
                                  /\ call' = [call EXCEPT ![queue[i].call] = Idle]
    BY <1>4 DEF StopQueued, RemoveFromQueue
  <2>2. stop[s].exec \in Executions
    BY StopFacts DEF StopQueued
  <2>3. QueueNext
    BY <2>1, <2>2 DEF QueueNext, RemoveExecution
  <2>4. QueueInv'
    BY <2>3, QueueNextInv DEF Safe
  <2>5. i \in 1..Len(queue) /\ queue[i].call \in Calls
    BY QueueFacts DEF Safe
  <2>6. admitted \subseteq admitted' /\ \A d \in Calls : ~Placed(d) => ~Placed(d)'
    BY <2>1, <2>4, <2>5, RemoveItemPlaces DEF Safe
  <2>7. ASSUME NEW has, NEW placed
        PROVE  Fits(Idle, isEnabled, has, placed)
    BY DEF Fits, BeforeEntry, Idle
  <2>8. CallInv' /\ call' \in [Calls -> CallStates]
    BY <1>2, <2>1, <2>5, <2>6, <2>7, IdleType, OneCallChanges DEF Safe
  <2> QED BY <1>1, <1>2, <2>3, <2>8 DEF Safe, KeepsSafe, LifeTypeOK
<1> QED BY <1>3, <1>4

LEMMA StopOtherKeeps ==
  ASSUME Safe, TrackerTypeOK, StopTypeOK, NEW s \in Requests, StopOther(s)
  PROVE  KeepsSafe /\ TrackerTypeOK' /\ StopTypeOK'
<1> DEFINE f == StopExecution(call, stop[s].exec)
<1>1. StopTypeOK'
  BY StopFacts DEF StopOther, StopTypeOK
<1>2. TrackerTypeOK'
  BY DEF StopOther, TrackerTypeOK, WithoutTimer, Timers
<1>3. f \in [Calls -> CallStates] /\ Alike(f)
  BY StopFacts, StopExecutionType DEF StopOther, Safe
<1>4. call' = f /\ UNCHANGED <<queueVars, db, active, isEnabled>>
  BY DEF StopOther
<1> HIDE DEF f
<1>5. CallInv'
  <2>1. CASE Calls = {}
    BY <2>1 DEF CallInv
  <2>2. CASE Calls # {}
    <3>1. PICK c \in Calls : TRUE
      BY <2>2
    <3> QED BY <1>3, <1>4, <3>1, CallFacts, CallsGoOn DEF Safe
  <2> QED BY <2>1, <2>2
<1> QED BY <1>1, <1>2, <1>3, <1>4, <1>5 DEF Safe, KeepsSafe, LifeTypeOK

LEMMA WriteStoppedKeeps ==
  ASSUME Safe, StopTypeOK, NEW s \in Requests, WriteStopped(s)
  PROVE  KeepsSafe /\ StopTypeOK'
<1> DEFINE row == db[stop[s].exec]
           before == [row EXCEPT !.status = "canceled"]
           during == [row EXCEPT !.status = "canceled", !.waitTill = FALSE, !.hasError = TRUE]
           new == IF stop[s].stage = "before" THEN before ELSE during
<1>1. row \in Rows
  BY StopFacts DEF WriteStopped, Safe, LifeTypeOK
<1>2. /\ db' = [db EXCEPT ![stop[s].exec] = new]
      /\ UNCHANGED <<queueVars, call, active, isEnabled>>
  BY DEF WriteStopped
<1> HIDE DEF row
<1>3. new \in Rows
  BY <1>1 DEF Rows, Statuses
<1> HIDE DEF new
<1>4. db' \in [Executions -> Rows]
  BY <1>2, <1>3, RowWritten DEF Safe
<1>5. CallInv'
  <2>1. \A d : Placed(d)' <=> Placed(d)
    BY <1>2 DEF queueVars, Placed, QueuedCalls
  <2> QED BY <1>2, <2>1 DEF Safe, CallInv, queueVars
<1>6. StopTypeOK'
  BY DEF WriteStopped, StopTypeOK, StopStates
<1> QED BY <1>2, <1>4, <1>5, <1>6 DEF Safe, KeepsSafe, LifeTypeOK

-----------------------------------------------------------------------------
(* The steps of the process. *)

LEMMA InvParts ==
  Inv <=> /\ Safe /\ TrackerTypeOK /\ StopTypeOK
          /\ phase \in Phases /\ restarts \in 0..MaxRestarts /\ enqueued \in SUBSET Executions
          /\ phase = "stopping" => restarts < MaxRestarts
BY DEF Inv, TypeOK, Safe, QueueInv, StopTypeOK

LEMMA InvPartsNext ==
  Inv' <=> /\ Safe' /\ TrackerTypeOK' /\ StopTypeOK'
           /\ phase' \in Phases /\ restarts' \in 0..MaxRestarts
           /\ enqueued' \in SUBSET Executions
           /\ phase' = "stopping" => restarts' < MaxRestarts
BY DEF Inv, TypeOK, Safe, QueueInv, StopTypeOK

(* What is to be shown of every step. *)
Kept == ([QueueNext]_queueVars \/ phase' = "down") /\ Inv'

(* A step of the components. *)
LEMMA ComponentStep ==
  ASSUME Inv, KeepsSafe, TrackerTypeOK', StopTypeOK', UNCHANGED processVars
  PROVE  Kept
<1>1. Safe'
  BY QueueNextInv, InvParts DEF KeepsSafe, Safe
<1> QED BY <1>1, InvParts, InvPartsNext DEF Kept, KeepsSafe, processVars

LEMMA GoDownKeeps ==
  ASSUME Inv, GoDown, restarts < MaxRestarts
  PROVE  Kept
<1>1. QueueInv'
  <2>1. QueueInit'
    BY DEF GoDown, QueueInit
  <2>2. QueueInit' => QueueInv'
    BY QueueInitInv, PTL
  <2> QED BY <2>1, <2>2
<1>2. LifeTypeOK'
  BY InvParts, IdleType DEF GoDown, Safe, LifeTypeOK
<1>3. CallInv'
  <2>1. ASSUME NEW c \in Calls
        PROVE  Fits(call[c], isEnabled, c \in admitted, Placed(c))'
    <3>1. call'[c] = Idle
      BY DEF GoDown
    <3>2. Fits(Idle, isEnabled', c \in admitted', Placed(c)')
      BY DEF Fits, BeforeEntry, Idle
    <3> QED BY <3>1, <3>2
  <2> QED BY <2>1 DEF CallInv
<1>4. TrackerTypeOK' /\ StopTypeOK'
  <2>1. waitingExecutions' \in [Executions -> Timers]
    BY DEF GoDown, Timers
  <2>2. isTracking' \in BOOLEAN /\ query' \in (SUBSET Executions) \cup {NoQuery}
    BY DEF GoDown
  <2>3. StopTypeOK'
    BY DEF GoDown, StopTypeOK, StopStates
  <2> QED BY <2>1, <2>2, <2>3 DEF TrackerTypeOK
<1>5. /\ phase' \in Phases /\ phase' = "down"
      /\ restarts' \in 0..MaxRestarts /\ enqueued' \in SUBSET Executions
  <2>1. restarts \in 0..MaxRestarts /\ restarts' = restarts + 1
    BY InvParts DEF GoDown
  <2>2. restarts' \in 0..MaxRestarts
    BY <2>1, EnvironmentTypes
  <2> QED BY <2>2 DEF GoDown, Phases
<1> QED BY <1>1, <1>2, <1>3, <1>4, <1>5, InvPartsNext DEF Kept, Safe

LEMMA NewExecutionArrivesKeeps ==
  ASSUME Inv, NEW c \in Calls, NEW e \in Executions, NEW mode \in CreateModes,
         NewExecutionArrives(c, e, mode)
  PROVE  Kept
<1>1. mode \in Modes
  BY EnvironmentTypes
<1>2. KeepsSafe
  BY <1>1, InvParts, CreateExecutionKeeps DEF NewExecutionArrives
<1> QED BY <1>2, InvParts, ComponentStep
        DEF NewExecutionArrives, trackerVars, stopVars, TrackerTypeOK, StopTypeOK

LEMMA CallStepKeeps ==
  ASSUME Inv, NEW c \in Calls, CallProceeds(c) \/ CallDisturbed(c)
  PROVE  Kept
<1>1. KeepsSafe
  BY InvParts, CallKeepsSafe DEF CallProceeds, CallDisturbed
<1> QED BY <1>1, InvParts, ComponentStep
        DEF CallProceeds, CallDisturbed, trackerVars, stopVars, TrackerTypeOK, StopTypeOK

LEMMA TrackerStepKeeps ==
  ASSUME Inv, \/ Track
              \/ \E c \in Calls : ResumeWaiting(c)
              \/ \E c \in Calls, e \in Executions : ResumeOnRequest(c, e)
  PROVE  Kept
<1>1. CASE Track
  <2>1. KeepsSafe /\ TrackerTypeOK' /\ StopTypeOK'
    BY <1>1, InvParts, TrackKeeps DEF Track, stopVars, StopTypeOK
  <2> QED BY <1>1, <2>1, ComponentStep DEF Track
<1>2. ASSUME NEW c \in Calls, ResumeWaiting(c)
      PROVE  Kept
  <2>1. ASSUME NEW e \in Executions, FireTimer(c, e)
        PROVE  KeepsSafe /\ TrackerTypeOK'
    BY <2>1, InvParts, FireTimerKeeps
  <2>2. ASSUME ReadWaiting(c)
        PROVE  KeepsSafe /\ TrackerTypeOK'
    BY <2>2, InvParts, ReadWaitingKeeps DEF ReadWaiting, trackerVars, TrackerTypeOK
  <2>3. KeepsSafe /\ TrackerTypeOK' /\ StopTypeOK'
    BY <1>2, <2>1, <2>2, InvParts DEF ResumeWaiting, TimerFires, RowIsRead, stopVars, StopTypeOK
  <2> QED BY <1>2, <2>3, ComponentStep DEF ResumeWaiting, TimerFires, RowIsRead
<1>3. ASSUME NEW c \in Calls, NEW e \in Executions, ResumeOnRequest(c, e)
      PROVE  Kept
  <2>1. KeepsSafe
    BY <1>3, InvParts, ResumeByWebhookKeeps DEF ResumeOnRequest
  <2>2. TrackerTypeOK'
    BY <1>3, InvParts DEF ResumeOnRequest, ResumeByWebhook, trackerVars, TrackerTypeOK
  <2>3. StopTypeOK'
    BY <1>3, InvParts DEF ResumeOnRequest, stopVars, StopTypeOK
  <2> QED BY <1>3, <2>1, <2>2, <2>3, ComponentStep DEF ResumeOnRequest
<1> QED BY <1>1, <1>2, <1>3

LEMMA StopStepKeeps ==
  ASSUME Inv, NEW s \in Requests,
         (\E e \in Executions : StopArrives(s, e)) \/ StopIsServed(s)
  PROVE  Kept
<1>1. ASSUME NEW e \in Executions, StopArrives(s, e)
      PROVE  Kept
  BY <1>1, InvParts, RequestStopKeeps, ComponentStep DEF StopArrives
<1>2. CASE StopIsServed(s)
  <2>1. ASSUME StopQueued(s)
        PROVE  KeepsSafe /\ TrackerTypeOK' /\ StopTypeOK'
    BY <2>1, InvParts, StopQueuedKeeps DEF StopQueued, trackerVars, TrackerTypeOK
  <2>2. ASSUME StopOther(s)
        PROVE  KeepsSafe /\ TrackerTypeOK' /\ StopTypeOK'
    BY <2>2, InvParts, StopOtherKeeps
  <2>3. ASSUME WriteStopped(s)
        PROVE  KeepsSafe /\ TrackerTypeOK' /\ StopTypeOK'
    BY <2>3, InvParts, WriteStoppedKeeps DEF WriteStopped, trackerVars, TrackerTypeOK
  <2>4. KeepsSafe /\ TrackerTypeOK' /\ StopTypeOK'
    BY <1>2, <2>1, <2>2, <2>3 DEF StopIsServed, ServeStop
  <2> QED BY <1>2, <2>4, ComponentStep DEF StopIsServed
<1> QED BY <1>1, <1>2

LEMMA FindEnqueuedKeeps ==
  ASSUME Inv, FindEnqueued
  PROVE  Kept
<1>1. KeepsSafe
  BY InvParts, NothingKeepsSafe DEF FindEnqueued
<1>2. Safe'
  BY <1>1, InvParts, QueueNextInv DEF KeepsSafe, Safe
<1>3. TrackerTypeOK' /\ StopTypeOK'
  BY InvParts DEF FindEnqueued, trackerVars, stopVars, TrackerTypeOK, StopTypeOK
<1>4. phase' \in Phases /\ phase' # "stopping" /\ enqueued' \in SUBSET Executions
  BY DEF FindEnqueued, Phases, NewExecutions
<1>5. restarts' \in 0..MaxRestarts
  BY InvParts DEF FindEnqueued
<1> QED BY <1>1, <1>2, <1>3, <1>4, <1>5, InvPartsNext DEF Kept, KeepsSafe

LEMMA RunEnqueuedKeeps ==
  ASSUME Inv, NEW c \in Calls, RunEnqueued(c)
  PROVE  Kept
<1>1. PICK e \in Executions :
        /\ IsFree(c)
        /\ Throttle(c, [Idle EXCEPT !.exec = e, !.mode = db[e].mode, !.resume = TRUE])
        /\ enqueued' = enqueued \ {e}
  BY DEF RunEnqueued
<1>2. UNCHANGED <<db, active, isEnabled, trackerVars, stopVars, phase, restarts>>
  BY DEF RunEnqueued
<1> DEFINE r == [Idle EXCEPT !.exec = e, !.mode = db[e].mode, !.resume = TRUE]
<1>3. db[e].mode \in Modes
  BY InvParts DEF Safe, LifeTypeOK, Rows
<1>4. r \in CallStates /\ r.exec \in Executions /\ r.promise = "none"
  BY <1>3 DEF CallStates, Idle, Stages
<1>5. ~Placed(c) /\ Throttle(c, r)
  BY <1>1, FreeFacts
<1> HIDE DEF r
<1>6. [QueueNext]_queueVars /\ call' \in [Calls -> CallStates] /\ CallInv'
  BY <1>2, <1>4, <1>5, InvParts, ThrottleKeeps
<1>7. KeepsSafe
  BY <1>2, <1>6, InvParts DEF KeepsSafe, Safe, LifeTypeOK
<1>8. Safe'
  BY <1>7, InvParts, QueueNextInv DEF KeepsSafe, Safe
<1>9. TrackerTypeOK' /\ StopTypeOK'
  BY <1>2, InvParts DEF trackerVars, stopVars, TrackerTypeOK, StopTypeOK
<1> QED BY <1>1, <1>2, <1>7, <1>8, <1>9, InvParts, InvPartsNext DEF Kept, KeepsSafe

LEMMA ShutdownKeeps ==
  ASSUME Inv, BeginShutdown \/ DisableConcurrencyControl
  PROVE  Kept
<1>1. CASE BeginShutdown
  <2>1. KeepsSafe
    BY <1>1, InvParts, NothingKeepsSafe DEF BeginShutdown
  <2>2. Safe'
    BY <2>1, InvParts, QueueNextInv DEF KeepsSafe, Safe
  <2>3. waitingExecutions' \in [Executions -> Timers]
    BY <1>1, InvParts DEF BeginShutdown, StopTracking, ClearedTimers, TrackerTypeOK, Timers
  <2>4. isTracking' \in BOOLEAN /\ query' \in (SUBSET Executions) \cup {NoQuery}
    BY <1>1, InvParts DEF BeginShutdown, StopTracking, TrackerTypeOK
  <2>5. StopTypeOK'
    BY <1>1, InvParts DEF BeginShutdown, stopVars, StopTypeOK
  <2>6. /\ phase' \in Phases
        /\ restarts' = restarts /\ restarts < MaxRestarts /\ enqueued' = enqueued
    BY <1>1 DEF BeginShutdown, Phases
  <2> QED BY <2>1, <2>2, <2>3, <2>4, <2>5, <2>6, InvParts, InvPartsNext
          DEF Kept, KeepsSafe, TrackerTypeOK
<1>2. CASE DisableConcurrencyControl
  <2>1. UNCHANGED <<queueVars, db, call, active, trackerVars, stopVars, processVars>>
    BY <1>2 DEF DisableConcurrencyControl
  <2>2. isEnabled' = FALSE
    BY <1>2 DEF DisableConcurrencyControl
  <2>3. CallInv'
    <3>1. \A d : Placed(d)' <=> Placed(d)
      BY <2>1 DEF queueVars, Placed, QueuedCalls
    <3>2. ASSUME NEW c \in Calls
          PROVE  Fits(call[c], isEnabled, c \in admitted, Placed(c))'
      <4>1. Fits(call[c], isEnabled, c \in admitted, Placed(c))
        BY InvParts DEF Safe, CallInv
      <4>2. Fits(call[c], FALSE, c \in admitted, Placed(c))
        BY <4>1 DEF Fits
      <4> QED BY <2>1, <2>2, <3>1, <4>2 DEF queueVars
    <3> QED BY <3>2 DEF CallInv
  <2>4. KeepsSafe
    BY <2>1, <2>2, <2>3, InvParts DEF KeepsSafe, Safe, LifeTypeOK
  <2>5. TrackerTypeOK' /\ StopTypeOK' /\ UNCHANGED processVars
    BY <2>1, InvParts DEF trackerVars, stopVars, TrackerTypeOK, StopTypeOK
  <2> QED BY <2>4, <2>5, ComponentStep
<1> QED BY <1>1, <1>2

LEMMA RestartKeeps ==
  ASSUME Inv, Restart
  PROVE  Kept
<1>1. db' \in [Executions -> Rows]
  BY InvParts DEF Restart, Safe, LifeTypeOK, Rows, Statuses
<1>2. UNCHANGED <<queueVars, call, active, isEnabled, trackerVars, stopVars, restarts, enqueued>>
  BY DEF Restart
<1>3. CallInv'
  <2>1. \A d : Placed(d)' <=> Placed(d)
    BY <1>2 DEF queueVars, Placed, QueuedCalls
  <2> QED BY <1>2, <2>1, InvParts DEF Safe, CallInv, queueVars
<1>4. KeepsSafe
  BY <1>1, <1>2, <1>3, InvParts DEF KeepsSafe, Safe, LifeTypeOK
<1>5. Safe'
  BY <1>4, InvParts, QueueNextInv DEF KeepsSafe, Safe
<1>6. TrackerTypeOK' /\ StopTypeOK'
  BY <1>2, InvParts DEF trackerVars, stopVars, TrackerTypeOK, StopTypeOK
<1>7. phase' = "starting"
  BY DEF Restart
<1> QED BY <1>2, <1>4, <1>5, <1>6, <1>7, InvParts, InvPartsNext DEF Kept, KeepsSafe, Phases

-----------------------------------------------------------------------------
LEMMA InvInit == Init => Inv
<1> SUFFICES ASSUME Init PROVE Inv
  OBVIOUS
<1>1. QueueInv
  BY QueueInitInv DEF Init, LifeInit, ProcessInit
<1>2. NoRow \in Rows
  BY DEF NoRow, Rows, Statuses, Modes
<1>3. LifeTypeOK
  BY <1>2, IdleType DEF Init, LifeInit, ProcessInit, LifeTypeOK
<1>4. CallInv
  BY DEF Init, LifeInit, ProcessInit, CallInv, Fits, BeforeEntry, Idle
<1>5. StopTypeOK
  BY DEF Init, StopInit, StopTypeOK, StopStates
<1>6. waitingExecutions \in [Executions -> Timers]
  BY DEF Init, TrackerInit, Timers
<1>7. TrackerTypeOK
  BY <1>6 DEF Init, TrackerInit, TrackerTypeOK
<1>8. phase \in Phases /\ phase # "stopping" /\ restarts \in 0..MaxRestarts
      /\ enqueued \in SUBSET Executions
  BY EnvironmentTypes DEF Init, Phases
<1> QED BY <1>1, <1>3, <1>4, <1>5, <1>7, <1>8, InvParts DEF Safe

LEMMA InvNext == Inv /\ [Next]_vars => Inv' /\ ([QueueNext]_queueVars \/ phase' = "down")
<1> SUFFICES ASSUME Inv, [Next]_vars PROVE Kept
  BY DEF Kept
<1>1. ASSUME NEW c \in Calls, NEW e \in Executions, NEW mode \in CreateModes,
             NewExecutionArrives(c, e, mode)
      PROVE  Kept
  BY <1>1, NewExecutionArrivesKeeps
<1>2. ASSUME NEW c \in Calls, CallProceeds(c) \/ CallDisturbed(c)
      PROVE  Kept
  BY <1>2, CallStepKeeps
<1>3. ASSUME NEW c \in Calls, RunEnqueued(c)
      PROVE  Kept
  BY <1>3, RunEnqueuedKeeps
<1>4. CASE \/ Track
           \/ \E c \in Calls : ResumeWaiting(c)
           \/ \E c \in Calls, e \in Executions : ResumeOnRequest(c, e)
  BY <1>4, TrackerStepKeeps
<1>5. ASSUME NEW s \in Requests, (\E e \in Executions : StopArrives(s, e)) \/ StopIsServed(s)
      PROVE  Kept
  BY <1>5, StopStepKeeps
<1>6. CASE FindEnqueued
  BY <1>6, FindEnqueuedKeeps
<1>7. CASE BeginShutdown \/ DisableConcurrencyControl
  BY <1>7, ShutdownKeeps
<1>8. CASE Exit \/ Crash
  <2>1. GoDown
    BY <1>8 DEF Exit, Crash
  <2>2. restarts < MaxRestarts
    BY <1>8, InvParts DEF Exit, Crash
  <2> QED BY <2>1, <2>2, GoDownKeeps
<1>9. CASE Restart
  BY <1>9, RestartKeeps
<1>10. CASE UNCHANGED vars
  <2>1. UNCHANGED <<queueVars, lifeVars, trackerVars, stopVars, processVars>>
    BY <1>10 DEF vars
  <2>2. KeepsSafe /\ TrackerTypeOK' /\ StopTypeOK'
    BY <2>1, InvParts, NothingKeepsSafe DEF trackerVars, stopVars, TrackerTypeOK, StopTypeOK
  <2> QED BY <2>1, <2>2, ComponentStep
<1> QED BY <1>1, <1>2, <1>3, <1>4, <1>5, <1>6, <1>7, <1>8, <1>9, <1>10 DEF Next

LEMMA InvHolds == Safety => []Inv
BY InvInit, InvNext, PTL DEF Safety

(* Every variable of the process keeps its type. *)
THEOREM ProcessTypes == Safety => []TypeOK
BY InvHolds, PTL DEF Inv

(* The accounting of the queue holds in the whole process, whatever the      *)
(* executions, the timers, the requests to stop and the failures do.         *)
THEOREM ProcessAccounting == Safety => []CapacityAccounting
BY InvHolds, PTL DEF Inv, QueueInv

(* Nor does anything wait in the process while there is room for it, ...     *)
THEOREM ProcessConservesWork == Safety => []WorkConserving
BY InvHolds, PTL DEF Inv, QueueInv

(* ... or is let through twice.                                              *)
THEOREM ProcessOnePlace == Safety => []OnePlace
BY InvHolds, PTL DEF Inv, QueueInv

(* Of all steps of the process, only those that the queue allows touch it:   *)
(* what is proved of the queue alone holds of it inside the process.         *)
THEOREM ProcessUsesQueueProperly == Safety => QueueUsedProperly
<1>1. ([QueueNext]_queueVars \/ phase' = "down") => [QueueNext \/ phase' = "down"]_queueVars
  OBVIOUS
<1> QED BY <1>1, InvHolds, InvNext, PTL DEF Safety, QueueUsedProperly

(* A process that ends leaves an empty queue to the next one: everything in  *)
(* memory is gone.                                                           *)
LEMMA QueueOrEnd ==
  Inv /\ [Next]_vars =>
    \/ [QueueNext]_queueVars
    \/ phase' = "down" /\ admitted' = {} /\ queue' = <<>>
<1> DEFINE QueueStep == [QueueNext]_queueVars
<1>0. Inv /\ [Next]_vars => QueueStep \/ phase' = "down"
  BY InvNext
<1> HIDE DEF QueueStep
<1> SUFFICES ASSUME [Next]_vars, phase' = "down", ~QueueStep
             PROVE  admitted' = {} /\ queue' = <<>>
  <2>1. QueueStep => [QueueNext]_queueVars
    BY DEF QueueStep
  <2> QED BY <1>0, <2>1
<1>1. phase' = "down"
  OBVIOUS
<1>2. ASSUME IsUp, UNCHANGED phase
      PROVE  FALSE
  BY <1>1, <1>2 DEF IsUp
<1>3. \A c \in Calls : \A e \in Executions : \A mode : ~NewExecutionArrives(c, e, mode)
  BY <1>2 DEF NewExecutionArrives, processVars
<1>4. \A c \in Calls : ~CallProceeds(c) /\ ~CallDisturbed(c) /\ ~RunEnqueued(c) /\ ~ResumeWaiting(c)
  BY <1>2 DEF CallProceeds, CallDisturbed, RunEnqueued, ResumeWaiting, TimerFires, RowIsRead, processVars
<1>5. \A c \in Calls : \A e \in Executions : ~ResumeOnRequest(c, e)
  BY <1>2 DEF ResumeOnRequest, processVars
<1>6. ~Track /\ \A s \in Requests : ~StopIsServed(s) /\ \A e \in Executions : ~StopArrives(s, e)
  BY <1>2 DEF Track, StopIsServed, StopArrives, processVars
<1>7. ~FindEnqueued /\ ~BeginShutdown /\ ~DisableConcurrencyControl /\ ~Restart
  BY <1>1, <1>2 DEF FindEnqueued, BeginShutdown, DisableConcurrencyControl, Restart, IsUp, processVars
<1>8. CASE Exit \/ Crash
  BY <1>8 DEF Exit, Crash, GoDown
<1>9. CASE UNCHANGED vars
  BY <1>9 DEF QueueStep, vars
<1> QED BY <1>3, <1>4, <1>5, <1>6, <1>7, <1>8, <1>9 DEF Next

(* From the start of a process to its end, its concurrency control is the    *)
(* abstract rule: start at once below the limit, else wait in line; and the  *)
(* next process begins with nobody running and nobody in line.               *)
THEOREM ProcessImplementsAdmission ==
  Safety => /\ Abstract!AdmissionInit
            /\ [][\/ Abstract!AdmissionNext
                  \/ phase' = "down" /\ admitted' = {} /\ queue' = <<>>]_(Abstract!admissionVars)
<1> DEFINE Ends == phase' = "down" /\ admitted' = {} /\ queue' = <<>>
<1>1. Init => Abstract!AdmissionInit
  BY QueueStartsAsAdmission DEF Init, LifeInit, ProcessInit
<1>2. Inv /\ [Next]_vars => [Abstract!AdmissionNext \/ Ends]_(Abstract!admissionVars)
  BY QueueOrEnd, QueueStepIsAdmissionStep DEF Inv
<1> QED BY <1>1, <1>2, InvHolds, PTL DEF Safety

(* In the process, too, nobody who stays in line is overtaken, whichever     *)
(* promise calls dequeue() and whoever is taken out by a stop ...            *)
THEOREM ProcessIsFair == Safety => NoOvertaking
<1>1. Inv /\ [Next]_vars => [FairStep]_queueVars
  <2>1. admitted' = {} => FairStep
    BY DEF FairStep
  <2> QED BY <2>1, QueueOrEnd, QueueStepIsFair DEF Inv
<1> QED BY <1>1, InvHolds, PTL DEF Safety, NoOvertaking, FairStep

(* ... and more executions than the limit run only after one was taken out.  *)
THEOREM ProcessOverruns == Safety => OnlyRemovalOverruns
<1>1. Inv /\ [Next]_vars => [OverrunStep]_queueVars
  <2>1. admitted' = {} => OverrunStep
    BY DEF OverrunStep
  <2> QED BY <2>1, QueueOrEnd, QueueStepOverruns DEF Inv
<1> QED BY <1>1, InvHolds, PTL DEF Safety, OnlyRemovalOverruns, OverrunStep

(* With the concurrency control disabled, throttle() and release() return at *)
(* once and nothing is found in the queue, so no step of the process but its *)
(* end touches it.                                                           *)
LEMMA DisabledKeepsQueue ==
  ASSUME ~isEnabled, Next
  PROVE  UNCHANGED queueVars \/ phase' = "down"
<1> DEFINE Goal == UNCHANGED queueVars \/ phase' = "down"
<1> SUFFICES Goal
  OBVIOUS
<1>1. \A c \in Calls : \A r : Throttle(c, r) => UNCHANGED queueVars
  BY DEF Throttle
<1>2. \A c \in Calls : Release(c) => UNCHANGED queueVars
  BY DEF Release
<1>3. ASSUME NEW c \in Calls, NEW e \in Executions, NEW mode \in CreateModes,
             NewExecutionArrives(c, e, mode)
      PROVE  Goal
  BY <1>3 DEF NewExecutionArrives, CreateExecution
<1>4. ASSUME NEW c \in Calls, CallProceeds(c)
      PROVE  Goal
  <2>1. EnterThrottle(c) \/ RemoveEntry(c) => Goal
    BY <1>1, <1>2 DEF EnterThrottle, RemoveEntry
  <2>2. ASSUME Proceed(c), ~EnterThrottle(c), ~RemoveEntry(c)
        PROVE  Goal
    BY <2>2 DEF Proceed, MarkRunning, Register, PrepareRun, StartRun, EndRun, EndAborted,
                SaveRun, FinalizeRun, SaveCanceled
  <2> QED BY <1>4, <2>1, <2>2 DEF CallProceeds
<1>5. ASSUME NEW c \in Calls, CallDisturbed(c)
      PROVE  Goal
  BY <1>5 DEF CallDisturbed, Disturb, MarkRunningFails, RefuseRun, RejectRun, PrepareRunFails,
              StartRunFails, TimeOut
<1>6. ASSUME NEW c \in Calls, RunEnqueued(c)
      PROVE  Goal
  BY <1>1, <1>6 DEF RunEnqueued
<1>7. ASSUME NEW c \in Calls, ResumeWaiting(c)
      PROVE  Goal
  BY <1>1, <1>7 DEF ResumeWaiting, TimerFires, RowIsRead, FireTimer, ReadWaiting
<1>8. ASSUME NEW c \in Calls, NEW e \in Executions, ResumeOnRequest(c, e)
      PROVE  Goal
  BY <1>1, <1>8 DEF ResumeOnRequest, ResumeByWebhook
<1>9. CASE Track
  BY <1>9 DEF Track, Poll, ArmTimers, lifeVars
<1>10. ASSUME NEW s \in Requests, (\E e \in Executions : StopArrives(s, e)) \/ StopIsServed(s)
       PROVE  Goal
  BY <1>10 DEF StopArrives, RequestStop, StopIsServed, ServeStop, StopQueued, IsQueued, StopOther,
               WriteStopped
<1>11. CASE FindEnqueued \/ BeginShutdown \/ DisableConcurrencyControl \/ Restart
  BY <1>11 DEF FindEnqueued, BeginShutdown, DisableConcurrencyControl, Restart
<1>12. CASE Exit \/ Crash
  BY <1>12 DEF Exit, Crash, GoDown
<1> QED BY <1>3, <1>4, <1>5, <1>6, <1>7, <1>8, <1>9, <1>10, <1>11, <1>12 DEF Next

(* During shutdown no queued execution starts when others end or are stopped *)
(* (ActiveExecutions.shutdown disables the concurrency control first).       *)
THEOREM ProcessKeepsThrottled == Safety => ThrottledStayDuringShutdown
<1>1. [Next]_vars => [~isEnabled /\ phase' # "down" => UNCHANGED queueVars]_vars
  BY DisabledKeepsQueue
<1> QED BY <1>1, PTL DEF Safety, ThrottledStayDuringShutdown

-----------------------------------------------------------------------------
(* Who owns an entry. Most steps keep the promises and the executions of     *)
(* those who have a promise, and the owners of the entries.                  *)
PromisesKept ==
  \A d \in Calls : call[d].promise # "none" => /\ call'[d].promise # "none"
                                               /\ call'[d].exec = call[d].exec

OwnersKept ==
  \A e \in Executions : active'[e] # NoEntry => /\ active[e] # NoEntry
                                                /\ active'[e].owner = active[e].owner

LEMMA KeptOwners ==
  ASSUME Safe, EntriesHaveOwners, PromisesKept, OwnersKept
  PROVE  EntriesHaveOwners'
<1>1. ASSUME NEW e \in Executions, active'[e] # NoEntry
      PROVE  /\ call'[active'[e].owner].exec = e
             /\ call'[active'[e].owner].promise # "none"
  <2>1. active[e] # NoEntry /\ active'[e].owner = active[e].owner
    BY <1>1 DEF OwnersKept
  <2>2. active[e].owner \in Calls
    BY <2>1 DEF Safe, LifeTypeOK, Entries
  <2> QED BY <2>1, <2>2 DEF EntriesHaveOwners, PromisesKept
<1> QED BY <1>1 DEF EntriesHaveOwners

(* One call changes, and keeps its promise and execution if it had one. *)
LEMMA OnePromiseKept ==
  ASSUME Safe, NEW c \in Calls, NEW r, call' = [call EXCEPT ![c] = r],
         call[c].promise # "none" => r.promise # "none" /\ r.exec = call[c].exec
  PROVE  PromisesKept
BY DEF Safe, LifeTypeOK, PromisesKept

LEMMA UnchangedKeeps ==
  /\ UNCHANGED call => PromisesKept
  /\ UNCHANGED active => OwnersKept
BY DEF PromisesKept, OwnersKept

LEMMA ReturnKeepsPromise ==
  ASSUME NEW r \in CallStates, r.promise # "none"
  PROVE  Return(r).promise # "none" /\ Return(r).exec = r.exec
BY ReturnType

(* Settling, cancelling and ending a call do. *)
LEMMA AlikeKeepsPromises ==
  ASSUME NEW f \in [Calls -> CallStates], Alike(f), NEW c \in Calls, NEW r,
         f[c].promise # "none" => r.promise # "none" /\ r.exec = f[c].exec,
         call' = f \/ call' = [f EXCEPT ![c] = r]
  PROVE  PromisesKept
<1>1. ASSUME NEW d \in Calls, call[d].promise # "none"
      PROVE  call'[d].promise # "none" /\ call'[d].exec = call[d].exec
  <2>1. f[d].promise # "none" /\ f[d].exec = call[d].exec
    BY <1>1 DEF Alike
  <2>2. call'[d] = f[d] \/ (d = c /\ call'[d] = r)
    OBVIOUS
  <2> QED BY <2>1, <2>2
<1> QED BY <1>1 DEF PromisesKept

LEMMA ThrottleKeepsPromises ==
  ASSUME Safe, NEW c \in Calls, NEW r, call[c].promise = "none", Throttle(c, r)
  PROVE  PromisesKept
<1>1. \/ call' = [call EXCEPT ![c] = [r EXCEPT !.stage = "passed"]]
      \/ call' = [call EXCEPT ![c] = [r EXCEPT !.stage = "throttled"]]
  BY DEF Throttle
<1> QED BY <1>1, OnePromiseKept

(* The owner of a new entry is the call that registers; the entry that       *)
(* RemoveEntry deletes is the only one that its call can own.                *)
LEMMA RegisterKeepsOwners ==
  ASSUME Safe, EntriesHaveOwners, NEW c \in Calls, Register(c)
  PROVE  EntriesHaveOwners'
<1>1. call[c].promise = "none" /\ call[c].exec \in Executions
  BY CallFacts DEF Register, Fits, BeforeEntry
<1>2. /\ active' = [active EXCEPT ![call[c].exec] = [owner |-> c, run |-> NoCall]]
      /\ call' = [call EXCEPT ![c] = [call[c] EXCEPT !.stage = "registered", !.promise = "pending"]]
      /\ call \in [Calls -> CallStates] /\ active \in [Executions -> Entries \cup {NoEntry}]
  BY DEF Register, Safe, LifeTypeOK
<1>3. call'[c].promise = "pending" /\ call'[c].exec = call[c].exec
  BY <1>2, CallFacts DEF CallStates
<1>4. ASSUME NEW e \in Executions, active'[e] # NoEntry
      PROVE  /\ call'[active'[e].owner].exec = e
             /\ call'[active'[e].owner].promise # "none"
  <2>1. CASE e = call[c].exec
    <3>1. active'[e].owner = c
      BY <1>2, <2>1
    <3> QED BY <1>3, <2>1, <3>1
  <2>2. CASE e # call[c].exec
    <3>1. active'[e] = active[e]
      BY <1>2, <2>2
    <3>2. /\ active[e].owner \in Calls
          /\ call[active[e].owner].exec = e /\ call[active[e].owner].promise # "none"
      BY <1>2, <1>4, <3>1 DEF EntriesHaveOwners, Entries
    <3>3. call'[active[e].owner] = call[active[e].owner]
      BY <1>1, <1>2, <3>2
    <3> QED BY <3>1, <3>2, <3>3
  <2> QED BY <2>1, <2>2
<1> QED BY <1>4 DEF EntriesHaveOwners

LEMMA RemoveEntryKeepsOwners ==
  ASSUME Safe, EntriesHaveOwners, NEW c \in Calls, RemoveEntry(c)
  PROVE  EntriesHaveOwners'
<1>1. /\ active' = [active EXCEPT ![call[c].exec] = NoEntry]
      /\ \A d \in Calls \ {c} : call'[d] = call[d]
      /\ active \in [Executions -> Entries \cup {NoEntry}]
  BY DEF RemoveEntry, Safe, LifeTypeOK
<1>2. ASSUME NEW e \in Executions, active'[e] # NoEntry
      PROVE  /\ call'[active'[e].owner].exec = e
             /\ call'[active'[e].owner].promise # "none"
  <2>1. e # call[c].exec /\ active'[e] = active[e]
    BY <1>1, <1>2
  <2>2. /\ active[e].owner \in Calls
        /\ call[active[e].owner].exec = e /\ call[active[e].owner].promise # "none"
    BY <1>1, <1>2, <2>1 DEF EntriesHaveOwners, Entries
  <2>3. active[e].owner # c
    BY <2>1, <2>2
  <2> QED BY <1>1, <2>1, <2>2, <2>3
<1> QED BY <1>2 DEF EntriesHaveOwners

LEMMA StartRunKeepsOwners ==
  ASSUME Safe, NEW c \in Calls, StartRun(c)
  PROVE  PromisesKept /\ OwnersKept
<1>1. PICK r \in {[call[c] EXCEPT !.stage = "running"],
                  [call[c] EXCEPT !.stage = "running", !.tracked = TRUE]} :
        call' = [call EXCEPT ![c] = r]
  BY DEF StartRun
<1>2. r.promise = call[c].promise /\ r.exec = call[c].exec
  BY CallFacts DEF CallStates
<1>3. PromisesKept
  BY <1>1, <1>2, OnePromiseKept
<1>4. CASE UNCHANGED active
  BY <1>3, <1>4, UnchangedKeeps
<1>5. CASE active[call[c].exec] # NoEntry /\ active' = [active EXCEPT ![call[c].exec].run = c]
  <2>1. ASSUME NEW e \in Executions, active'[e] # NoEntry
        PROVE  active[e] # NoEntry /\ active'[e].owner = active[e].owner
    <3>1. active \in [Executions -> Entries \cup {NoEntry}]
      BY DEF Safe, LifeTypeOK
    <3>2. CASE e # call[c].exec
      BY <1>5, <2>1, <3>1, <3>2
    <3>3. CASE e = call[c].exec
      <4>1. active[e] \in Entries
        BY <1>5, <3>1, <3>3
      <4>2. active'[e] = [active[e] EXCEPT !.run = c]
        BY <1>5, <3>1, <3>3
      <4> QED BY <1>5, <3>3, <4>1, <4>2 DEF Entries
    <3> QED BY <3>2, <3>3
  <2> QED BY <1>3, <2>1 DEF OwnersKept
<1> QED BY <1>4, <1>5 DEF StartRun

(* The steps that settle promises. *)
LEMMA SettlingKeepsOwners ==
  ASSUME Safe, NEW c \in Calls, StartRunFails(c) \/ FinalizeRun(c) \/ TimeOut(c)
  PROVE  PromisesKept /\ OwnersKept
<1> DEFINE f == FinalizeExecution(call, call[c].exec)
           g == StopExecution(call, call[c].exec)
           r == IF active[call[c].exec] = NoEntry THEN Return(f[c])
                ELSE [f[c] EXCEPT !.stage = "saving", !.outcome = "error"]
<1>1. call[c].exec \in Executions
  BY CallFacts DEF StartRunFails, FinalizeRun, TimeOut, Fits
<1>2. f \in [Calls -> CallStates] /\ Alike(f) /\ g \in [Calls -> CallStates] /\ Alike(g)
  BY <1>1, StopExecutionType DEF Safe
<1>3. /\ StartRunFails(c) => call' = [f EXCEPT ![c] = r]
      /\ FinalizeRun(c) => call' = [f EXCEPT ![c] = Return(f[c])]
      /\ TimeOut(c) => call' = g
      /\ UNCHANGED active
  BY DEF StartRunFails, FinalizeRun, TimeOut
<1> HIDE DEF f, g
<1>4. f[c].promise # "none" => Return(f[c]).promise # "none" /\ Return(f[c]).exec = f[c].exec
  BY <1>2, ReturnKeepsPromise
<1>5. f[c].promise # "none" => r.promise # "none" /\ r.exec = f[c].exec
  <2>1. f[c] \in CallStates
    BY <1>2
  <2> QED BY <1>4, <2>1 DEF CallStates
<1> HIDE DEF r
<1> QED BY <1>2, <1>3, <1>4, <1>5, AlikeKeepsPromises, UnchangedKeeps

(* The steps that change the caller alone. *)
LEMMA OwnStepKeepsOwners ==
  ASSUME Safe, NEW c \in Calls,
         \/ MarkRunning(c) \/ MarkRunningFails(c) \/ RefuseRun(c) \/ RejectRun(c)
         \/ PrepareRun(c) \/ PrepareRunFails(c) \/ EndAborted(c) \/ SaveRun(c) \/ SaveCanceled(c)
         \/ \E outcome \in Outcomes : EndRun(c, outcome)
  PROVE  PromisesKept /\ OwnersKept
<1> DEFINE hookless == [call[c] EXCEPT !.hook = FALSE]
           moved(stage) == [call[c] EXCEPT !.stage = stage]
           ended(outcome) == [call[c] EXCEPT !.stage = "saving", !.outcome = outcome]
<1>1. call[c] \in CallStates /\ hookless \in CallStates
  BY CallFacts DEF CallStates
<1>2. /\ hookless.promise = call[c].promise /\ hookless.exec = call[c].exec
      /\ \A stage : moved(stage).promise = call[c].promise /\ moved(stage).exec = call[c].exec
      /\ \A outcome : /\ ended(outcome).promise = call[c].promise
                      /\ ended(outcome).exec = call[c].exec
  BY <1>1 DEF CallStates
<1>3. \A r : r \in {call[c], hookless} /\ r.promise # "none" =>
               Return(r).promise # "none" /\ Return(r).exec = r.exec
  BY <1>1, ReturnKeepsPromise
<1>4. MarkRunningFails(c) => call[c].promise = "none"
  BY CallFacts DEF MarkRunningFails, IsLetThrough, Fits, BeforeEntry
<1>5. PICK r : /\ call' = [call EXCEPT ![c] = r]
               /\ \/ MarkRunningFails(c)
                  \/ r \in {Return(call[c]), hookless, Return(hookless)}
                  \/ \E stage : r = moved(stage)
                  \/ \E outcome : r = ended(outcome)
  <2>1. CASE MarkRunning(c) \/ PrepareRun(c) \/ RefuseRun(c)
    <3>1. PICK stage \in Stages : call' = [call EXCEPT ![c] = moved(stage)]
      BY <2>1 DEF MarkRunning, PrepareRun, RefuseRun, Stages
    <3> QED BY <3>1
  <2>2. CASE MarkRunningFails(c)
    BY <2>2 DEF MarkRunningFails
  <2>3. CASE RejectRun(c) \/ PrepareRunFails(c)
    BY <2>3 DEF RejectRun, PrepareRunFails
  <2>4. CASE EndAborted(c) \/ SaveRun(c)
    <3>1. \/ call' = [call EXCEPT ![c] = moved("saved")]
          \/ call' = [call EXCEPT ![c] = Return(call[c])]
      BY <2>4 DEF EndAborted, SaveRun
    <3> QED BY <3>1
  <2>5. CASE SaveCanceled(c)
    <3>1. \/ call' = [call EXCEPT ![c] = hookless]
          \/ call' = [call EXCEPT ![c] = Return(hookless)]
      BY <2>5 DEF SaveCanceled
    <3> QED BY <3>1
  <2>6. ASSUME NEW outcome \in Outcomes, EndRun(c, outcome)
        PROVE  call' = [call EXCEPT ![c] = ended(outcome)]
    BY <2>6 DEF EndRun
  <2> QED BY <2>1, <2>2, <2>3, <2>4, <2>5, <2>6
<1> HIDE DEF hookless, moved, ended
<1>6. call[c].promise # "none" => r.promise # "none" /\ r.exec = call[c].exec
  BY <1>2, <1>3, <1>4, <1>5
<1>7. UNCHANGED active
  BY DEF MarkRunning, MarkRunningFails, RefuseRun, RejectRun, PrepareRun, PrepareRunFails,
         EndAborted, SaveRun, SaveCanceled, EndRun
<1> QED BY <1>5, <1>6, <1>7, OnePromiseKept, UnchangedKeeps

(* A call that enters the process, or waits before its entry, owns nothing. *)
LEMMA EnteringKeepsOwners ==
  ASSUME Safe, NEW c \in Calls,
         \/ EnterThrottle(c) \/ ReadWaiting(c) \/ RunEnqueued(c)
         \/ \E e \in Executions : FireTimer(c, e) \/ ResumeByWebhook(c, e)
         \/ \E e \in Executions, mode \in Modes : CreateExecution(c, e, mode)
  PROVE  PromisesKept /\ OwnersKept
<1>1. call[c].promise = "none"
  <2>1. IsFree(c) => call[c].promise = "none"
    BY DEF IsFree, Idle
  <2>2. EnterThrottle(c) \/ ReadWaiting(c) => call[c].promise = "none"
    BY CallFacts DEF EnterThrottle, ReadWaiting, Fits, BeforeEntry
  <2> QED BY <2>1, <2>2 DEF RunEnqueued, FireTimer, ResumeByWebhook, CreateExecution
<1>2. CASE EnterThrottle(c) \/ RunEnqueued(c)
  BY <1>1, <1>2, ThrottleKeepsPromises, UnchangedKeeps DEF EnterThrottle, RunEnqueued
<1>3. CASE ~(EnterThrottle(c) \/ RunEnqueued(c))
  <2>1. PICK r : call' = [call EXCEPT ![c] = r]
    BY <1>3 DEF ReadWaiting, FireTimer, ResumeByWebhook, CreateExecution
  <2>2. UNCHANGED active
    BY <1>3 DEF ReadWaiting, FireTimer, ResumeByWebhook, CreateExecution
  <2> QED BY <1>1, <2>1, <2>2, OnePromiseKept, UnchangedKeeps
<1> QED BY <1>2, <1>3

(* Neither does a call in the queue: the service is enabled, so a limited    *)
(* call that has a promise has capacity, and the others are never queued.    *)
LEMMA StopQueuedKeepsOwners ==
  ASSUME Safe, NEW s \in Requests, StopQueued(s)
  PROVE  PromisesKept /\ OwnersKept
<1>1. UNCHANGED active /\ isEnabled
  BY DEF StopQueued, IsQueued
<1>2. CASE UNCHANGED call
  BY <1>1, <1>2, UnchangedKeeps
<1>3. CASE ~IsUnlimited(stop[s].mode)
  <2>1. PICK i \in DOMAIN queue : call' = [call EXCEPT ![queue[i].call] = Idle]
    BY <1>3 DEF StopQueued, RemoveFromQueue
  <2>2. i \in 1..Len(queue) /\ queue[i].call \in Calls /\ Placed(queue[i].call)
    BY QueueFacts DEF Safe
  <2>3. queue[i].call \notin admitted
    BY <2>2, QueueFacts DEF Safe, Line
  <2>4. call[queue[i].call].promise = "none"
    BY <1>1, <2>2, <2>3, CallFacts DEF Fits
  <2> QED BY <1>1, <2>1, <2>2, <2>4, OnePromiseKept, UnchangedKeeps
<1> QED BY <1>2, <1>3 DEF StopQueued, RemoveFromQueue

LEMMA StopOtherKeepsOwners ==
  ASSUME Safe, StopTypeOK, NEW s \in Requests, StopOther(s)
  PROVE  PromisesKept /\ OwnersKept
<1> DEFINE f == StopExecution(call, stop[s].exec)
<1>1. Alike(f)
  BY StopFacts, StopExecutionType DEF StopOther, Safe
<1>2. call' = f /\ UNCHANGED active
  BY DEF StopOther
<1> HIDE DEF f
<1> QED BY <1>1, <1>2, UnchangedKeeps DEF Alike, PromisesKept

LEMMA GoDownKeepsOwners ==
  ASSUME GoDown
  PROVE  EntriesHaveOwners'
BY DEF GoDown, EntriesHaveOwners

LEMMA CallKeepsOwners ==
  ASSUME Safe, EntriesHaveOwners, NEW c \in Calls, Proceed(c) \/ Disturb(c)
  PROVE  EntriesHaveOwners'
<1>1. CASE Register(c)
  BY <1>1, RegisterKeepsOwners
<1>2. CASE RemoveEntry(c)
  BY <1>2, RemoveEntryKeepsOwners
<1>3. CASE StartRun(c)
  BY <1>3, StartRunKeepsOwners, KeptOwners
<1>4. CASE StartRunFails(c) \/ FinalizeRun(c) \/ TimeOut(c)
  BY <1>4, SettlingKeepsOwners, KeptOwners
<1>5. CASE EnterThrottle(c)
  BY <1>5, EnteringKeepsOwners, KeptOwners
<1>6. CASE ~(\/ Register(c) \/ RemoveEntry(c) \/ StartRun(c) \/ StartRunFails(c)
             \/ FinalizeRun(c) \/ TimeOut(c) \/ EnterThrottle(c))
  BY <1>6, OwnStepKeepsOwners, KeptOwners DEF Proceed, Disturb
<1> QED BY <1>1, <1>2, <1>3, <1>4, <1>5, <1>6

LEMMA OwnersNext == Inv /\ EntriesHaveOwners /\ [Next]_vars => EntriesHaveOwners'
<1> SUFFICES ASSUME Inv, EntriesHaveOwners, [Next]_vars PROVE EntriesHaveOwners'
  OBVIOUS
<1>0. Safe /\ StopTypeOK
  BY InvParts
<1>1. ASSUME NEW c \in Calls, CallProceeds(c) \/ CallDisturbed(c)
      PROVE  EntriesHaveOwners'
  BY <1>0, <1>1, CallKeepsOwners DEF CallProceeds, CallDisturbed
<1>2. ASSUME NEW c \in Calls,
             \/ \E e \in Executions, mode \in CreateModes : NewExecutionArrives(c, e, mode)
             \/ RunEnqueued(c) \/ ResumeWaiting(c)
             \/ \E e \in Executions : ResumeOnRequest(c, e)
      PROVE  EntriesHaveOwners'
  <2>1. \/ ReadWaiting(c) \/ RunEnqueued(c)
        \/ \E e \in Executions : FireTimer(c, e) \/ ResumeByWebhook(c, e)
        \/ \E e \in Executions, mode \in Modes : CreateExecution(c, e, mode)
    BY <1>2, EnvironmentTypes
       DEF NewExecutionArrives, ResumeWaiting, TimerFires, RowIsRead, ResumeOnRequest
  <2> QED BY <1>0, <2>1, EnteringKeepsOwners, KeptOwners
<1>3. ASSUME NEW s \in Requests, (\E e \in Executions : StopArrives(s, e)) \/ StopIsServed(s)
      PROVE  EntriesHaveOwners'
  <2>1. StopQueued(s) \/ StopOther(s) => EntriesHaveOwners'
    BY <1>0, StopQueuedKeepsOwners, StopOtherKeepsOwners, KeptOwners
  <2>2. (\E e \in Executions : StopArrives(s, e)) \/ WriteStopped(s) => EntriesHaveOwners'
    BY DEF StopArrives, RequestStop, WriteStopped, lifeVars, EntriesHaveOwners
  <2> QED BY <1>3, <2>1, <2>2 DEF StopIsServed, ServeStop
<1>4. CASE Exit \/ Crash
  BY <1>4, GoDownKeepsOwners DEF Exit, Crash
<1>5. CASE \/ Track \/ FindEnqueued \/ BeginShutdown \/ DisableConcurrencyControl \/ Restart
           \/ UNCHANGED vars
  <2>1. UNCHANGED <<call, active>>
    BY <1>5 DEF Track, Poll, ArmTimers, FindEnqueued, BeginShutdown, DisableConcurrencyControl,
                Restart, vars, lifeVars
  <2> QED BY <2>1 DEF EntriesHaveOwners
<1> QED BY <1>1, <1>2, <1>3, <1>4, <1>5 DEF Next

(* Whatever fails or stops an execution, each entry in the map belongs to a  *)
(* call for the same execution whose promise is still to settle or whose     *)
(* removal of the entry is still to come: no entry stays for ever unseen.    *)
THEOREM ProcessEntriesHaveOwners == Safety => []EntriesHaveOwners
<1>1. Init => EntriesHaveOwners
  BY DEF Init, LifeInit, ProcessInit, EntriesHaveOwners
<1> QED BY <1>1, InvHolds, OwnersNext, PTL DEF Safety
=============================================================================
