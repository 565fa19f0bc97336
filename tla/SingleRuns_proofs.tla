------------------------- MODULE SingleRuns_proofs -------------------------
(***************************************************************************)
(* Capacity is lost nowhere but where CapacityLostOnlyHere says; and in a  *)
(* process where nothing waits and nothing arrives early, an execution     *)
(* runs once at a time, can be stopped, and gives its capacity back.       *)
(***************************************************************************)
EXTENDS RegularMode_proofs

(* A call that is under way, or has left a promise or a hook behind. *)
Live(r) == r.stage # "idle" \/ r.promise # "none" \/ r.hook

(* What most steps do to a call: it stays as it is, goes one stage on, is    *)
(* settled or cancelled, or ends and keeps its promise and its hook.         *)
MayWait == "waiting" \in RunOutcomes /\ Pausing # {}

Steady(r, new) ==
  /\ Live(new) => Live(r) /\ new.exec = r.exec
  /\ new.promise # "none" <=> r.promise # "none"
  /\ r.promise = "settled" => new.promise = "settled"
  /\ new.stage = "running" => r.stage = "running" /\ new.tracked = r.tracked
  /\ new.stage # "reading"
  /\ new.outcome = "waiting" => r.outcome = "waiting" \/ MayWait
  /\ r.stage = "marked" => new.stage = "marked"

(* A call in the queue stays there; one that was let through may go on, and  *)
(* may be lost only when its row cannot be written.                          *)
StaysOrPasses(c) ==
  call[c].stage = "throttled" =>
    \/ call'[c].stage = "throttled"
    \/ c \in admitted /\ (call'[c].stage = "marked" \/ MarkRunningFails(c))

GoesOn == \A c \in Calls : (call[c].stage # "reading" => Steady(call[c], call'[c])) /\ StaysOrPasses(c)

LEMMA SteadySame ==
  ASSUME NEW r, r.stage # "reading"
  PROVE  Steady(r, r)
BY DEF Steady

LEMMA ReturnSteady ==
  ASSUME NEW r \in CallStates, r.stage # "marked"
  PROVE  Steady(r, Return(r))
<1>1. CASE r.promise = "none" /\ ~r.hook
  <2>1. Return(r) = Idle
    BY <1>1 DEF Return
  <2> QED BY <1>1, <2>1 DEF Steady, Live, Idle
<1>2. CASE ~(r.promise = "none" /\ ~r.hook)
  <2> DEFINE s == [r EXCEPT !.stage = "idle", !.tracked = FALSE, !.canceled = FALSE, !.outcome = "none"]
  <2>1. Return(r) = s
    BY <1>2 DEF Return
  <2>2. s.stage = "idle" /\ s.outcome = "none" /\ s.promise = r.promise /\ s.exec = r.exec /\ s.hook = r.hook
    BY DEF CallStates
  <2> HIDE DEF s
  <2> QED BY <1>2, <2>1, <2>2 DEF Steady, Live
<1> QED BY <1>1, <1>2

(* One call changes. *)
LEMMA OneGoesOn ==
  ASSUME Safe, NEW c \in Calls, NEW r, call' = [call EXCEPT ![c] = r],
         Steady(call[c], r),
         call[c].stage = "throttled" =>
           \/ r.stage = "throttled"
           \/ c \in admitted /\ (r.stage = "marked" \/ MarkRunningFails(c))
  PROVE  GoesOn
<1>1. call'[c] = r /\ \A d \in Calls \ {c} : call'[d] = call[d]
  BY DEF Safe, LifeTypeOK
<1>2. ASSUME NEW d \in Calls
      PROVE  (call[d].stage # "reading" => Steady(call[d], call'[d])) /\ StaysOrPasses(d)
  BY <1>1, SteadySame DEF StaysOrPasses
<1> QED BY <1>2 DEF GoesOn

(* Settling and cancelling. *)
LEMMA SettleSteady ==
  ASSUME NEW f \in [Calls -> CallStates], NEW c \in Calls, NEW d \in Calls
  PROVE  /\ Live(Settle(f, c)[d]) => Live(f[d])
         /\ f[d].promise = "settled" => Settle(f, c)[d].promise = "settled"
         /\ Settle(f, c)[d].tracked = f[d].tracked
         /\ Settle(f, c)[d].hook = f[d].hook
<1> DEFINE r == [f[c] EXCEPT !.promise = "settled"]
<1>1. CASE f[c].promise = "pending"
  <2>1. Settle(f, c) = [f EXCEPT ![c] = r]
    BY <1>1 DEF Settle
  <2>2. r.promise = "settled" /\ r.tracked = f[c].tracked /\ r.hook = f[c].hook /\ r.stage = f[c].stage
    BY DEF CallStates
  <2> HIDE DEF r
  <2> QED BY <1>1, <2>1, <2>2 DEF Live
<1>2. CASE f[c].promise # "pending"
  BY <1>2 DEF Settle
<1> QED BY <1>1, <1>2

LEMMA CancelSteady ==
  ASSUME NEW f \in [Calls -> CallStates], NEW c \in Calls, NEW d \in Calls
  PROVE  /\ Live(Cancel(f, c)[d]) => Live(f[d])
         /\ Cancel(f, c)[d].tracked = f[d].tracked
<1> DEFINE r == [f[c] EXCEPT !.canceled = TRUE, !.hook = TRUE]
<1>1. CASE f[c].stage \in {"running", "saving"} /\ ~f[c].canceled
  <2>1. Cancel(f, c) = [f EXCEPT ![c] = r]
    BY <1>1 DEF Cancel
  <2>2. r.tracked = f[c].tracked
    BY DEF CallStates
  <2> HIDE DEF r
  <2> QED BY <1>1, <2>1, <2>2 DEF Live
<1>2. CASE ~(f[c].stage \in {"running", "saving"} /\ ~f[c].canceled)
  BY <1>2 DEF Cancel
<1> QED BY <1>1, <1>2

SteadyAll(f) ==
  \A d \in Calls : /\ Live(f[d]) => Live(call[d])
                   /\ call[d].promise = "settled" => f[d].promise = "settled"
                   /\ f[d].tracked = call[d].tracked

LEMMA StopExecutionSteady ==
  ASSUME LifeTypeOK, NEW e \in Executions
  PROVE  SteadyAll(StopExecution(call, e)) /\ SteadyAll(FinalizeExecution(call, e))
<1>1. call \in [Calls -> CallStates] /\ SteadyAll(call)
  BY DEF LifeTypeOK, SteadyAll
<1>2. CASE active[e] = NoEntry
  BY <1>1, <1>2 DEF StopExecution, FinalizeExecution
<1>3. CASE active[e] # NoEntry
  <2> DEFINE f == IF active[e].run = NoCall THEN call ELSE Cancel(call, active[e].run)
  <2>1. active[e].owner \in Calls /\ active[e].run \in Calls \cup {NoCall}
    BY <1>3 DEF LifeTypeOK, Entries
  <2>2. f \in [Calls -> CallStates] /\ SteadyAll(f)
    BY <1>1, <2>1, CancelType, CancelSteady DEF SteadyAll
  <2> HIDE DEF f
  <2>3. SteadyAll(Settle(f, active[e].owner))
    BY <2>1, <2>2, SettleSteady DEF SteadyAll
  <2>4. SteadyAll(Settle(call, active[e].owner))
    BY <1>1, <2>1, SettleSteady DEF SteadyAll
  <2> QED BY <1>3, <2>3, <2>4 DEF StopExecution, FinalizeExecution, f
<1> QED BY <1>2, <1>3

LEMMA SettledGoOn ==
  ASSUME NEW f \in [Calls -> CallStates], Alike(f), SteadyAll(f), NEW c \in Calls, NEW r,
         \/ call' = f
         \/ /\ call' = [f EXCEPT ![c] = r]
            /\ Steady(f[c], r)
            /\ call[c].stage # "throttled"
  PROVE  GoesOn
<1>1. ASSUME NEW d \in Calls
      PROVE  /\ f[d].stage = call[d].stage
             /\ call[d].stage # "reading" => Steady(call[d], f[d])
  BY DEF Alike, SteadyAll, Steady
<1>2. ASSUME NEW d \in Calls
      PROVE  call'[d] = f[d] \/ (d = c /\ call'[d] = r /\ Steady(f[c], r) /\ call[c].stage # "throttled")
  OBVIOUS
<1>3. ASSUME NEW d \in Calls, call[d].stage # "reading"
      PROVE  Steady(call[d], call'[d])
  BY <1>1, <1>2, <1>3 DEF Steady
<1>4. \A d \in Calls : StaysOrPasses(d)
  BY <1>1, <1>2 DEF StaysOrPasses
<1> QED BY <1>3, <1>4 DEF GoesOn

-----------------------------------------------------------------------------
(* The steps of a call that leave the entries and the queue alone. *)

LEMMA MovedSteady ==
  ASSUME NEW r \in CallStates, r.stage \notin {"idle", "marked"},
         NEW stage, stage \notin {"running", "reading"}
  PROVE  Steady(r, [r EXCEPT !.stage = stage])
BY DEF CallStates, Steady, Live

LEMMA HooklessSteady ==
  ASSUME NEW r \in CallStates, r.stage # "reading"
  PROVE  /\ Steady(r, [r EXCEPT !.hook = FALSE])
         /\ [r EXCEPT !.hook = FALSE] \in CallStates
         /\ [r EXCEPT !.hook = FALSE].stage = r.stage
BY DEF CallStates, Steady, Live

LEMMA SteadyTwice ==
  ASSUME NEW r, NEW s, NEW t, Steady(r, s), Steady(s, t)
  PROVE  Steady(r, t)
BY DEF Steady

LEMMA OwnStepGoesOn ==
  ASSUME Safe, NEW c \in Calls,
         \/ MarkRunning(c) \/ MarkRunningFails(c) \/ RefuseRun(c) \/ RejectRun(c)
         \/ PrepareRun(c) \/ PrepareRunFails(c) \/ EndAborted(c) \/ SaveRun(c) \/ SaveCanceled(c)
         \/ \E outcome \in Outcomes : EndRun(c, outcome)
  PROVE  GoesOn /\ UNCHANGED <<queueVars, active, isEnabled>>
<1>0. UNCHANGED <<queueVars, active, isEnabled>>
  BY DEF MarkRunning, MarkRunningFails, RefuseRun, RejectRun, PrepareRun, PrepareRunFails,
         EndAborted, SaveRun, SaveCanceled, EndRun
<1>1. call[c] \in CallStates
  BY CallFacts
<1>2. CASE MarkRunning(c)
  <2>1. /\ call[c].stage \in {"passed", "throttled"}
        /\ call[c].stage = "throttled" => c \in admitted
        /\ call' = [call EXCEPT ![c] = [call[c] EXCEPT !.stage = "marked"]]
    BY <1>2 DEF MarkRunning, IsLetThrough
  <2>2. [call[c] EXCEPT !.stage = "marked"].stage = "marked"
    BY <1>1 DEF CallStates
  <2>3. Steady(call[c], [call[c] EXCEPT !.stage = "marked"])
    BY <1>1, <2>1, MovedSteady
  <2> QED BY <1>0, <2>1, <2>2, <2>3, OneGoesOn
<1>3. CASE MarkRunningFails(c)
  <2>1. /\ call[c].stage \in {"passed", "throttled"}
        /\ call[c].stage = "throttled" => c \in admitted
        /\ call' = [call EXCEPT ![c] = Idle]
    BY <1>3 DEF MarkRunningFails, IsLetThrough
  <2>2. call[c].promise = "none"
    BY <2>1, CallFacts DEF Fits, BeforeEntry
  <2>3. Steady(call[c], Idle)
    BY <2>1, <2>2 DEF Steady, Live, Idle
  <2> QED BY <1>0, <1>3, <2>1, <2>3, OneGoesOn
<1>4. CASE RefuseRun(c) \/ PrepareRun(c)
  <2>1. PICK stage \in {"saved", "starting"} :
          call' = [call EXCEPT ![c] = [call[c] EXCEPT !.stage = stage]]
    BY <1>4 DEF RefuseRun, PrepareRun
  <2>2. call[c].stage = "registered"
    BY <1>4 DEF RefuseRun, PrepareRun
  <2>3. Steady(call[c], [call[c] EXCEPT !.stage = stage])
    BY <1>1, <2>2, MovedSteady
  <2> QED BY <1>0, <2>1, <2>2, <2>3, OneGoesOn
<1>5. CASE RejectRun(c) \/ PrepareRunFails(c)
  <2>1. call' = [call EXCEPT ![c] = Return(call[c])] /\ call[c].stage = "registered"
    BY <1>5 DEF RejectRun, PrepareRunFails
  <2>2. Steady(call[c], Return(call[c]))
    BY <1>1, <2>1, ReturnSteady
  <2> QED BY <1>0, <2>1, <2>2, OneGoesOn
<1>6. CASE EndAborted(c) \/ SaveRun(c)
  <2>1. PICK r \in {Return(call[c]), [call[c] EXCEPT !.stage = "saved"]} :
          call' = [call EXCEPT ![c] = r]
    BY <1>6 DEF EndAborted, SaveRun
  <2>2. call[c].stage \in {"running", "saving"}
    BY <1>6 DEF EndAborted, SaveRun
  <2>3. Steady(call[c], r)
    BY <1>1, <2>1, <2>2, ReturnSteady, MovedSteady
  <2> QED BY <1>0, <2>1, <2>2, <2>3, OneGoesOn
<1>7. CASE SaveCanceled(c)
  <2> DEFINE r == [call[c] EXCEPT !.hook = FALSE]
             new == IF r.stage = "idle" THEN Return(r) ELSE r
  <2>1. call' = [call EXCEPT ![c] = new]
    BY <1>7 DEF SaveCanceled
  <2>2. CASE call[c].stage # "reading"
    <3>1. r \in CallStates /\ r.stage = call[c].stage /\ Steady(call[c], r)
      BY <1>1, <2>2, HooklessSteady
    <3> HIDE DEF r
    <3>2. Steady(call[c], new)
      <4>1. CASE r.stage = "idle"
        BY <3>1, <4>1, ReturnSteady, SteadyTwice
      <4>2. CASE r.stage # "idle"
        BY <3>1, <4>2
      <4> QED BY <4>1, <4>2
    <3>3. call[c].stage = "throttled" => new.stage = "throttled"
      BY <3>1
    <3> HIDE DEF new
    <3> QED BY <1>0, <2>1, <3>2, <3>3, OneGoesOn
  <2>3. CASE call[c].stage = "reading"
    <3>1. \A d \in Calls \ {c} : call'[d] = call[d]
      BY <2>1 DEF Safe, LifeTypeOK
    <3>2. GoesOn
      BY <2>3, <3>1, SteadySame DEF GoesOn, StaysOrPasses
    <3> QED BY <1>0, <3>2
  <2> QED BY <2>2, <2>3
<1>8. ASSUME NEW outcome \in Outcomes, EndRun(c, outcome)
      PROVE  GoesOn
  <2> DEFINE r == [call[c] EXCEPT !.stage = "saving", !.outcome = outcome]
  <2>1. call' = [call EXCEPT ![c] = r] /\ call[c].stage = "running"
    BY <1>8 DEF EndRun
  <2>2. outcome = "waiting" => MayWait
    BY <1>8 DEF EndRun, MayWait
  <2>3. Steady(call[c], r)
    BY <1>1, <2>1, <2>2 DEF Steady, Live, CallStates
  <2> HIDE DEF r
  <2> QED BY <2>1, <2>3, OneGoesOn
<1> QED BY <1>0, <1>2, <1>3, <1>4, <1>5, <1>6, <1>7, <1>8

LEMMA SettlingGoesOn ==
  ASSUME Safe, NEW c \in Calls, StartRunFails(c) \/ FinalizeRun(c) \/ TimeOut(c)
  PROVE  GoesOn /\ UNCHANGED <<queueVars, active, isEnabled>>
<1> DEFINE f == FinalizeExecution(call, call[c].exec)
           g == StopExecution(call, call[c].exec)
           saving == [f[c] EXCEPT !.stage = "saving", !.outcome = "error"]
           r == IF active[call[c].exec] = NoEntry THEN Return(f[c]) ELSE saving
<1>1. call[c].exec \in Executions /\ call[c].stage \in {"starting", "running", "saving", "saved"}
  BY CallFacts DEF StartRunFails, FinalizeRun, TimeOut, Fits
<1>2. /\ f \in [Calls -> CallStates] /\ Alike(f) /\ SteadyAll(f)
      /\ g \in [Calls -> CallStates] /\ Alike(g) /\ SteadyAll(g)
  BY <1>1, StopExecutionType, StopExecutionSteady DEF Safe
<1>3. /\ StartRunFails(c) => call' = [f EXCEPT ![c] = r]
      /\ FinalizeRun(c) => call' = [f EXCEPT ![c] = Return(f[c])]
      /\ TimeOut(c) => call' = g
      /\ UNCHANGED <<queueVars, active, isEnabled>>
  BY DEF StartRunFails, FinalizeRun, TimeOut
<1> HIDE DEF f, g
<1>4. f[c] \in CallStates /\ f[c].stage = call[c].stage
  BY <1>2 DEF Alike
<1>5. Steady(f[c], Return(f[c]))
  BY <1>1, <1>4, ReturnSteady
<1>6. Steady(f[c], saving)
  BY <1>1, <1>4 DEF CallStates, Steady, Live
<1>7. Steady(f[c], r)
  BY <1>5, <1>6
<1> HIDE DEF r
<1> QED BY <1>1, <1>2, <1>3, <1>5, <1>7, SettledGoOn

LEMMA StopOtherGoesOn ==
  ASSUME Safe, StopTypeOK, NEW s \in Requests, StopOther(s)
  PROVE  GoesOn /\ UNCHANGED <<queueVars, active, isEnabled>>
<1> DEFINE f == StopExecution(call, stop[s].exec)
<1>1. f \in [Calls -> CallStates] /\ Alike(f) /\ SteadyAll(f)
  BY StopFacts, StopExecutionType, StopExecutionSteady DEF StopOther, Safe
<1>2. call' = f /\ UNCHANGED <<queueVars, active, isEnabled>>
  BY DEF StopOther
<1> HIDE DEF f
<1>3. \A d \in Calls : /\ call[d].stage # "reading" => Steady(call[d], f[d])
                       /\ f[d].stage = call[d].stage
  BY <1>1 DEF Alike, SteadyAll, Steady
<1> QED BY <1>2, <1>3 DEF GoesOn, StaysOrPasses

LEMMA UnchangedGoesOn ==
  ASSUME UNCHANGED call
  PROVE  GoesOn
BY SteadySame DEF GoesOn, StaysOrPasses

-----------------------------------------------------------------------------
(* Whoever is in the queue is in throttle(). *)
InLine == \A c \in Calls : c \in QueuedCalls => call[c].stage = "throttled"

LEMMA GoesOnInLine ==
  ASSUME Safe, InLine, GoesOn, UNCHANGED queueVars
  PROVE  InLine'
<1>1. QueuedCalls' = QueuedCalls
  BY DEF queueVars, QueuedCalls
<1>2. ASSUME NEW c \in Calls, c \in QueuedCalls
      PROVE  call'[c].stage = "throttled"
  <2>1. call[c].stage = "throttled" /\ c \notin admitted
    BY <1>2 DEF InLine, Safe, QueueInv, OnePlace
  <2> QED BY <2>1 DEF GoesOn, StaysOrPasses
<1> QED BY <1>1, <1>2 DEF InLine

(* One call that is not queued changes, and no other joins the queue. *)
LEMMA OneChangesInLine ==
  ASSUME Safe, InLine, NEW c \in Calls,
         \A d \in Calls \ {c} : call'[d] = call[d],
         \A d \in QueuedCalls' : d = c \/ d \in QueuedCalls,
         c \in QueuedCalls' => call'[c].stage = "throttled"
  PROVE  InLine'
BY DEF InLine

LEMMA AloneInLine ==
  ASSUME Safe, InLine, NEW c \in Calls, ~Placed(c),
         \A d \in Calls \ {c} : call'[d] = call[d],
         UNCHANGED queueVars
  PROVE  InLine'
<1>1. QueuedCalls' = QueuedCalls
  BY DEF queueVars, QueuedCalls
<1> QED BY <1>1, OneChangesInLine DEF Placed

LEMMA ThrottleInLine ==
  ASSUME Safe, InLine, NEW c \in Calls, NEW r \in CallStates, r.exec \in Executions,
         ~Placed(c), Throttle(c, r), QueueInv'
  PROVE  /\ InLine'
         /\ \A d \in Calls \ {c} : call'[d] = call[d]
         /\ admitted \subseteq admitted' /\ admitted' \subseteq admitted \cup {c}
         /\ Live(call'[c]) /\ call'[c].exec = r.exec /\ call'[c].promise = r.promise
         /\ call'[c].outcome = r.outcome
         /\ call'[c].stage \in {"passed", "throttled"}
         /\ c \in admitted' => call'[c].stage = "throttled"
<1> DEFINE passed == [r EXCEPT !.stage = "passed"]
           throttled == [r EXCEPT !.stage = "throttled"]
<1>1. /\ passed.stage = "passed" /\ throttled.stage = "throttled"
      /\ passed.exec = r.exec /\ passed.promise = r.promise /\ passed.outcome = r.outcome
      /\ throttled.exec = r.exec /\ throttled.promise = r.promise /\ throttled.outcome = r.outcome
  BY DEF CallStates
<1>2. /\ call \in [Calls -> CallStates]
      /\ \/ call' = [call EXCEPT ![c] = passed] /\ UNCHANGED queueVars
         \/ call' = [call EXCEPT ![c] = throttled] /\ Enqueue(c, r.exec)
  BY DEF Safe, LifeTypeOK, Throttle
<1> HIDE DEF passed, throttled
<1>3. CASE call' = [call EXCEPT ![c] = passed] /\ UNCHANGED queueVars
  <2>1. call'[c] = passed /\ \A d \in Calls \ {c} : call'[d] = call[d]
    BY <1>2, <1>3
  <2>2. admitted' = admitted
    BY <1>3 DEF queueVars
  <2> QED BY <1>1, <1>3, <2>1, <2>2, AloneInLine DEF Live, Placed
<1>4. CASE call' = [call EXCEPT ![c] = throttled] /\ Enqueue(c, r.exec)
  <2>1. call'[c] = throttled /\ \A d \in Calls \ {c} : call'[d] = call[d]
    BY <1>2, <1>4
  <2>2. /\ QueuedCalls' \subseteq QueuedCalls \cup {c}
        /\ admitted \subseteq admitted' /\ admitted' \subseteq admitted \cup {c}
    BY <1>4, EnqueueMoves DEF Safe
  <2> QED BY <1>1, <2>1, <2>2, OneChangesInLine DEF Live
<1> QED BY <1>2, <1>3, <1>4

(* The calls that enter the process, and enter throttle(). *)
LEMMA RunEnqueuedThrottles ==
  ASSUME Safe, NEW c \in Calls, RunEnqueued(c)
  PROVE  \E e \in enqueued \cap Executions, r \in CallStates :
           /\ r = [Idle EXCEPT !.exec = e, !.mode = db[e].mode, !.resume = TRUE]
           /\ r.exec = e /\ r.promise = "none" /\ r.outcome = "none"
           /\ IsFree(c) /\ ~Placed(c)
           /\ Throttle(c, r)
           /\ enqueued' = enqueued \ {e}
<1>1. PICK e \in Executions :
        /\ e \in enqueued
        /\ IsFree(c)
        /\ Throttle(c, [Idle EXCEPT !.exec = e, !.mode = db[e].mode, !.resume = TRUE])
        /\ enqueued' = enqueued \ {e}
  BY DEF RunEnqueued, IsOldest
<1> DEFINE r == [Idle EXCEPT !.exec = e, !.mode = db[e].mode, !.resume = TRUE]
<1>2. db[e].mode \in Modes
  BY DEF Safe, LifeTypeOK, Rows
<1>3. r \in CallStates /\ r.exec = e /\ r.promise = "none" /\ r.outcome = "none"
  BY <1>2 DEF CallStates, Idle, Stages
<1>4. ~Placed(c) /\ Throttle(c, r)
  BY <1>1, FreeFacts
<1>5. r = [Idle EXCEPT !.exec = e, !.mode = db[e].mode, !.resume = TRUE]
  OBVIOUS
<1> HIDE DEF r
<1> QED BY <1>1, <1>3, <1>4, <1>5

LEMMA EnterThrottleGoesOn ==
  ASSUME Safe, InLine, QueueInv', NEW c \in Calls, EnterThrottle(c)
  PROVE  /\ GoesOn /\ InLine'
         /\ UNCHANGED <<active, isEnabled>>
         /\ admitted \subseteq admitted' /\ admitted' \subseteq admitted \cup {c}
         /\ c \in admitted' => call'[c].stage = "throttled"
<1>1. /\ call[c].stage = "ready" /\ call[c].promise = "none" /\ ~Placed(c)
      /\ call[c].exec \in Executions /\ call[c] \in CallStates
      /\ Throttle(c, call[c])
      /\ UNCHANGED <<active, isEnabled>>
  BY CallFacts DEF EnterThrottle, Fits, BeforeEntry
<1>2. /\ InLine'
      /\ \A d \in Calls \ {c} : call'[d] = call[d]
      /\ admitted \subseteq admitted' /\ admitted' \subseteq admitted \cup {c}
      /\ call'[c].exec = call[c].exec /\ call'[c].promise = call[c].promise
      /\ call'[c].outcome = call[c].outcome
      /\ call'[c].stage \in {"passed", "throttled"}
      /\ c \in admitted' => call'[c].stage = "throttled"
  BY <1>1, ThrottleInLine
<1>3. Steady(call[c], call'[c])
  BY <1>1, <1>2 DEF Steady, Live
<1>4. GoesOn
  BY <1>1, <1>2, <1>3, SteadySame DEF GoesOn, StaysOrPasses
<1> QED BY <1>1, <1>2, <1>4

(* A call that is taken out of the queue ends; it was in throttle(). *)
LEMMA StopQueuedFacts ==
  ASSUME Safe, InLine, QueueInv', StopTypeOK, NEW s \in Requests, StopQueued(s)
  PROVE  /\ UNCHANGED <<active, isEnabled>>
         /\ \/ UNCHANGED <<queueVars, call>>
            \/ \E c \in Calls : /\ c \in QueuedCalls \ admitted
                                /\ call'[c] = Idle
                                /\ \A d \in Calls \ {c} : call'[d] = call[d]
                                /\ QueuedCalls' \subseteq QueuedCalls \ {c}
                                /\ admitted \subseteq admitted'
                                /\ admitted' \subseteq admitted \cup (QueuedCalls \ {c})
<1>1. UNCHANGED <<active, isEnabled>>
  BY DEF StopQueued
<1>2. CASE IsUnlimited(stop[s].mode)
  BY <1>1, <1>2 DEF StopQueued, RemoveFromQueue
<1>3. CASE ~IsUnlimited(stop[s].mode)
  <2>1. PICK i \in DOMAIN queue : /\ RemoveItem(i)
                                  /\ call' = [call EXCEPT ![queue[i].call] = Idle]
    BY <1>3 DEF StopQueued, RemoveFromQueue
  <2>2. queue[i].call \in Calls /\ queue[i].call \in QueuedCalls \ admitted
    BY LineFacts DEF QueuedCalls, Safe, QueueInv, OnePlace
  <2>3. /\ QueuedCalls' \subseteq QueuedCalls \ {queue[i].call}
        /\ admitted \subseteq admitted'
        /\ \A d \in admitted' \ admitted : \E j \in DOMAIN queue \ {i} : d = queue[j].call
    BY <2>1, RemoveItemMoves DEF Safe
  <2>4. \A j \in DOMAIN queue \ {i} : queue[j].call \in QueuedCalls \ {queue[i].call}
    BY DEF QueuedCalls, Safe, QueueInv, OnePlace
  <2>5. /\ call'[queue[i].call] = Idle
        /\ \A d \in Calls \ {queue[i].call} : call'[d] = call[d]
    BY <2>1, <2>2 DEF Safe, LifeTypeOK
  <2> QED BY <1>1, <2>2, <2>3, <2>4, <2>5
<1> QED BY <1>2, <1>3

LEMMA RegisterFacts ==
  ASSUME Safe, NEW c \in Calls, Register(c)
  PROVE  /\ UNCHANGED <<queueVars, isEnabled>>
         /\ call[c].stage = "marked" /\ call[c].promise = "none" /\ call[c].exec \in Executions
         /\ call'[c].stage = "registered" /\ call'[c].promise = "pending"
         /\ call'[c].exec = call[c].exec /\ call'[c].outcome = call[c].outcome
         /\ \A d \in Calls \ {c} : call'[d] = call[d]
         /\ active'[call[c].exec] # NoEntry => active'[call[c].exec].owner = c
         /\ \A e \in Executions \ {call[c].exec} : active'[e] = active[e]
         /\ active' = [active EXCEPT ![call[c].exec] = [owner |-> c, run |-> NoCall]]
<1>1. call[c].stage = "marked" /\ call[c].promise = "none" /\ call[c].exec \in Executions
  BY CallFacts DEF Register, Fits, BeforeEntry
<1>2. /\ active' = [active EXCEPT ![call[c].exec] = [owner |-> c, run |-> NoCall]]
      /\ call' = [call EXCEPT ![c] = [call[c] EXCEPT !.stage = "registered", !.promise = "pending"]]
      /\ UNCHANGED <<queueVars, isEnabled>>
      /\ call \in [Calls -> CallStates] /\ active \in [Executions -> Entries \cup {NoEntry}]
  BY DEF Register, Safe, LifeTypeOK
<1>3. /\ call'[c].stage = "registered" /\ call'[c].promise = "pending"
      /\ call'[c].exec = call[c].exec /\ call'[c].outcome = call[c].outcome
  BY <1>2, CallFacts DEF CallStates
<1> QED BY <1>1, <1>2, <1>3

LEMMA RemoveEntryFacts ==
  ASSUME Safe, QueueInv', NEW c \in Calls, RemoveEntry(c)
  PROVE  /\ UNCHANGED isEnabled
         /\ call[c].promise = "settled" /\ call[c].stage \notin BeforeEntry
         /\ call[c].exec \in Executions
         /\ call'[c].promise = "none" /\ call'[c].stage = call[c].stage
         /\ call'[c].stage = "running" => call'[c].tracked = call[c].tracked
         /\ Live(call'[c]) => call'[c].exec = call[c].exec
         /\ call'[c].outcome = "waiting" => call[c].outcome = "waiting"
         /\ \A d \in Calls \ {c} : call'[d] = call[d]
         /\ \A e \in Executions \ {call[c].exec} : active'[e] = active[e]
         /\ QueuedCalls' \subseteq QueuedCalls
         /\ admitted' \subseteq admitted \cup QueuedCalls
         /\ isEnabled => c \notin admitted'
<1> DEFINE r == [call[c] EXCEPT !.promise = "none"]
           new == IF r.stage = "idle" THEN Return(r) ELSE r
<1>1. /\ call[c].promise = "settled"
      /\ call' = [call EXCEPT ![c] = new]
      /\ active' = [active EXCEPT ![call[c].exec] = NoEntry]
      /\ UNCHANGED isEnabled
      /\ Release(c)
  BY DEF RemoveEntry
<1>2. /\ r \in CallStates /\ r.promise = "none" /\ r.stage = call[c].stage
      /\ r.exec = call[c].exec /\ r.outcome = call[c].outcome /\ r.tracked = call[c].tracked
      /\ r.hook = call[c].hook
  BY CallFacts DEF CallStates
<1>3. call[c].stage \notin BeforeEntry /\ call[c].exec \in Executions
  BY <1>1, CallFacts DEF Fits
<1> HIDE DEF r
<1>4. /\ new.promise = "none" /\ new.stage = r.stage
      /\ new.stage = "running" => new = r
      /\ Live(new) => new.exec = r.exec
      /\ new.outcome = "waiting" => r.outcome = "waiting"
  <2>1. CASE r.stage = "idle"
    <3>1. Return(r).promise = "none" /\ Return(r).stage = "idle"
      BY <1>2, ReturnType
    <3>2. Steady(r, Return(r))
      BY <1>2, <2>1, ReturnSteady
    <3>3. Return(r).outcome = "none"
      BY <1>2 DEF Return, Idle, CallStates
    <3> QED BY <2>1, <3>1, <3>2, <3>3 DEF Steady
  <2>2. CASE r.stage # "idle"
    BY <1>2, <2>2
  <2> QED BY <2>1, <2>2
<1>5. call'[c] = new /\ \A d \in Calls \ {c} : call'[d] = call[d]
  BY <1>1 DEF Safe, LifeTypeOK
<1>6. \A e \in Executions \ {call[c].exec} : active'[e] = active[e]
  BY <1>1 DEF Safe, LifeTypeOK
<1> HIDE DEF new
<1>7. /\ QueuedCalls' \subseteq QueuedCalls
      /\ admitted' \subseteq admitted \cup QueuedCalls
      /\ isEnabled => c \notin admitted'
  <2>1. CASE ~isEnabled \/ IsUnlimited(call[c].mode)
    <3>1. UNCHANGED queueVars
      BY <1>1, <2>1 DEF Release
    <3>2. QueuedCalls' = QueuedCalls /\ admitted' = admitted
      BY <3>1 DEF queueVars, QueuedCalls
    <3>3. isEnabled => ~Placed(c)
      BY <1>1, <2>1, CallFacts DEF Fits, IsUnlimited
    <3> QED BY <3>2, <3>3 DEF Placed
  <2>2. CASE ~(~isEnabled \/ IsUnlimited(call[c].mode))
    <3>1. Dequeue(c)
      BY <1>1, <2>2 DEF Release
    <3>2. c \in admitted
      BY <1>1, <2>2, CallFacts DEF Fits, IsUnlimited
    <3>3. /\ QueuedCalls' \subseteq QueuedCalls
          /\ \A d \in admitted' \ (admitted \ {c}) : 1 \in DOMAIN queue /\ d = queue[1].call
      BY <3>1, DequeueMoves DEF Safe
    <3>4. 1 \in DOMAIN queue => queue[1].call \in QueuedCalls \ admitted
      BY DEF QueuedCalls, Safe, QueueInv, OnePlace
    <3> QED BY <3>2, <3>3, <3>4
  <2> QED BY <2>1, <2>2
<1> QED BY <1>1, <1>2, <1>3, <1>4, <1>5, <1>6, <1>7

LEMMA StartRunFacts ==
  ASSUME Safe, NEW c \in Calls, StartRun(c)
  PROVE  /\ UNCHANGED <<queueVars, isEnabled>>
         /\ call[c].stage = "starting" /\ call[c].exec \in Executions
         /\ call'[c].stage = "running"
         /\ call'[c].exec = call[c].exec /\ call'[c].promise = call[c].promise
         /\ call'[c].outcome = call[c].outcome
         /\ \A d \in Calls \ {c} : call'[d] = call[d]
         /\ \A e \in Executions \ {call[c].exec} : active'[e] = active[e]
         /\ active[call[c].exec] = NoEntry => active' = active
         /\ active[call[c].exec] # NoEntry =>
              /\ call'[c].tracked
              /\ active'[call[c].exec] # NoEntry
              /\ active'[call[c].exec].owner = active[call[c].exec].owner
              /\ active'[call[c].exec].run = c
<1>1. call[c].stage = "starting" /\ call[c].exec \in Executions
  BY CallFacts DEF StartRun, Fits
<1> DEFINE r == [call[c] EXCEPT !.stage = "running"]
           t == [call[c] EXCEPT !.stage = "running", !.tracked = TRUE]
<1>2. /\ r.stage = "running" /\ r.exec = call[c].exec /\ r.promise = call[c].promise
      /\ r.outcome = call[c].outcome
      /\ t.stage = "running" /\ t.exec = call[c].exec /\ t.promise = call[c].promise
      /\ t.outcome = call[c].outcome /\ t.tracked
  BY CallFacts DEF CallStates
<1>3. /\ UNCHANGED <<queueVars, isEnabled>>
      /\ active[call[c].exec] = NoEntry => call' = [call EXCEPT ![c] = r] /\ active' = active
      /\ active[call[c].exec] # NoEntry => /\ call' = [call EXCEPT ![c] = t]
                                           /\ active' = [active EXCEPT ![call[c].exec].run = c]
  BY DEF StartRun
<1> HIDE DEF r, t
<1>4. CASE active[call[c].exec] = NoEntry
  BY <1>1, <1>2, <1>3, <1>4 DEF Safe, LifeTypeOK
<1>5. CASE active[call[c].exec] # NoEntry
  <2> DEFINE old == active[call[c].exec]
             entry == [old EXCEPT !.run = c]
  <2>1. old \in Entries
    BY <1>1, <1>5 DEF Safe, LifeTypeOK
  <2>2. entry \in Entries /\ entry.owner = old.owner /\ entry.run = c
    BY <2>1 DEF Entries
  <2>3. entry # NoEntry
    BY <2>2, NoEntryType
  <2>4. active'[call[c].exec] = entry /\ \A e \in Executions \ {call[c].exec} : active'[e] = active[e]
    BY <1>1, <1>3, <1>5 DEF Safe, LifeTypeOK
  <2>5. call'[c] = t /\ \A d \in Calls \ {c} : call'[d] = call[d]
    BY <1>3, <1>5 DEF Safe, LifeTypeOK
  <2> HIDE DEF entry
  <2> QED BY <1>1, <1>2, <1>3, <1>5, <2>2, <2>3, <2>4, <2>5
<1> QED BY <1>4, <1>5

-----------------------------------------------------------------------------
(* What every step does to those that hold capacity: who is let through is   *)
(* in throttle(), and who was accountable stays so, or one of the two things *)
(* happens by which capacity is lost.                                        *)
Owes(c) == call[c].stage \in {"throttled", "marked"} \/ call[c].promise # "none"

Displaced(c) == \E d \in Calls \ {c} : call[d].exec = call[c].exec /\ (Register(d) \/ RemoveEntry(d))

Followed(c) ==
  /\ c \notin admitted => call'[c].stage = "throttled"
  /\ c \in admitted /\ Owes(c) => Owes(c)' \/ MarkRunningFails(c)
  /\ c \in admitted /\ IsAccountable(c) => IsAccountable(c)' \/ MarkRunningFails(c) \/ Displaced(c)

Tracks == InLine' /\ \A c \in admitted' : isEnabled' => Followed(c)

LEMMA SameFollowed ==
  ASSUME NEW c \in Calls, Inv,
         c \in admitted,
         call'[c] = call[c],
         call[c].exec \in Executions => active'[call[c].exec] = active[call[c].exec]
  PROVE  Followed(c)
<1>1. call[c].promise # "none" => call[c].exec \in Executions
  BY CallFacts, InvParts DEF Fits
<1> QED BY <1>1 DEF Followed, Owes, IsAccountable

LEMMA GoesOnTracks ==
  ASSUME Inv, Inv', InLine, GoesOn, UNCHANGED active,
         \/ UNCHANGED queueVars
         \/ InLine' /\ \A c \in admitted' : c \in admitted \/ call'[c].stage = "throttled"
  PROVE  Tracks
<1>0. Safe
  BY InvParts
<1>1. InLine'
  BY <1>0, GoesOnInLine
<1>2. \A c \in admitted' : c \in Calls /\ (c \in admitted \/ call'[c].stage = "throttled")
  BY InvPartsNext DEF Safe, QueueInv, QueueTypeOK, queueVars
<1>3. ASSUME NEW c \in Calls, c \in admitted
      PROVE  Followed(c)
  <2>1. CASE call[c].stage = "reading"
    <3>1. ~Placed(c)
      BY <1>0, <2>1, CallFacts DEF Fits
    <3> QED BY <1>3, <3>1 DEF Placed
  <2>2. CASE call[c].stage # "reading"
    <3>1. Steady(call[c], call'[c]) /\ StaysOrPasses(c)
      BY <2>2 DEF GoesOn
    <3>2. call'[c].promise \in {"none", "pending", "settled"}
      BY InvPartsNext, CallFacts DEF Safe, LifeTypeOK, CallStates
    <3>3. call[c].promise # "none" => call'[c].exec = call[c].exec /\ call'[c].promise # "none"
      BY <3>1 DEF Steady, Live
    <3>4. Owes(c) => Owes(c)' \/ MarkRunningFails(c)
      BY <3>1, <3>3 DEF Owes, Steady, StaysOrPasses
    <3>5. IsAccountable(c) => IsAccountable(c)' \/ MarkRunningFails(c)
      BY <3>1, <3>2, <3>3 DEF IsAccountable, Steady, StaysOrPasses
    <3> QED BY <1>3, <3>4, <3>5 DEF Followed
  <2> QED BY <2>1, <2>2
<1> QED BY <1>1, <1>2, <1>3 DEF Tracks, Followed

(* A call that is not in the queue, and holds nothing, starts. *)
LEMMA StartTracks ==
  ASSUME Inv, Inv', InLine, NEW c \in Calls, ~Placed(c),
         \A d \in Calls \ {c} : call'[d] = call[d],
         UNCHANGED active,
         \/ UNCHANGED queueVars
         \/ InLine' /\ \A d \in admitted' : d \in admitted \/ (d = c /\ call'[c].stage = "throttled")
  PROVE  Tracks
<1>0. Safe
  BY InvParts
<1>1. InLine'
  BY <1>0, AloneInLine
<1>2. \A d \in admitted' : d \in Calls /\ (d \in admitted \/ (d = c /\ call'[c].stage = "throttled"))
  BY InvPartsNext DEF Safe, QueueInv, QueueTypeOK, queueVars
<1>3. ASSUME NEW d \in admitted', d \in admitted
      PROVE  Followed(d)
  <2>1. d # c
    BY <1>3 DEF Placed
  <2> QED BY <1>2, <1>3, <2>1, SameFollowed
<1> QED BY <1>1, <1>2, <1>3 DEF Tracks, Followed, Placed

LEMMA StopQueuedTracks ==
  ASSUME Inv, Inv', InLine, NEW s \in Requests, StopQueued(s)
  PROVE  Tracks
<1>0. Safe /\ StopTypeOK /\ QueueInv'
  BY InvParts, InvPartsNext DEF Safe
<1>1. CASE UNCHANGED <<queueVars, call>>
  BY <1>0, <1>1, StopQueuedFacts, UnchangedGoesOn, GoesOnTracks
<1>2. CASE \E c \in Calls : /\ c \in QueuedCalls \ admitted
                            /\ call'[c] = Idle
                            /\ \A d \in Calls \ {c} : call'[d] = call[d]
                            /\ QueuedCalls' \subseteq QueuedCalls \ {c}
                            /\ admitted \subseteq admitted'
                            /\ admitted' \subseteq admitted \cup (QueuedCalls \ {c})
  <2>1. PICK c \in Calls : /\ c \in QueuedCalls \ admitted
                           /\ \A d \in Calls \ {c} : call'[d] = call[d]
                           /\ QueuedCalls' \subseteq QueuedCalls \ {c}
                           /\ admitted' \subseteq admitted \cup (QueuedCalls \ {c})
    BY <1>2
  <2>2. InLine'
    BY <2>1 DEF InLine
  <2>3. ASSUME NEW d \in admitted'
        PROVE  Followed(d)
    <3>1. d \in Calls /\ d # c
      BY <2>1, LineFacts, <1>0 DEF Safe, QueueInv, QueueTypeOK
    <3>2. UNCHANGED active
      BY <1>0, StopQueuedFacts
    <3>3. CASE d \in admitted
      BY <2>1, <3>1, <3>2, <3>3, SameFollowed
    <3>4. CASE d \notin admitted
      BY <2>1, <3>1, <3>4 DEF InLine, Followed
    <3> QED BY <3>3, <3>4
  <2> QED BY <2>2, <2>3 DEF Tracks
<1> QED BY <1>0, <1>1, <1>2, StopQueuedFacts

(* An entry that is set takes the place of another's, and one that is        *)
(* removed may have been another's: those are displaced.                     *)
LEMMA RegisterTracks ==
  ASSUME Inv, Inv', InLine, NEW c \in Calls, Register(c)
  PROVE  Tracks
<1>0. Safe
  BY InvParts
<1>1. /\ UNCHANGED queueVars
      /\ call[c].stage = "marked" /\ call[c].exec \in Executions
      /\ call'[c].promise = "pending" /\ call'[c].exec = call[c].exec
      /\ \A d \in Calls \ {c} : call'[d] = call[d]
      /\ \A e \in Executions \ {call[c].exec} : active'[e] = active[e]
      /\ active' = [active EXCEPT ![call[c].exec] = [owner |-> c, run |-> NoCall]]
  BY <1>0, RegisterFacts
<1>2. admitted' = admitted /\ QueuedCalls' = QueuedCalls /\ admitted \subseteq Calls
  BY <1>0, <1>1 DEF queueVars, QueuedCalls, Safe, QueueInv, QueueTypeOK
<1>3. InLine'
  BY <1>1, <1>2 DEF InLine
<1>4. ASSUME c \in admitted
      PROVE  Followed(c)
  <2>1. [owner |-> c, run |-> NoCall] \in Entries
    BY DEF Entries
  <2>2. active'[call[c].exec] = [owner |-> c, run |-> NoCall]
    BY <1>0, <1>1 DEF Safe, LifeTypeOK
  <2>3. active'[call[c].exec] # NoEntry /\ active'[call[c].exec].owner = c
    BY <2>1, <2>2, NoEntryType
  <2>4. Owes(c)' /\ IsAccountable(c)'
    BY <1>1, <2>3 DEF Owes, IsAccountable
  <2> QED BY <1>4, <2>4 DEF Followed
<1>5. ASSUME NEW d \in admitted \ {c}
      PROVE  Followed(d)
  <2>1. CASE call[d].exec = call[c].exec
    BY <1>1, <1>2, <1>5, <2>1 DEF Followed, Displaced, Owes
  <2>2. CASE call[d].exec # call[c].exec
    BY <1>1, <1>2, <1>5, <2>2, SameFollowed
  <2> QED BY <2>1, <2>2
<1> QED BY <1>2, <1>3, <1>4, <1>5 DEF Tracks

LEMMA RemoveEntryTracks ==
  ASSUME Inv, Inv', InLine, NEW c \in Calls, RemoveEntry(c)
  PROVE  Tracks
<1>0. Safe /\ QueueInv'
  BY InvParts, InvPartsNext DEF Safe
<1>1. /\ UNCHANGED isEnabled
      /\ call[c].stage \notin BeforeEntry
      /\ \A d \in Calls \ {c} : call'[d] = call[d]
      /\ \A e \in Executions \ {call[c].exec} : active'[e] = active[e]
      /\ QueuedCalls' \subseteq QueuedCalls
      /\ admitted' \subseteq admitted \cup QueuedCalls
      /\ isEnabled => c \notin admitted'
  BY <1>0, RemoveEntryFacts
<1>2. c \notin QueuedCalls
  BY <1>1 DEF InLine, BeforeEntry
<1>3. InLine'
  BY <1>1, <1>2 DEF InLine
<1>4. ASSUME NEW d \in admitted', isEnabled'
      PROVE  Followed(d)
  <2>1. d \in Calls \ {c}
    BY <1>1, <1>4, InvPartsNext DEF Safe, QueueInv, QueueTypeOK
  <2>2. CASE d \notin admitted
    BY <1>1, <2>1, <2>2 DEF Followed, InLine
  <2>3. CASE d \in admitted /\ call[d].exec = call[c].exec
    BY <1>1, <2>1, <2>3 DEF Followed, Displaced, Owes
  <2>4. CASE d \in admitted /\ call[d].exec # call[c].exec
    BY <1>1, <2>1, <2>4, SameFollowed
  <2> QED BY <2>2, <2>3, <2>4
<1> QED BY <1>3, <1>4 DEF Tracks

LEMMA StartRunTracks ==
  ASSUME Inv, Inv', InLine, NEW c \in Calls, StartRun(c)
  PROVE  Tracks
<1>0. Safe
  BY InvParts
<1>1. /\ UNCHANGED <<queueVars, isEnabled>>
      /\ call[c].stage = "starting" /\ call[c].exec \in Executions
      /\ call'[c].exec = call[c].exec /\ call'[c].promise = call[c].promise
      /\ \A d \in Calls \ {c} : call'[d] = call[d]
      /\ \A e \in Executions \ {call[c].exec} : active'[e] = active[e]
      /\ active[call[c].exec] = NoEntry => active' = active
      /\ active[call[c].exec] # NoEntry =>
           /\ active'[call[c].exec] # NoEntry
           /\ active'[call[c].exec].owner = active[call[c].exec].owner
  BY <1>0, StartRunFacts
<1>2. admitted' = admitted /\ QueuedCalls' = QueuedCalls /\ admitted \subseteq Calls
  BY <1>0, <1>1 DEF queueVars, QueuedCalls, Safe, QueueInv, QueueTypeOK
<1>3. InLine'
  BY <1>1, <1>2 DEF InLine
<1>4. ASSUME NEW d \in admitted
      PROVE  Followed(d)
  <2>1. call[d].promise # "none" => call[d].exec \in Executions
    BY <1>0, <1>2, CallFacts DEF Fits
  <2>2. /\ call'[d].promise = call[d].promise /\ call'[d].exec = call[d].exec
        /\ call[d].stage \in {"throttled", "marked"} => call'[d].stage = call[d].stage
    BY <1>1, <1>2
  <2>3. call[d].exec \in Executions /\ active[call[d].exec] # NoEntry =>
          /\ active'[call[d].exec] # NoEntry
          /\ active'[call[d].exec].owner = active[call[d].exec].owner
    BY <1>1
  <2> QED BY <1>4, <2>1, <2>2, <2>3 DEF Followed, Owes, IsAccountable
<1> QED BY <1>2, <1>3, <1>4 DEF Tracks

LEMMA CallTracks ==
  ASSUME Inv, Inv', InLine, NEW c \in Calls, Proceed(c) \/ Disturb(c)
  PROVE  Tracks
<1>0. Safe /\ QueueInv'
  BY InvParts, InvPartsNext DEF Safe
<1>1. CASE Register(c)
  BY <1>1, RegisterTracks
<1>2. CASE RemoveEntry(c)
  BY <1>2, RemoveEntryTracks
<1>3. CASE StartRun(c)
  BY <1>3, StartRunTracks
<1>4. CASE StartRunFails(c) \/ FinalizeRun(c) \/ TimeOut(c)
  BY <1>0, <1>4, SettlingGoesOn, GoesOnTracks
<1>5. CASE EnterThrottle(c)
  <2>1. \A d \in admitted' : d \in admitted \/ call'[d].stage = "throttled"
    BY <1>0, <1>5, EnterThrottleGoesOn
  <2> QED BY <1>0, <1>5, <2>1, EnterThrottleGoesOn, GoesOnTracks
<1>6. CASE ~(\/ Register(c) \/ RemoveEntry(c) \/ StartRun(c) \/ StartRunFails(c)
             \/ FinalizeRun(c) \/ TimeOut(c) \/ EnterThrottle(c))
  <2>1. GoesOn /\ UNCHANGED <<queueVars, active, isEnabled>>
    BY <1>0, <1>6, OwnStepGoesOn DEF Proceed, Disturb
  <2> QED BY <2>1, GoesOnTracks
<1> QED BY <1>1, <1>2, <1>3, <1>4, <1>5, <1>6

LEMMA EnteringTracks ==
  ASSUME Inv, Inv', InLine, NEW c \in Calls,
         \/ ReadWaiting(c) \/ RunEnqueued(c)
         \/ \E e \in Executions : FireTimer(c, e) \/ ResumeByWebhook(c, e)
         \/ \E e \in Executions, mode \in Modes : CreateExecution(c, e, mode)
  PROVE  Tracks
<1>0. Safe /\ QueueInv'
  BY InvParts, InvPartsNext DEF Safe
<1>1. CASE RunEnqueued(c)
  <2>1. PICK e \in Executions, r \in CallStates :
          r.exec = e /\ ~Placed(c) /\ Throttle(c, r)
    BY <1>0, <1>1, RunEnqueuedThrottles
  <2>2. /\ InLine'
        /\ \A d \in Calls \ {c} : call'[d] = call[d]
        /\ admitted' \subseteq admitted \cup {c}
        /\ c \in admitted' => call'[c].stage = "throttled"
    BY <1>0, <2>1, ThrottleInLine
  <2>3. UNCHANGED active
    BY <1>1 DEF RunEnqueued
  <2>4. \A d \in admitted' : d \in admitted \/ (d = c /\ call'[c].stage = "throttled")
    BY <2>2
  <2> QED BY <2>1, <2>2, <2>3, <2>4, StartTracks
<1>2. CASE ~RunEnqueued(c)
  <2>1. ~Placed(c)
    <3>1. ReadWaiting(c) => ~Placed(c)
      BY <1>0, CallFacts DEF ReadWaiting, Fits
    <3> QED BY <1>2, <3>1, FreeFacts DEF FireTimer, ResumeByWebhook, CreateExecution
  <2>2. PICK r : call' = [call EXCEPT ![c] = r]
    BY <1>2 DEF ReadWaiting, FireTimer, ResumeByWebhook, CreateExecution
  <2>3. UNCHANGED <<queueVars, active>>
    BY <1>2 DEF ReadWaiting, FireTimer, ResumeByWebhook, CreateExecution
  <2>4. \A d \in Calls \ {c} : call'[d] = call[d]
    BY <1>0, <2>2 DEF Safe, LifeTypeOK
  <2> QED BY <2>1, <2>3, <2>4, StartTracks
<1> QED BY <1>1, <1>2

LEMMA GoDownTracks ==
  ASSUME GoDown
  PROVE  Tracks
<1>1. queue' = <<>> /\ admitted' = {}
  BY DEF GoDown
<1>2. DOMAIN queue' = {}
  BY <1>1
<1>3. QueuedCalls' = {}
  BY <1>2 DEF QueuedCalls
<1> QED BY <1>1, <1>3 DEF Tracks, InLine

LEMMA TracksNext == Inv /\ InLine /\ [Next]_vars => Tracks
<1> SUFFICES ASSUME Inv, InLine, [Next]_vars PROVE Tracks
  OBVIOUS
<1>0. Inv' /\ Safe /\ StopTypeOK
  BY InvNext, InvParts
<1>1. ASSUME NEW c \in Calls, CallProceeds(c) \/ CallDisturbed(c)
      PROVE  Tracks
  BY <1>0, <1>1, CallTracks DEF CallProceeds, CallDisturbed
<1>2. ASSUME NEW c \in Calls,
             \/ \E e \in Executions, mode \in CreateModes : NewExecutionArrives(c, e, mode)
             \/ RunEnqueued(c) \/ ResumeWaiting(c)
             \/ \E e \in Executions : ResumeOnRequest(c, e)
      PROVE  Tracks
  <2>1. \/ ReadWaiting(c) \/ RunEnqueued(c)
        \/ \E e \in Executions : FireTimer(c, e) \/ ResumeByWebhook(c, e)
        \/ \E e \in Executions, mode \in Modes : CreateExecution(c, e, mode)
    BY <1>2, EnvironmentTypes
       DEF NewExecutionArrives, ResumeWaiting, TimerFires, RowIsRead, ResumeOnRequest
  <2> QED BY <1>0, <2>1, EnteringTracks
<1>3. ASSUME NEW s \in Requests, (\E e \in Executions : StopArrives(s, e)) \/ StopIsServed(s)
      PROVE  Tracks
  <2>1. StopQueued(s) => Tracks
    BY <1>0, StopQueuedTracks
  <2>2. StopOther(s) => Tracks
    BY <1>0, StopOtherGoesOn, GoesOnTracks
  <2>3. (\E e \in Executions : StopArrives(s, e)) \/ WriteStopped(s)
          => UNCHANGED <<queueVars, call, active>>
    BY DEF StopArrives, RequestStop, WriteStopped, lifeVars
  <2>4. UNCHANGED <<queueVars, call, active>> => Tracks
    BY <1>0, UnchangedGoesOn, GoesOnTracks
  <2> QED BY <1>3, <2>1, <2>2, <2>3, <2>4 DEF StopIsServed, ServeStop
<1>4. CASE Exit \/ Crash
  BY <1>4, GoDownTracks DEF Exit, Crash
<1>5. CASE \/ Track \/ FindEnqueued \/ BeginShutdown \/ DisableConcurrencyControl \/ Restart
           \/ UNCHANGED vars
  <2>1. UNCHANGED <<queueVars, call, active>>
    BY <1>5 DEF Track, Poll, ArmTimers, FindEnqueued, BeginShutdown, DisableConcurrencyControl,
                Restart, vars, lifeVars
  <2> QED BY <1>0, <2>1, UnchangedGoesOn, GoesOnTracks
<1> QED BY <1>1, <1>2, <1>3, <1>4, <1>5 DEF Next

LEMMA InLineHolds == Safety => []InLine
<1>1. Init => InLine
  <2> SUFFICES ASSUME Init PROVE InLine
    OBVIOUS
  <2>1. DOMAIN queue = {}
    BY DEF Init, LifeInit, ProcessInit, QueueInit
  <2> QED BY <2>1 DEF InLine, QueuedCalls
<1>2. Inv /\ InLine /\ [Next]_vars => InLine'
  BY TracksNext DEF Tracks
<1> QED BY <1>1, <1>2, InvHolds, PTL DEF Safety

(* Whatever fails and however often executions are resumed, a call that was  *)
(* let through stays accountable for its capacity, but for the two places    *)
(* that lose it: the failed write right after throttle(), and another call   *)
(* for the same execution that replaces or deletes the entry of the first.   *)
THEOREM CapacityIsTracked == Safety => CapacityLostOnlyHere
<1>1. Inv /\ InLine /\ [Next]_vars =>
        [\A c \in admitted : isEnabled' /\ c \in admitted' /\ IsAccountable(c) /\ ~IsAccountable(c)' =>
           \/ MarkRunningFails(c)
           \/ \E d \in Calls \ {c} : call[d].exec = call[c].exec /\ (Register(d) \/ RemoveEntry(d))]_vars
  <2> SUFFICES ASSUME Inv, InLine, [Next]_vars, NEW c \in admitted,
                      isEnabled', c \in admitted', IsAccountable(c), ~IsAccountable(c)'
               PROVE  \/ MarkRunningFails(c)
                      \/ \E d \in Calls \ {c} : call[d].exec = call[c].exec /\ (Register(d) \/ RemoveEntry(d))
    OBVIOUS
  <2> QED BY TracksNext DEF Tracks, Followed, Displaced
<1> QED BY <1>1, InvHolds, InLineHolds, PTL DEF Safety, CapacityLostOnlyHere

(* Only a process that starts again enables the concurrency control.         *)
LEMMA EnabledAgain ==
  ASSUME [Next]_vars, ~isEnabled, isEnabled'
  PROVE  admitted' = {}
<1>1. ASSUME NEW c \in Calls, CallProceeds(c) \/ CallDisturbed(c)
      PROVE  FALSE
  <2>1. UNCHANGED isEnabled
    <3>1. ASSUME Proceed(c)
          PROVE  UNCHANGED isEnabled
      BY <3>1 DEF Proceed, EnterThrottle, MarkRunning, Register, RemoveEntry, PrepareRun, StartRun,
                  EndRun, EndAborted, SaveRun, FinalizeRun, SaveCanceled
    <3>2. ASSUME Disturb(c)
          PROVE  UNCHANGED isEnabled
      BY <3>2 DEF Disturb, MarkRunningFails, RefuseRun, RejectRun, PrepareRunFails,
                  StartRunFails, TimeOut
    <3> QED BY <1>1, <3>1, <3>2 DEF CallProceeds, CallDisturbed
  <2> QED BY <2>1
<1>2. ASSUME NEW c \in Calls,
             \/ \E e \in Executions, mode \in CreateModes : NewExecutionArrives(c, e, mode)
             \/ RunEnqueued(c) \/ ResumeWaiting(c)
             \/ \E e \in Executions : ResumeOnRequest(c, e)
      PROVE  FALSE
  BY <1>2 DEF NewExecutionArrives, CreateExecution, RunEnqueued, ResumeWaiting, TimerFires,
              FireTimer, RowIsRead, ReadWaiting, ResumeOnRequest, ResumeByWebhook
<1>3. ASSUME NEW s \in Requests, (\E e \in Executions : StopArrives(s, e)) \/ StopIsServed(s)
      PROVE  FALSE
  BY <1>3 DEF StopArrives, RequestStop, StopIsServed, ServeStop, StopQueued, StopOther,
              WriteStopped, lifeVars
<1>4. CASE Exit \/ Crash
  BY <1>4 DEF Exit, Crash, GoDown
<1>5. CASE \/ Track \/ FindEnqueued \/ BeginShutdown \/ DisableConcurrencyControl \/ Restart
           \/ UNCHANGED vars
  BY <1>5 DEF Track, Poll, ArmTimers, FindEnqueued, BeginShutdown, DisableConcurrencyControl,
              Restart, vars, lifeVars
<1> QED BY <1>1, <1>2, <1>3, <1>4, <1>5 DEF Next

(* Where every row can be written, whoever holds capacity is still on its    *)
(* way through add() or has a promise, hooks and failures notwithstanding.   *)
RowsCanBeWritten == "storage" \notin Faults

Accounted == isEnabled => \A c \in admitted : Owes(c)

LEMMA AccountedHolds == RowsCanBeWritten => (Safety => []Accounted)
<1> SUFFICES ASSUME RowsCanBeWritten PROVE Safety => []Accounted
  OBVIOUS
<1>1. Init => Accounted
  BY DEF Init, LifeInit, ProcessInit, QueueInit, Accounted
<1>2. Inv /\ InLine /\ Accounted /\ [Next]_vars => Accounted'
  <2> SUFFICES ASSUME Inv, InLine, Accounted, [Next]_vars, isEnabled', NEW c \in admitted'
               PROVE  Owes(c)'
    BY DEF Accounted
  <2>1. CASE isEnabled
    <3>1. Followed(c)
      BY TracksNext DEF Tracks
    <3>2. ~MarkRunningFails(c)
      BY DEF MarkRunningFails, RowsCanBeWritten
    <3>3. c \in admitted => Owes(c)
      BY <2>1 DEF Accounted
    <3> QED BY <3>1, <3>2, <3>3 DEF Followed, Owes
  <2>2. CASE ~isEnabled
    <3>1. admitted' = {}
      BY <2>2, EnabledAgain
    <3> QED BY <3>1
  <2> QED BY <2>1, <2>2
<1> QED BY <1>1, <1>2, InvHolds, InLineHolds, PTL DEF Safety

-----------------------------------------------------------------------------
(* A process in which nothing waits and nothing arrives before the startup   *)
(* pass. Then an execution has one call at a time: its first run, or the run *)
(* that the startup pass gives it, which takes the row over from a process   *)
(* that is gone. Executions that wait, or are resumed by requests, may run   *)
(* twice: the run double_run shows how.                                      *)
NothingWaits ==
  /\ ~EarlyTraffic
  /\ ~WebhookResumes
  /\ ~MayWait

Calm ==
  /\ \A e \in Executions : ~db[e].waitTill /\ waitingExecutions[e] = "none"
  /\ query = NoQuery
  /\ \A c \in Calls : call[c].stage # "reading" /\ call[c].outcome # "waiting"

(* No two calls for one execution; none for an execution that is not there   *)
(* yet or that the startup pass has still to run; none before that pass.     *)
Single ==
  /\ \A c, d \in Calls : Live(call[c]) /\ Live(call[d]) /\ call[c].exec = call[d].exec => c = d
  /\ \A c \in Calls : Live(call[c]) =>
       /\ call[c].exec \in Executions \ enqueued
       /\ db[call[c].exec].status # "absent"
       /\ phase \in {"up", "stopping"}
  /\ \A e \in enqueued : db[e].status # "absent" /\ phase \in {"up", "stopping"}

(* A call with a promise has the entry, and its workflow, once it runs, is   *)
(* attached to it.                                                           *)
Entered ==
  \A c \in Calls : call[c].promise # "none" =>
    /\ active[call[c].exec] # NoEntry
    /\ active[call[c].exec].owner = c
    /\ call[c].stage = "running" => call[c].tracked /\ active[call[c].exec].run = c

Solo == Calm /\ Single /\ Entered

(* What a step may do to a call when no call starts. *)
Quiet(c) ==
  /\ Live(call'[c]) => Live(call[c]) /\ call'[c].exec = call[c].exec
  /\ call'[c].stage # "reading" /\ call'[c].outcome # "waiting"

(* Rows stay, and none begins to wait. *)
RowsStay ==
  \A e \in Executions : /\ db[e].status # "absent" => db'[e].status # "absent"
                        /\ ~db[e].waitTill => ~db'[e].waitTill

LEMMA QuietSingle ==
  ASSUME Inv, Single, \A c \in Calls : Quiet(c), RowsStay,
         UNCHANGED enqueued,
         phase \in {"up", "stopping"} => phase' \in {"up", "stopping"}
  PROVE  Single'
<1>1. enqueued \subseteq Executions
  BY InvParts
<1>2. ASSUME NEW c \in Calls, Live(call'[c])
      PROVE  /\ Live(call[c]) /\ call'[c].exec = call[c].exec
             /\ call'[c].exec \in Executions \ enqueued'
             /\ db'[call'[c].exec].status # "absent"
             /\ phase' \in {"up", "stopping"}
  BY <1>2 DEF Quiet, Single, RowsStay
<1>3. \A e \in enqueued' : db'[e].status # "absent" /\ phase' \in {"up", "stopping"}
  BY <1>1 DEF Single, RowsStay
<1> QED BY <1>2, <1>3 DEF Single

TrackerQuiet ==
  /\ query' = query
  /\ \A e \in Executions : waitingExecutions[e] = "none" => waitingExecutions'[e] = "none"

LEMMA QuietCalm ==
  ASSUME Calm, \A c \in Calls : Quiet(c), RowsStay, TrackerQuiet
  PROVE  Calm'
BY DEF Calm, Quiet, RowsStay, TrackerQuiet

(* Steps that leave the entries alone. *)
LEMMA GoesOnSolo ==
  ASSUME NothingWaits, Inv, Solo, GoesOn, UNCHANGED active
  PROVE  (\A c \in Calls : Quiet(c)) /\ Entered'
<1>1. ASSUME NEW c \in Calls
      PROVE  Steady(call[c], call'[c])
  BY <1>1 DEF GoesOn, Solo, Calm
<1>2. ASSUME NEW c \in Calls
      PROVE  Quiet(c)
  BY <1>1 DEF Quiet, Steady, NothingWaits, Solo, Calm
<1>3. ASSUME NEW c \in Calls, call'[c].promise # "none"
      PROVE  /\ active'[call'[c].exec] # NoEntry
             /\ active'[call'[c].exec].owner = c
             /\ call'[c].stage = "running" => call'[c].tracked /\ active'[call'[c].exec].run = c
  <2>1. call[c].promise # "none" /\ call'[c].exec = call[c].exec
    BY <1>1, <1>3 DEF Steady, Live
  <2> QED BY <1>1, <2>1 DEF Solo, Entered, Steady
<1> QED BY <1>2, <1>3 DEF Entered

(* The rows that a step writes. *)
LEMMA RowStays ==
  ASSUME Safe, NEW e, NEW row \in Rows, db' = [db EXCEPT ![e] = row],
         row.status # "absent",
         e \in Executions /\ row.waitTill => db[e].waitTill
  PROVE  RowsStay
BY DEF Safe, LifeTypeOK, RowsStay

LEMMA RowsUnchanged ==
  ASSUME UNCHANGED db
  PROVE  RowsStay
BY DEF RowsStay

LEMMA OwnStepRows ==
  ASSUME Safe, Calm, NEW c \in Calls,
         \/ MarkRunning(c) \/ MarkRunningFails(c) \/ RefuseRun(c) \/ RejectRun(c)
         \/ PrepareRun(c) \/ PrepareRunFails(c) \/ EndAborted(c) \/ SaveRun(c) \/ SaveCanceled(c)
         \/ \E outcome \in Outcomes : EndRun(c, outcome)
  PROVE  RowsStay
<1>0. /\ db \in [Executions -> Rows]
      /\ call[c].stage # "idle" => call[c].exec \in Executions
  BY CallFacts DEF Safe, LifeTypeOK, Fits
<1> DEFINE e == call[c].exec
<1>1. CASE MarkRunning(c)
  <2> DEFINE row == [db[e] EXCEPT !.status = "running",
                                  !.waitTill = IF call[c].resume THEN FALSE ELSE db[e].waitTill]
  <2>1. e \in Executions /\ db[e] \in Rows
    BY <1>0, <1>1 DEF MarkRunning, IsLetThrough
  <2>2. row \in Rows /\ row.status = "running" /\ (row.waitTill => db[e].waitTill)
    BY <2>1 DEF Rows, Statuses
  <2>3. db' = [db EXCEPT ![e] = row]
    BY <1>1 DEF MarkRunning
  <2> HIDE DEF row, e
  <2> QED BY <2>2, <2>3, RowStays
<1>2. CASE RefuseRun(c)
  <2> DEFINE row == [db[e] EXCEPT !.status = "error", !.hasError = TRUE]
  <2>1. e \in Executions /\ db[e] \in Rows
    BY <1>0, <1>2 DEF RefuseRun
  <2>2. row \in Rows /\ row.status = "error" /\ (row.waitTill => db[e].waitTill)
    BY <2>1 DEF Rows, Statuses
  <2>3. db' = [db EXCEPT ![e] = row]
    BY <1>2 DEF RefuseRun
  <2> HIDE DEF row, e
  <2> QED BY <2>2, <2>3, RowStays
<1>3. CASE PrepareRun(c)
  <2> DEFINE row == [db[e] EXCEPT !.status = "running"]
  <2>1. e \in Executions /\ db[e] \in Rows
    BY <1>0, <1>3 DEF PrepareRun
  <2>2. row \in Rows /\ row.status = "running" /\ (row.waitTill => db[e].waitTill)
    BY <2>1 DEF Rows, Statuses
  <2>3. db' = [db EXCEPT ![e] = row]
    BY <1>3 DEF PrepareRun
  <2> HIDE DEF row, e
  <2> QED BY <2>2, <2>3, RowStays
<1>4. CASE SaveRun(c)
  <2> DEFINE row == SavedRow(db[e], call[c].outcome)
  <2>1. e \in Executions /\ db[e] \in Rows /\ call[c].outcome \in Outcomes \ {"waiting"}
    BY <1>0, <1>4, CallFacts DEF SaveRun, Fits, Calm
  <2>2. row \in Rows
    BY <2>1, SavedRowType
  <2>3. row.status # "absent" /\ (row.waitTill => db[e].waitTill)
    BY <2>1 DEF Rows, SavedRow, Outcomes
  <2>4. db' = [db EXCEPT ![e] = row]
    BY <1>4 DEF SaveRun
  <2> HIDE DEF row, e
  <2> QED BY <2>2, <2>3, <2>4, RowStays
<1>5. CASE SaveCanceled(c)
  <2> DEFINE row == [db[e] EXCEPT !.status = "canceled", !.hasError = FALSE]
  <2>1. db' = [db EXCEPT ![e] = row]
    BY <1>5 DEF SaveCanceled
  <2>2. CASE e \in Executions
    <3>1. db[e] \in Rows
      BY <1>0, <2>2
    <3>2. row \in Rows /\ row.status = "canceled" /\ (row.waitTill => db[e].waitTill)
      BY <3>1 DEF Rows, Statuses
    <3> HIDE DEF row, e
    <3> QED BY <2>1, <3>2, RowStays
  <2>3. CASE e \notin Executions
    <3> HIDE DEF row
    <3>1. db' = db
      BY <1>0, <2>1, <2>3
    <3> QED BY <3>1, RowsUnchanged
  <2> QED BY <2>2, <2>3
<1>6. CASE ~(MarkRunning(c) \/ RefuseRun(c) \/ PrepareRun(c) \/ SaveRun(c) \/ SaveCanceled(c))
  BY <1>6, RowsUnchanged DEF MarkRunningFails, RejectRun, PrepareRunFails, EndAborted, EndRun
<1> QED BY <1>1, <1>2, <1>3, <1>4, <1>5, <1>6

LEMMA StopRows ==
  ASSUME Safe, StopTypeOK, NEW s \in Requests,
         (\E e \in Executions : StopArrives(s, e)) \/ StopIsServed(s)
  PROVE  RowsStay
<1>1. CASE WriteStopped(s)
  <2> DEFINE e == stop[s].exec
             before == [db[e] EXCEPT !.status = "canceled"]
             during == [db[e] EXCEPT !.status = "canceled", !.waitTill = FALSE, !.hasError = TRUE]
  <2>1. e \in Executions /\ db[e] \in Rows
    BY <1>1, StopFacts DEF WriteStopped, Safe, LifeTypeOK
  <2>2. /\ before \in Rows /\ before.status = "canceled" /\ (before.waitTill => db[e].waitTill)
        /\ during \in Rows /\ during.status = "canceled" /\ ~during.waitTill
    BY <2>1 DEF Rows, Statuses
  <2>3. db' = [db EXCEPT ![e] = before] \/ db' = [db EXCEPT ![e] = during]
    BY <1>1 DEF WriteStopped
  <2> HIDE DEF before, during, e
  <2> QED BY <2>2, <2>3, RowStays
<1>2. CASE ~WriteStopped(s)
  BY <1>2, RowsUnchanged
     DEF StopArrives, RequestStop, StopIsServed, ServeStop, StopQueued, StopOther, lifeVars
<1> QED BY <1>1, <1>2

-----------------------------------------------------------------------------
(* The steps of the calls that are there. *)

(* What is left to show of a step that starts no call. *)
Stays == (\A c \in Calls : Quiet(c)) /\ Entered'

LEMMA RegisterStays ==
  ASSUME Safe, Solo, NEW c \in Calls, Register(c)
  PROVE  Stays
<1>1. /\ call[c].stage = "marked" /\ call[c].exec \in Executions
      /\ call'[c].stage = "registered" /\ call'[c].exec = call[c].exec
      /\ call'[c].outcome = call[c].outcome
      /\ \A d \in Calls \ {c} : call'[d] = call[d]
      /\ \A e \in Executions \ {call[c].exec} : active'[e] = active[e]
      /\ active' = [active EXCEPT ![call[c].exec] = [owner |-> c, run |-> NoCall]]
  BY RegisterFacts
<1>2. [owner |-> c, run |-> NoCall] \in Entries
  BY DEF Entries
<1>3. active'[call[c].exec] = [owner |-> c, run |-> NoCall]
  BY <1>1 DEF Safe, LifeTypeOK
<1>4. active'[call[c].exec] # NoEntry /\ active'[call[c].exec].owner = c
  BY <1>2, <1>3, NoEntryType
<1>5. \A d \in Calls : Quiet(d)
  BY <1>1 DEF Quiet, Live, Solo, Calm
<1>6. ASSUME NEW d \in Calls \ {c}, call'[d].promise # "none"
      PROVE  call'[d] = call[d] /\ active'[call[d].exec] = active[call[d].exec]
  <2>1. call'[d] = call[d] /\ Live(call[d]) /\ Live(call[c])
    BY <1>1, <1>6 DEF Live
  <2>2. call[d].exec \in Executions \ {call[c].exec}
    BY <2>1 DEF Solo, Single
  <2> QED BY <1>1, <2>1, <2>2
<1>7. Entered'
  <2>1. ASSUME NEW d \in Calls, call'[d].promise # "none"
        PROVE  /\ active'[call'[d].exec] # NoEntry
               /\ active'[call'[d].exec].owner = d
               /\ call'[d].stage = "running" => call'[d].tracked /\ active'[call'[d].exec].run = d
    <3>1. CASE d = c
      BY <1>1, <1>4, <3>1
    <3>2. CASE d # c
      <4>1. call'[d] = call[d] /\ active'[call[d].exec] = active[call[d].exec]
        BY <1>6, <2>1, <3>2
      <4> QED BY <2>1, <4>1 DEF Solo, Entered
    <3> QED BY <3>1, <3>2
  <2> QED BY <2>1 DEF Entered
<1> QED BY <1>5, <1>7 DEF Stays

LEMMA RemoveEntryStays ==
  ASSUME Safe, QueueInv', Solo, NEW c \in Calls, RemoveEntry(c)
  PROVE  Stays
<1>1. /\ call[c].promise = "settled"
      /\ call'[c].promise = "none" /\ call'[c].stage = call[c].stage
      /\ Live(call'[c]) => call'[c].exec = call[c].exec
      /\ call'[c].outcome = "waiting" => call[c].outcome = "waiting"
      /\ \A d \in Calls \ {c} : call'[d] = call[d]
      /\ \A e \in Executions \ {call[c].exec} : active'[e] = active[e]
  BY RemoveEntryFacts
<1>2. \A d \in Calls : Quiet(d)
  BY <1>1 DEF Quiet, Live, Solo, Calm
<1>3. ASSUME NEW d \in Calls, call'[d].promise # "none"
      PROVE  call'[d] = call[d] /\ active'[call[d].exec] = active[call[d].exec]
  <2>1. d # c /\ call'[d] = call[d] /\ Live(call[d]) /\ Live(call[c])
    BY <1>1, <1>3 DEF Live
  <2>2. call[d].exec \in Executions \ {call[c].exec}
    BY <2>1 DEF Solo, Single
  <2> QED BY <1>1, <2>1, <2>2
<1>4. Entered'
  BY <1>3 DEF Solo, Entered
<1> QED BY <1>2, <1>4 DEF Stays

LEMMA StartRunStays ==
  ASSUME Safe, Solo, NEW c \in Calls, StartRun(c)
  PROVE  Stays
<1>1. /\ call[c].stage = "starting" /\ call[c].exec \in Executions
      /\ call'[c].stage = "running"
      /\ call'[c].exec = call[c].exec /\ call'[c].promise = call[c].promise
      /\ call'[c].outcome = call[c].outcome
      /\ \A d \in Calls \ {c} : call'[d] = call[d]
      /\ \A e \in Executions \ {call[c].exec} : active'[e] = active[e]
      /\ active[call[c].exec] # NoEntry =>
           /\ call'[c].tracked
           /\ active'[call[c].exec] # NoEntry
           /\ active'[call[c].exec].owner = active[call[c].exec].owner
           /\ active'[call[c].exec].run = c
  BY StartRunFacts
<1>2. \A d \in Calls : Quiet(d)
  BY <1>1 DEF Quiet, Live, Solo, Calm
<1>3. Entered'
  <2>1. ASSUME NEW d \in Calls, call'[d].promise # "none"
        PROVE  /\ active'[call'[d].exec] # NoEntry
               /\ active'[call'[d].exec].owner = d
               /\ call'[d].stage = "running" => call'[d].tracked /\ active'[call'[d].exec].run = d
    <3>1. CASE d = c
      BY <1>1, <2>1, <3>1 DEF Solo, Entered
    <3>2. CASE d # c
      <4>1. call'[d] = call[d] /\ Live(call[d]) /\ Live(call[c])
        BY <1>1, <2>1, <3>2 DEF Live
      <4>2. call[d].exec \in Executions \ {call[c].exec}
        BY <3>2, <4>1 DEF Solo, Single
      <4> QED BY <1>1, <2>1, <4>1, <4>2 DEF Solo, Entered
    <3> QED BY <3>1, <3>2
  <2> QED BY <2>1 DEF Entered
<1> QED BY <1>2, <1>3 DEF Stays

LEMMA StopQueuedStays ==
  ASSUME Safe, InLine, QueueInv', StopTypeOK, Solo, NEW s \in Requests, StopQueued(s)
  PROVE  Stays
<1>1. UNCHANGED active
  BY StopQueuedFacts
<1>2. CASE UNCHANGED <<queueVars, call>>
  BY <1>1, <1>2 DEF Stays, Quiet, Solo, Calm, Entered
<1>3. CASE \E c \in Calls : call'[c] = Idle /\ \A d \in Calls \ {c} : call'[d] = call[d]
  <2>1. PICK c \in Calls : call'[c] = Idle /\ \A d \in Calls \ {c} : call'[d] = call[d]
    BY <1>3
  <2>2. call'[c].promise = "none" /\ ~Live(call'[c]) /\ call'[c].stage = "idle" /\ call'[c].outcome = "none"
    BY <2>1 DEF Idle, Live
  <2>3. \A d \in Calls : Quiet(d)
    BY <2>1, <2>2 DEF Quiet, Solo, Calm
  <2>4. Entered'
    BY <1>1, <2>1, <2>2 DEF Entered, Solo
  <2> QED BY <2>3, <2>4 DEF Stays
<1> QED BY <1>2, <1>3, StopQueuedFacts

LEMMA CallStays ==
  ASSUME NothingWaits, Inv, Inv', InLine, Solo,
         NEW c \in Calls, Proceed(c) \/ Disturb(c)
  PROVE  Stays /\ RowsStay
<1>0. Safe /\ QueueInv'
  BY InvParts, InvPartsNext DEF Safe
<1>1. CASE Register(c)
  BY <1>0, <1>1, RegisterStays, RowsUnchanged DEF Register
<1>2. CASE RemoveEntry(c)
  BY <1>0, <1>2, RemoveEntryStays, RowsUnchanged DEF RemoveEntry
<1>3. CASE StartRun(c)
  BY <1>0, <1>3, StartRunStays, RowsUnchanged DEF StartRun
<1>4. CASE StartRunFails(c) \/ FinalizeRun(c) \/ TimeOut(c)
  <2>1. UNCHANGED db
    BY <1>4 DEF StartRunFails, FinalizeRun, TimeOut
  <2> QED BY <1>0, <1>4, <2>1, SettlingGoesOn, GoesOnSolo, RowsUnchanged DEF Stays
<1>5. CASE EnterThrottle(c)
  <2>1. UNCHANGED db
    BY <1>5 DEF EnterThrottle
  <2> QED BY <1>0, <1>5, <2>1, EnterThrottleGoesOn, GoesOnSolo, RowsUnchanged DEF Stays
<1>6. CASE ~(\/ Register(c) \/ RemoveEntry(c) \/ StartRun(c) \/ StartRunFails(c)
             \/ FinalizeRun(c) \/ TimeOut(c) \/ EnterThrottle(c))
  <2>1. \/ MarkRunning(c) \/ MarkRunningFails(c) \/ RefuseRun(c) \/ RejectRun(c)
        \/ PrepareRun(c) \/ PrepareRunFails(c) \/ EndAborted(c) \/ SaveRun(c) \/ SaveCanceled(c)
        \/ \E outcome \in Outcomes : EndRun(c, outcome)
    BY <1>6 DEF Proceed, Disturb
  <2>2. GoesOn /\ UNCHANGED active
    BY <1>0, <2>1, OwnStepGoesOn
  <2>3. RowsStay
    BY <1>0, <2>1, OwnStepRows DEF Solo
  <2> QED BY <2>2, <2>3, GoesOnSolo DEF Stays
<1> QED BY <1>1, <1>2, <1>3, <1>4, <1>5, <1>6

-----------------------------------------------------------------------------
(* The steps that start a call: for a row that was not there, or for one     *)
(* that the startup pass has still to run.                                   *)
LEMMA StartSolo ==
  ASSUME Inv, Solo, NEW c \in Calls, IsFree(c), NEW e \in Executions,
         \A d \in Calls \ {c} : call'[d] = call[d],
         call'[c].exec = e, call'[c].promise = "none",
         call'[c].stage # "reading", call'[c].stage # "running", call'[c].outcome # "waiting",
         \A d \in Calls : Live(call[d]) => call[d].exec # e,
         e \notin enqueued', enqueued' \subseteq enqueued,
         db'[e].status # "absent", RowsStay,
         phase' \in {"up", "stopping"},
         UNCHANGED <<active, trackerVars>>
  PROVE  Solo'
<1>1. UNCHANGED <<waitingExecutions, query>> /\ enqueued \subseteq Executions
  BY InvParts DEF trackerVars
<1>2. Calm'
  <2>1. \A d \in Calls : call'[d].stage # "reading" /\ call'[d].outcome # "waiting"
    BY DEF Solo, Calm
  <2> QED BY <1>1, <2>1 DEF Solo, Calm, RowsStay
<1>3. Single'
  <2>1. ASSUME NEW d \in Calls \ {c}, Live(call'[d])
        PROVE  /\ Live(call[d]) /\ call'[d] = call[d] /\ call'[d].exec # e
               /\ call'[d].exec \in Executions \ enqueued'
               /\ db'[call'[d].exec].status # "absent"
    <3>1. call'[d] = call[d] /\ Live(call[d]) /\ call[d].exec # e
      BY <2>1
    <3> QED BY <3>1 DEF Solo, Single, RowsStay
  <2>2. \A a, b \in Calls : Live(call'[a]) /\ Live(call'[b]) /\ call'[a].exec = call'[b].exec => a = b
    BY <2>1 DEF Solo, Single
  <2>3. \A a \in Calls : Live(call'[a]) =>
          /\ call'[a].exec \in Executions \ enqueued'
          /\ db'[call'[a].exec].status # "absent"
    BY <2>1
  <2>4. \A f \in enqueued' : db'[f].status # "absent"
    BY <1>1 DEF Solo, Single, RowsStay
  <2> QED BY <2>2, <2>3, <2>4 DEF Single
<1>4. Entered'
  BY DEF Solo, Entered
<1> QED BY <1>2, <1>3, <1>4 DEF Solo

LEMMA NewExecutionSolo ==
  ASSUME NothingWaits, Inv, Solo, NEW c \in Calls, NEW e \in Executions, NEW mode \in CreateModes,
         NewExecutionArrives(c, e, mode)
  PROVE  Solo'
<1>1. /\ IsFree(c) /\ db[e].status = "absent"
      /\ db' = [db EXCEPT ![e] = [NoRow EXCEPT !.status = "new", !.mode = mode]]
      /\ call' = [call EXCEPT ![c] = [Idle EXCEPT !.stage = "ready", !.exec = e, !.mode = mode]]
      /\ UNCHANGED <<active, trackerVars, phase, enqueued>>
      /\ phase \notin {"down", "starting"}
  BY DEF NewExecutionArrives, CreateExecution, processVars, IsUp, NothingWaits
<1>2. /\ call'[c].exec = e /\ call'[c].promise = "none"
      /\ call'[c].stage = "ready" /\ call'[c].outcome = "none"
      /\ \A d \in Calls \ {c} : call'[d] = call[d]
  BY <1>1, InvParts DEF Safe, LifeTypeOK, Idle
<1> DEFINE row == [NoRow EXCEPT !.status = "new", !.mode = mode]
<1>3. row \in Rows /\ row.status = "new" /\ ~row.waitTill
  BY EnvironmentTypes DEF NoRow, Rows, Statuses
<1>4. RowsStay
  <2> HIDE DEF row
  <2> QED BY <1>1, <1>3, InvParts, RowStays DEF row
<1>5. db'[e].status # "absent"
  BY <1>1, InvParts DEF Safe, LifeTypeOK, NoRow
<1>6. phase' \in {"up", "stopping"}
  BY <1>1, InvParts DEF Phases
<1>7. e \notin enqueued /\ \A d \in Calls : Live(call[d]) => call[d].exec # e
  BY <1>1 DEF Solo, Single
<1> QED BY <1>1, <1>2, <1>4, <1>5, <1>6, <1>7, StartSolo

LEMMA RunEnqueuedSolo ==
  ASSUME Inv, InLine, QueueInv', Solo, NEW c \in Calls, RunEnqueued(c)
  PROVE  Solo'
<1>0. Safe
  BY InvParts
<1>1. PICK e \in enqueued \cap Executions, r \in CallStates :
        /\ r.exec = e /\ r.promise = "none" /\ r.outcome = "none"
        /\ IsFree(c) /\ ~Placed(c) /\ Throttle(c, r) /\ enqueued' = enqueued \ {e}
  BY <1>0, RunEnqueuedThrottles
<1>2. /\ \A d \in Calls \ {c} : call'[d] = call[d]
      /\ call'[c].exec = e /\ call'[c].promise = "none" /\ call'[c].outcome = "none"
      /\ call'[c].stage \in {"passed", "throttled"}
  BY <1>0, <1>1, ThrottleInLine
<1>3. UNCHANGED <<db, active, trackerVars, phase>>
  BY DEF RunEnqueued
<1>4. \A d \in Calls : Live(call[d]) => call[d].exec # e
  BY <1>1 DEF Solo, Single
<1>5. db[e].status # "absent" /\ phase \in {"up", "stopping"}
  BY <1>1 DEF Solo, Single
<1> QED BY <1>1, <1>2, <1>3, <1>4, <1>5, RowsUnchanged, StartSolo

(* Nothing is resumed. *)
LEMMA NothingResumes ==
  ASSUME NothingWaits, Solo
  PROVE  /\ \A c \in Calls : ~ResumeWaiting(c)
         /\ \A c \in Calls, e \in Executions : ~ResumeOnRequest(c, e)
         /\ ~Track
<1>1. DueExecutions = {}
  BY DEF Solo, Calm, DueExecutions
<1>2. ~Track
  BY <1>1 DEF Solo, Calm, Track, Poll, ArmTimers
<1>3. \A c \in Calls : ~ResumeWaiting(c)
  BY DEF Solo, Calm, ResumeWaiting, TimerFires, FireTimer, RowIsRead, ReadWaiting
<1> QED BY <1>2, <1>3 DEF ResumeOnRequest, NothingWaits

LEMMA QuietSolo ==
  ASSUME Inv, Solo, Stays, RowsStay, TrackerQuiet, UNCHANGED enqueued,
         phase \in {"up", "stopping"} => phase' \in {"up", "stopping"}
  PROVE  Solo'
BY QuietSingle, QuietCalm DEF Solo, Stays

LEMMA SameStays ==
  ASSUME Solo, UNCHANGED <<call, active>>
  PROVE  Stays
BY DEF Stays, Quiet, Solo, Calm, Entered

LEMMA GoDownSolo ==
  ASSUME Solo, GoDown
  PROVE  Solo'
<1>1. /\ \A c \in Calls : call'[c] = Idle
      /\ \A e \in Executions : waitingExecutions'[e] = "none"
      /\ query' = NoQuery /\ db' = db /\ enqueued' = {}
  BY DEF GoDown
<1>2. /\ ~Live(Idle) /\ Idle.stage # "reading" /\ Idle.outcome # "waiting" /\ Idle.promise = "none"
  BY DEF Idle, Live
<1> QED BY <1>1, <1>2 DEF Solo, Calm, Single, Entered

LEMMA ProcessSolo ==
  ASSUME Inv, Solo, FindEnqueued \/ BeginShutdown \/ DisableConcurrencyControl \/ Restart
  PROVE  Solo'
<1>1. Stays
  BY SameStays DEF FindEnqueued, BeginShutdown, DisableConcurrencyControl, Restart, lifeVars
<1>2. CASE FindEnqueued
  <2>1. phase = "starting" /\ phase' = "up" /\ enqueued' = NewExecutions /\ UNCHANGED <<db, call>>
    BY <1>2 DEF FindEnqueued, lifeVars
  <2>2. \A c \in Calls : ~Live(call[c])
    BY <2>1 DEF Solo, Single
  <2>3. Single'
    BY <2>1, <2>2 DEF Single, NewExecutions
  <2>4. UNCHANGED <<waitingExecutions, query>>
    BY <1>2 DEF FindEnqueued, trackerVars
  <2>5. TrackerQuiet /\ RowsStay
    BY <2>1, <2>4, RowsUnchanged DEF TrackerQuiet
  <2> QED BY <1>1, <2>3, <2>5, QuietCalm DEF Solo, Stays
<1>3. CASE BeginShutdown
  <2>1. /\ query' = query /\ waitingExecutions' = ClearedTimers /\ phase' = "stopping"
        /\ UNCHANGED <<db, enqueued>>
    BY <1>3 DEF BeginShutdown, StopTracking, lifeVars
  <2>2. TrackerQuiet
    BY <2>1 DEF TrackerQuiet, ClearedTimers
  <2> QED BY <1>1, <2>1, <2>2, RowsUnchanged, QuietSolo
<1>4. CASE DisableConcurrencyControl
  BY <1>1, <1>4, RowsUnchanged, QuietSolo
     DEF DisableConcurrencyControl, trackerVars, processVars, TrackerQuiet
<1>5. CASE Restart
  <2>1. phase = "down" /\ UNCHANGED <<waitingExecutions, query, enqueued>>
    BY <1>5 DEF Restart, trackerVars
  <2>2. RowsStay
    <3>1. ASSUME NEW e \in Executions
          PROVE  /\ db[e].status # "absent" => db'[e].status # "absent"
                 /\ ~db[e].waitTill => ~db'[e].waitTill
      <4>1. /\ db[e] \in Rows
            /\ db'[e] = IF db[e].status = "running" THEN [db[e] EXCEPT !.status = "crashed"] ELSE db[e]
        BY <1>5, InvParts DEF Restart, Safe, LifeTypeOK
      <4> QED BY <4>1 DEF Rows
    <3> QED BY <3>1 DEF RowsStay
  <2> QED BY <1>1, <2>1, <2>2, QuietSolo DEF TrackerQuiet
<1> QED BY <1>2, <1>3, <1>4, <1>5

LEMMA StopSolo ==
  ASSUME NothingWaits, Inv, Inv', InLine, Solo, NEW s \in Requests,
         (\E e \in Executions : StopArrives(s, e)) \/ StopIsServed(s)
  PROVE  Solo'
<1>0. Safe /\ StopTypeOK /\ QueueInv'
  BY InvParts, InvPartsNext DEF Safe
<1>1. RowsStay
  BY <1>0, StopRows
<1>2. Stays
  <2>1. StopQueued(s) => Stays
    BY <1>0, StopQueuedStays
  <2>2. StopOther(s) => Stays
    BY <1>0, StopOtherGoesOn, GoesOnSolo DEF Stays
  <2>3. (\E e \in Executions : StopArrives(s, e)) \/ WriteStopped(s) => UNCHANGED <<call, active>>
    BY DEF StopArrives, RequestStop, WriteStopped, lifeVars
  <2> QED BY <2>1, <2>2, <2>3, SameStays DEF StopIsServed, ServeStop
<1>3. UNCHANGED <<enqueued, phase>>
  BY DEF StopArrives, StopIsServed, processVars
<1>4. TrackerQuiet
  <2>1. CASE StopOther(s)
    <3> DEFINE gone == stop[s].exec
    <3>1. waitingExecutions' = [waitingExecutions EXCEPT ![gone] = "none"] /\ query' = query
      BY <2>1 DEF StopOther, WithoutTimer
    <3>2. DOMAIN waitingExecutions = Executions
      BY InvParts DEF TrackerTypeOK
    <3> HIDE DEF gone
    <3> QED BY <3>1, <3>2 DEF TrackerQuiet
  <2>2. CASE ~StopOther(s)
    BY <2>2 DEF StopArrives, RequestStop, StopIsServed, ServeStop, StopQueued, WriteStopped,
                trackerVars, TrackerQuiet
  <2> QED BY <2>1, <2>2
<1> QED BY <1>1, <1>2, <1>3, <1>4, QuietSolo

LEMMA SoloNext == NothingWaits /\ Inv /\ InLine /\ Solo /\ [Next]_vars => Solo'
<1> SUFFICES ASSUME NothingWaits, Inv, InLine, Solo, [Next]_vars PROVE Solo'
  OBVIOUS
<1>0. Inv' /\ Safe /\ QueueInv'
  BY InvNext, InvParts, InvPartsNext DEF Safe
<1>1. ASSUME NEW c \in Calls, CallProceeds(c) \/ CallDisturbed(c)
      PROVE  Solo'
  <2>1. Stays /\ RowsStay
    BY <1>0, <1>1, CallStays DEF CallProceeds, CallDisturbed
  <2>2. TrackerQuiet /\ UNCHANGED <<enqueued, phase>>
    BY <1>1 DEF CallProceeds, CallDisturbed, trackerVars, processVars, TrackerQuiet
  <2> QED BY <2>1, <2>2, QuietSolo
<1>2. ASSUME NEW c \in Calls, NEW e \in Executions, NEW mode \in CreateModes,
             NewExecutionArrives(c, e, mode)
      PROVE  Solo'
  BY <1>2, NewExecutionSolo
<1>3. ASSUME NEW c \in Calls, RunEnqueued(c)
      PROVE  Solo'
  BY <1>0, <1>3, RunEnqueuedSolo
<1>4. ASSUME NEW s \in Requests, (\E e \in Executions : StopArrives(s, e)) \/ StopIsServed(s)
      PROVE  Solo'
  BY <1>0, <1>4, StopSolo
<1>5. CASE Exit \/ Crash
  BY <1>5, GoDownSolo DEF Exit, Crash
<1>6. CASE FindEnqueued \/ BeginShutdown \/ DisableConcurrencyControl \/ Restart
  BY <1>6, ProcessSolo
<1>7. CASE UNCHANGED vars
  <2>1. UNCHANGED <<db, call, active, query, waitingExecutions, phase, enqueued>>
    BY <1>7 DEF vars, lifeVars, trackerVars, processVars
  <2> QED BY <2>1, SameStays, RowsUnchanged, QuietSolo DEF TrackerQuiet
<1> QED BY <1>1, <1>2, <1>3, <1>4, <1>5, <1>6, <1>7, NothingResumes DEF Next

LEMMA SoloHolds == NothingWaits => (Safety => []Solo)
<1> SUFFICES ASSUME NothingWaits PROVE Safety => []Solo
  OBVIOUS
<1>1. Init => Solo
  <2> SUFFICES ASSUME Init PROVE Solo
    OBVIOUS
  <2>1. /\ \A c \in Calls : call[c] = Idle
        /\ \A e \in Executions : db[e] = NoRow /\ waitingExecutions[e] = "none"
        /\ query = NoQuery /\ enqueued = {}
    BY DEF Init, LifeInit, ProcessInit, TrackerInit
  <2>2. /\ ~Live(Idle) /\ Idle.stage # "reading" /\ Idle.outcome # "waiting" /\ Idle.promise = "none"
        /\ ~NoRow.waitTill
    BY DEF Idle, Live, NoRow
  <2> QED BY <2>1, <2>2 DEF Solo, Calm, Single, Entered
<1>2. Inv /\ InLine /\ Solo /\ [Next]_vars => Solo'
  BY SoloNext
<1> QED BY <1>1, <1>2, InvHolds, InLineHolds, PTL DEF Safety

(* Where nothing waits and nothing arrives early, no execution runs twice at *)
(* the same time: neither the startup pass, nor a restart in the middle of   *)
(* one, nor a stop that races the run lets a second call start.              *)
THEOREM RunsOnce == NothingWaits => (Safety => []NoDoubleRun)
<1>1. Solo => NoDoubleRun
  BY DEF Solo, Single, NoDoubleRun, Live
<1> QED BY <1>1, SoloHolds, PTL

(* There, a workflow that somebody waits for is always attached to the entry *)
(* of its execution, so that a stop or a timeout reaches it.                 *)
THEOREM RunsAreStoppable == NothingWaits => (Safety => []RunsCanBeStopped)
<1>1. Inv /\ Solo => RunsCanBeStopped
  <2> SUFFICES ASSUME Inv, Solo, NEW c \in Calls, call[c].stage = "running", call[c].promise = "pending"
               PROVE  call[c].tracked /\ active[call[c].exec] = [owner |-> c, run |-> c]
    BY DEF RunsCanBeStopped
  <2> DEFINE entry == active[call[c].exec]
  <2>1. call[c].exec \in Executions
    BY CallFacts, InvParts DEF Fits
  <2>2. entry # NoEntry /\ entry.owner = c /\ entry.run = c /\ call[c].tracked
    BY DEF Solo, Entered
  <2>3. entry \in Entries
    BY <2>1, <2>2, InvParts DEF Safe, LifeTypeOK
  <2> HIDE DEF entry
  <2>4. entry = [owner |-> c, run |-> c]
    BY <2>2, <2>3 DEF Entries
  <2> QED BY <2>2, <2>4 DEF entry
<1> QED BY <1>1, InvHolds, SoloHolds, PTL

(* And if every row can be written, capacity is never held by nobody.        *)
THEOREM CapacityComesBack == NothingWaits /\ RowsCanBeWritten => (Safety => []NoCapacityLost)
<1>1. Inv /\ Solo /\ Accounted => NoCapacityLost
  <2> SUFFICES ASSUME Inv, Solo, Accounted, isEnabled, NEW c \in admitted
               PROVE  IsAccountable(c)
    BY DEF NoCapacityLost
  <2>1. c \in Calls /\ call[c].promise \in {"none", "pending", "settled"}
    BY InvParts, CallFacts DEF Safe, QueueInv, QueueTypeOK, CallStates
  <2>2. Owes(c)
    BY DEF Accounted
  <2> QED BY <2>1, <2>2 DEF Owes, IsAccountable, Solo, Entered
<1> QED BY <1>1, InvHolds, SoloHolds, AccountedHolds, PTL
=============================================================================
