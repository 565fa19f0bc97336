----------------------- MODULE ConcurrencyQueue_proofs -----------------------
(***************************************************************************)
(* The queue's invariant is inductive for every limit and every finite set *)
(* of calls, and the counter implements the rule of Admission. The lemmas  *)
(* are stated per operation so that the modules that use the queue can     *)
(* cite them.                                                              *)
(***************************************************************************)
EXTENDS ConcurrencyQueue, TLAPS, FiniteSetTheorems, SequenceTheorems

(* The inductive invariant: the accounting needs OnePlace (a call is never   *)
(* counted twice), and WorkConserving needs the accounting.                  *)
QueueInv ==
  /\ QueueTypeOK
  /\ CapacityAccounting
  /\ WorkConserving
  /\ OnePlace

-----------------------------------------------------------------------------
(* A line of items, no call twice, none of them in S. *)
Line(q, S) ==
  /\ q \in Seq(Items)
  /\ S \in SUBSET Calls
  /\ \A i \in 1..Len(q) : q[i].call \notin S
  /\ \A i, j \in 1..Len(q) : q[i].call = q[j].call => i = j

LEMMA AdmittedFinite ==
  ASSUME NEW S \in SUBSET Calls
  PROVE  IsFiniteSet(S) /\ Cardinality(S) \in Nat
BY CallsFinite, FS_Subset, FS_CardinalityType

(* Removing one item leaves the others, in their order, ... *)
LEMMA RemoveAtItems ==
  ASSUME NEW q, NEW S, Line(q, S), NEW k \in 1..Len(q)
  PROVE  /\ RemoveAt(q, k) \in Seq(Items)
         /\ Len(q) \in Nat
         /\ Len(RemoveAt(q, k)) = Len(q) - 1
         /\ \A i \in 1..(Len(q) - 1) : RemoveAt(q, k)[i] = q[IF i < k THEN i ELSE i + 1]
<1> DEFINE front == SubSeq(q, 1, k - 1)
           back == SubSeq(q, k + 1, Len(q))
           r == RemoveAt(q, k)
<1>1. /\ Len(q) \in Nat
      /\ \A i \in 1..Len(q) : q[i] \in Items
  BY LenProperties, ElementOfSeq DEF Line
<1>2. /\ front \in Seq(Items)
      /\ Len(front) = k - 1
      /\ \A i \in 1..(k - 1) : front[i] = q[i]
  <2>1. \A i \in 1..(k - 1) : q[i] \in Items
    BY <1>1
  <2>2. /\ front \in Seq(Items)
        /\ Len(front) = IF 1 <= k - 1 THEN k - 1 - 1 + 1 ELSE 0
        /\ \A i \in 1..(k - 1 - 1 + 1) : front[i] = q[1 + i - 1]
    BY <1>1, <2>1, SubSeqProperties
  <2> QED BY <1>1, <2>2
<1>3. /\ back \in Seq(Items)
      /\ Len(back) = Len(q) - k
      /\ \A i \in 1..(Len(q) - k) : back[i] = q[k + i]
  <2>1. \A i \in (k + 1)..Len(q) : q[i] \in Items
    BY <1>1
  <2>2. /\ back \in Seq(Items)
        /\ Len(back) = IF k + 1 <= Len(q) THEN Len(q) - (k + 1) + 1 ELSE 0
        /\ \A i \in 1..(Len(q) - (k + 1) + 1) : back[i] = q[(k + 1) + i - 1]
    BY <1>1, <2>1, SubSeqProperties
  <2> QED BY <1>1, <2>2
<1>4. /\ r \in Seq(Items)
      /\ Len(r) = Len(q) - 1
      /\ \A i \in 1..(Len(q) - 1) : r[i] = q[IF i < k THEN i ELSE i + 1]
  <2>1. r = front \o back
    BY DEF RemoveAt
  <2>2. /\ r \in Seq(Items)
        /\ Len(r) = Len(front) + Len(back)
        /\ \A i \in 1..(Len(front) + Len(back)) :
             r[i] = IF i <= Len(front) THEN front[i] ELSE back[i - Len(front)]
    <3> HIDE DEF r, front, back
    <3> QED BY <1>2, <1>3, <2>1, ConcatProperties
  <2> HIDE DEF r, front, back
  <2>3. Len(r) = Len(q) - 1
    BY <1>1, <1>2, <1>3, <2>2
  <2>4. ASSUME NEW i \in 1..(Len(q) - 1)
        PROVE  r[i] = q[IF i < k THEN i ELSE i + 1]
    <3>1. i \in Int /\ k \in Int /\ Len(q) \in Nat /\ 1 <= i /\ 1 <= k /\ k <= Len(q)
      BY <1>1
    <3>2. r[i] = IF i <= k - 1 THEN front[i] ELSE back[i - (k - 1)]
      BY <1>2, <1>3, <2>2, <3>1
    <3>3. CASE i < k
      BY <1>2, <3>1, <3>2, <3>3
    <3>4. CASE i >= k
      <4>1. i - (k - 1) \in 1..(Len(q) - k) /\ k + (i - (k - 1)) = i + 1
        BY <3>1, <3>4
      <4>2. r[i] = q[k + (i - (k - 1))]
        BY <1>3, <3>1, <3>2, <3>4, <4>1
      <4> QED BY <3>1, <3>4, <4>1, <4>2
    <3> QED BY <3>1, <3>3, <3>4
  <2> QED BY <2>2, <2>3, <2>4
<1> QED BY <1>1, <1>4

(* ... and so in a line. *)
LEMMA RemoveAtLine ==
  ASSUME NEW q, NEW S, Line(q, S), NEW k \in 1..Len(q)
  PROVE  Line(RemoveAt(q, k), S) /\ Len(RemoveAt(q, k)) = Len(q) - 1
<1> DEFINE r == RemoveAt(q, k)
<1>1. /\ r \in Seq(Items) /\ Len(q) \in Nat /\ Len(r) = Len(q) - 1
      /\ \A i \in 1..(Len(q) - 1) : r[i] = q[IF i < k THEN i ELSE i + 1]
  BY RemoveAtItems
<1> HIDE DEF r
<1>2. ASSUME NEW i \in 1..Len(r)
      PROVE  r[i].call \notin S
  BY <1>1 DEF Line
<1>3. ASSUME NEW i \in 1..Len(r), NEW j \in 1..Len(r), r[i].call = r[j].call
      PROVE  i = j
  <2> DEFINE pos(n) == IF n < k THEN n ELSE n + 1
  <2>1. pos(i) \in 1..Len(q) /\ pos(j) \in 1..Len(q)
    BY <1>1
  <2>2. q[pos(i)].call = q[pos(j)].call
    BY <1>1, <1>3
  <2>3. pos(i) = pos(j)
    BY <2>1, <2>2 DEF Line
  <2> QED BY <1>1, <2>3
<1> QED BY <1>1, <1>2, <1>3 DEF Line, r

(* resolveNext() moves at most one call from the line to S and loses none:   *)
(* the calls holding capacity and the waiting items add up to the same.      *)
LEMMA ResolveNextKeepsLine ==
  ASSUME NEW q, NEW S, Line(q, S), ResolveNext(q, S)
  PROVE  /\ Line(queue', admitted')
         /\ Cardinality(admitted') + Len(queue') = Cardinality(S) + Len(q)
         /\ queue' # <<>> => Cardinality(admitted') = Cardinality(S) + 1
<1>1. S \in SUBSET Calls /\ IsFiniteSet(S) /\ Cardinality(S) \in Nat
  BY AdmittedFinite DEF Line
<1>2. CASE q = <<>>
  BY <1>2 DEF ResolveNext, Line
<1>3. CASE q # <<>>
  <2>1. queue' = Tail(q) /\ admitted' = S \cup {Head(q).call}
    BY <1>3 DEF ResolveNext
  <2>2. q \in Seq(Items) /\ Len(q) \in Nat \ {0}
    BY <1>3, EmptySeq DEF Line
  <2>3. /\ Head(q) = q[1]
        /\ Head(q) \in Items
        /\ Tail(q) \in Seq(Items)
        /\ Len(Tail(q)) = Len(q) - 1
        /\ \A i \in 1..Len(Tail(q)) : Tail(q)[i] = q[i + 1]
    BY <1>3, <2>2, HeadTailProperties
  <2>4. Head(q).call \in Calls /\ Head(q).call \notin S
    BY <2>2, <2>3 DEF Line, Items
  <2>5. Cardinality(S \cup {Head(q).call}) = Cardinality(S) + 1
    BY <1>1, <2>4, FS_AddElement
  <2>6. ASSUME NEW i \in 1..Len(Tail(q))
        PROVE  Tail(q)[i].call \notin S \cup {Head(q).call}
    <3>1. 1 \in 1..Len(q) /\ i + 1 \in 1..Len(q) /\ i + 1 # 1
      BY <2>2, <2>3
    <3>2. q[i + 1].call \notin S /\ q[i + 1].call # q[1].call
      BY <3>1 DEF Line
    <3> QED BY <2>3, <3>2
  <2>7. ASSUME NEW i \in 1..Len(Tail(q)), NEW j \in 1..Len(Tail(q)),
               Tail(q)[i].call = Tail(q)[j].call
        PROVE  i = j
    <3>1. i + 1 \in 1..Len(q) /\ j + 1 \in 1..Len(q)
      BY <2>2, <2>3
    <3>2. i + 1 = j + 1
      BY <2>3, <2>7, <3>1 DEF Line
    <3> QED BY <3>2
  <2>8. Line(Tail(q), S \cup {Head(q).call})
    BY <1>1, <2>3, <2>4, <2>6, <2>7 DEF Line
  <2> QED BY <1>1, <2>1, <2>2, <2>3, <2>5, <2>8
<1> QED BY <1>2, <1>3

(* The invariant in terms of lines, in this state and in the next. *)
LineInv ==
  /\ Line(queue, admitted)
  /\ capacity = Limit - Cardinality(admitted) - Len(queue)
  /\ queue # <<>> => Cardinality(admitted) >= Limit
  /\ capacity \in Int

LEMMA QueueInvLine == QueueInv <=> LineInv
<1>1. ASSUME queue \in Seq(Items)
      PROVE  DOMAIN queue = 1..Len(queue)
  BY <1>1, LenProperties
<1>2. ASSUME queue \in Seq(Items)
      PROVE  (\A i \in 1..Len(queue) : queue[i].call \notin admitted)
               <=> admitted \cap QueuedCalls = {}
  BY <1>1, <1>2 DEF QueuedCalls
<1> QED BY <1>1, <1>2
     DEF QueueInv, QueueTypeOK, CapacityAccounting, WorkConserving, OnePlace, Line, LineInv

LEMMA QueueInvLineNext == QueueInv' <=> LineInv'
BY QueueInvLine, PTL

-----------------------------------------------------------------------------
(* One lemma per operation of the queue. *)

LEMMA QueueInitInv == QueueInit => QueueInv
<1> SUFFICES ASSUME QueueInit PROVE QueueInv
  OBVIOUS
<1>1. queue \in Seq(Items) /\ Len(queue) = 0 /\ Cardinality(admitted) = 0
  BY EmptySeq, FS_EmptySet DEF QueueInit
<1> QED BY <1>1, LimitPositive, QueueInvLine DEF QueueInit, Line, LineInv

LEMMA EnqueueInv ==
  ASSUME QueueInv, NEW c \in Calls, NEW e \in Executions,
         c \notin admitted, c \notin QueuedCalls, Enqueue(c, e)
  PROVE  QueueInv'
<1> DEFINE item == [executionId |-> e, call |-> c]
<1>1. /\ Line(queue, admitted)
      /\ capacity = Limit - Cardinality(admitted) - Len(queue)
      /\ queue # <<>> => Cardinality(admitted) >= Limit
      /\ capacity \in Int
  BY QueueInvLine DEF LineInv
<1>2. /\ IsFiniteSet(admitted) /\ Cardinality(admitted) \in Nat
      /\ queue \in Seq(Items) /\ Len(queue) \in Nat /\ DOMAIN queue = 1..Len(queue)
      /\ Limit \in Nat \ {0}
  BY <1>1, AdmittedFinite, LenProperties, LimitPositive DEF Line
<1>3. \A i \in 1..Len(queue) : queue[i].call # c
  BY <1>2 DEF QueuedCalls
<1>4. CASE capacity - 1 < 0
  <2>1. queue' = Append(queue, item) /\ admitted' = admitted /\ capacity' = capacity - 1
    BY <1>4 DEF Enqueue
  <2>2. item \in Items /\ item.call = c
    BY DEF Items
  <2>3. /\ queue' \in Seq(Items)
        /\ Len(queue') = Len(queue) + 1
        /\ \A i \in 1..Len(queue) : queue'[i] = queue[i]
        /\ queue'[Len(queue) + 1] = item
    BY <1>2, <2>1, <2>2, AppendProperties
  <2> HIDE DEF item
  <2>4. \A i \in 1..Len(queue') : queue'[i].call \notin admitted
    BY <1>1, <1>2, <2>2, <2>3 DEF Line
  <2>5. \A i, j \in 1..Len(queue') : queue'[i].call = queue'[j].call => i = j
    BY <1>1, <1>2, <1>3, <2>2, <2>3 DEF Line
  <2>6. Line(queue', admitted')
    BY <1>1, <2>1, <2>3, <2>4, <2>5 DEF Line
  <2>7. Cardinality(admitted) >= Limit
    <3>1. CASE queue = <<>>
      BY <1>1, <1>2, <1>4, <3>1, EmptySeq
    <3> QED BY <1>1, <3>1
  <2>8. capacity' = Limit - Cardinality(admitted') - Len(queue') /\ capacity' \in Int
    BY <1>1, <1>2, <2>1, <2>3
  <2> QED BY <2>1, <2>6, <2>7, <2>8, QueueInvLineNext DEF LineInv
<1>5. CASE ~(capacity - 1 < 0)
  <2>1. queue' = queue /\ admitted' = admitted \cup {c} /\ capacity' = capacity - 1
    BY <1>5 DEF Enqueue
  <2>2. IsFiniteSet(admitted') /\ Cardinality(admitted') = Cardinality(admitted) + 1
    BY <1>2, <2>1, FS_AddElement
  <2>3. queue = <<>>
    BY <1>1, <1>2, <1>5, EmptySeq
  <2>4. Line(queue', admitted')
    BY <1>1, <1>3, <2>1 DEF Line
  <2>5. capacity' = Limit - Cardinality(admitted') - Len(queue') /\ capacity' \in Int
    BY <1>1, <1>2, <2>1, <2>2
  <2> QED BY <2>1, <2>3, <2>4, <2>5, QueueInvLineNext DEF LineInv
<1> QED BY <1>4, <1>5

LEMMA DequeueInv ==
  ASSUME QueueInv, NEW c \in admitted, Dequeue(c)
  PROVE  QueueInv'
<1>1. /\ Line(queue, admitted)
      /\ capacity = Limit - Cardinality(admitted) - Len(queue)
      /\ queue # <<>> => Cardinality(admitted) >= Limit
      /\ capacity \in Int
  BY QueueInvLine DEF LineInv
<1>2. /\ IsFiniteSet(admitted) /\ Cardinality(admitted) \in Nat
      /\ Len(queue) \in Nat /\ Limit \in Nat
  BY <1>1, AdmittedFinite, LenProperties, LimitPositive DEF Line
<1>3. Cardinality(admitted \ {c}) = Cardinality(admitted) - 1
  BY <1>2, FS_RemoveElement
<1>4. Line(queue, admitted \ {c})
  BY <1>1 DEF Line
<1>5. ResolveNext(queue, admitted \ {c}) /\ capacity' = capacity + 1
  BY DEF Dequeue
<1>6. /\ Line(queue', admitted')
      /\ Cardinality(admitted') + Len(queue') = Cardinality(admitted) - 1 + Len(queue)
      /\ queue' # <<>> => Cardinality(admitted') = Cardinality(admitted) - 1 + 1
  BY <1>3, <1>4, <1>5, ResolveNextKeepsLine
<1>7. /\ Cardinality(admitted') \in Nat
      /\ Len(queue') \in Nat
  BY <1>6, AdmittedFinite, LenProperties DEF Line
<1>8. queue' # <<>> => queue # <<>>
  BY <1>5 DEF ResolveNext
<1>9. capacity' = Limit - Cardinality(admitted') - Len(queue') /\ capacity' \in Int
  <2>1. capacity = Limit - Cardinality(admitted) - Len(queue)
    BY <1>1
  <2>2. capacity' = capacity + 1
    BY <1>5
  <2>3. Cardinality(admitted') + Len(queue') = Cardinality(admitted) - 1 + Len(queue)
    BY <1>6
  <2> DEFINE total == Cardinality(admitted) + Len(queue)
             total2 == Cardinality(admitted') + Len(queue')
  <2>4. total \in Int /\ total2 \in Int /\ Limit \in Int
    BY <1>2, <1>7
  <2>5. capacity = Limit - total
    BY <1>2, <2>1
  <2>6. total2 = total - 1
    BY <1>2, <1>7, <2>3
  <2>7. capacity' = Limit - total2 => capacity' = Limit - Cardinality(admitted') - Len(queue')
    BY <1>2, <1>7
  <2> HIDE DEF total, total2
  <2>8. capacity' = Limit - total2 /\ capacity' \in Int
    BY <2>2, <2>4, <2>5, <2>6
  <2> QED BY <2>7, <2>8
<1>10. queue' # <<>> => Cardinality(admitted') >= Limit
  BY <1>1, <1>2, <1>6, <1>7, <1>8
<1> QED BY <1>6, <1>9, <1>10, QueueInvLineNext DEF LineInv

LEMMA RemoveItemInv ==
  ASSUME QueueInv, NEW i \in 1..Len(queue), RemoveItem(i)
  PROVE  QueueInv'
<1>1. /\ Line(queue, admitted)
      /\ capacity = Limit - Cardinality(admitted) - Len(queue)
      /\ queue # <<>> => Cardinality(admitted) >= Limit
      /\ capacity \in Int
  BY QueueInvLine DEF LineInv
<1>2. /\ IsFiniteSet(admitted) /\ Cardinality(admitted) \in Nat
      /\ Len(queue) \in Nat /\ Limit \in Nat
  BY <1>1, AdmittedFinite, LenProperties, LimitPositive DEF Line
<1>3. queue # <<>>
  BY <1>2, EmptySeq
<1>4. Line(RemoveAt(queue, i), admitted) /\ Len(RemoveAt(queue, i)) = Len(queue) - 1
  BY <1>1, RemoveAtLine
<1>5. ResolveNext(RemoveAt(queue, i), admitted) /\ capacity' = capacity + 1
  BY DEF RemoveItem
<1>6. /\ Line(queue', admitted')
      /\ Cardinality(admitted') + Len(queue') = Cardinality(admitted) + Len(queue) - 1
      /\ queue' # <<>> => Cardinality(admitted') = Cardinality(admitted) + 1
  BY <1>2, <1>4, <1>5, ResolveNextKeepsLine
<1>7. /\ Cardinality(admitted') \in Nat
      /\ Len(queue') \in Nat
  BY <1>6, AdmittedFinite, LenProperties DEF Line
<1>8. capacity' = Limit - Cardinality(admitted') - Len(queue') /\ capacity' \in Int
  <2>1. capacity = Limit - Cardinality(admitted) - Len(queue)
    BY <1>1
  <2>2. capacity' = capacity + 1
    BY <1>5
  <2>3. Cardinality(admitted') + Len(queue') = Cardinality(admitted) + Len(queue) - 1
    BY <1>6
  <2> DEFINE total == Cardinality(admitted) + Len(queue)
             total2 == Cardinality(admitted') + Len(queue')
  <2>4. total \in Int /\ total2 \in Int /\ Limit \in Int
    BY <1>2, <1>7
  <2>5. capacity = Limit - total
    BY <1>2, <2>1
  <2>6. total2 = total - 1
    BY <1>2, <1>7, <2>3
  <2>7. capacity' = Limit - total2 => capacity' = Limit - Cardinality(admitted') - Len(queue')
    BY <1>2, <1>7
  <2> HIDE DEF total, total2
  <2>8. capacity' = Limit - total2 /\ capacity' \in Int
    BY <2>2, <2>4, <2>5, <2>6
  <2> QED BY <2>7, <2>8
<1>9. queue' # <<>> => Cardinality(admitted') >= Limit
  BY <1>1, <1>2, <1>3, <1>6, <1>7
<1> QED BY <1>6, <1>8, <1>9, QueueInvLineNext DEF LineInv

-----------------------------------------------------------------------------
LEMMA QueueNextInv == QueueInv /\ [QueueNext]_queueVars => QueueInv'
<1> SUFFICES ASSUME QueueInv, [QueueNext]_queueVars PROVE QueueInv'
  OBVIOUS
<1>1. ASSUME NEW c \in Calls, NEW e \in Executions, Arrive(c, e)
      PROVE  QueueInv'
  BY <1>1, EnqueueInv DEF Arrive
<1>2. ASSUME NEW c \in Calls, Leave(c)
      PROVE  QueueInv'
  BY <1>2, DequeueInv DEF Leave
<1>3. ASSUME NEW e \in Executions, RemoveExecution(e)
      PROVE  QueueInv'
  <2>1. DOMAIN queue = 1..Len(queue)
    BY LenProperties DEF QueueInv, QueueTypeOK
  <2> QED BY <1>3, <2>1, RemoveItemInv DEF RemoveExecution
<1>4. ASSUME UNCHANGED queueVars
      PROVE  QueueInv'
  BY <1>4 DEF queueVars, QueueInv, QueueTypeOK, CapacityAccounting, WorkConserving,
              OnePlace, QueuedCalls
<1> QED BY <1>1, <1>2, <1>3, <1>4 DEF QueueNext

(* The queue never loses or invents capacity, keeps nobody waiting while     *)
(* there is room, and keeps every call in one place.                         *)
THEOREM QueueSafetyInv == QueueSafety => []QueueInv
BY QueueInitInv, QueueNextInv, PTL DEF QueueSafety

(* The four parts: the types; that capacity is neither lost nor invented;    *)
(* that nothing waits while there is room; that a call waits or runs, and    *)
(* once.                                                                     *)
THEOREM QueueTypes == QueueSafety => []QueueTypeOK
BY QueueSafetyInv, PTL DEF QueueInv

THEOREM QueueAccounting == QueueSafety => []CapacityAccounting
BY QueueSafetyInv, PTL DEF QueueInv

THEOREM QueueConservesWork == QueueSafety => []WorkConserving
BY QueueSafetyInv, PTL DEF QueueInv

THEOREM QueueOnePlace == QueueSafety => []OnePlace
BY QueueSafetyInv, PTL DEF QueueInv

-----------------------------------------------------------------------------
(* Who moves. resolveNext() lets through the oldest item and no other, and   *)
(* brings nobody into the line, ...                                          *)
LEMMA ResolveNextTakesOldest ==
  ASSUME NEW q, NEW S, Line(q, S), ResolveNext(q, S)
  PROVE  /\ S \subseteq admitted'
         /\ \A d \in admitted' \ S : 1 \in 1..Len(q) /\ d = q[1].call
         /\ \A i \in 1..Len(queue') : \E j \in 1..Len(q) : queue'[i] = q[j]
<1>1. CASE q = <<>>
  BY <1>1, EmptySeq DEF ResolveNext, Line
<1>2. CASE q # <<>>
  <2>1. queue' = Tail(q) /\ admitted' = S \cup {Head(q).call}
    BY <1>2 DEF ResolveNext
  <2>2. /\ Head(q) = q[1]
        /\ Len(q) \in Nat \ {0}
        /\ Len(Tail(q)) = Len(q) - 1
        /\ \A i \in 1..Len(Tail(q)) : Tail(q)[i] = q[i + 1]
    BY <1>2, HeadTailProperties, EmptySeq DEF Line
  <2>3. 1 \in 1..Len(q) /\ \A i \in 1..Len(Tail(q)) : i + 1 \in 1..Len(q)
    BY <2>2
  <2> QED BY <2>1, <2>2, <2>3
<1> QED BY <1>1, <1>2

LEMMA LineFacts ==
  ASSUME QueueInv
  PROVE  /\ Line(queue, admitted)
         /\ DOMAIN queue = 1..Len(queue)
         /\ Len(queue) \in Nat
         /\ QueuedCalls \subseteq Calls
<1>1. Line(queue, admitted)
  BY QueueInvLine DEF LineInv
<1>2. DOMAIN queue = 1..Len(queue) /\ Len(queue) \in Nat
  BY <1>1, LenProperties DEF Line
<1>3. \A i \in 1..Len(queue) : queue[i] \in Items
  BY <1>1, ElementOfSeq DEF Line
<1> QED BY <1>1, <1>2, <1>3 DEF QueuedCalls, Items

LEMMA LineFactsNext ==
  ASSUME QueueInv'
  PROVE  /\ DOMAIN queue' = 1..Len(queue')
         /\ QueuedCalls' = {queue'[i].call : i \in 1..Len(queue')}
<1>1. Line(queue', admitted')
  BY QueueInvLineNext DEF LineInv
<1>2. DOMAIN queue' = 1..Len(queue')
  BY <1>1, LenProperties DEF Line
<1> QED BY <1>2 DEF QueuedCalls

(* ... so that is all that dequeue() and remove() do beside their own call,  *)
(* and enqueue() moves only its own.                                         *)
LEMMA DequeueMoves ==
  ASSUME QueueInv, QueueInv', NEW c, Dequeue(c)
  PROVE  /\ QueuedCalls' \subseteq QueuedCalls
         /\ admitted \ {c} \subseteq admitted'
         /\ \A d \in admitted' \ (admitted \ {c}) : 1 \in DOMAIN queue /\ d = queue[1].call
<1>1. Line(queue, admitted \ {c}) /\ ResolveNext(queue, admitted \ {c})
  BY LineFacts DEF Line, Dequeue
<1> QED BY <1>1, LineFacts, LineFactsNext, ResolveNextTakesOldest DEF QueuedCalls

LEMMA RemoveItemMoves ==
  ASSUME QueueInv, QueueInv', NEW k \in DOMAIN queue, RemoveItem(k)
  PROVE  /\ QueuedCalls' \subseteq QueuedCalls \ {queue[k].call}
         /\ admitted \subseteq admitted'
         /\ \A d \in admitted' \ admitted :
              \E j \in DOMAIN queue \ {k} : (\A i \in DOMAIN queue \ {k} : j <= i) /\ d = queue[j].call
<1> DEFINE q == RemoveAt(queue, k)
           pos(i) == IF i < k THEN i ELSE i + 1
<1>1. k \in 1..Len(queue) /\ k \in Int /\ Len(queue) \in Nat
  BY LineFacts
<1>2. /\ Line(q, admitted)
      /\ Len(q) = Len(queue) - 1
      /\ \A i \in 1..(Len(queue) - 1) : q[i] = queue[pos(i)]
  BY <1>1, LineFacts, RemoveAtItems, RemoveAtLine
<1>3. ResolveNext(q, admitted)
  BY DEF RemoveItem
<1> HIDE DEF q
<1>4. \A i \in 1..Len(q) : pos(i) \in DOMAIN queue \ {k} /\ q[i] = queue[pos(i)]
  BY <1>1, <1>2, LineFacts
<1>5. \A i \in 1..Len(q) : queue[pos(i)].call # queue[k].call
  BY <1>1, <1>4, LineFacts DEF Line
<1>6. QueuedCalls' \subseteq QueuedCalls \ {queue[k].call}
  <2>1. ASSUME NEW i \in 1..Len(queue')
        PROVE  queue'[i].call \in QueuedCalls \ {queue[k].call}
    <3>1. PICK j \in 1..Len(q) : queue'[i] = q[j]
      BY <1>2, <1>3, ResolveNextTakesOldest
    <3> HIDE DEF pos
    <3> QED BY <1>4, <1>5, <3>1 DEF QueuedCalls
  <2> QED BY <2>1, LineFactsNext
<1>7. ASSUME NEW d \in admitted' \ admitted
      PROVE  \E j \in DOMAIN queue \ {k} : (\A i \in DOMAIN queue \ {k} : j <= i) /\ d = queue[j].call
  <2>1. 1 \in 1..Len(q) /\ d = q[1].call
    BY <1>2, <1>3, ResolveNextTakesOldest
  <2>2. pos(1) \in DOMAIN queue \ {k} /\ d = queue[pos(1)].call
    BY <1>4, <2>1
  <2>3. \A i \in DOMAIN queue \ {k} : pos(1) <= i
    BY <1>1, LineFacts
  <2> HIDE DEF pos
  <2> QED BY <2>2, <2>3
<1> QED BY <1>2, <1>3, <1>6, <1>7, ResolveNextTakesOldest

LEMMA EnqueueMoves ==
  ASSUME QueueInv, QueueInv', NEW c, NEW e, Enqueue(c, e), c \in Calls, e \in Executions
  PROVE  /\ QueuedCalls' \subseteq QueuedCalls \cup {c}
         /\ admitted \subseteq admitted' /\ admitted' \subseteq admitted \cup {c}
         /\ admitted' # admitted => queue = <<>>
<1> DEFINE item == [executionId |-> e, call |-> c]
<1>1. /\ Line(queue, admitted)
      /\ capacity = Limit - Cardinality(admitted) - Len(queue)
      /\ queue # <<>> => Cardinality(admitted) >= Limit
      /\ capacity \in Int
  BY QueueInvLine DEF LineInv
<1>2. /\ Cardinality(admitted) \in Nat /\ Len(queue) \in Nat /\ Limit \in Nat
  BY <1>1, AdmittedFinite, LenProperties, LimitPositive DEF Line
<1>3. CASE capacity - 1 < 0
  <2>1. queue' = Append(queue, item) /\ admitted' = admitted
    BY <1>3 DEF Enqueue
  <2>2. item \in Items /\ item.call = c /\ queue \in Seq(Items)
    BY <1>1 DEF Items, Line
  <2>3. /\ Len(queue') = Len(queue) + 1
        /\ \A i \in 1..Len(queue) : queue'[i] = queue[i]
        /\ queue'[Len(queue) + 1] = item
    BY <2>1, <2>2, AppendProperties
  <2> HIDE DEF item
  <2>4. ASSUME NEW i \in 1..Len(queue')
        PROVE  queue'[i].call \in QueuedCalls \cup {c}
    BY <1>2, <2>2, <2>3, LineFacts DEF QueuedCalls
  <2> QED BY <2>1, <2>4, LineFactsNext
<1>4. CASE ~(capacity - 1 < 0)
  <2>1. queue' = queue /\ admitted' = admitted \cup {c}
    BY <1>4 DEF Enqueue
  <2>2. queue = <<>>
    BY <1>1, <1>2, <1>4
  <2> QED BY <2>1, <2>2 DEF QueuedCalls
<1> QED BY <1>3, <1>4

(* Nobody who stays in the line is older than whoever a step lets through.   *)
FairStep == \A c \in admitted' \ admitted : \A i \in DOMAIN queue :
              OlderThan(i, c) => queue[i].call \notin QueuedCalls'

LEMMA QueueStepIsFair == QueueInv /\ [QueueNext]_queueVars => [FairStep]_queueVars
<1> SUFFICES ASSUME QueueInv, QueueNext, NEW c \in admitted' \ admitted,
                    NEW i \in DOMAIN queue, OlderThan(i, c)
             PROVE  queue[i].call \notin QueuedCalls'
  BY DEF FairStep
<1>0. /\ QueueInv'
      /\ DOMAIN queue = 1..Len(queue) /\ Len(queue) \in Nat
  BY QueueNextInv, LineFacts
<1>1. ASSUME NEW d \in Calls, NEW e \in Executions, Arrive(d, e)
      PROVE  FALSE
  <2>1. queue = <<>>
    BY <1>0, <1>1, EnqueueMoves DEF Arrive
  <2> QED BY <1>0, <2>1
<1>2. ASSUME NEW d \in Calls, Leave(d)
      PROVE  FALSE
  <2>1. 1 \in DOMAIN queue /\ c = queue[1].call
    BY <1>0, <1>2, DequeueMoves DEF Leave
  <2> QED BY <1>0, <2>1 DEF OlderThan
<1>3. ASSUME NEW e \in Executions, RemoveExecution(e)
      PROVE  queue[i].call \notin QueuedCalls'
  <2>1. PICK k \in DOMAIN queue : RemoveItem(k)
    BY <1>3 DEF RemoveExecution
  <2>2. PICK j \in DOMAIN queue \ {k} :
          (\A n \in DOMAIN queue \ {k} : j <= n) /\ c = queue[j].call
    BY <1>0, <2>1, RemoveItemMoves
  <2>3. i < j
    BY <2>2 DEF OlderThan
  <2>4. i = k
    BY <1>0, <2>2, <2>3
  <2> QED BY <1>0, <2>1, <2>4, RemoveItemMoves
<1> QED BY <1>1, <1>2, <1>3 DEF QueueNext

(* First come, first served, also when remove() takes an item out of the     *)
(* middle of the line: whoever is let through was the oldest that stays.     *)
THEOREM QueueIsFair == QueueSafety => NoOvertaking
<1>1. QueueInv /\ [QueueNext]_queueVars => [FairStep]_queueVars
  BY QueueStepIsFair
<1> QED BY <1>1, QueueSafetyInv, PTL DEF QueueSafety, NoOvertaking, FairStep

-----------------------------------------------------------------------------
(* The operators that Admission takes from the library are the same ones. *)
LEMMA SameCardinality ==
  ASSUME NEW S
  PROVE  Abstract!Cardinality(S) = Cardinality(S)
BY DEF Cardinality, Abstract!Cardinality

LEMMA SameRemoveAt ==
  ASSUME NEW q, NEW i
  PROVE  Abstract!RemoveAt(q, i) = RemoveAt(q, i)
BY DEF RemoveAt, Abstract!RemoveAt

(* The counter says whether there is room, under the invariant. *)
LEMMA CounterIsRoom ==
  ASSUME QueueInv
  PROVE  capacity - 1 < 0 <=> ~Abstract!HasRoom
<1>1. LineInv
  BY QueueInvLine
<1>2. /\ Cardinality(admitted) \in Nat /\ Len(queue) \in Nat /\ Limit \in Nat
      /\ capacity = Limit - Cardinality(admitted) - Len(queue)
  BY <1>1, AdmittedFinite, LenProperties, LimitPositive DEF Line, LineInv
<1>3. queue = <<>> => Len(queue) = 0
  BY EmptySeq
<1>4. queue # <<>> => Cardinality(admitted) >= Limit
  BY <1>1 DEF LineInv
<1> QED BY <1>2, <1>3, <1>4, SameCardinality DEF Abstract!HasRoom

(* resolveNext() is the take-over of the abstract rule. *)
LEMMA ResolveNextIsTakeOver ==
  ASSUME NEW q, NEW S, ResolveNext(q, S)
  PROVE  Abstract!TakeOver(q, S)
BY DEF ResolveNext, Abstract!TakeOver

LEMMA QueueStepIsAdmissionStep ==
  QueueInv /\ [QueueNext]_queueVars => [Abstract!AdmissionNext]_(Abstract!admissionVars)
<1> SUFFICES ASSUME QueueInv, [QueueNext]_queueVars
             PROVE  Abstract!AdmissionNext \/ UNCHANGED Abstract!admissionVars
  OBVIOUS
<1>1. ASSUME NEW c \in Calls, NEW e \in Executions, Arrive(c, e)
      PROVE  Abstract!AdmissionNext
  <2>1. c \in Calls \ admitted /\ Enqueue(c, e)
    BY <1>1 DEF Arrive
  <2>2. Abstract!StartAtOnce(c) \/ Abstract!Wait(c, e)
    BY <2>1, CounterIsRoom DEF Enqueue, Abstract!StartAtOnce, Abstract!Wait
  <2> QED BY <2>1, <2>2 DEF Abstract!AdmissionNext
<1>2. ASSUME NEW c \in Calls, Leave(c)
      PROVE  Abstract!AdmissionNext
  <2>1. Abstract!Finish(c)
    BY <1>2, ResolveNextIsTakeOver DEF Leave, Dequeue, Abstract!Finish
  <2> QED BY <2>1 DEF Abstract!AdmissionNext
<1>3. ASSUME NEW e \in Executions, RemoveExecution(e)
      PROVE  Abstract!AdmissionNext
  <2>1. PICK i \in DOMAIN queue : RemoveItem(i)
    BY <1>3 DEF RemoveExecution
  <2>2. Abstract!Withdraw(i)
    BY <2>1, ResolveNextIsTakeOver, SameRemoveAt DEF RemoveItem, Abstract!Withdraw
  <2> QED BY <2>1, <2>2 DEF Abstract!AdmissionNext
<1>4. ASSUME UNCHANGED queueVars
      PROVE  UNCHANGED Abstract!admissionVars
  BY <1>4 DEF queueVars, Abstract!admissionVars
<1> QED BY <1>1, <1>2, <1>3, <1>4 DEF QueueNext

LEMMA QueueStartsAsAdmission == QueueInit => Abstract!AdmissionInit
BY DEF QueueInit, Abstract!AdmissionInit

(* The queue behaves as if it had no counter: every run of it is a run of    *)
(* the rule "start at once below the limit, else wait in line".              *)
THEOREM QueueImplementsAdmission == QueueSafety => RefinesAdmission
BY QueueStartsAsAdmission, QueueStepIsAdmissionStep, QueueSafetyInv, PTL
   DEF QueueSafety, RefinesAdmission, Abstract!AdmissionSpec

(* A step that admits beyond the limit removes an item. *)
OverrunStep ==
  Cardinality(admitted') > Limit /\ admitted \subseteq admitted' /\ admitted # admitted'
    => \E e \in Executions : RemoveExecution(e)

LEMMA QueueStepOverruns == QueueInv /\ [QueueNext]_queueVars => [OverrunStep]_queueVars
<1> SUFFICES ASSUME QueueInv, [QueueNext]_queueVars, Cardinality(admitted') > Limit,
                    admitted \subseteq admitted', admitted # admitted'
             PROVE  \E e \in Executions : RemoveExecution(e)
  BY DEF OverrunStep
<1>1. LineInv
  BY QueueInvLine
<1>2. IsFiniteSet(admitted) /\ Cardinality(admitted) \in Nat /\ Limit \in Nat
  BY <1>1, AdmittedFinite, LimitPositive DEF LineInv, Line
<1>3. ASSUME NEW c \in Calls, NEW e \in Executions, Arrive(c, e)
      PROVE  FALSE
  <2>1. admitted' = admitted \cup {c} /\ ~(capacity - 1 < 0)
    BY <1>3 DEF Arrive, Enqueue
  <2>2. Cardinality(admitted) < Limit
    BY <2>1, CounterIsRoom, SameCardinality DEF Abstract!HasRoom
  <2>3. Cardinality(admitted \cup {c}) =
          IF c \in admitted THEN Cardinality(admitted) ELSE Cardinality(admitted) + 1
    BY <1>2, FS_AddElement
  <2> QED BY <1>2, <2>1, <2>2, <2>3
<1>4. ASSUME NEW c \in Calls, Leave(c)
      PROVE  FALSE
  <2>1. c \in admitted /\ ResolveNext(queue, admitted \ {c})
    BY <1>4 DEF Leave, Dequeue
  <2>2. queue # <<>> => Head(queue).call # c
    <3>1. queue # <<>> => 1 \in DOMAIN queue /\ Head(queue) = queue[1]
      BY <1>1, EmptySeq, LenProperties, HeadTailProperties DEF LineInv, Line
    <3> QED BY <2>1, <3>1 DEF QueueInv, OnePlace, QueuedCalls
  <2>3. c \notin admitted'
    BY <2>1, <2>2 DEF ResolveNext
  <2> QED BY <2>1, <2>3
<1>5. ASSUME UNCHANGED queueVars
      PROVE  FALSE
  BY <1>5 DEF queueVars
<1> QED BY <1>3, <1>4, <1>5 DEF QueueNext

(* More than Limit calls run at a time only after remove(): it alone lets a  *)
(* call through without another one having ended or room being left.         *)
THEOREM QueueOverruns == QueueSafety => OnlyRemovalOverruns
<1>1. QueueInv /\ [QueueNext]_queueVars => [OverrunStep]_queueVars
  BY QueueStepOverruns
<1> QED BY <1>1, QueueSafetyInv, PTL DEF QueueSafety, OnlyRemovalOverruns, OverrunStep
=============================================================================
