------------------------ MODULE WorkflowExecute_proofs ------------------------
(***************************************************************************)
(* What the engine does with every workflow, proved.  A run passes its     *)
(* data on over a set of connections, one connection after the other: that *)
(* is a fold, and what it does is shown by induction, in the form of least *)
(* counterexamples.                                                        *)
(***************************************************************************)
EXTENDS WorkflowExecute, FiniteSetTheorems, TLAPS

(* Least and greatest members. *)
LEMMA LeastNumber ==
  ASSUME NEW S \in SUBSET Nat, S # {}
  PROVE  Min(S) \in S /\ \A x \in S : Min(S) <= x
<1> DEFINE less == {ss \in Nat \X Nat : ss[1] < ss[2]}
<1>1. IsWellFoundedOn(less, Nat)
  <2>1. OpToRel(<, Nat) = less
    BY Zenon DEF OpToRel
  <2> QED BY <2>1, NatLessThanWellFounded, Zenon
<1>2. PICK x \in S : \A y \in S : <<y, x>> \notin less
  <2> HIDE DEF less
  <2> QED BY <1>1, WFMin
<1>3. ASSUME NEW y \in S
      PROVE  x <= y
  <2>1. <<y, x>> \in Nat \X Nat /\ <<y, x>>[1] = y /\ <<y, x>>[2] = x
    OBVIOUS
  <2> QED BY <1>2, <2>1
<1>4. \E z \in S : \A y \in S : z <= y
  BY <1>3
<1> QED BY <1>4, Zenon DEF Min

LEMMA SmallestSubset ==
  ASSUME NEW S, IsFiniteSet(S), NEW F, \A T \in F : T \subseteq S, F # {}
  PROVE  \E T \in F : \A U \in F : U \subseteq T => U = T
<1>1. IsWellFoundedOn(StrictSubsetOrdering(S), SUBSET S)
  BY FS_FiniteSubsetsOfFinite, FS_StrictSubsetOrderingWellFounded
<1>2. F \subseteq SUBSET S
  OBVIOUS
<1>3. PICK T \in F : \A U \in F : <<U, T>> \notin StrictSubsetOrdering(S)
  BY <1>1, <1>2, WFMin
<1>4. ASSUME NEW U \in F, U \subseteq T
      PROVE  U = T
  <2>1. <<U, T>> \in (SUBSET S) \X (SUBSET S) /\ <<U, T>>[1] = U /\ <<U, T>>[2] = T
    BY <1>2
  <2> QED BY <1>3, <1>4, <2>1 DEF StrictSubsetOrdering
<1> QED BY <1>4

LEMMA GreatestNumber ==
  ASSUME NEW S \in SUBSET Nat, IsFiniteSet(S), S # {}
  PROVE  Max(S) \in S /\ \A x \in S : Max(S) >= x
<1> DEFINE F == {T \in SUBSET S : T # {} /\ ~\E x \in T : \A y \in T : x >= y}
<1>1. F = {}
  <2> SUFFICES ASSUME F # {} PROVE FALSE
    OBVIOUS
  <2>1. PICK T \in F : \A U \in F : U \subseteq T => U = T
    <3>1. \A T \in F : T \subseteq S
      OBVIOUS
    <3> HIDE DEF F
    <3> QED BY <3>1, SmallestSubset
  <2>2. PICK x \in T : TRUE
    OBVIOUS
  <2>3. T \ {x} # {} => \E z \in T \ {x} : \A y \in T \ {x} : z >= y
    <3>1. T \ {x} \notin F
      BY <2>1, <2>2
    <3> QED BY <3>1
  <2>4. CASE T \ {x} = {}
    BY <2>2, <2>4
  <2>5. CASE T \ {x} # {}
    <3>1. PICK z \in T \ {x} : \A y \in T \ {x} : z >= y
      BY <2>3, <2>5
    <3>2. z >= x \/ x >= z
      BY <2>2, <3>1
    <3> QED BY <2>2, <3>1, <3>2
  <2> QED BY <2>4, <2>5
<1>2. \E x \in S : \A y \in S : x >= y
  BY <1>1
<1> QED BY <1>2, Zenon DEF Max

-----------------------------------------------------------------------------
(* The order in which nodes are added. *)

(* The workflow and where it stops do not change. *)
Fixed == workflow \in Workflows /\ destination \in Destinations

Connections == [from : Nodes, output : Nat, to : Nodes, input : Nat]

LEMMA ConnectionsOf ==
  ASSUME Fixed, NEW n, NEW out
  PROVE  /\ NodesToAdd(n, out) \subseteq Connections
         /\ IsFiniteSet(NodesToAdd(n, out))
         /\ \A c \in NodesToAdd(n, out) : c \in workflow.connections /\ c.from = n /\ c.output \in out
<1>1. workflow.connections \subseteq Connections /\ IsFiniteSet(workflow.connections)
  BY WorkflowsAssumption DEF Fixed, Connections
<1>2. NodesToAdd(n, out) \subseteq workflow.connections
  BY DEF NodesToAdd
<1>3. IsFiniteSet(NodesToAdd(n, out))
  BY <1>1, <1>2, FS_Subset
<1> QED BY <1>1, <1>2, <1>3 DEF NodesToAdd

Before(c, d) ==
  \/ c.to < d.to
  \/ c.to = d.to /\ c.output > d.output
  \/ c.to = d.to /\ c.output = d.output /\ c.input > d.input

LEMMA BeforeIsOrder ==
  ASSUME NEW n, NEW c \in Connections, NEW d \in Connections, NEW e \in Connections,
         c.from = n, d.from = n, e.from = n
  PROVE  /\ c # d => Before(c, d) \/ Before(d, c)
         /\ Before(c, d) /\ Before(d, e) => Before(c, e)
<1>1. /\ c.to \in Nat /\ d.to \in Nat /\ e.to \in Nat
      /\ c.output \in Nat /\ d.output \in Nat /\ e.output \in Nat
      /\ c.input \in Nat /\ d.input \in Nat /\ e.input \in Nat
  BY NodesAssumption DEF Connections
<1>2. c # d => c.to # d.to \/ c.output # d.output \/ c.input # d.input
  BY DEF Connections
<1> QED BY <1>1, <1>2 DEF Before

LEMMA LastIsThere ==
  ASSUME Fixed, NEW n, NEW out, NEW S \in SUBSET NodesToAdd(n, out), S # {}
  PROVE  LastToAdd(S) \in S
<1> DEFINE F == {T \in SUBSET S : T # {} /\ ~\E c \in T : \A d \in T \ {c} : Before(c, d)}
<1>0. IsFiniteSet(S) /\ S \subseteq Connections /\ \A c \in S : c.from = n
  BY ConnectionsOf, FS_Subset
<1>1. F = {}
  <2> SUFFICES ASSUME F # {} PROVE FALSE
    OBVIOUS
  <2>1. PICK T \in F : \A U \in F : U \subseteq T => U = T
    <3>1. \A T \in F : T \subseteq S
      OBVIOUS
    <3> HIDE DEF F
    <3> QED BY <1>0, <3>1, SmallestSubset
  <2>2. PICK c \in T : TRUE
    OBVIOUS
  <2>3. T \ {c} # {} => \E d \in T \ {c} : \A e \in (T \ {c}) \ {d} : Before(d, e)
    <3>1. T \ {c} \notin F
      BY <2>1, <2>2
    <3> QED BY <3>1
  <2>4. CASE T \ {c} = {}
    BY <2>2, <2>4
  <2>5. CASE T \ {c} # {}
    <3>1. PICK d \in T \ {c} : \A e \in (T \ {c}) \ {d} : Before(d, e)
      BY <2>3, <2>5
    <3>2. Before(c, d) \/ Before(d, c)
      BY <1>0, <2>2, <3>1, BeforeIsOrder
    <3>3. CASE Before(d, c)
      BY <2>2, <3>1, <3>3
    <3>4. CASE Before(c, d)
      <4>1. ASSUME NEW e \in T \ {c}
            PROVE  Before(c, e)
        <5>1. e = d \/ Before(d, e)
          BY <3>1
        <5>2. /\ c \in Connections /\ d \in Connections /\ e \in Connections
              /\ c.from = n /\ d.from = n /\ e.from = n
          BY <1>0, <2>2, <3>1
        <5> QED BY <3>4, <5>1, <5>2, BeforeIsOrder
      <4> QED BY <2>2, <4>1
    <3> QED BY <3>2, <3>3, <3>4
  <2> QED BY <2>4, <2>5
<1>2. \E c \in S : \A d \in S \ {c} : Before(c, d)
  BY <1>1
<1> QED BY <1>2, Zenon DEF LastToAdd, Before

-----------------------------------------------------------------------------
(* The fold over these connections: g[T] is what adding those of T results   *)
(* in.                                                                       *)
AddedTo(n, g, T) ==
  IF T = {} THEN [stack |-> Tail(stack), waiting |-> waiting]
  ELSE AddNodeToBeExecuted(g[T \ {LastToAdd(T)}], LastToAdd(T), Token(n, LastToAdd(T).output, Runs(n)))

IsAdding(n, S, g) == g = [T \in SUBSET S |-> AddedTo(n, g, T)]
Adding(n, out) == CHOOSE g : g = [T \in SUBSET NodesToAdd(n, out) |-> AddedTo(n, g, T)]

LEMMA AddingAgrees ==
  ASSUME Fixed, NEW n, NEW out, NEW S, NEW U \in SUBSET NodesToAdd(n, out),
         S \in SUBSET U,
         NEW g, IsAdding(n, S, g), NEW h, IsAdding(n, U, h)
  PROVE  \A T \in SUBSET S : g[T] = h[T]
<1> DEFINE F == {T \in SUBSET S : g[T] # h[T]}
<1> SUFFICES ASSUME F # {} PROVE FALSE
  OBVIOUS
<1>1. PICK T \in F : \A V \in F : V \subseteq T => V = T
  <2>1. \A T \in F : T \subseteq S
    OBVIOUS
  <2>2. IsFiniteSet(S)
    BY ConnectionsOf, FS_Subset
  <2> HIDE DEF F
  <2> QED BY <2>1, <2>2, SmallestSubset
<1>2. g[T] = AddedTo(n, g, T) /\ h[T] = AddedTo(n, h, T)
  BY <1>1 DEF IsAdding
<1>3. CASE T = {}
  BY <1>1, <1>2, <1>3 DEF AddedTo
<1>4. CASE T # {}
  <2>1. LastToAdd(T) \in T
    BY <1>1, <1>4, LastIsThere
  <2>2. g[T \ {LastToAdd(T)}] = h[T \ {LastToAdd(T)}]
    BY <1>1, <2>1
  <2> QED BY <1>1, <1>2, <2>2 DEF AddedTo
<1> QED BY <1>3, <1>4

LEMMA AddingExists ==
  ASSUME Fixed, NEW n, NEW out
  PROVE  \E g : IsAdding(n, NodesToAdd(n, out), g)
<1> DEFINE C == NodesToAdd(n, out)
           F == {T \in SUBSET C : ~\E g : IsAdding(n, T, g)}
<1> SUFFICES ASSUME F # {} PROVE FALSE
  OBVIOUS
<1>1. PICK S \in F : \A U \in F : U \subseteq S => U = S
  <2>1. \A T \in F : T \subseteq C
    OBVIOUS
  <2>2. IsFiniteSet(C)
    BY ConnectionsOf
  <2> HIDE DEF F, C
  <2> QED BY <2>1, <2>2, SmallestSubset
<1> DEFINE sol(T) == CHOOSE g : IsAdding(n, T, g)
           g == [T \in SUBSET S |->
                  IF T = {} THEN [stack |-> Tail(stack), waiting |-> waiting]
                  ELSE AddNodeToBeExecuted(sol(T \ {LastToAdd(T)})[T \ {LastToAdd(T)}], LastToAdd(T),
                                           Token(n, LastToAdd(T).output, Runs(n)))]
<1>2. ASSUME NEW T \in SUBSET S, T # S
      PROVE  IsAdding(n, T, sol(T))
  <2>1. \E f : IsAdding(n, T, f)
    BY <1>1, <1>2
  <2> QED BY <2>1, Zenon
<1>3. ASSUME NEW T \in SUBSET S, T # {}
      PROVE  LastToAdd(T) \in T
  BY <1>1, <1>3, LastIsThere
<1>4. ASSUME NEW T \in SUBSET S, T # S
      PROVE  g[T] = sol(T)[T]
  <2>1. sol(T)[T] = AddedTo(n, sol(T), T)
    <3>1. IsAdding(n, T, sol(T))
      BY <1>2, <1>4
    <3> HIDE DEF sol
    <3> QED BY <3>1 DEF IsAdding
  <2>2. CASE T = {}
    <3> HIDE DEF sol
    <3> QED BY <2>1, <2>2 DEF AddedTo
  <2>3. CASE T # {}
    <3> DEFINE U == T \ {LastToAdd(T)}
    <3>1. U \in SUBSET S /\ U # S /\ U \in SUBSET T /\ T \in SUBSET C
      BY <1>1, <1>3, <2>3
    <3>2. sol(U)[U] = sol(T)[U]
      <4>1. IsAdding(n, U, sol(U)) /\ IsAdding(n, T, sol(T))
        BY <1>2, <1>4, <3>1
      <4> HIDE DEF sol, U
      <4> QED BY <3>1, <4>1, AddingAgrees
    <3> HIDE DEF sol
    <3> QED BY <2>1, <2>3, <3>2 DEF AddedTo
  <2> QED BY <2>2, <2>3
<1>5. ASSUME NEW T \in SUBSET S
      PROVE  g[T] = AddedTo(n, g, T)
  <2>1. CASE T = {}
    BY <2>1 DEF AddedTo
  <2>2. CASE T # {}
    <3> DEFINE U == T \ {LastToAdd(T)}
    <3>1. U \in SUBSET S /\ U # S
      BY <1>3, <2>2
    <3>2. g[U] = sol(U)[U]
      BY <1>4, <3>1
    <3>3. g[T] = AddNodeToBeExecuted(sol(U)[U], LastToAdd(T), Token(n, LastToAdd(T).output, Runs(n)))
      <4> HIDE DEF sol
      <4> QED BY <2>2
    <3> HIDE DEF sol, g
    <3> QED BY <2>2, <3>2, <3>3 DEF AddedTo
  <2> QED BY <2>1, <2>2
<1>6. IsAdding(n, S, g)
  <2>1. g = [T \in SUBSET S |-> g[T]]
    <3> HIDE DEF sol
    <3> QED OBVIOUS
  <2> HIDE DEF g
  <2> QED BY <1>5, <2>1 DEF IsAdding
<1> HIDE DEF g
<1> QED BY <1>1, <1>6

LEMMA AddingStep ==
  ASSUME Fixed, NEW n, NEW out
  PROVE  /\ Added(n, out) = Adding(n, out)[NodesToAdd(n, out)]
         /\ Adding(n, out)[{}] = [stack |-> Tail(stack), waiting |-> waiting]
         /\ \A T \in SUBSET NodesToAdd(n, out) : T # {} =>
              /\ LastToAdd(T) \in T
              /\ Adding(n, out)[T]
                   = AddNodeToBeExecuted(Adding(n, out)[T \ {LastToAdd(T)}], LastToAdd(T),
                                         Token(n, LastToAdd(T).output, Runs(n)))
<1>1. Added(n, out) = Adding(n, out)[NodesToAdd(n, out)]
  BY DEF Added, MapThenFoldSet, Adding, AddedTo
<1>2. IsAdding(n, NodesToAdd(n, out), Adding(n, out))
  BY AddingExists, Zenon DEF IsAdding, Adding
<1> HIDE DEF Adding
<1>3. \A T \in SUBSET NodesToAdd(n, out) : Adding(n, out)[T] = AddedTo(n, Adding(n, out), T)
  BY <1>2 DEF IsAdding
<1> QED BY <1>1, <1>3, LastIsThere DEF AddedTo

-----------------------------------------------------------------------------
(* The data that nodes wait for and run with. *)
Datas(n) ==
  {d \in [Inputs(workflow, n) -> TokenSet \cup {NoData}] : \E k \in Inputs(workflow, n) : d[k] # NoData}
Given(n) ==
  {d \in [Inputs(workflow, n) -> TokenSet \cup {NoItems}] : \E k \in Inputs(workflow, n) : d[k] # NoItems}
AllData == UNION {Given(n) : n \in Nodes}
Items == {it \in [node : Nodes, data : AllData, disabled : BOOLEAN] : it.data \in Given(it.node)}
Indices == {D \in SUBSET Nat : IsFiniteSet(D)}
Sets(n) == UNION {[D -> Datas(n)] : D \in Indices}
AllSets == UNION {Sets(n) : n \in Nodes}
Waitings == {w \in [Nodes -> AllSets] : \A n \in Nodes : w[n] \in Sets(n)}
States == [stack : Seq(Items), waiting : Waitings]

LEMMA InputsOf ==
  ASSUME Fixed, NEW n
  PROVE  /\ Inputs(workflow, n) \subseteq Nat
         /\ 0 \in Inputs(workflow, n)
         /\ \A c \in workflow.connections : c.to = n => c.input \in Inputs(workflow, n)
         /\ n = workflow.trigger => Inputs(workflow, n) = {0}
<1> DEFINE C == {d \in workflow.connections : d.to = n}
           In == {c.input : c \in C}
<1>1. C \subseteq Connections /\ IsFiniteSet(C)
  BY WorkflowsAssumption, FS_Subset DEF Fixed, Connections
<1>2. IsFiniteSet({0} \cup In) /\ {0} \cup In \in SUBSET Nat
  <2>1. IsFiniteSet(In)
    <3> DEFINE f == [c \in C |-> c.input]
    <3>1. f \in Surjection(C, In)
      BY DEF Surjection
    <3> HIDE DEF C, In, f
    <3> QED BY <1>1, <3>1, FS_Surjection
  <2>2. {0} \cup In = In \cup {0}
    OBVIOUS
  <2>3. In \subseteq Nat
    BY <1>1 DEF Connections
  <2> HIDE DEF In
  <2> QED BY <2>1, <2>2, <2>3, FS_AddElement
<1> DEFINE m == Max({0} \cup In)
<1>3. m \in {0} \cup In /\ m \in Nat /\ \A x \in {0} \cup In : m >= x
  <2> HIDE DEF In
  <2> QED BY <1>2, GreatestNumber
<1>4. Inputs(workflow, n) = 0..m
  BY DEF Inputs
<1>5. n = workflow.trigger => m = 0
  <2>1. n = workflow.trigger => \A x \in In : x = 0
    BY WorkflowsAssumption DEF Fixed
  <2> HIDE DEF m
  <2> QED BY <1>3, <2>1
<1>6. \A c \in workflow.connections : c.to = n => c.input \in In
  OBVIOUS
<1> HIDE DEF m
<1>7. \A x \in In : x \in 0..m
  <2> HIDE DEF In
  <2> QED BY <1>2, <1>3
<1> QED BY <1>3, <1>4, <1>5, <1>6, <1>7

LEMMA SetsOf ==
  ASSUME NEW n, NEW w \in Sets(n)
  PROVE  /\ DOMAIN w \in Indices
         /\ \A i \in DOMAIN w : w[i] \in Datas(n)
         /\ w = [i \in DOMAIN w |-> w[i]]
BY DEF Sets

LEMMA NoSets ==
  ASSUME NEW n
  PROVE  <<>> \in Sets(n) /\ \A w \in Sets(n) : DOMAIN w = {} => w = <<>>
<1>1. {} \in Indices
  BY FS_EmptySet DEF Indices
<1>2. <<>> \in [{} -> Datas(n)]
  OBVIOUS
<1>3. ASSUME NEW w \in Sets(n), DOMAIN w = {}
      PROVE  w = <<>>
  <2>1. w \in [{} -> Datas(n)]
    BY <1>3, SetsOf
  <2> QED BY <2>1
<1> QED BY <1>1, <1>2, <1>3 DEF Sets

LEMMA WithSet ==
  ASSUME NEW n, NEW w \in Sets(n), NEW i \in Nat, NEW d \in Datas(n)
  PROVE  /\ With(w, i, d) \in Sets(n)
         /\ DOMAIN With(w, i, d) = DOMAIN w \cup {i}
         /\ With(w, i, d)[i] = d
         /\ \A j \in DOMAIN w \ {i} : With(w, i, d)[j] = w[j]
<1>1. DOMAIN w \cup {i} \in Indices
  <2>1. IsFiniteSet(DOMAIN w \cup {i})
    BY SetsOf, FS_AddElement DEF Indices
  <2> QED BY <2>1, SetsOf DEF Indices
<1>2. With(w, i, d) \in [DOMAIN w \cup {i} -> Datas(n)]
  BY SetsOf DEF With
<1> QED BY <1>1, <1>2 DEF Sets, With

Without(w, i) == Restrict(w, DOMAIN w \ {i})

LEMMA WithoutSet ==
  ASSUME NEW n, NEW w \in Sets(n), NEW i
  PROVE  /\ Without(w, i) \in Sets(n)
         /\ DOMAIN Without(w, i) = DOMAIN w \ {i}
         /\ \A j \in DOMAIN w \ {i} : Without(w, i)[j] = w[j]
<1>1. DOMAIN w \ {i} \in Indices
  <2>1. IsFiniteSet(DOMAIN w \ {i})
    BY SetsOf, FS_Subset DEF Indices
  <2> QED BY <2>1, SetsOf DEF Indices
<1>2. Without(w, i) \in [DOMAIN w \ {i} -> Datas(n)]
  BY SetsOf DEF Without, Restrict
<1> QED BY <1>1, <1>2 DEF Sets, Without, Restrict

LEMMA WaitingWith ==
  ASSUME NEW w \in Waitings, NEW n \in Nodes, NEW new \in Sets(n)
  PROVE  /\ [w EXCEPT ![n] = new] \in Waitings
         /\ \A m \in Nodes : [w EXCEPT ![n] = new][m] = IF m = n THEN new ELSE w[m]
BY DEF Waitings, AllSets

LEMMA Pushing ==
  ASSUME NEW S, NEW q \in Seq(S), NEW x \in S
  PROVE  /\ <<x>> \o q \in Seq(S) /\ <<x>> \o q # <<>>
         /\ DOMAIN (<<x>> \o q) = 1..(Len(q) + 1)
         /\ (<<x>> \o q)[1] = x
         /\ \A i \in 1..Len(q) : (<<x>> \o q)[i + 1] = q[i]
OBVIOUS

(* A node gets the set of its data with this index on the stack, or keeps it *)
(* there to wait.                                                            *)
IsState(st) == st = [stack |-> st.stack, waiting |-> st.waiting]
Completes(st, new, n, index, data) ==
  /\ IsState(new)
  /\ new.stack = <<Item(n, data)>> \o st.stack
  /\ new.waiting = [st.waiting EXCEPT ![n] = Without(st.waiting[n], index)]
Waits(st, new, n, index, data) ==
  /\ IsState(new)
  /\ new.stack = st.stack
  /\ new.waiting = [st.waiting EXCEPT ![n] = With(st.waiting[n], index, data)]

(* What addNodeToBeExecuted() does: it takes a set of the node's data, or a  *)
(* new one, and puts in the token, and then the set is complete or waits.    *)
LEMMA AddDoes ==
  ASSUME Fixed, NEW st \in States, NEW c \in workflow.connections, NEW token \in TokenSet
  PROVE  /\ c \in Connections
         /\ \E index \in Nat, data \in Datas(c.to) :
              /\ data[c.input] = token
              /\ \/ /\ index \in DOMAIN st.waiting[c.to] /\ st.waiting[c.to][index][c.input] = NoData
                    /\ \A k \in Inputs(workflow, c.to) \ {c.input} : data[k] = st.waiting[c.to][index][k]
                 \/ /\ \A i \in DOMAIN st.waiting[c.to] : st.waiting[c.to][i][c.input] # NoData
                    /\ index = Cardinality(DOMAIN st.waiting[c.to])
                    /\ \A k \in Inputs(workflow, c.to) \ {c.input} : data[k] = NoData
              /\ \/ /\ Completes(st, AddNodeToBeExecuted(st, c, token), c.to, index, data)
                    /\ \A k \in Inputs(workflow, c.to) : data[k] # NoData
                 \/ /\ Waits(st, AddNodeToBeExecuted(st, c, token), c.to, index, data)
                    /\ \E k \in Inputs(workflow, c.to) : data[k] = NoData
<1> DEFINE n == c.to
           entries == st.waiting[n]
           lacking == {i \in DOMAIN entries : entries[i][c.input] = NoData}
           index == IF lacking # {} THEN Min(lacking) ELSE Cardinality(DOMAIN entries)
           before == IF lacking # {} THEN entries[index] ELSE [k \in Inputs(workflow, n) |-> NoData]
           data == [before EXCEPT ![c.input] = token]
<1>1. c \in Connections /\ n \in Nodes
  BY WorkflowsAssumption DEF Fixed, Connections
<1>2. entries \in Sets(n) /\ st.stack \in Seq(Items) /\ st.waiting \in Waitings
  BY <1>1 DEF States, Waitings
<1> HIDE DEF n
<1>3. /\ index \in Nat
      /\ lacking # {} => index \in lacking
  <2>1. DOMAIN entries \in SUBSET Nat /\ IsFiniteSet(DOMAIN entries)
    BY <1>2, SetsOf DEF Indices
  <2>2. lacking \in SUBSET Nat /\ Cardinality(DOMAIN entries) \in Nat
    BY <2>1, FS_CardinalityType
  <2> HIDE DEF lacking, entries
  <2> QED BY <2>2, LeastNumber
<1>4. c.input \in Inputs(workflow, n)
  BY InputsOf DEF n
<1>5. before \in [Inputs(workflow, n) -> TokenSet \cup {NoData}]
  <2>1. CASE lacking # {}
    <3>1. entries[index] \in Datas(n) /\ before = entries[index]
      <4>1. index \in DOMAIN entries
        BY <1>3, <2>1
      <4> HIDE DEF index, entries
      <4> QED BY <1>2, <2>1, <4>1, SetsOf
    <3> HIDE DEF before, index
    <3> QED BY <3>1 DEF Datas
  <2>2. CASE lacking = {}
    BY <2>2
  <2> QED BY <2>1, <2>2
<1>6. \/ /\ index \in DOMAIN entries /\ entries[index][c.input] = NoData
         /\ \A k \in Inputs(workflow, n) : before[k] = entries[index][k]
      \/ /\ \A i \in DOMAIN entries : entries[i][c.input] # NoData
         /\ index = Cardinality(DOMAIN entries)
         /\ \A k \in Inputs(workflow, n) : before[k] = NoData
  BY <1>3
<1>7. /\ data \in Datas(n) /\ data[c.input] = token
      /\ \A k \in Inputs(workflow, n) \ {c.input} : data[k] = before[k]
  <2> HIDE DEF before
  <2> QED BY <1>4, <1>5, NoDataAssumption DEF Datas
<1>8. AddNodeToBeExecuted(st, c, token)
        = IF NoData \notin {data[k] : k \in DOMAIN data}
          THEN [stack |-> <<Item(n, data)>> \o st.stack,
                waiting |-> [st.waiting EXCEPT ![n] = Restrict(@, DOMAIN @ \ {index})]]
          ELSE [st EXCEPT !.waiting[n] = With(entries, index, data)]
  BY DEF AddNodeToBeExecuted, n
<1> HIDE DEF data
<1>9. [st EXCEPT !.waiting[n] = With(entries, index, data)]
        = [stack |-> st.stack, waiting |-> [st.waiting EXCEPT ![n] = With(@, index, data)]]
  <2> HIDE DEF index
  <2> QED BY <1>1 DEF States, Waitings
<1> HIDE DEF index, before
<1>10. \/ /\ index \in DOMAIN entries /\ entries[index][c.input] = NoData
          /\ \A k \in Inputs(workflow, n) \ {c.input} : data[k] = entries[index][k]
       \/ /\ \A i \in DOMAIN entries : entries[i][c.input] # NoData
          /\ index = Cardinality(DOMAIN entries)
          /\ \A k \in Inputs(workflow, n) \ {c.input} : data[k] = NoData
  BY <1>6, <1>7
<1> DEFINE new == AddNodeToBeExecuted(st, c, token)
<1>11. \/ Completes(st, new, n, index, data) /\ \A k \in Inputs(workflow, n) : data[k] # NoData
       \/ Waits(st, new, n, index, data) /\ \E k \in Inputs(workflow, n) : data[k] = NoData
  <2>1. \/ /\ new = [stack |-> <<Item(n, data)>> \o st.stack,
                     waiting |-> [st.waiting EXCEPT ![n] = Without(entries, index)]]
           /\ NoData \notin {data[k] : k \in DOMAIN data}
        \/ /\ new = [stack |-> st.stack, waiting |-> [st.waiting EXCEPT ![n] = With(entries, index, data)]]
           /\ NoData \in {data[k] : k \in DOMAIN data}
    BY <1>8, <1>9 DEF Without
  <2>2. DOMAIN data = Inputs(workflow, n)
    BY <1>7 DEF Datas
  <2> HIDE DEF new
  <2> QED BY <2>1, <2>2 DEF Completes, Waits, IsState
<1> QED BY <1>1, <1>3, <1>7, <1>10, <1>11 DEF n

LEMMA AddCases ==
  ASSUME Fixed, NEW st \in States, NEW c \in workflow.connections, NEW token \in TokenSet
  PROVE  /\ c \in Connections
         /\ \E index \in Nat, data \in Datas(c.to) :
              /\ data[c.input] = token
              /\ \A k \in Inputs(workflow, c.to) \ {c.input} : data[k] # NoData =>
                   index \in DOMAIN st.waiting[c.to] /\ st.waiting[c.to][index][k] = data[k]
              /\ \/ /\ Completes(st, AddNodeToBeExecuted(st, c, token), c.to, index, data)
                    /\ \A k \in Inputs(workflow, c.to) : data[k] # NoData
                 \/ Waits(st, AddNodeToBeExecuted(st, c, token), c.to, index, data)
BY AddDoes

-----------------------------------------------------------------------------
(* Where a token is.  A signal is a token on its way to an input of a node.  *)
Signals == [to : Nodes, input : Nat, token : TokenSet]
Signal(c, n) == [to |-> c.to, input |-> c.input, token |-> Token(n, c.output, Runs(n))]

InStack(s, st) == {i \in DOMAIN st.stack : st.stack[i].node = s.to /\ Holds(s, st.stack[i].data)}
InWaiting(s, st) == {i \in DOMAIN st.waiting[s.to] : Holds(s, st.waiting[s.to][i])}
Held(s, st) == InStack(s, st) # {} \/ InWaiting(s, st) # {}
Once(s, st) ==
  /\ \A i, j \in InStack(s, st) : i = j
  /\ \A i, j \in InWaiting(s, st) : i = j
  /\ InStack(s, st) = {} \/ InWaiting(s, st) = {}

(* A set on top of the stack, or one that waits more or less. *)
LEMMA PushedHolds ==
  ASSUME NEW st \in States, NEW it \in Items, NEW new, new.stack = <<it>> \o st.stack, NEW s
  PROVE  InStack(s, new) = {i + 1 : i \in InStack(s, st)}
                           \cup {i \in {1} : it.node = s.to /\ Holds(s, it.data)}
<1> DEFINE q == st.stack
           r == new.stack
<1>1. q \in Seq(Items)
  BY DEF States
<1>2. DOMAIN r = 1..(Len(q) + 1) /\ r[1] = it /\ \A i \in 1..Len(q) : r[i + 1] = q[i]
  BY <1>1, Pushing
<1>3. DOMAIN q = 1..Len(q) /\ Len(q) \in Nat
  BY <1>1
<1> HIDE DEF r, q
<1>4. ASSUME NEW i \in DOMAIN r
      PROVE  i = 1 \/ \E j \in DOMAIN q : i = j + 1 /\ r[i] = q[j]
  <2>1. i # 1 => i - 1 \in 1..Len(q) /\ i = (i - 1) + 1
    BY <1>2, <1>3
  <2> QED BY <1>2, <1>3, <2>1
<1>5. ASSUME NEW i \in DOMAIN q
      PROVE  i + 1 \in DOMAIN r /\ r[i + 1] = q[i]
  BY <1>2, <1>3
<1>6. 1 \in DOMAIN r
  BY <1>2, <1>3
<1> DEFINE in(i, p) == p[i].node = s.to /\ Holds(s, p[i].data)
<1>7. {i \in DOMAIN r : in(i, r)} = {i + 1 : i \in {j \in DOMAIN q : in(j, q)}}
                                   \cup {i \in {1} : it.node = s.to /\ Holds(s, it.data)}
  <2>1. in(1, r) <=> it.node = s.to /\ Holds(s, it.data)
    BY <1>2
  <2>2. \A i \in DOMAIN q : in(i + 1, r) <=> in(i, q)
    BY <1>5
  <2> HIDE DEF in
  <2> QED BY <1>4, <1>5, <1>6, <2>1, <2>2
<1> QED BY <1>7 DEF InStack, q, r

Gains(st, new, n, i, d) ==
  \A m \in Nodes : new.waiting[m] = IF m = n THEN With(st.waiting[n], i, d) ELSE st.waiting[m]
Loses(st, new, n, i) ==
  \A m \in Nodes : new.waiting[m] = IF m = n THEN Without(st.waiting[n], i) ELSE st.waiting[m]

LEMMA WithHolds ==
  ASSUME NEW st \in States, NEW n \in Nodes, NEW i \in Nat, NEW d \in Datas(n), NEW s \in Signals,
         NEW new, Gains(st, new, n, i, d)
  PROVE  InWaiting(s, new) = IF s.to # n THEN InWaiting(s, st)
                             ELSE (InWaiting(s, st) \ {i}) \cup {j \in {i} : Holds(s, d)}
<1> DEFINE old == st.waiting[n]
           w == With(old, i, d)
<1>1. /\ w \in Sets(n) /\ DOMAIN w = DOMAIN old \cup {i}
      /\ w[i] = d /\ \A j \in DOMAIN old \ {i} : w[j] = old[j]
  <2>1. old \in Sets(n)
    BY DEF States, Waitings
  <2> HIDE DEF old
  <2>2. With(old, i, d) \in Sets(n)
    BY <2>1, WithSet
  <2> QED BY <2>2 DEF With
<1>2. new.waiting[s.to] = IF s.to = n THEN w ELSE st.waiting[s.to]
  BY DEF Signals, Gains
<1> HIDE DEF w
<1> QED BY <1>1, <1>2 DEF InWaiting

LEMMA WithoutHolds ==
  ASSUME NEW st \in States, NEW n \in Nodes, NEW i \in Nat, NEW s \in Signals,
         NEW new, Loses(st, new, n, i)
  PROVE  /\ s.to # n => InWaiting(s, new) = InWaiting(s, st)
         /\ s.to = n => InWaiting(s, new) = InWaiting(s, st) \ {i}
<1> DEFINE old == st.waiting[n]
           w == Without(old, i)
<1>1. /\ w \in Sets(n) /\ DOMAIN w = DOMAIN old \ {i}
      /\ \A j \in DOMAIN old \ {i} : w[j] = old[j]
  <2>1. old \in Sets(n)
    BY DEF States, Waitings
  <2> HIDE DEF old
  <2> QED BY <2>1, WithoutSet
<1>2. new.waiting[s.to] = IF s.to = n THEN w ELSE st.waiting[s.to]
  BY DEF Signals, Loses
<1> HIDE DEF w
<1> QED BY <1>1, <1>2 DEF InWaiting

LEMMA ItemFits ==
  ASSUME NEW n \in Nodes, NEW d \in Given(n)
  PROVE  Item(n, d) \in Items /\ Item(n, d).node = n /\ Item(n, d).data = d
BY DEF Item, Items, AllData

(* A complete set is what a node can be given, and so is one that is filled  *)
(* up, with the same tokens.                                                 *)
LEMMA CompleteGiven ==
  ASSUME NEW n, NEW d \in Datas(n), \A k \in Inputs(workflow, n) : d[k] # NoData
  PROVE  d \in Given(n)
<1>1. d \in [Inputs(workflow, n) -> TokenSet] /\ \E k \in Inputs(workflow, n) : TRUE
  BY DEF Datas
<1> QED BY <1>1, NoDataAssumption DEF Given

LEMMA FilledGiven ==
  ASSUME NEW n, NEW d \in Datas(n)
  PROVE  /\ Filled(d) \in Given(n)
         /\ \A s \in Signals : Holds(s, Filled(d)) <=> Holds(s, d)
<1>1. d \in [Inputs(workflow, n) -> TokenSet \cup {NoData}] /\ \E k \in Inputs(workflow, n) : d[k] # NoData
  BY DEF Datas
<1>2. Filled(d) = [k \in Inputs(workflow, n) |-> IF d[k] = NoData THEN NoItems ELSE d[k]]
  BY <1>1 DEF Filled
<1>3. Filled(d) \in Given(n)
  BY <1>1, <1>2, NoDataAssumption DEF Given
<1>4. ASSUME NEW s \in Signals
      PROVE  Holds(s, Filled(d)) <=> Holds(s, d)
  <2>1. s.token # NoData /\ s.token # NoItems
    BY NoDataAssumption DEF Signals
  <2> QED BY <1>1, <1>2, <2>1 DEF Holds
<1> QED BY <1>3, <1>4

LEMMA CompletesTyped ==
  ASSUME NEW st \in States, NEW n \in Nodes, NEW index, NEW data \in Given(n), NEW new,
         Completes(st, new, n, index, data)
  PROVE  new \in States
<1>1. st.stack \in Seq(Items) /\ st.waiting \in Waitings /\ st.waiting[n] \in Sets(n)
  BY DEF States, Waitings
<1>2. new.waiting \in Waitings
  <2>1. Without(st.waiting[n], index) \in Sets(n)
    BY <1>1, WithoutSet
  <2> QED BY <1>1, <2>1, WaitingWith DEF Completes
<1>3. new.stack \in Seq(Items)
  BY <1>1, ItemFits, Pushing DEF Completes
<1> QED BY <1>2, <1>3 DEF States, Completes, IsState

LEMMA WaitsTyped ==
  ASSUME NEW st \in States, NEW n \in Nodes, NEW index \in Nat, NEW data \in Datas(n), NEW new,
         Waits(st, new, n, index, data)
  PROVE  new \in States
<1>1. st.stack \in Seq(Items) /\ st.waiting \in Waitings /\ st.waiting[n] \in Sets(n)
  BY DEF States, Waitings
<1>2. new.waiting \in Waitings
  <2>1. With(st.waiting[n], index, data) \in Sets(n)
    BY <1>1, WithSet
  <2> QED BY <1>1, <2>1, WaitingWith DEF Waits
<1> QED BY <1>1, <1>2 DEF States, Waits, IsState

(* Adding a node keeps the types, *)
LEMMA AddTyped ==
  ASSUME Fixed, NEW st \in States, NEW c \in workflow.connections, NEW token \in TokenSet
  PROVE  AddNodeToBeExecuted(st, c, token) \in States
<1> DEFINE new == AddNodeToBeExecuted(st, c, token)
<1>1. c.to \in Nodes
  BY AddCases DEF Connections
<1>2. PICK index \in Nat, data \in Datas(c.to) :
         \/ Completes(st, new, c.to, index, data) /\ \A k \in Inputs(workflow, c.to) : data[k] # NoData
         \/ Waits(st, new, c.to, index, data)
  BY AddCases
<1> HIDE DEF new
<1>3. new \in States
  BY <1>1, <1>2, CompleteGiven, CompletesTyped, WaitsTyped
<1> QED BY <1>3 DEF new

(* puts the token in one place, and moves no other one away or twice.        *)
LEMMA AddOnce ==
  ASSUME Fixed, NEW st \in States, NEW c \in workflow.connections, NEW token \in TokenSet,
         NEW fresh \in Signals, fresh = [to |-> c.to, input |-> c.input, token |-> token],
         ~Held(fresh, st), NEW s \in Signals, Once(s, st),
         NEW new, new = AddNodeToBeExecuted(st, c, token)
  PROVE  /\ Once(s, new)
         /\ Held(s, new) => Held(s, st) \/ s = fresh
<1> DEFINE n == c.to
           entries == st.waiting[n]
<1>1. n \in Nodes /\ entries \in Sets(n) /\ c.input \in Nat
  BY AddCases DEF Connections, States, Waitings
<1>2. PICK index \in Nat, data \in Datas(n) :
         /\ data[c.input] = token
         /\ \A k \in Inputs(workflow, n) \ {c.input} : data[k] # NoData =>
              index \in DOMAIN entries /\ entries[index][k] = data[k]
         /\ \/ Completes(st, new, n, index, data) /\ \A k \in Inputs(workflow, n) : data[k] # NoData
            \/ Waits(st, new, n, index, data)
  <2>1. \E index \in Nat, data \in Datas(n) :
          /\ data[c.input] = token
          /\ \A k \in Inputs(workflow, n) \ {c.input} : data[k] # NoData =>
               index \in DOMAIN entries /\ entries[index][k] = data[k]
          /\ \/ /\ Completes(st, AddNodeToBeExecuted(st, c, token), n, index, data)
                /\ \A k \in Inputs(workflow, n) : data[k] # NoData
             \/ Waits(st, AddNodeToBeExecuted(st, c, token), n, index, data)
    BY AddCases
  <2> QED BY <2>1
<1>3. s.token # NoData /\ s.to \in Nodes /\ s = [to |-> s.to, input |-> s.input, token |-> s.token]
  BY NoDataAssumption DEF Signals
<1>4. ASSUME s.to = n, Holds(s, data), s # fresh
      PROVE  index \in InWaiting(s, st)
  <2>1. s.input \in Inputs(workflow, n) /\ data[s.input] = s.token
    BY <1>4 DEF Holds, Datas
  <2>2. s.input # c.input
    BY <1>2, <1>3, <1>4, <2>1
  <2>3. index \in DOMAIN entries /\ entries[index][s.input] = s.token
    BY <1>2, <1>3, <2>1, <2>2
  <2>4. s.input \in DOMAIN entries[index]
    <3>1. entries[index] \in Datas(n)
      BY <1>1, <2>3, SetsOf
    <3> QED BY <2>1, <3>1 DEF Datas
  <2> QED BY <1>4, <2>3, <2>4 DEF InWaiting, Holds
<1>5. s = fresh => InStack(s, st) = {} /\ InWaiting(s, st) = {}
  BY DEF Held
<1>6. CASE Completes(st, new, n, index, data) /\ \A k \in Inputs(workflow, n) : data[k] # NoData
  <2>1. InStack(s, new) = {i + 1 : i \in InStack(s, st)}
                          \cup {i \in {1} : n = s.to /\ Holds(s, data)}
    <3>1. /\ Item(n, data) \in Items /\ Item(n, data).node = n /\ Item(n, data).data = data
          /\ new.stack = <<Item(n, data)>> \o st.stack
      BY <1>1, <1>6, CompleteGiven, ItemFits DEF Completes
    <3> QED BY <3>1, PushedHolds
  <2>2. /\ s.to # n => InWaiting(s, new) = InWaiting(s, st)
        /\ s.to = n => InWaiting(s, new) = InWaiting(s, st) \ {index}
    <3>1. Loses(st, new, n, index)
      BY <1>6 DEF Completes, Loses, States, Waitings
    <3> QED BY <1>1, <3>1, WithoutHolds
  <2>3. \A i \in InStack(s, st) : i \in Nat
    BY DEF InStack, States
  <2> QED BY <1>4, <1>5, <2>1, <2>2, <2>3 DEF Once, Held
<1>7. CASE Waits(st, new, n, index, data)
  <2>1. InStack(s, new) = InStack(s, st)
    BY <1>7 DEF InStack, Waits
  <2>2. InWaiting(s, new) = IF s.to # n THEN InWaiting(s, st)
                            ELSE (InWaiting(s, st) \ {index}) \cup {j \in {index} : Holds(s, data)}
    <3>1. Gains(st, new, n, index, data)
      BY <1>7 DEF Waits, Gains, States, Waitings
    <3> QED BY <1>1, <3>1, WithHolds
  <2> QED BY <1>4, <1>5, <2>1, <2>2 DEF Once, Held
<1> QED BY <1>2, <1>6, <1>7

-----------------------------------------------------------------------------
(* All nodes that a run passes data to. *)
Base == [stack |-> Tail(stack), waiting |-> waiting]

LEMMA TokenOf ==
  ASSUME Fixed, NEW n \in Nodes, Runs(n) \in Nat, NEW out, NEW c \in NodesToAdd(n, out)
  PROVE  /\ c \in workflow.connections /\ c \in Connections
         /\ Token(n, c.output, Runs(n)) \in TokenSet
         /\ Signal(c, n) \in Signals
         /\ Signal(c, n) = [to |-> c.to, input |-> c.input, token |-> Token(n, c.output, Runs(n))]
         /\ \A d \in NodesToAdd(n, out) : Signal(c, n) = Signal(d, n) => c = d
<1>1. c \in workflow.connections /\ c \in Connections /\ c.from = n
  BY ConnectionsOf
<1>2. Token(n, c.output, Runs(n)) \in TokenSet
  BY <1>1 DEF Token, TokenSet, Connections
<1>3. ASSUME NEW d \in NodesToAdd(n, out), Signal(c, n) = Signal(d, n)
      PROVE  c = d
  <2>1. d \in Connections /\ d.from = n
    BY ConnectionsOf
  <2>2. c.to = d.to /\ c.input = d.input /\ Token(n, c.output, Runs(n)) = Token(n, d.output, Runs(n))
    BY <1>3 DEF Signal
  <2>3. c.output = d.output
    BY <2>2 DEF Token
  <2> QED BY <1>1, <2>1, <2>2, <2>3 DEF Connections
<1> QED BY <1>1, <1>2, <1>3 DEF Signal, Signals, Connections

LEMMA AddingTyped ==
  ASSUME Fixed, Base \in States, NEW n \in Nodes, Runs(n) \in Nat, NEW out
  PROVE  \A T \in SUBSET NodesToAdd(n, out) : Adding(n, out)[T] \in States
<1> DEFINE C == NodesToAdd(n, out)
           F == {T \in SUBSET C : Adding(n, out)[T] \notin States}
<1> SUFFICES ASSUME F # {} PROVE FALSE
  OBVIOUS
<1>1. PICK T \in F : \A U \in F : U \subseteq T => U = T
  <2>1. \A T \in F : T \subseteq C
    OBVIOUS
  <2>2. IsFiniteSet(C)
    BY ConnectionsOf
  <2> HIDE DEF F, C
  <2> QED BY <2>1, <2>2, SmallestSubset
<1>2. T # {}
  BY <1>1, AddingStep DEF Base
<1>3. /\ LastToAdd(T) \in T
      /\ Adding(n, out)[T] = AddNodeToBeExecuted(Adding(n, out)[T \ {LastToAdd(T)}], LastToAdd(T),
                                                 Token(n, LastToAdd(T).output, Runs(n)))
  BY <1>1, <1>2, AddingStep
<1>4. Adding(n, out)[T \ {LastToAdd(T)}] \in States
  BY <1>1, <1>3
<1>5. Adding(n, out)[T] \in States
  BY <1>1, <1>3, <1>4, TokenOf, AddTyped
<1> QED BY <1>1, <1>5

LEMMA AddedTyped ==
  ASSUME Fixed, Base \in States, NEW n \in Nodes, Runs(n) \in Nat, NEW out
  PROVE  Added(n, out) \in States
BY AddingTyped, AddingStep

(* Every token that was in one place is still there, and the new ones are    *)
(* in one place each.                                                        *)
Arrived(n, T, st) ==
  \A s \in Signals : /\ Once(s, st)
                     /\ Held(s, st) => Held(s, Base) \/ \E c \in T : s = Signal(c, n)

LEMMA AddedOnce ==
  ASSUME Fixed, Base \in States, NEW n \in Nodes, Runs(n) \in Nat, NEW out,
         \A s \in Signals : Once(s, Base),
         \A c \in NodesToAdd(n, out) : ~Held(Signal(c, n), Base)
  PROVE  Arrived(n, NodesToAdd(n, out), Added(n, out))
<1> DEFINE C == NodesToAdd(n, out)
           F == {T \in SUBSET C : ~Arrived(n, T, Adding(n, out)[T])}
<1>1. F = {}
  <2> SUFFICES ASSUME F # {} PROVE FALSE
    OBVIOUS
  <2>1. PICK T \in F : \A U \in F : U \subseteq T => U = T
    <3>1. \A T \in F : T \subseteq C
      OBVIOUS
    <3>2. IsFiniteSet(C)
      BY ConnectionsOf
    <3> HIDE DEF F, C
    <3> QED BY <3>1, <3>2, SmallestSubset
  <2>2. T # {}
    <3>1. Adding(n, out)[{}] = Base
      BY AddingStep DEF Base
    <3>2. Arrived(n, {}, Base)
      BY DEF Arrived
    <3> QED BY <2>1, <3>1, <3>2
  <2> DEFINE c == LastToAdd(T)
             st == Adding(n, out)[T \ {c}]
             token == Token(n, c.output, Runs(n))
             new == Adding(n, out)[T]
  <2>3. c \in T /\ new = AddNodeToBeExecuted(st, c, token)
    BY <2>1, <2>2, AddingStep
  <2>4. st \in States
    BY <2>1, AddingTyped
  <2> HIDE DEF c
  <2>5. Arrived(n, T \ {c}, st)
    BY <2>1, <2>3
  <2>6. /\ c \in workflow.connections /\ token \in TokenSet
        /\ Signal(c, n) \in Signals
        /\ Signal(c, n) = [to |-> c.to, input |-> c.input, token |-> token]
        /\ \A d \in T \ {c} : Signal(c, n) # Signal(d, n)
    BY <2>1, <2>3, TokenOf
  <2>7. ~Held(Signal(c, n), st)
    BY <2>1, <2>3, <2>5, <2>6 DEF Arrived
  <2> HIDE DEF st, token, new
  <2>8. ASSUME NEW s \in Signals
        PROVE  Once(s, new) /\ (Held(s, new) => Held(s, st) \/ s = Signal(c, n))
    <3>1. Once(s, st)
      BY <2>5 DEF Arrived
    <3> QED BY <2>3, <2>4, <2>6, <2>7, <3>1, AddOnce
  <2>9. Arrived(n, T, new)
    BY <2>3, <2>5, <2>8 DEF Arrived
  <2> QED BY <2>1, <2>9 DEF new
<1>2. Added(n, out) = Adding(n, out)[C]
  BY AddingStep
<1>3. Arrived(n, C, Adding(n, out)[C])
  BY <1>1
<1> QED BY <1>2, <1>3

(* A node that runs with a part of its data. *)
LEMMA ContinuedCases ==
  ASSUME NEW st \in States, NEW new \in Continued(st)
  PROVE  \/ new = st /\ (st.stack # <<>> \/ \A n \in Nodes : ~CanRunPartly(st, n))
         \/ \E n \in Nodes, i \in Nat :
              /\ st.stack = <<>>
              /\ i \in DOMAIN st.waiting[n]
              /\ IsState(new)
              /\ new.stack = <<Item(n, Filled(st.waiting[n][i]))>>
              /\ new.waiting = [st.waiting EXCEPT ![n] = Without(st.waiting[n], i)]
<1>1. CASE st.stack # <<>> \/ \A n \in Nodes : ~CanRunPartly(st, n)
  BY <1>1 DEF Continued
<1>2. CASE ~(st.stack # <<>> \/ \A n \in Nodes : ~CanRunPartly(st, n))
  <2>1. PICK n \in Nodes :
          /\ CanRunPartly(st, n)
          /\ new = [stack |-> <<Item(n, Filled(st.waiting[n][FirstSet(st, n)]))>>,
                    waiting |-> [st.waiting EXCEPT ![n] = Without(st.waiting[n], FirstSet(st, n))]]
    BY <1>2 DEF Continued, Without
  <2>2. FirstSet(st, n) \in Nat /\ FirstSet(st, n) \in DOMAIN st.waiting[n]
    <3>1. st.waiting[n] \in Sets(n) /\ st.waiting[n] # <<>>
      BY <2>1 DEF CanRunPartly, WaitingNodes, States, Waitings
    <3>2. DOMAIN st.waiting[n] \in SUBSET Nat /\ DOMAIN st.waiting[n] # {}
      BY <3>1, SetsOf, NoSets DEF Indices
    <3> QED BY <3>2, LeastNumber DEF FirstSet
  <2> QED BY <1>2, <2>1, <2>2 DEF IsState
<1> QED BY <1>1, <1>2

LEMMA ContinuedTyped ==
  ASSUME NEW st \in States, NEW new \in Continued(st)
  PROVE  new \in States
<1> SUFFICES ASSUME NEW n \in Nodes, NEW i \in Nat,
                    st.stack = <<>>, i \in DOMAIN st.waiting[n], IsState(new),
                    new.stack = <<Item(n, Filled(st.waiting[n][i]))>>,
                    new.waiting = [st.waiting EXCEPT ![n] = Without(st.waiting[n], i)]
             PROVE  new \in States
  BY ContinuedCases
<1>1. st.waiting \in Waitings /\ st.waiting[n] \in Sets(n)
  BY DEF States, Waitings
<1>2. Item(n, Filled(st.waiting[n][i])) \in Items
  BY <1>1, SetsOf, FilledGiven, ItemFits
<1>3. new.waiting \in Waitings
  <2>1. Without(st.waiting[n], i) \in Sets(n)
    BY <1>1, WithoutSet
  <2> QED BY <1>1, <2>1, WaitingWith
<1>4. new.stack \in Seq(Items)
  <2> DEFINE it == Item(n, Filled(st.waiting[n][i]))
  <2>1. new.stack = <<it>> /\ it \in Items
    BY <1>2
  <2> HIDE DEF it
  <2> QED BY <2>1
<1> QED BY <1>3, <1>4 DEF States, IsState

LEMMA ContinuedOnce ==
  ASSUME NEW st \in States, NEW new \in Continued(st), NEW s \in Signals, Once(s, st)
  PROVE  Once(s, new) /\ (Held(s, new) => Held(s, st))
<1>0. SUFFICES ASSUME NEW n \in Nodes, NEW i \in Nat,
                     st.stack = <<>>, i \in DOMAIN st.waiting[n],
                     new.stack = <<Item(n, Filled(st.waiting[n][i]))>>,
                     new.waiting = [st.waiting EXCEPT ![n] = Without(st.waiting[n], i)]
              PROVE  Once(s, new) /\ (Held(s, new) => Held(s, st))
  BY ContinuedCases
<1> DEFINE d == st.waiting[n][i]
<1>1. st.waiting \in Waitings /\ d \in Datas(n)
  BY <1>0, SetsOf DEF States, Waitings
<1> HIDE DEF d
<1>2. /\ Item(n, Filled(d)).node = n /\ Item(n, Filled(d)).data = Filled(d)
      /\ Holds(s, Filled(d)) <=> Holds(s, d)
  BY <1>0, <1>1, FilledGiven, ItemFits
<1>3. InStack(s, new) = {j \in {1} : n = s.to /\ Holds(s, d)}
  <2>1. new.stack = <<Item(n, Filled(d))>>
    BY <1>0 DEF d
  <2> QED BY <1>2, <2>1 DEF InStack
<1>4. InStack(s, st) = {}
  BY <1>0 DEF InStack
<1>5. /\ s.to # n => InWaiting(s, new) = InWaiting(s, st)
      /\ s.to = n => InWaiting(s, new) = InWaiting(s, st) \ {i}
  <2>1. Loses(st, new, n, i)
    BY <1>0, <1>1 DEF Waitings, Loses
  <2>2. n \in Nodes /\ i \in Nat
    BY <1>0
  <2> QED BY <2>1, <2>2, WithoutHolds
<1>6. n = s.to /\ Holds(s, d) => i \in InWaiting(s, st)
  BY <1>0 DEF InWaiting, d
<1> QED BY <1>0, <1>3, <1>4, <1>5, <1>6 DEF Once, Held

-----------------------------------------------------------------------------
(* The state of an execution. *)
TasksOf(n) == [source : Given(n), out : SUBSET Outputs(workflow, n), result : {"success", "error"}]
IsRunData(r) ==
  /\ DOMAIN r \subseteq Nodes
  /\ r = [n \in DOMAIN r |-> r[n]]
  /\ \A n \in DOMAIN r : r[n] \in Seq(TasksOf(n))
RunsIn(r, n) == IF n \in DOMAIN r THEN Len(r[n]) ELSE 0

Here == [stack |-> stack, waiting |-> waiting]
Typed ==
  /\ Fixed
  /\ Here \in States
  /\ IsRunData(runData)
  /\ last \in Nodes \cup {NoNode}
  /\ status \in {"running", "success", "error", "waiting", "canceled"}
  /\ pauses \in 0..MaxPauses

(* An execution that is to go on at a node that has run: the run was made    *)
(* with what lies on the stack, and will be repeated.                        *)
Standing ==
  /\ status \in {"waiting", "error", "canceled"}
  /\ stack # <<>> /\ last = item.node
  /\ RunsIn(runData, last) > 0
  /\ runData[last][RunsIn(runData, last)].source = item.data
  /\ status = "waiting" \/ runData[last][RunsIn(runData, last)].result = "error"

EngineInv == Typed /\ (status \in {"waiting", "error"} => Standing)

(* The runs that count: not the one that will be repeated. *)
Kept(n) == IF Standing /\ n = last THEN RunsIn(runData, n) - 1 ELSE RunsIn(runData, n)
InRuns(s) == {i \in 1..Kept(s.to) : Holds(s, runData[s.to][i].source)}

(* A token is in one place, and comes from a run that counts. *)
Alone(s) ==
  /\ Once(s, Here)
  /\ \A i, j \in InRuns(s) : i = j
  /\ Held(s, Here) => InRuns(s) = {} /\ s \notin skipped
  /\ InRuns(s) # {} => s \notin skipped
Somewhere(s) == Held(s, Here) \/ InRuns(s) # {} \/ s \in skipped
Known(s) == s.token.from = NoNode \/ s.token.run < Kept(s.token.from)
Placed == ~retracted => \A s \in Signals : Alone(s) /\ (Somewhere(s) => Known(s))

(* With an empty stack, nobody that waits could run with what it has. *)
NoneReady ==
  status \in {"running", "success"} /\ stack = <<>> /\ skipped = {} /\ destination = NoNode
    => \A n \in Nodes : ~CanRunPartly(Here, n)

(* The types are those of the workflow, which does not change. *)
LEMMA SameTypes ==
  ASSUME UNCHANGED workflow
  PROVE  /\ States' = States
         /\ \A n : TasksOf(n)' = TasksOf(n)
<1>1. \A n : Inputs(workflow', n) = Inputs(workflow, n) /\ Outputs(workflow', n) = Outputs(workflow, n)
  OBVIOUS
<1>2. \A n : Datas(n)' = Datas(n) /\ Given(n)' = Given(n)
  BY <1>1 DEF Datas, Given
<1>3. AllData' = AllData /\ \A n : Sets(n)' = Sets(n)
  BY <1>2 DEF AllData, Sets
<1>4. Items' = Items /\ Waitings' = Waitings
  BY <1>2, <1>3 DEF Items, Waitings, AllSets
<1> QED BY <1>1, <1>2, <1>4 DEF States, TasksOf

LEMMA SameRunData ==
  ASSUME UNCHANGED workflow, NEW r
  PROVE  IsRunData(r)' <=> IsRunData(r)
BY SameTypes DEF IsRunData

LEMMA ItemFacts ==
  ASSUME Typed, stack # <<>>
  PROVE  /\ item \in Items /\ item.node \in Nodes /\ item.data \in Given(item.node)
         /\ stack \in Seq(Items) /\ Len(stack) \in Nat \ {0}
         /\ Tail(stack) \in Seq(Items) /\ Len(Tail(stack)) = Len(stack) - 1
         /\ \A i \in 1..Len(stack) - 1 : Tail(stack)[i] = stack[i + 1]
         /\ Base \in States /\ waiting \in Waitings
<1>1. stack \in Seq(Items) /\ waiting \in Waitings
  BY DEF Typed, Here, States
<1>2. item \in Items
  BY <1>1 DEF item
<1>3. item.node \in Nodes /\ item.data \in Given(item.node)
  BY <1>2 DEF Items
<1>4. Tail(stack) \in Seq(Items)
  BY <1>1
<1> QED BY <1>1, <1>2, <1>3, <1>4 DEF Base, States

(* A run more, and one less. *)
LEMMA RunsFacts ==
  ASSUME NEW r, IsRunData(r), NEW n
  PROVE  /\ RunsIn(r, n) \in Nat
         /\ \A i \in 1..RunsIn(r, n) : n \in DOMAIN r /\ n \in Nodes /\ r[n][i] \in TasksOf(n)
<1>1. CASE n \in DOMAIN r
  BY <1>1 DEF IsRunData, RunsIn
<1>2. CASE n \notin DOMAIN r
  BY <1>2 DEF IsRunData, RunsIn
<1> QED BY <1>1, <1>2

(* The same runs of a node. *)
SameRuns(r, q, n, k) == \A i \in 1..k : r[n][i] = q[n][i]

LEMMA PushedRuns ==
  ASSUME IsRunData(runData), NEW n \in Nodes, NEW task \in TasksOf(n)
  PROVE  /\ IsRunData(Pushed(n, task))
         /\ RunsIn(Pushed(n, task), n) = RunsIn(runData, n) + 1
         /\ Pushed(n, task)[n][RunsIn(runData, n) + 1] = task
         /\ SameRuns(Pushed(n, task), runData, n, RunsIn(runData, n))
         /\ \A m \in Nodes \ {n} : /\ RunsIn(Pushed(n, task), m) = RunsIn(runData, m)
                                   /\ SameRuns(Pushed(n, task), runData, m, RunsIn(runData, m))
<1> DEFINE r == Pushed(n, task)
<1>1. CASE n \in DOMAIN runData
  <2> DEFINE q == Append(runData[n], task)
  <2>1. runData[n] \in Seq(TasksOf(n))
    BY <1>1 DEF IsRunData
  <2>2. /\ q \in Seq(TasksOf(n)) /\ Len(q) = Len(runData[n]) + 1 /\ q[Len(runData[n]) + 1] = task
        /\ \A i \in 1..Len(runData[n]) : q[i] = runData[n][i]
    BY <2>1
  <2>3. r = [runData EXCEPT ![n] = q]
    BY <1>1 DEF Pushed
  <2> HIDE DEF q, r
  <2>4. /\ DOMAIN r = DOMAIN runData /\ r[n] = q /\ r = [m \in DOMAIN r |-> r[m]]
        /\ \A m \in DOMAIN r \ {n} : r[m] = runData[m]
    BY <1>1, <2>3 DEF IsRunData
  <2>5. IsRunData(r)
    BY <2>2, <2>4 DEF IsRunData
  <2> QED BY <1>1, <2>2, <2>4, <2>5 DEF RunsIn, SameRuns, r
<1>2. CASE n \notin DOMAIN runData
  <2>1. r = With(runData, n, <<task>>)
    BY <1>2 DEF Pushed
  <2>2. <<task>> \in Seq(TasksOf(n)) /\ Len(<<task>>) = 1 /\ <<task>>[1] = task
    OBVIOUS
  <2> HIDE DEF r
  <2>3. /\ DOMAIN r = DOMAIN runData \cup {n} /\ r[n] = <<task>> /\ r = [m \in DOMAIN r |-> r[m]]
        /\ \A m \in DOMAIN runData : r[m] = runData[m]
    BY <1>2, <2>1 DEF With
  <2>4. IsRunData(r)
    <3>1. \A m \in DOMAIN r : r[m] \in Seq(TasksOf(m))
      BY <2>2, <2>3 DEF IsRunData
    <3> QED BY <2>3, <3>1 DEF IsRunData
  <2>5. RunsIn(runData, n) = 0 /\ RunsIn(r, n) = 1
    BY <1>2, <2>2, <2>3 DEF RunsIn
  <2>6. \A m \in Nodes \ {n} : /\ RunsIn(r, m) = RunsIn(runData, m)
                               /\ SameRuns(r, runData, m, RunsIn(runData, m))
    <3>1. ASSUME NEW m \in Nodes \ {n}
          PROVE  m \in DOMAIN r <=> m \in DOMAIN runData
      BY <2>3
    <3>2. ASSUME NEW m \in Nodes \ {n}, m \notin DOMAIN runData
          PROVE  1..RunsIn(runData, m) = {}
      BY <3>2 DEF RunsIn
    <3> QED BY <2>3, <3>1, <3>2 DEF RunsIn, SameRuns
  <2>7. SameRuns(r, runData, n, RunsIn(runData, n))
    BY <2>5 DEF SameRuns
  <2> QED BY <2>2, <2>3, <2>4, <2>5, <2>6, <2>7 DEF r
<1> QED BY <1>1, <1>2

LEMMA Shortened ==
  ASSUME NEW S, NEW s \in Seq(S), Len(s) > 0
  PROVE  /\ SubSeq(s, 1, Len(s) - 1) \in Seq(S)
         /\ Len(SubSeq(s, 1, Len(s) - 1)) = Len(s) - 1
         /\ \A i \in 1..Len(s) - 1 : SubSeq(s, 1, Len(s) - 1)[i] = s[i]
<1>1. PICK k \in Nat : k = Len(s) - 1 /\ \A i \in 1..k : s[i] \in S
  OBVIOUS
<1>2. SubSeq(s, 1, k) \in Seq(S)
  BY <1>1
<1>3. Len(SubSeq(s, 1, k)) = k
  BY <1>1
<1>4. \A i \in 1..k : SubSeq(s, 1, k)[i] = s[i]
  BY <1>1
<1> QED BY <1>1, <1>2, <1>3, <1>4, Zenon

LEMMA PoppedRuns ==
  ASSUME IsRunData(runData), NEW n, RunsIn(runData, n) > 0
  PROVE  /\ IsRunData(Popped(n))
         /\ RunsIn(Popped(n), n) = RunsIn(runData, n) - 1
         /\ SameRuns(Popped(n), runData, n, RunsIn(runData, n) - 1)
         /\ \A m \in Nodes \ {n} : /\ RunsIn(Popped(n), m) = RunsIn(runData, m)
                                   /\ SameRuns(Popped(n), runData, m, RunsIn(runData, m))
<1> DEFINE r == Popped(n)
           q == SubSeq(runData[n], 1, Len(runData[n]) - 1)
<1>1. n \in DOMAIN runData /\ runData[n] \in Seq(TasksOf(n)) /\ Len(runData[n]) > 0
  BY DEF IsRunData, RunsIn
<1>2. /\ q \in Seq(TasksOf(n)) /\ Len(q) = Len(runData[n]) - 1
      /\ \A i \in 1..Len(runData[n]) - 1 : q[i] = runData[n][i]
  BY <1>1, Shortened
<1>3. r = [runData EXCEPT ![n] = q]
  BY DEF Popped
<1> HIDE DEF q, r
<1>4. /\ DOMAIN r = DOMAIN runData /\ r[n] = q /\ r = [m \in DOMAIN r |-> r[m]]
      /\ \A m \in DOMAIN r \ {n} : r[m] = runData[m]
  BY <1>1, <1>3 DEF IsRunData
<1>5. IsRunData(r)
  BY <1>2, <1>4 DEF IsRunData
<1> QED BY <1>1, <1>2, <1>4, <1>5 DEF RunsIn, SameRuns, r

(* Every step keeps the types. *)
There == [stack |-> stack', waiting |-> waiting']
States0 == {"running", "success", "error", "waiting", "canceled"}

LEMMA StillTyped ==
  ASSUME Fixed, UNCHANGED <<workflow, destination>>, There \in States, IsRunData(runData'),
         last' \in Nodes \cup {NoNode}, status' \in States0, pauses' \in 0..MaxPauses
  PROVE  Typed'
<1>1. Fixed'
  BY DEF Fixed
<1>2. Here' \in States'
  BY SameTypes DEF Here, There
<1>3. IsRunData(runData)'
  BY SameTypes DEF IsRunData
<1> QED BY <1>1, <1>2, <1>3 DEF Typed, States0

LEMMA TaskFits ==
  ASSUME Typed, stack # <<>>, NEW out \in SUBSET Outputs(workflow, item.node),
         NEW result \in {"success", "error"}
  PROVE  /\ Task(item.data, IF item.node = destination THEN {} ELSE out, result) \in TasksOf(item.node)
         /\ Task(item.data, out, result) \in TasksOf(item.node)
BY ItemFacts DEF Task, TasksOf

LEMMA RunsAre == \A n : Runs(n) = RunsIn(runData, n)
BY DEF Runs, RunsIn

(* The states that a run leaves behind. *)
LEMMA CompleteTyped ==
  ASSUME Typed, status = "running", stack # <<>>, NEW out \in SUBSET Outputs(workflow, item.node),
         NEW result \in {"success", "error"}, Complete(out, result)
  PROVE  Typed'
<1> DEFINE task == Task(item.data, IF item.node = destination THEN {} ELSE out, result)
<1>1. IsRunData(runData')
  <2>1. task \in TasksOf(item.node)
    BY TaskFits
  <2>2. runData' = Pushed(item.node, task)
    BY DEF Complete
  <2> HIDE DEF task
  <2> QED BY <2>1, <2>2, ItemFacts, PushedRuns DEF Typed
<1>2. There \in States
  <2>1. CASE item.node = destination
    BY <2>1, ItemFacts DEF Complete, There, States
  <2>2. CASE item.node # destination
    <3>1. PICK st \in Continued(Added(item.node, out)) : stack' = st.stack /\ waiting' = st.waiting
      BY <2>2 DEF Complete
    <3>2. Runs(item.node) \in Nat
      BY RunsAre, RunsFacts DEF Typed
    <3>3. Added(item.node, out) \in States
      BY <3>2, ItemFacts, AddedTyped DEF Typed
    <3>4. st \in States
      BY <3>1, <3>3, ContinuedTyped
    <3> QED BY <3>1, <3>4 DEF There, States
  <2> QED BY <2>1, <2>2
<1>3. last' \in Nodes /\ status' = "running" /\ pauses' = pauses
  BY ItemFacts DEF Complete
<1> QED BY <1>1, <1>2, <1>3, StillTyped DEF Typed, Complete, States0

(* An execution that stops at a run, which it has recorded, stands before it. *)
LEMMA StopsAt ==
  ASSUME Typed, stack # <<>>, NEW result \in {"success", "error"},
         runData' = Pushed(item.node, Task(item.data, {}, result)),
         last' = item.node, UNCHANGED <<workflow, destination, stack, waiting, pauses>>,
         \/ status' \in {"error", "canceled"} /\ result = "error"
         \/ status' = "waiting"
  PROVE  Typed' /\ Standing'
<1> DEFINE n == item.node
           task == Task(item.data, {}, result)
<1>1. task \in TasksOf(n) /\ n \in Nodes
  BY ItemFacts, TaskFits
<1>2. task.source = item.data /\ task.result = result
  BY DEF Task
<1>3. IsRunData(runData)
  BY DEF Typed
<1> HIDE DEF task, n
<1>4. runData' = Pushed(n, task)
  BY DEF n, task
<1>5. /\ IsRunData(runData') /\ RunsIn(runData', n) = RunsIn(runData, n) + 1
      /\ runData'[n][RunsIn(runData, n) + 1] = task /\ RunsIn(runData, n) \in Nat
  BY <1>1, <1>3, <1>4, PushedRuns, RunsFacts
<1>6. There \in States /\ pauses' \in 0..MaxPauses /\ last' \in Nodes
  BY <1>1 DEF Typed, Here, There, n
<1>7. Typed'
  BY <1>5, <1>6, StillTyped DEF Typed, States0
<1>8. item' = item
  BY DEF item
<1>9. RunsIn(runData, last)' = RunsIn(runData', n)
  BY DEF RunsIn, n
<1>10. Standing'
  BY <1>2, <1>5, <1>8, <1>9 DEF Standing, n
<1> QED BY <1>7, <1>10

(* What is resumed has the same data. *)
SameStack ==
  /\ stack' \in Seq(Items) /\ Len(stack') = Len(stack)
  /\ \A i \in 1..Len(stack) : stack'[i].node = stack[i].node /\ stack'[i].data = stack[i].data

LEMMA ResumedStack ==
  ASSUME Typed, stack # <<>>, Resume
  PROVE  SameStack
<1> DEFINE new(i) == IF stack[i].node = item.node THEN [stack[i] EXCEPT !.disabled = TRUE] ELSE stack[i]
<1>1. stack \in Seq(Items)
  BY ItemFacts
<1>2. ASSUME NEW it \in Items
      PROVE  /\ [it EXCEPT !.disabled = TRUE] \in Items
             /\ [it EXCEPT !.disabled = TRUE].node = it.node
             /\ [it EXCEPT !.disabled = TRUE].data = it.data
  BY DEF Items
<1>3. ASSUME NEW i \in 1..Len(stack)
      PROVE  new(i) \in Items /\ new(i).node = stack[i].node /\ new(i).data = stack[i].data
  BY <1>1, <1>2
<1>4. stack' = [i \in 1..Len(stack) |-> new(i)]
  BY <1>1 DEF Resume
<1>5. Len(stack) \in Nat
  BY <1>1
<1> HIDE DEF new
<1>6. stack' \in Seq(Items) /\ Len(stack') = Len(stack)
  BY <1>3, <1>4, <1>5
<1> QED BY <1>3, <1>4, <1>6 DEF SameStack

LEMMA ResumeTyped ==
  ASSUME EngineInv, Resume
  PROVE  Typed'
<1>1. Typed /\ Standing
  BY DEF EngineInv, Resume
<1>2. IsRunData(runData')
  BY <1>1, PoppedRuns DEF Resume, Typed, Standing
<1>3. There \in States
  BY <1>1, ItemFacts, ResumedStack DEF Resume, Standing, There, States, SameStack
<1>4. pauses' \in 0..MaxPauses
  BY <1>1, BoundsAssumption DEF Typed, Resume, GoOn
<1> QED BY <1>1, <1>2, <1>3, <1>4, StillTyped DEF Typed, Resume, GoOn, States0

LEMMA RetryTyped ==
  ASSUME Typed, Retry
  PROVE  Typed'
<1>1. IsRunData(runData')
  <2>1. CASE UNCHANGED runData
    BY <2>1 DEF Typed
  <2>2. CASE runData' = Popped(last) /\ Runs(last) > 0
    BY <2>2, RunsAre, PoppedRuns DEF Typed
  <2> QED BY <2>1, <2>2 DEF Retry
<1>2. There \in States
  BY DEF Typed, Here, There, Retry
<1>3. pauses' \in 0..MaxPauses
  BY BoundsAssumption DEF Typed, Retry, GoOn
<1> QED BY <1>1, <1>2, <1>3, StillTyped DEF Typed, Retry, GoOn, States0

LEMMA EngineInit == Init => EngineInv
<1> SUFFICES ASSUME Init PROVE EngineInv
  OBVIOUS
<1> DEFINE data == [k \in {0} |-> Token(NoNode, 0, 0)]
           t == workflow.trigger
<1>1. Fixed
  BY DEF Init, Fixed
<1>2. Token(NoNode, 0, 0) \in TokenSet
  BY DEF Token, TokenSet
<1>3. t \in Nodes /\ Inputs(workflow, t) = {0}
  BY <1>1, WorkflowsAssumption, InputsOf DEF Fixed
<1>4. data \in Given(t)
  <2>1. data[0] # NoItems /\ data \in [{0} -> TokenSet \cup {NoItems}]
    BY <1>2, NoDataAssumption
  <2> HIDE DEF data
  <2> QED BY <1>3, <2>1 DEF Given
<1> HIDE DEF data, t
<1>5. stack \in Seq(Items)
  <2>1. stack = <<Item(t, data)>>
    BY DEF Init, data, t
  <2> QED BY <1>3, <1>4, <2>1, ItemFits
<1>6. waiting \in Waitings
  <2>1. waiting = [n \in Nodes |-> <<>>]
    BY DEF Init
  <2> QED BY <2>1, NoSets DEF Waitings, AllSets
<1>7. IsRunData(runData)
  BY DEF Init, IsRunData
<1>8. Typed
  BY <1>1, <1>5, <1>6, <1>7, BoundsAssumption DEF Init, Typed, Here, States
<1> QED BY <1>8 DEF Init, EngineInv

(* The first node is dropped from the stack. *)
LEMMA DropTyped ==
  ASSUME Typed, stack # <<>>, stack' = Tail(stack), UNCHANGED <<workflow, destination, waiting, pauses>>,
         IsRunData(runData'), last' \in Nodes \cup {NoNode}, status' \in States0
  PROVE  Typed'
<1>1. There \in States
  BY ItemFacts DEF There, States
<1> QED BY <1>1, StillTyped DEF Typed

(* Nothing but where the execution stands changes. *)
LEMMA TurnTyped ==
  ASSUME Typed, UNCHANGED <<workflow, destination, runData, last, stack, waiting, pauses>>,
         status' \in States0
  PROVE  Typed'
<1>1. There \in States
  BY DEF There, Typed, Here
<1> QED BY <1>1, StillTyped DEF Typed

LEMMA EngineNext == EngineInv /\ [Next]_vars => EngineInv'
<1> SUFFICES ASSUME EngineInv, [Next]_vars PROVE EngineInv'
  OBVIOUS
<1>0. Typed
  BY DEF EngineInv
<1>1. CASE SkipNode \/ ReturnNothing
  <2>1. Typed'
    BY <1>0, <1>1, ItemFacts, DropTyped DEF SkipNode, ReturnNothing, Running, Typed, States0
  <2>2. status' = "running"
    BY <1>1 DEF SkipNode, ReturnNothing, Running
  <2> QED BY <2>1, <2>2 DEF EngineInv
<1>2. CASE Succeed \/ PassThrough
  <2>1. PICK out \in SUBSET Outputs(workflow, item.node), result \in {"success", "error"} :
          Complete(out, result)
    BY <1>2 DEF Succeed, PassThrough, PassedThrough, FirstOutput
  <2>2. Typed' /\ status' = "running"
    BY <1>0, <1>2, <2>1, CompleteTyped DEF Succeed, PassThrough, Running, Complete
  <2> QED BY <2>2 DEF EngineInv
<1>3. CASE Fail \/ PutToWait
  <2>1. Typed' /\ Standing'
    BY <1>0, <1>3, StopsAt DEF Fail, PutToWait, Running
  <2> QED BY <2>1 DEF EngineInv
<1>5. CASE Finish \/ Cancel
  <2>1. Typed'
    BY <1>0, <1>5, TurnTyped DEF Finish, Cancel, States0
  <2> QED BY <1>5, <2>1 DEF EngineInv, Finish, Cancel
<1>6. CASE Resume
  BY <1>6, ResumeTyped DEF EngineInv, Resume, GoOn
<1>7. CASE Retry
  BY <1>0, <1>7, RetryTyped DEF EngineInv, Retry, GoOn
<1>8. CASE UNCHANGED vars
  <2>1. Typed'
    BY <1>0, <1>8, TurnTyped DEF vars, progress, Typed, States0
  <2>2. (status \in {"waiting", "error"} => Standing)' <=> (status \in {"waiting", "error"} => Standing)
    BY <1>8 DEF vars, progress, Standing, RunsIn, item
  <2> QED BY <2>1, <2>2 DEF EngineInv
<1> QED BY <1>1, <1>2, <1>3, <1>5, <1>6, <1>7, <1>8 DEF Next, Step

LEMMA EngineHolds == Safety => []EngineInv
BY EngineInit, EngineNext, PTL DEF Safety

(* Whatever nodes return, and however often an execution waits, fails and    *)
(* goes on: what lies on the stack and waits is data for every input of its  *)
(* node, and all of it came from a run of a node.                            *)
THEOREM EngineTypes == Safety => []TypeOK
<1>1. EngineInv => TypeOK
  <2> SUFFICES ASSUME Typed PROVE TypeOK
    BY DEF EngineInv
  <2>1. \A n \in Nodes :
          /\ \A d \in Datas(n) : Tokens(d) \subseteq TokenSet
          /\ \A d \in Given(n) : /\ DOMAIN d = Inputs(workflow, n)
                                 /\ \A k \in DOMAIN d : d[k] # NoData
                                 /\ Tokens(d) \subseteq TokenSet
    BY NoDataAssumption DEF Datas, Given, Tokens
  <2>2. \A n \in DOMAIN runData : \A i \in DOMAIN runData[n] :
          /\ runData[n][i].result \in {"success", "error"}
          /\ runData[n][i].out \subseteq Outputs(workflow, n)
    <3>1. ASSUME NEW n \in DOMAIN runData, NEW i \in DOMAIN runData[n]
          PROVE  runData[n][i] \in TasksOf(n)
      BY DEF Typed, IsRunData
    <3> QED BY <3>1 DEF TasksOf
  <2>3. \A i \in DOMAIN stack : /\ stack[i].node \in Nodes
                                /\ DOMAIN stack[i].data = Inputs(workflow, stack[i].node)
                                /\ \A k \in DOMAIN stack[i].data : stack[i].data[k] # NoData
                                /\ Tokens(stack[i].data) \subseteq TokenSet
    <3>1. \A i \in DOMAIN stack : stack[i] \in Items
      BY DEF Typed, Here, States
    <3> QED BY <2>1, <3>1 DEF Items
  <2>4. \A n \in Nodes : \A i \in DOMAIN waiting[n] : Tokens(waiting[n][i]) \subseteq TokenSet
    <3>1. \A n \in Nodes : waiting[n] \in Sets(n)
      BY DEF Typed, Here, States, Waitings
    <3> QED BY <2>1, <3>1, SetsOf
  <2> QED BY <2>2, <2>3, <2>4 DEF Typed, TypeOK, IsRunData
<1> QED BY <1>1, EngineHolds, PTL

-----------------------------------------------------------------------------
(* Nodes that wait. *)
LEMMA LeadsOn ==
  ASSUME NEW wf, NEW p, NEW m, NEW n, Leads(wf, p, m), Leads(wf, m, n)
  PROVE  Leads(wf, p, n)
<1> SUFFICES ASSUME NEW S \in SUBSET Nodes, \A c \in wf.connections : c.from \in S \cup {p} => c.to \in S
             PROVE  n \in S
  BY DEF Leads
<1>1. m \in S
  BY DEF Leads
<1>2. \A c \in wf.connections : c.from \in S \cup {m} => c.to \in S
  BY <1>1
<1> QED BY <1>2 DEF Leads

(* Without loops, of the nodes that wait before a node one waits for nobody. *)
LEMMA FirstToWait ==
  ASSUME \A n \in Nodes : ~Leads(workflow, n, n),
         NEW W \in SUBSET Nodes, NEW n \in W
  PROVE  \E m \in W \cap (ParentNodes(workflow, n) \cup {n}) : ParentNodes(workflow, m) \cap W = {}
<1> DEFINE V == W \cap (ParentNodes(workflow, n) \cup {n})
           F == {ParentNodes(workflow, m) : m \in V}
<1>1. PICK T \in F : \A U \in F : U \subseteq T => U = T
  <2>1. \A T \in F : T \subseteq Nodes
    BY DEF ParentNodes
  <2>2. F # {}
    OBVIOUS
  <2>3. IsFiniteSet(Nodes)
    BY NodesAssumption
  <2> HIDE DEF F
  <2> QED BY <2>1, <2>2, <2>3, SmallestSubset
<1>2. PICK m \in V : T = ParentNodes(workflow, m)
  BY <1>1
<1>3. ASSUME NEW p \in ParentNodes(workflow, m) \cap W
      PROVE  FALSE
  <2>1. p \in Nodes /\ m \in Nodes /\ Leads(workflow, p, m)
    BY <1>2, <1>3 DEF ParentNodes
  <2>2. p \in V
    <3>1. CASE m = n
      BY <1>3, <3>1
    <3>2. CASE m # n
      <4>1. Leads(workflow, m, n)
        BY <1>2, <3>2 DEF ParentNodes
      <4>2. Leads(workflow, p, n) /\ p # n
        BY <2>1, <4>1, LeadsOn
      <4> QED BY <1>3, <2>1, <4>2 DEF ParentNodes
    <3> QED BY <3>1, <3>2
  <2>3. ParentNodes(workflow, p) \subseteq ParentNodes(workflow, m)
    <3> SUFFICES ASSUME NEW q \in ParentNodes(workflow, p) PROVE q \in ParentNodes(workflow, m)
      OBVIOUS
    <3>1. q \in Nodes /\ Leads(workflow, q, p)
      BY DEF ParentNodes
    <3>2. Leads(workflow, q, m) /\ q # m
      BY <2>1, <3>1, LeadsOn
    <3> QED BY <3>1, <3>2 DEF ParentNodes
  <2>4. ParentNodes(workflow, p) = ParentNodes(workflow, m)
    <3>1. ParentNodes(workflow, p) \in F
      BY <2>2
    <3> HIDE DEF F, V
    <3> QED BY <1>1, <1>2, <2>3, <3>1
  <2>5. p \notin ParentNodes(workflow, p)
    BY DEF ParentNodes
  <2> QED BY <1>3, <2>4, <2>5
<1> QED BY <1>2, <1>3

(* Whoever is dropped had received something. *)
LEMMA SomethingReceived ==
  ASSUME Typed, stack # <<>>
  PROVE  Received # {}
<1>1. PICK k \in DOMAIN item.data : item.data[k] # NoItems
  BY ItemFacts DEF Given
<1> QED BY <1>1 DEF Received

LEMMA NobodyContinued ==
  ASSUME NEW st, NEW new \in Continued(st), new.stack = <<>>
  PROVE  new = st /\ \A n \in Nodes : ~CanRunPartly(st, n)
<1>1. CASE st.stack # <<>> \/ \A n \in Nodes : ~CanRunPartly(st, n)
  BY <1>1 DEF Continued
<1>2. CASE ~(st.stack # <<>> \/ \A n \in Nodes : ~CanRunPartly(st, n))
  <2>1. PICK n \in Nodes : new = [stack |-> <<Item(n, Filled(st.waiting[n][FirstSet(st, n)]))>>,
                                  waiting |-> [st.waiting EXCEPT ![n] = Restrict(@, DOMAIN @ \ {FirstSet(st, n)})]]
    BY <1>2 DEF Continued
  <2>2. \A x : <<x>> # <<>>
    OBVIOUS
  <2> QED BY <2>1, <2>2
<1> QED BY <1>1, <1>2

Ended == status = "success" => stack = <<>>

LEMMA ReadyNext == EngineInv /\ Ended /\ NoneReady /\ [Next]_vars => Ended' /\ NoneReady'
<1> SUFFICES ASSUME EngineInv, Ended, NoneReady, [Next]_vars PROVE Ended' /\ NoneReady'
  OBVIOUS
<1>0. Typed
  BY DEF EngineInv
<1>1. CASE SkipNode \/ ReturnNothing
  <2>1. skipped' # {} /\ status' # "success"
    BY <1>0, <1>1, SomethingReceived DEF SkipNode, ReturnNothing, Running
  <2> QED BY <2>1 DEF Ended, NoneReady
<1>2. CASE Succeed \/ PassThrough
  <2>1. PICK out \in SUBSET Outputs(workflow, item.node), result \in {"success", "error"} :
          Complete(out, result)
    BY <1>2 DEF Succeed, PassThrough, PassedThrough, FirstOutput
  <2>2. status' = "running" /\ UNCHANGED <<workflow, destination>>
    BY <1>2, <2>1 DEF Succeed, PassThrough, Running, Complete
  <2>3. CASE item.node = destination
    <3>1. destination' # NoNode
      BY <1>0, <1>2, <2>2, <2>3, ItemFacts, NodesAssumption DEF Succeed, PassThrough, Running
    <3> QED BY <2>2, <3>1 DEF Ended, NoneReady
  <2>4. CASE item.node # destination
    <3>1. PICK st \in Continued(Added(item.node, out)) : stack' = st.stack /\ waiting' = st.waiting
      BY <2>1, <2>4 DEF Complete
    <3>2. Added(item.node, out) \in States
      <4>1. Runs(item.node) \in Nat
        BY <1>0, RunsAre, RunsFacts DEF Typed
      <4>2. stack # <<>>
        BY <1>2 DEF Succeed, PassThrough, Running
      <4> QED BY <1>0, <4>1, <4>2, ItemFacts, AddedTyped DEF Typed
    <3>3. There = st
      <4>1. st \in States
        BY <3>1, <3>2, ContinuedTyped
      <4> QED BY <3>1, <4>1 DEF There, States
    <3>4. stack' = <<>> => \A n \in Nodes : ~CanRunPartly(There, n)
      <4>1. st \in Continued(Added(item.node, out)) /\ st.stack = stack'
        BY <3>1
      <4>2. st.stack = <<>> => st = Added(item.node, out) /\ \A n \in Nodes : ~CanRunPartly(Added(item.node, out), n)
        BY <4>1, NobodyContinued, Zenon
      <4> QED BY <3>3, <4>1, <4>2
    <3>5. \A n \in Nodes : CanRunPartly(Here, n)' <=> CanRunPartly(There, n)
      BY <2>2 DEF CanRunPartly, Here, There
    <3> QED BY <2>2, <3>4, <3>5 DEF Ended, NoneReady
  <2> QED BY <2>3, <2>4
<1>3. CASE Fail \/ PutToWait \/ Cancel
  <2>1. status' \notin {"running", "success"}
    BY <1>3 DEF Fail, PutToWait, Cancel
  <2> QED BY <2>1 DEF Ended, NoneReady
<1>4. CASE Finish
  BY <1>4 DEF Finish, Ended, NoneReady, CanRunPartly, Here
<1>5. CASE Resume
  <2>1. stack' # <<>> /\ status' # "success"
    BY <1>0, <1>5, ResumedStack, ItemFacts DEF EngineInv, Standing, Resume, GoOn, SameStack
  <2> QED BY <2>1 DEF Ended, NoneReady
<1>6. CASE Retry
  <2>1. stack' # <<>> /\ status' # "success"
    BY <1>6 DEF Retry, GoOn
  <2> QED BY <2>1 DEF Ended, NoneReady
<1>7. CASE UNCHANGED vars
  BY <1>7 DEF vars, progress, Ended, NoneReady, CanRunPartly, Here
<1> QED BY <1>1, <1>2, <1>3, <1>4, <1>5, <1>6, <1>7 DEF Next, Step

(* A workflow without loops of which every node returned something ends with *)
(* nobody waiting but for a required input, its own or that of one of its    *)
(* parents: whoever could run with the data that it has has been run.        *)
THEOREM WaitersLackInputs == Safety => []NobodyLeftWaiting
<1>1. Init => Ended /\ NoneReady
  BY DEF Init, Ended, NoneReady
<1>2. EngineInv /\ Ended /\ NoneReady => NobodyLeftWaiting
  <2> DEFINE W == WaitingNodes([waiting |-> waiting])
  <2> SUFFICES ASSUME Ended, NoneReady, status = "success", skipped = {}, destination = NoNode,
                      \A n \in Nodes : ~Leads(workflow, n, n), NEW n \in W
               PROVE  \E m \in W \cap (ParentNodes(workflow, n) \cup {n}) : LacksRequired(m)
    BY DEF NobodyLeftWaiting
  <2>1. W \in SUBSET Nodes
    BY DEF WaitingNodes
  <2>2. PICK m \in W \cap (ParentNodes(workflow, n) \cup {n}) : ParentNodes(workflow, m) \cap W = {}
    <3> HIDE DEF W
    <3> QED BY <2>1, FirstToWait
  <2>3. ~CanRunPartly(Here, m)
    BY <2>1, <2>2 DEF Ended, NoneReady
  <2>4. WaitingNodes(Here) = W /\ FirstSet(Here, m) = FirstSet([waiting |-> waiting], m) /\ Here.waiting = waiting
    BY DEF WaitingNodes, FirstSet, Here
  <2>5. LacksRequired(m)
    <3> HIDE DEF W
    <3> QED BY <2>2, <2>3, <2>4 DEF CanRunPartly, LacksRequired
  <2> QED BY <2>2, <2>5
<1> QED BY <1>1, <1>2, EngineHolds, ReadyNext, PTL DEF Safety

-----------------------------------------------------------------------------
(* Where the tokens are. *)
LEMMA KeptIsNat ==
  ASSUME Typed, NEW n
  PROVE  /\ Kept(n) \in Nat /\ Kept(n) <= RunsIn(runData, n)
         /\ Standing /\ n = last => Kept(n) = RunsIn(runData, n) - 1
         /\ ~(Standing /\ n = last) => Kept(n) = RunsIn(runData, n)
<1>1. RunsIn(runData, n) \in Nat
  BY RunsFacts DEF Typed
<1>2. Standing /\ n = last => RunsIn(runData, n) > 0
  BY DEF Standing
<1> QED BY <1>1, <1>2 DEF Kept

(* What the head of the stack holds. *)
OnTop(s) == item.node = s.to /\ Holds(s, item.data)

LEMMA TopOfStack ==
  ASSUME Typed, stack # <<>>, NEW s
  PROVE  /\ InStack(s, Here) = {i + 1 : i \in InStack(s, Base)} \cup {i \in {1} : OnTop(s)}
         /\ InStack(s, Base) \subseteq Nat \ {0}
         /\ InWaiting(s, Base) = InWaiting(s, Here)
<1>1. Base \in States /\ item \in Items
  BY ItemFacts
<1>2. Here.stack = <<item>> \o Base.stack
  <2>1. stack \in Seq(Items)
    BY ItemFacts
  <2>2. stack = <<Head(stack)>> \o Tail(stack)
    BY <2>1
  <2> QED BY <2>2 DEF Here, Base, item
<1>3. InStack(s, Here) = {i + 1 : i \in InStack(s, Base)} \cup {i \in {1} : item.node = s.to /\ Holds(s, item.data)}
  BY <1>1, <1>2, PushedHolds
<1>4. InStack(s, Base) \subseteq Nat \ {0}
  BY <1>1 DEF InStack, States
<1> QED BY <1>3, <1>4 DEF OnTop, InWaiting, Base, Here

LEMMA TopOnce ==
  ASSUME Typed, stack # <<>>, NEW s, Once(s, Here)
  PROVE  /\ Once(s, Base)
         /\ Held(s, Here) <=> Held(s, Base) \/ OnTop(s)
         /\ OnTop(s) => ~Held(s, Base)
<1>0. InStack(s, Base) \subseteq Nat \ {0}
  BY TopOfStack
<1>1. \A i, j \in InStack(s, Base) : i + 1 = j + 1 => i = j
  BY <1>0
<1>2. \A i \in InStack(s, Base) : i + 1 # 1
  BY <1>0
<1> DEFINE A == InStack(s, Here)
           B == InStack(s, Base)
<1>3. A = {i + 1 : i \in B} \cup {i \in {1} : OnTop(s)} /\ InWaiting(s, Base) = InWaiting(s, Here)
  BY TopOfStack
<1>4. B # {} => A # {}
  BY <1>3
<1> HIDE DEF A, B
<1>5. \A i, j \in A : i = j
  BY DEF Once, A
<1>6. \A i, j \in B : i = j
  BY <1>1, <1>3, <1>5 DEF B
<1>7. OnTop(s) => 1 \in A /\ B = {}
  BY <1>2, <1>3, <1>5 DEF B
<1>8. A = {} <=> B = {} /\ ~OnTop(s)
  BY <1>3
<1> QED BY <1>3, <1>6, <1>7, <1>8 DEF Once, Held, A, B

LEMMA ReceivedIs ==
  ASSUME Typed, stack # <<>>, NEW s \in Signals
  PROVE  s \in Received <=> OnTop(s)
<1>1. s = [to |-> s.to, input |-> s.input, token |-> s.token] /\ s.token # NoItems
  BY NoDataAssumption DEF Signals
<1> QED BY <1>1 DEF Received, OnTop, Holds

(* What Placed says of a signal, and what of it a step has to keep. *)
InPlace(s) == Alone(s) /\ (Somewhere(s) => Known(s))

(* The runs that count stay as they are. *)
RunsStay == \A n \in Nodes : Kept(n)' = Kept(n) /\ SameRuns(runData', runData, n, Kept(n))

LEMMA StaysInRuns ==
  ASSUME RunsStay, NEW s \in Signals
  PROVE  InRuns(s)' = InRuns(s)
<1>1. s.to \in Nodes
  BY DEF Signals
<1> QED BY <1>1 DEF RunsStay, InRuns, SameRuns

LEMMA StaysKnown ==
  ASSUME \A n \in Nodes : Kept(n)' \in Nat /\ Kept(n) \in Nat /\ Kept(n)' >= Kept(n),
         NEW s \in Signals, Known(s)
  PROVE  Known(s)'
<1>1. s.token.from \in Nodes \cup {NoNode} /\ s.token.run \in Nat
  BY DEF Signals, TokenSet
<1> QED BY <1>1 DEF Known

(* Steps that leave every token where it is. *)
LEMMA StaysInPlace ==
  ASSUME Typed, RunsStay, NEW s \in Signals, InPlace(s), InStack(s, There) = InStack(s, Here),
         UNCHANGED <<waiting, skipped>>
  PROVE  InPlace(s)'
<1>1. InRuns(s)' = InRuns(s)
  BY StaysInRuns
<1>2. InStack(s, Here)' = InStack(s, Here) /\ InWaiting(s, Here)' = InWaiting(s, Here)
  <2>1. InStack(s, Here)' = InStack(s, There)
    BY DEF InStack, Here, There
  <2>2. InWaiting(s, Here)' = InWaiting(s, Here)
    BY DEF InWaiting, Here
  <2> QED BY <2>1, <2>2
<1>3. Once(s, Here)' <=> Once(s, Here)
  BY <1>2 DEF Once
<1>4. Held(s, Here)' <=> Held(s, Here)
  BY <1>2 DEF Held
<1>5. Known(s) => Known(s)'
  BY KeptIsNat, StaysKnown DEF RunsStay
<1> QED BY <1>1, <1>3, <1>4, <1>5 DEF InPlace, Alone, Somewhere

(* A run that was recorded for what lies on the stack, and is not to be      *)
(* repeated, would have received its tokens twice.                           *)
LEMMA NotRecordedYet ==
  ASSUME Typed, \A s \in Signals : InPlace(s), ~Standing, stack # <<>>
  PROVE  ~(/\ last = item.node /\ RunsIn(runData, last) > 0
           /\ runData[last][RunsIn(runData, last)].source = item.data)
<1> SUFFICES ASSUME last = item.node, RunsIn(runData, last) > 0,
                    runData[last][RunsIn(runData, last)].source = item.data
             PROVE  FALSE
  OBVIOUS
<1>1. PICK k \in Inputs(workflow, item.node) : item.data[k] \in TokenSet /\ k \in DOMAIN item.data
  BY ItemFacts DEF Given
<1>2. k \in Nat /\ item.node \in Nodes
  BY <1>1, ItemFacts, InputsOf DEF Typed
<1> DEFINE s == [to |-> item.node, input |-> k, token |-> item.data[k]]
<1>3. s \in Signals /\ s.to = item.node /\ s.input = k /\ s.token = item.data[k]
  BY <1>1, <1>2 DEF Signals
<1> HIDE DEF s
<1>4. OnTop(s)
  BY <1>1, <1>3 DEF OnTop, Holds
<1>5. Alone(s)
  BY <1>3 DEF InPlace
<1>6. Held(s, Here)
  BY <1>4, <1>5, TopOnce DEF Alone
<1>7. RunsIn(runData, last) \in InRuns(s)
  <2>1. Kept(s.to) = RunsIn(runData, s.to) /\ RunsIn(runData, last) \in Nat
    BY RunsFacts DEF Kept, Typed
  <2>2. Holds(s, runData[last][RunsIn(runData, last)].source)
    BY <1>1, <1>3 DEF Holds
  <2> QED BY <1>3, <2>1, <2>2 DEF InRuns
<1> QED BY <1>5, <1>6, <1>7 DEF Alone

(* The head of the stack is dropped without a run. *)
LEMMA DropPlaced ==
  ASSUME Typed, ~Standing, ~Standing', stack # <<>>, NEW s \in Signals, InPlace(s),
         stack' = Tail(stack), UNCHANGED waiting, skipped' = skipped \cup Received,
         \A n \in Nodes : /\ RunsIn(runData', n) = RunsIn(runData, n)
                          /\ SameRuns(runData', runData, n, RunsIn(runData, n))
  PROVE  InPlace(s)'
<1>1. RunsStay
  <2>1. \A n : RunsIn(runData, n)' = RunsIn(runData', n)
    BY DEF RunsIn
  <2> QED BY <2>1 DEF RunsStay, Kept
<1>2. InRuns(s)' = InRuns(s)
  BY <1>1, StaysInRuns
<1>3. Once(s, Here) /\ Once(s, Base)
  BY TopOnce DEF InPlace, Alone
<1>4. (Held(s, Here) <=> Held(s, Base) \/ OnTop(s)) /\ (OnTop(s) => ~Held(s, Base))
  BY <1>3, TopOnce
<1>5. Once(s, Here)' /\ (Held(s, Here)' <=> Held(s, Base))
  BY <1>3 DEF Once, Held, InStack, InWaiting, Here, Base
<1>6. (s \in skipped)' <=> s \in skipped \/ OnTop(s)
  BY ReceivedIs
<1>7. Known(s) => Known(s)'
  BY <1>1, KeptIsNat, StaysKnown DEF RunsStay
<1> QED BY <1>2, <1>3, <1>4, <1>5, <1>6, <1>7 DEF InPlace, Alone, Somewhere

(* A run is recorded for the head of the stack: it counts, and has received  *)
(* what the head held.                                                       *)
LEMMA RunInRuns ==
  ASSUME Typed, ~Standing, ~Standing', stack # <<>>, NEW task \in TasksOf(item.node),
         task.source = item.data, runData' = Pushed(item.node, task), NEW s \in Signals
  PROVE  /\ ~OnTop(s) => InRuns(s)' = InRuns(s)
         /\ OnTop(s) => InRuns(s)' = InRuns(s) \cup {RunsIn(runData, item.node) + 1}
<1>n. PICK n \in Nodes : n = item.node
  BY ItemFacts
<1>r. PICK R \in Nat : R = RunsIn(runData, n)
  BY RunsFacts DEF Typed
<1>0. IsRunData(runData)
  BY DEF Typed
<1>1. /\ IsRunData(runData')
      /\ RunsIn(runData', n) = R + 1 /\ runData'[n][R + 1] = task
      /\ SameRuns(runData', runData, n, R)
      /\ \A m \in Nodes \ {n} : /\ RunsIn(runData', m) = RunsIn(runData, m)
                                /\ SameRuns(runData', runData, m, RunsIn(runData, m))
  BY <1>n, <1>r, <1>0, PushedRuns
<1>2. \A m : Kept(m)' = RunsIn(runData', m) /\ Kept(m) = RunsIn(runData, m)
  BY DEF Kept, RunsIn
<1>3. /\ ~OnTop(s) => InRuns(s)' = InRuns(s)
      /\ OnTop(s) => InRuns(s)' = InRuns(s) \cup {R + 1}
  <2>1. CASE s.to # n
    <3>1. s.to \in Nodes \ {n} /\ ~OnTop(s)
      BY <1>n, <2>1 DEF Signals, OnTop
    <3>2. Kept(s.to)' = Kept(s.to) /\ SameRuns(runData', runData, s.to, Kept(s.to))
      BY <1>1, <1>2, <3>1
    <3> QED BY <3>1, <3>2 DEF InRuns, SameRuns
  <2>2. CASE s.to = n
    <3>1. Holds(s, runData'[n][R + 1].source) <=> OnTop(s)
      BY <1>n, <1>1, <2>2 DEF OnTop
    <3>2. Kept(n)' = R + 1 /\ Kept(n) = R
      BY <1>r, <1>1, <1>2
    <3>3. 1..R + 1 = (1..R) \cup {R + 1}
      BY <1>1
    <3>4. \A i \in 1..R : runData'[n][i] = runData[n][i]
      BY <1>1 DEF SameRuns
    <3> QED BY <2>2, <3>1, <3>2, <3>3, <3>4 DEF InRuns
  <2> QED BY <2>1, <2>2
<1> QED BY <1>n, <1>r, <1>3

(* Its signals arrive.                                                       *)
LEMMA RunPlaced ==
  ASSUME Typed, ~Standing, ~Standing', stack # <<>>, NEW task \in TasksOf(item.node),
         task.source = item.data, runData' = Pushed(item.node, task), UNCHANGED skipped,
         \A s \in Signals : InPlace(s),
         NEW New, \A s \in New : s.token.from = item.node /\ s.token.run = Runs(item.node),
         \A s \in Signals : Once(s, There) /\ (Held(s, There) => Held(s, Base) \/ s \in New),
         NEW s \in Signals
  PROVE  InPlace(s)'
<1>n. PICK n \in Nodes : n = item.node
  BY ItemFacts
<1>r. PICK R \in Nat : R = RunsIn(runData, n)
  BY RunsFacts DEF Typed
<1>0. IsRunData(runData)
  BY DEF Typed
<1>1. /\ IsRunData(runData')
      /\ RunsIn(runData', n) = R + 1 /\ runData'[n][R + 1] = task
      /\ SameRuns(runData', runData, n, R)
      /\ \A m \in Nodes \ {n} : /\ RunsIn(runData', m) = RunsIn(runData, m)
                                /\ SameRuns(runData', runData, m, RunsIn(runData, m))
  BY <1>n, <1>r, <1>0, PushedRuns
<1>2. \A m : Kept(m)' = RunsIn(runData', m) /\ Kept(m) = RunsIn(runData, m)
  BY DEF Kept, RunsIn
<1>3. /\ ~OnTop(s) => InRuns(s)' = InRuns(s)
      /\ OnTop(s) => InRuns(s)' = InRuns(s) \cup {R + 1}
  BY <1>n, <1>r, RunInRuns
<1>4. Alone(s) /\ (Somewhere(s) => Known(s))
  BY DEF InPlace
<1>5. Once(s, Base) /\ (Held(s, Here) <=> Held(s, Base) \/ OnTop(s)) /\ (OnTop(s) => ~Held(s, Base))
  BY <1>4, TopOnce DEF Alone
<1>6. s \in New => ~Somewhere(s) /\ Known(s)'
  <2> SUFFICES ASSUME s \in New PROVE ~Somewhere(s) /\ Known(s)'
    OBVIOUS
  <2>1. s.token.from = n /\ s.token.run = R
    BY <1>n, <1>r, RunsAre
  <2>2. n # NoNode
    BY NodesAssumption
  <2>3. Kept(n) = R /\ Kept(n)' = R + 1
    BY <1>r, <1>1, <1>2
  <2>4. ~Known(s)
    BY <2>1, <2>2, <2>3 DEF Known
  <2>5. Known(s)'
    BY <2>1, <2>3 DEF Known
  <2> QED BY <1>4, <2>4, <2>5
<1>7. Known(s) => Known(s)'
  <2>1. \A m \in Nodes : Kept(m)' \in Nat /\ Kept(m) \in Nat /\ Kept(m)' >= Kept(m)
    <3> SUFFICES ASSUME NEW m \in Nodes PROVE Kept(m)' \in Nat /\ Kept(m) \in Nat /\ Kept(m)' >= Kept(m)
      OBVIOUS
    <3>1. Kept(m) \in Nat
      BY KeptIsNat
    <3>2. CASE m = n
      BY <1>r, <1>1, <1>2, <3>2
    <3>3. CASE m # n
      BY <1>1, <1>2, <3>1, <3>3
    <3> QED BY <3>2, <3>3
  <2> QED BY <2>1, StaysKnown
<1>8. Once(s, Here)' /\ (Held(s, Here)' => Held(s, Base) \/ s \in New)
  BY DEF Once, Held, InStack, InWaiting, Here, There
<1>9. \A i, j \in InRuns(s)' : i = j
  <2>1. OnTop(s) => InRuns(s) = {}
    BY <1>4, <1>5 DEF Alone
  <2> QED BY <1>3, <1>4, <2>1 DEF Alone
<1>10. InRuns(s)' # {} => InRuns(s) # {} \/ OnTop(s)
  BY <1>3
<1>11. OnTop(s) => Held(s, Here)
  BY <1>5
<1>12. Alone(s)'
  BY <1>4, <1>5, <1>6, <1>8, <1>9, <1>10, <1>11 DEF Alone, Somewhere
<1>13. Somewhere(s)' => Known(s)'
  BY <1>4, <1>5, <1>6, <1>7, <1>8, <1>10, <1>11 DEF Somewhere
<1> QED BY <1>12, <1>13 DEF InPlace

(* The nodes that a run adds. *)
LEMMA CompletePlaced ==
  ASSUME Typed, Typed', status = "running", stack # <<>>, NEW out \in SUBSET Outputs(workflow, item.node),
         NEW result \in {"success", "error"}, Complete(out, result),
         \A s \in Signals : InPlace(s)
  PROVE  \A s \in Signals : InPlace(s)'
<1>n. PICK n \in Nodes : n = item.node
  BY ItemFacts
<1> DEFINE task == Task(item.data, IF item.node = destination THEN {} ELSE out, result)
<1>1. task \in TasksOf(item.node) /\ task.source = item.data /\ runData' = Pushed(item.node, task)
  <2>1. task \in TasksOf(item.node)
    BY TaskFits
  <2> QED BY <2>1 DEF Complete, Task
<1> HIDE DEF task
<1>2. ~Standing /\ ~Standing' /\ UNCHANGED skipped
  BY DEF Standing, Complete
<1>3. Runs(n) \in Nat /\ Fixed /\ Base \in States
  BY RunsAre, RunsFacts, ItemFacts DEF Typed
<1>4. \A s \in Signals : Once(s, Here) /\ (Somewhere(s) => Known(s))
  BY DEF InPlace, Alone
<1>5. \A s \in Signals : Once(s, Base) /\ (Held(s, Base) => Held(s, Here))
  BY <1>4, TopOnce
<1>6. CASE item.node = destination
  <2>1. stack' = Tail(stack) /\ waiting' = waiting
    BY <1>6 DEF Complete
  <2>2. There = Base
    BY <2>1 DEF There, Base
  <2>3. PICK New : New = {}
    OBVIOUS
  <2>4. \A s \in Signals : Once(s, There) /\ (Held(s, There) => Held(s, Base) \/ s \in New)
    BY <1>5, <2>2
  <2>5. \A s \in New : s.token.from = item.node /\ s.token.run = Runs(item.node)
    BY <2>3
  <2> QED BY <1>1, <1>2, <2>4, <2>5, RunPlaced
<1>7. CASE item.node # destination
  <2> DEFINE C == NodesToAdd(n, out)
             New == {Signal(c, n) : c \in C}
  <2>1. PICK st \in Continued(Added(n, out)) : stack' = st.stack /\ waiting' = st.waiting
    BY <1>n, <1>7 DEF Complete
  <2>2. \A c \in C : Signal(c, n) \in Signals /\ Signal(c, n).token.from = n /\ Signal(c, n).token.run = Runs(n)
    <3> SUFFICES ASSUME NEW c \in C
                 PROVE  Signal(c, n) \in Signals /\ Signal(c, n).token.from = n /\ Signal(c, n).token.run = Runs(n)
      OBVIOUS
    <3>1. Signal(c, n) \in Signals /\ Signal(c, n).token = Token(n, c.output, Runs(n))
      BY <1>3, TokenOf DEF Signal
    <3>2. Token(n, c.output, Runs(n)).from = n /\ Token(n, c.output, Runs(n)).run = Runs(n)
      BY DEF Token
    <3> QED BY <3>1, <3>2
  <2>3. ASSUME NEW c \in C
        PROVE  ~Held(Signal(c, n), Base)
    <3>1. PICK s \in Signals : s = Signal(c, n)
      BY <2>2
    <3>2. s.token.from = n /\ s.token.run = Runs(n)
      BY <2>2, <3>1
    <3>3. Kept(n) = Runs(n)
      BY <1>2, RunsAre DEF Kept
    <3>4. ~Known(s)
      BY <1>3, <3>2, <3>3, NodesAssumption DEF Known
    <3>5. ~Held(s, Base)
      BY <1>4, <1>5, <3>4 DEF Somewhere
    <3> QED BY <3>1, <3>5
  <2> HIDE DEF C
  <2>4. Added(n, out) \in States
    BY <1>3, AddedTyped
  <2>5. Arrived(n, C, Added(n, out))
    BY <1>3, <1>5, <2>3, AddedOnce DEF C
  <2>6. There = st
    <3>1. st \in States
      BY <2>1, <2>4, ContinuedTyped
    <3> QED BY <2>1, <3>1 DEF There, States
  <2>7. ASSUME NEW s \in Signals
        PROVE  Once(s, There) /\ (Held(s, There) => Held(s, Base) \/ s \in New)
    <3> DEFINE added == Added(n, out)
    <3>1. Once(s, added) /\ (Held(s, added) => Held(s, Base) \/ s \in New)
      BY <2>5 DEF Arrived
    <3>2. added \in States /\ st \in Continued(added)
      BY <2>1, <2>4
    <3> HIDE DEF added, New
    <3>3. Once(s, st) /\ (Held(s, st) => Held(s, added))
      BY <3>1, <3>2, ContinuedOnce
    <3> QED BY <2>6, <3>1, <3>3
  <2>8. \A s \in New : s.token.from = item.node /\ s.token.run = Runs(item.node)
    BY <1>n, <2>2 DEF C
  <2> HIDE DEF New
  <2> QED BY <1>1, <1>2, <2>7, <2>8, RunPlaced
<1> QED BY <1>6, <1>7

(* Runs that are only to be repeated do not count, before and after. *)
LEMMA StopsRunsStay ==
  ASSUME Typed, ~Standing, Standing', stack # <<>>, NEW task \in TasksOf(item.node),
         runData' = Pushed(item.node, task), last' = item.node
  PROVE  RunsStay
<1>n. PICK n \in Nodes : n = item.node
  BY ItemFacts
<1>r. PICK R \in Nat : R = RunsIn(runData, n)
  BY RunsFacts DEF Typed
<1>1. /\ RunsIn(runData', n) = R + 1
      /\ SameRuns(runData', runData, n, R)
      /\ \A m \in Nodes \ {n} : /\ RunsIn(runData', m) = RunsIn(runData, m)
                                /\ SameRuns(runData', runData, m, RunsIn(runData, m))
  BY <1>n, <1>r, PushedRuns DEF Typed
<1>2. \A m : Kept(m) = RunsIn(runData, m)
  BY DEF Kept
<1>3. \A m : Kept(m)' = IF m = n THEN RunsIn(runData', m) - 1 ELSE RunsIn(runData', m)
  BY <1>n DEF Kept, RunsIn
<1>4. ASSUME NEW m \in Nodes
      PROVE  Kept(m)' = Kept(m) /\ SameRuns(runData', runData, m, Kept(m))
  <2>1. CASE m = n
    <3>1. Kept(n) = R /\ Kept(n)' = R
      BY <1>r, <1>1, <1>2, <1>3
    <3> QED BY <1>1, <2>1, <3>1
  <2>2. CASE m # n
    BY <1>1, <1>2, <1>3, <2>2
  <2> QED BY <2>1, <2>2
<1> QED BY <1>4 DEF RunsStay

LEMMA PopsRunsStay ==
  ASSUME Typed, Standing, ~Standing', runData' = Popped(last)
  PROVE  RunsStay
<1>n. PICK n : n = last
  OBVIOUS
<1>r. PICK R \in Nat : R = RunsIn(runData, n)
  BY RunsFacts DEF Typed
<1>0. R > 0
  BY <1>n, <1>r DEF Standing
<1>1. /\ RunsIn(runData', n) = R - 1
      /\ SameRuns(runData', runData, n, R - 1)
      /\ \A m \in Nodes \ {n} : /\ RunsIn(runData', m) = RunsIn(runData, m)
                                /\ SameRuns(runData', runData, m, RunsIn(runData, m))
  BY <1>n, <1>r, <1>0, PoppedRuns DEF Typed
<1>2. \A m : Kept(m) = IF m = n THEN RunsIn(runData, m) - 1 ELSE RunsIn(runData, m)
  BY <1>n DEF Kept
<1>3. \A m : Kept(m)' = RunsIn(runData', m)
  BY DEF Kept, RunsIn
<1>4. ASSUME NEW m \in Nodes
      PROVE  Kept(m)' = Kept(m) /\ SameRuns(runData', runData, m, Kept(m))
  <2>1. CASE m = n
    <3>1. Kept(n) = R - 1 /\ Kept(n)' = R - 1
      BY <1>r, <1>1, <1>2, <1>3
    <3> QED BY <1>1, <2>1, <3>1
  <2>2. CASE m # n
    BY <1>1, <1>2, <1>3, <2>2
  <2> QED BY <2>1, <2>2
<1> QED BY <1>4 DEF RunsStay

LEMMA UnchangedRunsStay ==
  ASSUME Standing <=> Standing', UNCHANGED <<runData, last>>
  PROVE  RunsStay
<1>1. \A m : Kept(m)' = Kept(m)
  BY DEF Kept, RunsIn
<1> QED BY <1>1 DEF RunsStay, SameRuns

(* Steps that leave everything where it is. *)
Quiet ==
  /\ RunsStay /\ UNCHANGED <<waiting, skipped>>
  /\ \A s \in Signals : InStack(s, There) = InStack(s, Here)
QuietStep == Fail \/ PutToWait \/ Finish \/ Cancel \/ Resume \/ Retry \/ UNCHANGED vars

LEMMA QuietSteps ==
  ASSUME EngineInv, ~retracted, ~retracted', \A s \in Signals : InPlace(s), QuietStep
  PROVE  Quiet
<1>0. Typed
  BY DEF EngineInv
<1>1. \A s \in Signals : InPlace(s)
  OBVIOUS
<1>4. CASE Fail \/ PutToWait
  <2>1. PICK result \in {"success", "error"} : runData' = Pushed(item.node, Task(item.data, {}, result))
    BY <1>4 DEF Fail, PutToWait
  <2>2. /\ ~Standing /\ stack # <<>> /\ last' = item.node
        /\ UNCHANGED <<workflow, destination, stack, waiting, pauses, skipped>>
    BY <1>4 DEF Fail, PutToWait, Running, Standing
  <2>3. Standing'
    BY <1>0, <1>4, StopsAt DEF Fail, PutToWait, Running
  <2>4. Task(item.data, {}, result) \in TasksOf(item.node)
    BY <1>0, <2>2, TaskFits
  <2>5. RunsStay
    BY <1>0, <2>1, <2>2, <2>3, <2>4, StopsRunsStay
  <2>6. There = Here
    BY <2>2 DEF There, Here
  <2> QED BY <2>2, <2>5, <2>6 DEF Quiet
<1>5. CASE Finish \/ Cancel
  <2>1. ~Standing /\ UNCHANGED <<runData, last, stack, waiting, skipped>>
    BY <1>5 DEF Finish, Cancel, Running, Standing
  <2>2. ~Standing'
    <3>1. CASE Finish
      BY <3>1 DEF Finish, Standing
    <3>2. CASE Cancel
      <4>1. stack # <<>>
        BY <3>2 DEF Cancel, Running
      <4>2. ~(/\ last = item.node /\ RunsIn(runData, last) > 0
              /\ runData[last][RunsIn(runData, last)].source = item.data)
        BY <1>0, <1>1, <2>1, <4>1, NotRecordedYet
      <4> QED BY <2>1, <4>2 DEF Standing, RunsIn, item
    <3> QED BY <1>5, <3>1, <3>2
  <2>3. There = Here
    BY <2>1 DEF There, Here
  <2>4. RunsStay
    BY <2>1, <2>2, UnchangedRunsStay
  <2> QED BY <2>1, <2>3, <2>4 DEF Quiet
<1>6. CASE Resume
  <2>1. Standing /\ ~Standing' /\ runData' = Popped(last) /\ UNCHANGED <<waiting, skipped>>
    BY <1>6 DEF EngineInv, Resume, GoOn, Standing
  <2>2. RunsStay
    BY <1>0, <2>1, PopsRunsStay
  <2>3. ASSUME NEW s \in Signals
        PROVE  InStack(s, There) = InStack(s, Here)
    <3>1. SameStack
      BY <1>0, <1>6, <2>1, ResumedStack DEF Standing
    <3>2. stack \in Seq(Items)
      BY <1>0 DEF Typed, Here, States
    <3>3. DOMAIN stack = 1..Len(stack) /\ DOMAIN stack' = 1..Len(stack)
      BY <3>1, <3>2 DEF SameStack
    <3> QED BY <3>1, <3>3 DEF SameStack, InStack, There, Here
  <2> QED BY <2>1, <2>2, <2>3 DEF Quiet
<1>7. CASE Retry
  <2>1. stack # <<>> /\ ~Standing' /\ UNCHANGED <<last, stack, waiting, skipped>>
    BY <1>7 DEF Retry, GoOn, Standing
  <2>2. RunsStay
    <3> DEFINE r == Runs(last)
    <3>1. CASE last # NoNode /\ r > 0 /\ runData[last][r].result = "error"
      <4>1. runData' = Popped(last) /\ item.node = last /\ runData[last][r].source = item.data
        BY <1>7, <3>1 DEF Retry
      <4>2. Standing
        BY <1>0, <1>1, <2>1, <3>1, <4>1, RunsAre, NotRecordedYet
      <4> QED BY <1>0, <2>1, <4>1, <4>2, PopsRunsStay
    <3>2. CASE ~(last # NoNode /\ r > 0 /\ runData[last][r].result = "error")
      <4>1. UNCHANGED runData
        BY <1>7, <3>2 DEF Retry
      <4>2. last = item.node => last # NoNode
        BY <1>0, <2>1, ItemFacts, NodesAssumption
      <4>3. ~Standing
        BY <1>7, <3>2, <4>2, RunsAre DEF Standing, Retry
      <4> QED BY <2>1, <4>1, <4>3, UnchangedRunsStay
    <3> QED BY <3>1, <3>2
  <2>3. There = Here
    BY <2>1 DEF There, Here
  <2> QED BY <2>1, <2>2, <2>3 DEF Quiet
<1>8. CASE UNCHANGED vars
  <2>1. UNCHANGED <<runData, last, stack, waiting, skipped, status>>
    BY <1>8 DEF vars, progress
  <2>2. Standing <=> Standing'
    BY <2>1 DEF Standing, RunsIn, item
  <2>3. There = Here
    BY <2>1 DEF There, Here
  <2>4. RunsStay
    BY <2>1, <2>2, UnchangedRunsStay
  <2> QED BY <2>1, <2>3, <2>4 DEF Quiet
<1> QED BY <1>4, <1>5, <1>6, <1>7, <1>8 DEF QuietStep

LEMMA NotRetracted == [Next]_vars /\ ~retracted' => ~retracted
BY DEF Next, Step, SkipNode, ReturnNothing, Succeed, PassThrough, Complete, Fail, PutToWait,
       Finish, Cancel, Resume, Retry, vars

LEMMA PlacedNext == EngineInv /\ Placed /\ [Next]_vars => Placed'
<1> SUFFICES ASSUME EngineInv, Placed, [Next]_vars, ~retracted'
             PROVE  \A s \in Signals : InPlace(s)'
  BY DEF Placed, InPlace
<1>0. Typed /\ EngineInv' /\ Typed'
  BY EngineNext DEF EngineInv
<1>1. ~retracted /\ \A s \in Signals : InPlace(s)
  <2>1. ~retracted
    BY NotRetracted
  <2> QED BY <2>1 DEF Placed, InPlace
<1>2. CASE SkipNode \/ ReturnNothing
  <2>1. /\ ~Standing /\ ~Standing' /\ stack # <<>> /\ stack' = Tail(stack)
        /\ UNCHANGED waiting /\ skipped' = skipped \cup Received
    BY <1>2 DEF SkipNode, ReturnNothing, Running, Standing
  <2>2. \A n \in Nodes : /\ RunsIn(runData', n) = RunsIn(runData, n)
                         /\ SameRuns(runData', runData, n, RunsIn(runData, n))
    BY <1>2 DEF SkipNode, ReturnNothing, SameRuns
  <2> QED BY <1>0, <1>1, <2>1, <2>2, DropPlaced
<1>3. CASE Succeed \/ PassThrough
  <2>1. PICK out \in SUBSET Outputs(workflow, item.node), result \in {"success", "error"} :
          Complete(out, result)
    BY <1>3 DEF Succeed, PassThrough, PassedThrough, FirstOutput
  <2>2. status = "running" /\ stack # <<>>
    BY <1>3 DEF Succeed, PassThrough, Running
  <2> QED BY <1>0, <1>1, <2>1, <2>2, CompletePlaced
<1>4. CASE QuietStep
  <2>1. Quiet
    BY <1>1, <1>4, QuietSteps
  <2> QED BY <1>0, <1>1, <2>1, StaysInPlace DEF Quiet
<1> QED BY <1>2, <1>3, <1>4 DEF Next, Step, QuietStep

LEMMA PlacedInit == Init => Placed
<1> SUFFICES ASSUME Init, NEW s \in Signals PROVE Alone(s) /\ (Somewhere(s) => Known(s))
  BY DEF Placed
<1>1. \A n : RunsIn(runData, n) = 0
  BY DEF Init, RunsIn
<1>2. InRuns(s) = {}
  <2>1. Kept(s.to) = 0
    BY <1>1 DEF Kept, Standing, Init
  <2> QED BY <2>1 DEF InRuns
<1>3. InWaiting(s, Here) = {}
  <2>1. s.to \in Nodes
    BY DEF Signals
  <2> QED BY <2>1 DEF InWaiting, Here, Init
<1> DEFINE data == [k \in {0} |-> Token(NoNode, 0, 0)]
<1>4. /\ DOMAIN stack = {1} /\ stack[1].data = data
      /\ InStack(s, Here) \subseteq {1}
  <2>1. stack = <<Item(workflow.trigger, data)>>
    BY DEF Init
  <2> HIDE DEF data
  <2>2. DOMAIN stack = {1} /\ stack[1] = Item(workflow.trigger, data)
    BY <2>1
  <2> QED BY <2>2 DEF InStack, Here, Item
<1>5. InStack(s, Here) # {} => Known(s)
  <2> SUFFICES ASSUME 1 \in InStack(s, Here) PROVE Known(s)
    BY <1>4
  <2>1. s.token = Token(NoNode, 0, 0)
    BY <1>4 DEF InStack, Here, Holds
  <2> QED BY <2>1 DEF Known, Token
<1> QED BY <1>2, <1>3, <1>4, <1>5 DEF Alone, Somewhere, Once, Held, Init

(* However often an execution waits, fails, is canceled and goes on, and     *)
(* however the data of its nodes come together: what a node passes on is     *)
(* received at most once, if no retry has deleted a run by mistake.          *)
THEOREM ReceivedOnce == Safety => []NothingTwice
<1>1. EngineInv /\ Placed => NothingTwice
  <2> SUFFICES ASSUME Typed, Placed, status \in {"running", "success"}, ~retracted, NEW s \in Sent
               PROVE  Places(s) <= 1
    BY DEF EngineInv, NothingTwice
  <2>1. s \in Signals
    <3>1. PICK n \in DOMAIN runData : \E i \in DOMAIN runData[n] : s \in SentBy(n, i)
      BY DEF Sent
    <3>2. PICK i \in DOMAIN runData[n] : s \in SentBy(n, i)
      BY <3>1
    <3>3. n \in Nodes /\ i - 1 \in Nat
      <4>1. n \in Nodes /\ runData[n] \in Seq(TasksOf(n))
        BY DEF Typed, IsRunData
      <4> QED BY <4>1
    <3>4. PICK c \in workflow.connections : s = [to |-> c.to, input |-> c.input, token |-> Token(n, c.output, i - 1)]
      BY <3>2 DEF SentBy
    <3>5. c \in Connections
      BY WorkflowsAssumption DEF Typed, Fixed, Connections
    <3>6. Token(n, c.output, i - 1) \in TokenSet
      BY <3>3, <3>5 DEF Token, TokenSet, Connections
    <3> QED BY <3>4, <3>5, <3>6 DEF Signals, Connections
  <2>2. Alone(s)
    BY <2>1 DEF Placed
  <2> DEFINE A == InStack(s, Here)
             B == InWaiting(s, Here)
             C == InRuns(s)
             places == Cardinality(A) + Cardinality(B) + Cardinality(C) + (IF s \in skipped THEN 1 ELSE 0)
  <2>3. Places(s) = places
    <3>1. Kept(s.to) = Runs(s.to)
      BY RunsAre DEF Kept, Standing
    <3> QED BY <3>1 DEF Places, InStack, InWaiting, InRuns, Here
  <2>4. ASSUME NEW S, \A i, j \in S : i = j
        PROVE  Cardinality(S) = IF S = {} THEN 0 ELSE 1
    <3>1. CASE S = {}
      BY <3>1, FS_EmptySet
    <3>2. CASE S # {}
      <4>1. PICK x \in S : S = {x}
        BY <2>4, <3>2
      <4> QED BY <3>2, <4>1, FS_Singleton
    <3> QED BY <3>1, <3>2
  <2>5. /\ \A i, j \in A : i = j
        /\ \A i, j \in B : i = j
        /\ \A i, j \in C : i = j
        /\ A = {} \/ B = {}
        /\ A # {} \/ B # {} => C = {} /\ s \notin skipped
        /\ C # {} => s \notin skipped
    BY <2>2 DEF Alone, Once, Held
  <2> HIDE DEF A, B, C
  <2>6. places <= 1
    <3>1. /\ Cardinality(A) = IF A = {} THEN 0 ELSE 1
          /\ Cardinality(B) = IF B = {} THEN 0 ELSE 1
          /\ Cardinality(C) = IF C = {} THEN 0 ELSE 1
      BY <2>4, <2>5
    <3> QED BY <2>5, <3>1
  <2> QED BY <2>3, <2>6
<1> QED BY <1>1, EngineHolds, PlacedInit, PlacedNext, PTL DEF Safety

-----------------------------------------------------------------------------
(* Nothing is lost on the way to nodes with at most two inputs, to each of   *)
(* which at most two runs send data.  What has been sent is a set X here; it *)
(* grows while the nodes that a run passes data to are added.                *)
Small(n) == Inputs(workflow, n) \subseteq {0, 1}
Sig(n, k, t) == [to |-> n, input |-> k, token |-> t]
Few(X, s) ==
  \A a, b, c \in X :
    /\ a.to = s.to /\ b.to = s.to /\ c.to = s.to
    /\ a.input = s.input /\ b.input = s.input /\ c.input = s.input
    => a = b \/ b = c \/ a = c
Others(X, n, k, t) == \E r \in X : r.to = n /\ r.input = k /\ r.token # t

(* A set of data that waits lacks an input; what it has was sent, and if it  *)
(* is not the first set, something else was sent before to the same input.   *)
SetFits(X, n, i, d) ==
  /\ \E k \in Inputs(workflow, n) : d[k] = NoData
  /\ \A k \in Inputs(workflow, n) : d[k] # NoData =>
       Sig(n, k, d[k]) \in X /\ (i # 0 => Others(X, n, k, d[k]))
Sound(X, st) == \A n \in Nodes : Small(n) => \A i \in DOMAIN st.waiting[n] : SetFits(X, n, i, st.waiting[n][i])

LEMMA SetFitsMore ==
  ASSUME NEW X, NEW Y, X \subseteq Y, NEW n, NEW i, NEW d, SetFits(X, n, i, d)
  PROVE  SetFits(Y, n, i, d)
BY DEF SetFits, Others

LEMMA FewBefore ==
  ASSUME NEW X, NEW Y, X \subseteq Y, NEW s, Few(Y, s)
  PROVE  Few(X, s)
BY DEF Few

LEMMA SignalOf ==
  ASSUME NEW s \in Signals
  PROVE  s = Sig(s.to, s.input, s.token) /\ s.to \in Nodes /\ s.token \in TokenSet /\ s.token # NoData
BY NoDataAssumption DEF Signals, Sig

(* What a step of the fold keeps of the places of a token. *)
LEMMA CompletesHeld ==
  ASSUME NEW st \in States, NEW n \in Nodes, NEW index \in Nat, NEW data \in Given(n), NEW new,
         Completes(st, new, n, index, data), NEW s \in Signals
  PROVE  /\ InStack(s, st) # {} => Held(s, new)
         /\ s.to = n /\ Holds(s, data) => Held(s, new)
         /\ \A i \in InWaiting(s, st) : s.to # n \/ i # index => Held(s, new)
<1>1. InStack(s, new) = {i + 1 : i \in InStack(s, st)} \cup {i \in {1} : n = s.to /\ Holds(s, data)}
  <2>1. /\ Item(n, data) \in Items /\ Item(n, data).node = n /\ Item(n, data).data = data
        /\ new.stack = <<Item(n, data)>> \o st.stack
    BY ItemFits DEF Completes
  <2> QED BY <2>1, PushedHolds
<1>2. /\ s.to # n => InWaiting(s, new) = InWaiting(s, st)
      /\ s.to = n => InWaiting(s, new) = InWaiting(s, st) \ {index}
  <2>1. Loses(st, new, n, index)
    BY DEF Completes, Loses, States, Waitings
  <2> QED BY <2>1, WithoutHolds
<1> QED BY <1>1, <1>2 DEF Held

LEMMA WaitsHeld ==
  ASSUME NEW st \in States, NEW n \in Nodes, NEW index \in Nat, NEW data \in Datas(n), NEW new,
         Waits(st, new, n, index, data), NEW s \in Signals
  PROVE  /\ InStack(s, st) # {} => Held(s, new)
         /\ s.to = n /\ Holds(s, data) => Held(s, new)
         /\ \A i \in InWaiting(s, st) : s.to # n \/ i # index => Held(s, new)
<1>1. InStack(s, new) = InStack(s, st)
  BY DEF InStack, Waits
<1>2. InWaiting(s, new) = IF s.to # n THEN InWaiting(s, st)
                          ELSE (InWaiting(s, st) \ {index}) \cup {j \in {index} : Holds(s, data)}
  <2>1. Gains(st, new, n, index, data)
    BY DEF Waits, Gains, States, Waitings
  <2> QED BY <2>1, WithHolds
<1> QED BY <1>1, <1>2 DEF Held

(* Adding a node moves what it takes, and keeps the rest. *)
LEMMA AddSound ==
  ASSUME Fixed, NEW st \in States, NEW c \in workflow.connections, NEW token \in TokenSet,
         NEW fresh \in Signals, fresh = Sig(c.to, c.input, token),
         NEW X \in SUBSET Signals, fresh \notin X, Sound(X, st),
         NEW new, new = AddNodeToBeExecuted(st, c, token)
  PROVE  /\ Sound(X \cup {fresh}, new)
         /\ \A s \in X \cup {fresh} :
              Small(s.to) /\ Few(X \cup {fresh}, s) /\ (Held(s, st) \/ s = fresh) => Held(s, new)
<1>n. PICK n \in Nodes : n = c.to
  BY AddDoes DEF Connections
<1>k. PICK k \in Inputs(workflow, n) : k = c.input
  BY <1>n, InputsOf
<1>e. PICK entries \in Sets(n) : entries = st.waiting[n]
  BY <1>n DEF States, Waitings
<1>a. PICK index \in Nat, data \in Datas(c.to) :
         /\ data[c.input] = token
         /\ \/ /\ index \in DOMAIN st.waiting[c.to] /\ st.waiting[c.to][index][c.input] = NoData
               /\ \A j \in Inputs(workflow, c.to) \ {c.input} : data[j] = st.waiting[c.to][index][j]
            \/ /\ \A i \in DOMAIN st.waiting[c.to] : st.waiting[c.to][i][c.input] # NoData
               /\ index = Cardinality(DOMAIN st.waiting[c.to])
               /\ \A j \in Inputs(workflow, c.to) \ {c.input} : data[j] = NoData
         /\ \/ /\ Completes(st, AddNodeToBeExecuted(st, c, token), c.to, index, data)
               /\ \A j \in Inputs(workflow, c.to) : data[j] # NoData
            \/ /\ Waits(st, AddNodeToBeExecuted(st, c, token), c.to, index, data)
               /\ \E j \in Inputs(workflow, c.to) : data[j] = NoData
  BY AddDoes
<1>1. /\ data \in Datas(n) /\ data[k] = token
      /\ \/ /\ index \in DOMAIN entries /\ entries[index][k] = NoData
            /\ \A j \in Inputs(workflow, n) \ {k} : data[j] = entries[index][j]
         \/ /\ \A i \in DOMAIN entries : entries[i][k] # NoData
            /\ index = Cardinality(DOMAIN entries)
            /\ \A j \in Inputs(workflow, n) \ {k} : data[j] = NoData
      /\ \/ Completes(st, new, n, index, data) /\ \A j \in Inputs(workflow, n) : data[j] # NoData
         \/ Waits(st, new, n, index, data) /\ \E j \in Inputs(workflow, n) : data[j] = NoData
  BY <1>n, <1>k, <1>e, <1>a
<1>w. /\ Without(entries, index) \in Sets(n)
      /\ DOMAIN Without(entries, index) = DOMAIN entries \ {index}
      /\ \A i \in DOMAIN entries \ {index} : Without(entries, index)[i] = entries[i]
      /\ With(entries, index, data) \in Sets(n)
      /\ DOMAIN With(entries, index, data) = DOMAIN entries \cup {index}
      /\ With(entries, index, data)[index] = data
      /\ \A i \in DOMAIN entries \ {index} : With(entries, index, data)[i] = entries[i]
  <2>1. /\ Without(entries, index) \in Sets(n)
        /\ DOMAIN Without(entries, index) = DOMAIN entries \ {index}
        /\ \A i \in DOMAIN entries \ {index} : Without(entries, index)[i] = entries[i]
    BY WithoutSet
  <2>2. /\ With(entries, index, data) \in Sets(n)
        /\ DOMAIN With(entries, index, data) = DOMAIN entries \cup {index}
        /\ With(entries, index, data)[index] = data
        /\ \A i \in DOMAIN entries \ {index} : With(entries, index, data)[i] = entries[i]
    <3>1. data \in Datas(n)
      BY <1>1
    <3> QED BY <3>1, WithSet
  <2> QED BY <2>1, <2>2
<1>2. /\ fresh.to = n /\ fresh.input = k /\ fresh.token = token /\ token # NoData
      /\ Holds(fresh, data)
  BY <1>n, <1>k, <1>1, NoDataAssumption DEF Sig, Holds, Datas
<1>3. ASSUME NEW i \in DOMAIN entries
      PROVE  /\ entries[i] \in Datas(n) /\ i \in Nat
             /\ Small(n) => SetFits(X, n, i, entries[i])
  BY <1>e, SetsOf DEF Sound, Indices
<1>4. \A m \in Nodes : m # n => new.waiting[m] = st.waiting[m]
  BY <1>1 DEF Completes, Waits, States, Waitings
<1>5. \A m \in Nodes : m # n /\ Small(m) =>
        \A i \in DOMAIN new.waiting[m] : SetFits(X \cup {fresh}, m, i, new.waiting[m][i])
  BY <1>4, SetFitsMore DEF Sound
(* The places of what is not moved. *)
<1>6. ASSUME NEW s \in X \cup {fresh}
      PROVE  /\ InStack(s, st) # {} => Held(s, new)
             /\ s.to = n /\ Holds(s, data) => Held(s, new)
             /\ \A i \in InWaiting(s, st) : s.to # n \/ i # index => Held(s, new)
  BY <1>1, CompleteGiven, CompletesHeld, WaitsHeld
<1>7. CASE ~Small(n)
  <2>1. Sound(X \cup {fresh}, new)
    BY <1>5, <1>7 DEF Sound
  <2>2. ASSUME NEW s \in X \cup {fresh}, Small(s.to), Held(s, st) \/ s = fresh
        PROVE  Held(s, new)
    BY <1>2, <1>6, <1>7, <2>2 DEF Held
  <2> QED BY <2>1, <2>2
<1>8. CASE Small(n) /\ index \in DOMAIN entries /\ entries[index][k] = NoData
           /\ \A j \in Inputs(workflow, n) \ {k} : data[j] = entries[index][j]
  (* The set that lacks the input has the other one, and is complete now. *)
  <2>1. \A j \in Inputs(workflow, n) : data[j] # NoData
    <3>1. PICK j \in Inputs(workflow, n) : entries[index][j] # NoData
      BY <1>3, <1>8 DEF Datas
    <3>2. Inputs(workflow, n) = {j, k}
      BY <1>8, <3>1 DEF Small
    <3> QED BY <1>1, <1>2, <1>8, <3>1, <3>2
  <2>2. Completes(st, new, n, index, data)
    BY <1>1, <2>1
  <2>3. new.waiting[n] = Without(entries, index)
    BY <1>e, <2>2 DEF Completes, States, Waitings
  <2>4. \A i \in DOMAIN new.waiting[n] : SetFits(X \cup {fresh}, n, i, new.waiting[n][i])
    <3>1. \A i \in DOMAIN new.waiting[n] : i \in DOMAIN entries /\ new.waiting[n][i] = entries[i]
      BY <1>w, <2>3
    <3> QED BY <1>3, <1>8, <3>1, SetFitsMore
  <2>5. Sound(X \cup {fresh}, new)
    BY <1>5, <2>4 DEF Sound
  <2>6. ASSUME NEW s \in X \cup {fresh}, index \in InWaiting(s, st), s.to = n
        PROVE  Holds(s, data)
    <3>1. s.input \in DOMAIN entries[index] /\ entries[index][s.input] = s.token
      BY <1>e, <2>6 DEF InWaiting, Holds
    <3>2. s.input \in Inputs(workflow, n) \ {k}
      BY <1>3, <1>8, <3>1, SignalOf DEF Datas
    <3>3. DOMAIN data = Inputs(workflow, n)
      BY <1>1 DEF Datas
    <3> QED BY <1>8, <3>1, <3>2, <3>3 DEF Holds
  <2>7. ASSUME NEW s \in X \cup {fresh}, Held(s, st) \/ s = fresh
        PROVE  Held(s, new)
    BY <1>2, <1>6, <2>6, <2>7 DEF Held
  <2> QED BY <2>5, <2>7
<1>9. CASE Small(n) /\ (\A i \in DOMAIN entries : entries[i][k] # NoData)
           /\ index = Cardinality(DOMAIN entries)
           /\ \A j \in Inputs(workflow, n) \ {k} : data[j] = NoData
  (* A new set: its index is free, unless three tokens were sent to the input. *)
  <2>1. ASSUME NEW i \in DOMAIN entries
        PROVE  \E j \in Inputs(workflow, n) \ {k} :
                 /\ Inputs(workflow, n) = {j, k} /\ entries[i][j] = NoData
                 /\ data[j] = NoData
    <3>1. PICK j \in Inputs(workflow, n) : entries[i][j] = NoData
      BY <1>3, <1>9 DEF SetFits
    <3>2. j # k
      BY <1>9, <3>1
    <3>3. Inputs(workflow, n) = {j, k}
      BY <1>9, <3>2 DEF Small
    <3> QED BY <1>9, <3>1, <3>2, <3>3
  <2>2. ASSUME NEW i \in DOMAIN entries
        PROVE  /\ Sig(n, k, entries[i][k]) \in X /\ Sig(n, k, entries[i][k]) # fresh
               /\ entries[i][k] # token
               /\ i # 0 => Others(X, n, k, entries[i][k])
    <3>1. Sig(n, k, entries[i][k]) \in X /\ (i # 0 => Others(X, n, k, entries[i][k]))
      BY <1>3, <1>9 DEF SetFits
    <3> QED BY <1>n, <1>k, <3>1
  <2>3. DOMAIN entries # {} => index # 0
    <3>1. IsFiniteSet(DOMAIN entries)
      BY SetsOf DEF Indices
    <3> QED BY <1>9, <3>1, FS_EmptySet
  <2>4. ASSUME NEW s \in X \cup {fresh}, index \in InWaiting(s, st), s.to = n, Few(X \cup {fresh}, s)
        PROVE  FALSE
    <3>1. index \in DOMAIN entries /\ s.input \in DOMAIN entries[index] /\ entries[index][s.input] = s.token
      BY <1>e, <2>4 DEF InWaiting, Holds
    <3>2. s.input = k
      <4>1. s.input \in Inputs(workflow, n)
        BY <1>3, <3>1 DEF Datas
      <4>2. entries[index][s.input] # NoData
        BY <3>1, SignalOf
      <4> QED BY <2>1, <3>1, <4>1, <4>2
    <3>3. s = Sig(n, k, entries[index][k]) /\ s # fresh /\ s \in X
      BY <2>2, <2>4, <3>1, <3>2, SignalOf
    <3>4. PICK r \in X : r.to = n /\ r.input = k /\ r.token # s.token
      BY <2>2, <2>3, <3>1, <3>2 DEF Others
    <3> QED BY <1>2, <2>4, <3>2, <3>3, <3>4 DEF Few
  <2>5. ASSUME NEW s \in X \cup {fresh}, Few(X \cup {fresh}, s), Held(s, st) \/ s = fresh
        PROVE  Held(s, new)
    BY <1>2, <1>6, <2>4, <2>5 DEF Held
  <2>6. CASE Completes(st, new, n, index, data) /\ \A j \in Inputs(workflow, n) : data[j] # NoData
    <3>1. DOMAIN entries = {}
      BY <2>1, <2>6
    <3>2. new.waiting[n] = Without(entries, index)
      BY <1>e, <2>6 DEF Completes, States, Waitings
    <3>3. DOMAIN new.waiting[n] = {}
      BY <1>w, <3>1, <3>2
    <3>4. Sound(X \cup {fresh}, new)
      BY <1>5, <3>3 DEF Sound
    <3> QED BY <2>5, <3>4
  <2>7. CASE Waits(st, new, n, index, data) /\ \E j \in Inputs(workflow, n) : data[j] = NoData
    <3>1. new.waiting[n] = With(entries, index, data)
      BY <1>e, <2>7 DEF Waits, States, Waitings
    <3>2. /\ DOMAIN new.waiting[n] = DOMAIN entries \cup {index}
          /\ new.waiting[n][index] = data
          /\ \A i \in DOMAIN entries \ {index} : new.waiting[n][i] = entries[i]
      BY <1>w, <3>1
    <3>3. SetFits(X \cup {fresh}, n, index, data)
      <4>1. index # 0 => Others(X \cup {fresh}, n, k, token)
        <5> SUFFICES ASSUME index # 0 PROVE Others(X \cup {fresh}, n, k, token)
          OBVIOUS
        <5>1. PICK i \in DOMAIN entries : TRUE
          BY <1>9, FS_EmptySet
        <5>2. Sig(n, k, entries[i][k]) \in X /\ entries[i][k] # token
          BY <2>2
        <5> QED BY <5>2 DEF Others, Sig
      <4>2. Sig(n, k, token) = fresh
        BY <1>n, <1>k
      <4> QED BY <1>1, <1>9, <2>7, <4>1, <4>2 DEF SetFits
    <3>4. \A i \in DOMAIN new.waiting[n] : SetFits(X \cup {fresh}, n, i, new.waiting[n][i])
      BY <1>3, <1>9, <3>2, <3>3, SetFitsMore
    <3>5. Sound(X \cup {fresh}, new)
      BY <1>5, <3>4 DEF Sound
    <3> QED BY <2>5, <3>5
  <2> QED BY <1>1, <2>6, <2>7
<1> QED BY <1>1, <1>7, <1>8, <1>9

(* All nodes that a run adds. *)
NewOf(n, T) == {Signal(c, n) : c \in T}
Delivered(X, n, T, st) ==
  /\ Sound(X \cup NewOf(n, T), st)
  /\ \A s \in X \cup NewOf(n, T) :
       Small(s.to) /\ Few(X \cup NewOf(n, T), s) /\ (Held(s, Base) \/ s \in NewOf(n, T)) => Held(s, st)

LEMMA AddedSound ==
  ASSUME Fixed, Base \in States, NEW n \in Nodes, Runs(n) \in Nat, NEW out,
         NEW X \in SUBSET Signals, Sound(X, Base), \A c \in NodesToAdd(n, out) : Signal(c, n) \notin X
  PROVE  Delivered(X, n, NodesToAdd(n, out), Added(n, out))
<1> DEFINE C == NodesToAdd(n, out)
           F == {T \in SUBSET C : ~Delivered(X, n, T, Adding(n, out)[T])}
<1>1. F = {}
  <2> SUFFICES ASSUME F # {} PROVE FALSE
    OBVIOUS
  <2>1. PICK T \in F : \A U \in F : U \subseteq T => U = T
    <3>1. \A T \in F : T \subseteq C
      OBVIOUS
    <3>2. IsFiniteSet(C)
      BY ConnectionsOf
    <3> HIDE DEF F, C
    <3> QED BY <3>1, <3>2, SmallestSubset
  <2>2. T # {}
    <3>1. Adding(n, out)[{}] = Base
      BY AddingStep DEF Base
    <3>2. NewOf(n, {}) = {} /\ X \cup {} = X
      BY DEF NewOf
    <3>3. Delivered(X, n, {}, Base)
      BY <3>2 DEF Delivered
    <3> QED BY <2>1, <3>1, <3>3
  <2> DEFINE c == LastToAdd(T)
             st == Adding(n, out)[T \ {c}]
             token == Token(n, c.output, Runs(n))
             new == Adding(n, out)[T]
             Y == X \cup NewOf(n, T \ {c})
             fresh == Signal(c, n)
  <2>3. c \in T /\ new = AddNodeToBeExecuted(st, c, token)
    BY <2>1, <2>2, AddingStep
  <2>4. st \in States
    BY <2>1, AddingTyped
  <2> HIDE DEF c
  <2>5. Delivered(X, n, T \ {c}, st)
    BY <2>1, <2>3
  <2>6. /\ c \in workflow.connections /\ token \in TokenSet
        /\ fresh \in Signals /\ fresh = Sig(c.to, c.input, token)
        /\ \A d \in T \ {c} : fresh # Signal(d, n)
    BY <2>1, <2>3, TokenOf DEF Sig
  <2>7. fresh \notin Y /\ Y \in SUBSET Signals
    <3>1. \A d \in T : Signal(d, n) \in Signals
      BY <2>1, TokenOf
    <3>2. fresh \notin X
      BY <2>1, <2>3
    <3> QED BY <2>6, <3>1, <3>2 DEF NewOf
  <2>8. NewOf(n, T) = NewOf(n, T \ {c}) \cup {fresh}
    BY <2>3 DEF NewOf
  <2>9. X \cup NewOf(n, T) = Y \cup {fresh}
    BY <2>8
  <2> HIDE DEF st, token, new, fresh, Y
  <2>10. Sound(Y, st)
    BY <2>5 DEF Delivered, Y
  <2>11. /\ Sound(Y \cup {fresh}, new)
         /\ \A s \in Y \cup {fresh} :
              Small(s.to) /\ Few(Y \cup {fresh}, s) /\ (Held(s, st) \/ s = fresh) => Held(s, new)
    BY <2>3, <2>4, <2>6, <2>7, <2>10, AddSound
  <2>12. ASSUME NEW s \in Y \cup {fresh}, Small(s.to), Few(Y \cup {fresh}, s), Held(s, Base) \/ s \in NewOf(n, T)
         PROVE  Held(s, new)
    <3>1. CASE s = fresh
      BY <2>11, <2>12, <3>1
    <3>2. CASE s # fresh
      <4>1. s \in Y /\ (Held(s, Base) \/ s \in NewOf(n, T \ {c}))
        BY <2>8, <2>12, <3>2
      <4>2. Few(Y, s)
        BY <2>12, FewBefore
      <4>3. Held(s, st)
        BY <2>5, <2>12, <4>1, <4>2 DEF Delivered, Y
      <4> QED BY <2>11, <2>12, <4>3
    <3> QED BY <3>1, <3>2
  <2>13. Delivered(X, n, T, new)
    BY <2>9, <2>11, <2>12 DEF Delivered
  <2> QED BY <2>1, <2>13 DEF new
<1>2. Added(n, out) = Adding(n, out)[C]
  BY AddingStep
<1>3. Delivered(X, n, C, Adding(n, out)[C])
  BY <1>1
<1> QED BY <1>2, <1>3

LEMMA ContinuedSound ==
  ASSUME NEW st \in States, NEW new \in Continued(st), NEW X, Sound(X, st)
  PROVE  Sound(X, new) /\ \A s \in Signals : Held(s, st) => Held(s, new)
<1>0. SUFFICES ASSUME NEW n \in Nodes, NEW i \in Nat,
                      st.stack = <<>>, i \in DOMAIN st.waiting[n],
                      new.stack = <<Item(n, Filled(st.waiting[n][i]))>>,
                      new.waiting = [st.waiting EXCEPT ![n] = Without(st.waiting[n], i)]
               PROVE  Sound(X, new) /\ \A s \in Signals : Held(s, st) => Held(s, new)
  BY ContinuedCases
<1>1. PICK old \in Sets(n) : old = st.waiting[n]
  BY DEF States, Waitings
<1>2. /\ \A m \in Nodes : m # n => new.waiting[m] = st.waiting[m]
      /\ new.waiting[n] = Without(old, i)
  BY <1>0, <1>1 DEF States, Waitings
<1>3. /\ DOMAIN Without(old, i) = DOMAIN old \ {i}
      /\ \A j \in DOMAIN old \ {i} : Without(old, i)[j] = old[j]
  BY WithoutSet
<1>4. Sound(X, new)
  BY <1>1, <1>2, <1>3 DEF Sound
<1>5. PICK d \in Datas(n) : d = old[i]
  BY <1>0, <1>1, SetsOf
<1>6. /\ Item(n, Filled(d)).node = n /\ Item(n, Filled(d)).data = Filled(d)
      /\ \A s \in Signals : Holds(s, Filled(d)) <=> Holds(s, d)
      /\ new.stack = <<Item(n, Filled(d))>>
  BY <1>0, <1>1, <1>5, FilledGiven, ItemFits
<1>7. ASSUME NEW s \in Signals, Held(s, st)
      PROVE  Held(s, new)
  <2>1. InStack(s, new) = {j \in {1} : n = s.to /\ Holds(s, d)}
    BY <1>6 DEF InStack
  <2>2. InStack(s, st) = {}
    BY <1>0 DEF InStack
  <2>3. /\ s.to # n => InWaiting(s, new) = InWaiting(s, st)
        /\ s.to = n => InWaiting(s, new) = InWaiting(s, st) \ {i}
    <3>1. Loses(st, new, n, i)
      BY <1>1, <1>2 DEF Loses
    <3>2. n \in Nodes /\ i \in Nat
      BY <1>0
    <3> QED BY <3>1, <3>2, WithoutHolds
  <2>4. s.to = n /\ i \in InWaiting(s, st) => Holds(s, d)
    BY <1>1, <1>5 DEF InWaiting
  <2> QED BY <1>7, <2>1, <2>2, <2>3, <2>4 DEF Held
<1> QED BY <1>4, <1>7

-----------------------------------------------------------------------------
(* What has been sent. *)
SentAt(r, s) ==
  /\ s.token.run < RunsIn(r, s.token.from)
  /\ s.token.output \in r[s.token.from][s.token.run + 1].out
  /\ [from |-> s.token.from, output |-> s.token.output, to |-> s.to, input |-> s.input] \in workflow.connections
AllSent(r) == {s \in Signals : SentAt(r, s)}

LEMMA SentIs ==
  ASSUME Typed
  PROVE  Sent = AllSent(runData)
<1>0. /\ IsRunData(runData)
      /\ \A c \in workflow.connections : c \in Connections
  BY WorkflowsAssumption DEF Typed, Fixed, Connections
<1>1. ASSUME NEW s \in Sent
      PROVE  s \in AllSent(runData)
  <2>1. PICK n \in DOMAIN runData : \E i \in DOMAIN runData[n] : s \in SentBy(n, i)
    BY DEF Sent
  <2>2. PICK i \in DOMAIN runData[n] : s \in SentBy(n, i)
    BY <2>1
  <2>3. n \in Nodes /\ i \in 1..RunsIn(runData, n) /\ RunsIn(runData, n) \in Nat
    <3>1. n \in Nodes /\ runData[n] \in Seq(TasksOf(n))
      BY <1>0 DEF IsRunData
    <3> QED BY <3>1 DEF RunsIn
  <2>4. i - 1 \in Nat /\ i - 1 < RunsIn(runData, n) /\ i - 1 + 1 = i
    BY <2>3
  <2>5. PICK c \in workflow.connections :
          /\ c.from = n /\ c.output \in runData[n][i].out
          /\ s = [to |-> c.to, input |-> c.input, token |-> Token(n, c.output, i - 1)]
    BY <2>2 DEF SentBy
  <2>6. c \in Connections /\ c = [from |-> n, output |-> c.output, to |-> c.to, input |-> c.input]
    BY <1>0, <2>5 DEF Connections
  <2>7. /\ s.to = c.to /\ s.input = c.input /\ s.token = Token(n, c.output, i - 1)
        /\ s.token.from = n /\ s.token.output = c.output /\ s.token.run = i - 1
    BY <2>5 DEF Token
  <2>8. s \in Signals
    <3>1. Token(n, c.output, i - 1) \in TokenSet
      BY <2>3, <2>4, <2>6 DEF Token, TokenSet, Connections
    <3> QED BY <2>5, <2>6, <3>1 DEF Signals, Connections
  <2> QED BY <2>4, <2>5, <2>6, <2>7, <2>8 DEF AllSent, SentAt
<1>2. ASSUME NEW s \in AllSent(runData)
      PROVE  s \in Sent
  <2> DEFINE t == s.token
             n == t.from
             i == t.run + 1
             c == [from |-> n, output |-> t.output, to |-> s.to, input |-> s.input]
  <2>1. s \in Signals /\ SentAt(runData, s)
    BY DEF AllSent
  <2>2. t \in TokenSet /\ t.run \in Nat /\ t = Token(n, t.output, t.run)
    BY <2>1 DEF Signals, TokenSet, Token
  <2>3. i \in 1..RunsIn(runData, n) /\ i - 1 = t.run
    <3>1. RunsIn(runData, n) \in Nat
      BY <1>0, RunsFacts
    <3> QED BY <2>1, <2>2, <3>1 DEF SentAt
  <2>4. n \in DOMAIN runData /\ i \in DOMAIN runData[n]
    <3>1. n \in DOMAIN runData
      BY <1>0, <2>3, RunsFacts
    <3>2. runData[n] \in Seq(TasksOf(n))
      BY <1>0, <3>1 DEF IsRunData
    <3> QED BY <2>3, <3>1, <3>2 DEF RunsIn
  <2>5. c \in workflow.connections /\ c.from = n /\ c.output \in runData[n][i].out
    BY <2>1 DEF SentAt
  <2>6. s = [to |-> c.to, input |-> c.input, token |-> Token(n, c.output, i - 1)]
    BY <2>1, <2>2, <2>3 DEF Signals
  <2>7. s \in SentBy(n, i)
    BY <2>5, <2>6 DEF SentBy
  <2> QED BY <2>4, <2>7 DEF Sent
<1> QED BY <1>1, <1>2

(* Runs that pass nothing on may come and go. *)
NoMore(r, q, n) ==
  /\ RunsIn(q, n) >= RunsIn(r, n)
  /\ SameRuns(q, r, n, RunsIn(r, n))
  /\ \A i \in RunsIn(r, n) + 1..RunsIn(q, n) : q[n][i].out = {}

LEMMA SentAgain ==
  ASSUME NEW r, NEW q, IsRunData(r), IsRunData(q), \A n \in Nodes : NoMore(r, q, n)
  PROVE  AllSent(q) = AllSent(r)
<1> SUFFICES ASSUME NEW s \in Signals PROVE SentAt(q, s) <=> SentAt(r, s)
  BY DEF AllSent
<1>1. PICK n \in Nodes \cup {NoNode}, k \in Nat : n = s.token.from /\ k = s.token.run
  BY DEF Signals, TokenSet
<1>2. PICK R \in Nat, Q \in Nat : R = RunsIn(r, n) /\ Q = RunsIn(q, n)
  BY RunsFacts
<1>3. CASE n \in Nodes
  <2>1. /\ Q >= R /\ \A i \in 1..R : q[n][i] = r[n][i]
        /\ \A i \in R + 1..Q : q[n][i].out = {}
    BY <1>2, <1>3 DEF NoMore, SameRuns
  <2>2. CASE k < R
    <3>1. k + 1 \in 1..R /\ k < Q
      BY <2>1, <2>2
    <3> QED BY <1>1, <1>2, <2>1, <2>2, <3>1 DEF SentAt
  <2>3. CASE ~(k < R)
    <3>1. k < Q => k + 1 \in R + 1..Q
      BY <2>3
    <3> QED BY <1>1, <1>2, <2>1, <2>3, <3>1 DEF SentAt
  <2> QED BY <2>2, <2>3
<1>4. CASE n \notin Nodes
  <2>1. R = 0 /\ Q = 0
    BY <1>2, <1>4 DEF IsRunData, RunsIn
  <2> QED BY <1>1, <1>2, <2>1 DEF SentAt
<1> QED BY <1>3, <1>4

LEMMA SentPushed ==
  ASSUME Typed, NEW n \in Nodes, NEW task \in TasksOf(n)
  PROVE  AllSent(Pushed(n, task)) = AllSent(runData) \cup {s \in NewOf(n, NodesToAdd(n, task.out)) : s \in Signals}
<1>r. PICK R \in Nat : R = RunsIn(runData, n) /\ R = Runs(n)
  BY RunsFacts, RunsAre DEF Typed
<1>q. PICK q : q = Pushed(n, task)
  OBVIOUS
<1>1. /\ IsRunData(q) /\ RunsIn(q, n) = R + 1 /\ q[n][R + 1] = task
      /\ \A i \in 1..R : q[n][i] = runData[n][i]
      /\ \A m \in Nodes \ {n} : /\ RunsIn(q, m) = RunsIn(runData, m)
                                /\ SameRuns(q, runData, m, RunsIn(runData, m))
  <2>1. IsRunData(runData)
    BY DEF Typed
  <2>2. /\ IsRunData(q)
        /\ RunsIn(q, n) = RunsIn(runData, n) + 1
        /\ q[n][RunsIn(runData, n) + 1] = task
        /\ SameRuns(q, runData, n, RunsIn(runData, n))
        /\ \A m \in Nodes \ {n} : /\ RunsIn(q, m) = RunsIn(runData, m)
                                  /\ SameRuns(q, runData, m, RunsIn(runData, m))
    BY <1>q, <2>1, PushedRuns, Zenon
  <2> QED BY <1>r, <2>2 DEF SameRuns
<1>2. ASSUME NEW s \in Signals
      PROVE  SentAt(q, s) <=> SentAt(runData, s) \/ s \in NewOf(n, NodesToAdd(n, task.out))
  <2>1. PICK k \in Nat, m \in Nodes \cup {NoNode} : m = s.token.from /\ k = s.token.run
    BY DEF Signals, TokenSet
  <2>2. s \in NewOf(n, NodesToAdd(n, task.out)) <=>
          /\ m = n /\ k = R /\ s.token.output \in task.out
          /\ [from |-> n, output |-> s.token.output, to |-> s.to, input |-> s.input] \in workflow.connections
    <3>1. ASSUME NEW c \in NodesToAdd(n, task.out), s = Signal(c, n)
          PROVE  /\ m = n /\ k = R /\ s.token.output \in task.out
                 /\ [from |-> n, output |-> s.token.output, to |-> s.to, input |-> s.input] \in workflow.connections
      <4>1. /\ s.to = c.to /\ s.input = c.input /\ s.token.from = n /\ s.token.run = R /\ s.token.output = c.output
        BY <1>r, <3>1 DEF Signal, Token
      <4>2. /\ c \in workflow.connections /\ c.from = n /\ c.output \in task.out
            /\ c = [from |-> c.from, output |-> c.output, to |-> c.to, input |-> c.input]
        BY ConnectionsOf DEF Typed, Connections
      <4> QED BY <2>1, <4>1, <4>2
    <3>2. ASSUME m = n, k = R, s.token.output \in task.out,
                 [from |-> n, output |-> s.token.output, to |-> s.to, input |-> s.input] \in workflow.connections
          PROVE  s \in NewOf(n, NodesToAdd(n, task.out))
      <4> DEFINE c == [from |-> n, output |-> s.token.output, to |-> s.to, input |-> s.input]
      <4>1. c \in NodesToAdd(n, task.out)
        BY <3>2 DEF NodesToAdd
      <4>2. s = [to |-> s.to, input |-> s.input, token |-> s.token]
        BY DEF Signals
      <4>3. s.token = Token(n, s.token.output, R)
        BY <2>1, <3>2 DEF Signals, TokenSet, Token
      <4>4. s = Signal(c, n)
        BY <1>r, <4>2, <4>3 DEF Signal
      <4> HIDE DEF c
      <4> QED BY <4>1, <4>4 DEF NewOf
    <3> QED BY <3>1, <3>2 DEF NewOf
  <2>3. CASE m = n
    <3>1. CASE k < R
      <4>1. k + 1 \in 1..R /\ k < R + 1 /\ k # R
        BY <3>1
      <4> QED BY <1>r, <1>1, <2>1, <2>2, <2>3, <3>1, <4>1 DEF SentAt
    <3>2. CASE k = R
      <4>1. ~(k < R) /\ k < R + 1 /\ k + 1 = R + 1
        BY <3>2
      <4> QED BY <1>r, <1>1, <2>1, <2>2, <2>3, <3>2, <4>1 DEF SentAt
    <3>3. CASE k > R
      <4>1. ~(k < R) /\ ~(k < R + 1) /\ k # R
        BY <3>3
      <4> QED BY <1>r, <1>1, <2>1, <2>2, <4>1, <2>3 DEF SentAt
    <3> QED BY <3>1, <3>2, <3>3
  <2>4. CASE m \in Nodes \ {n}
    <3>1. RunsIn(q, m) = RunsIn(runData, m) /\ RunsIn(q, m) \in Nat
      BY <1>1, <2>4, RunsFacts
    <3>2. k < RunsIn(q, m) => q[m][k + 1] = runData[m][k + 1]
      <4>1. k < RunsIn(q, m) => k + 1 \in 1..RunsIn(runData, m)
        BY <3>1
      <4> QED BY <1>1, <2>4, <4>1 DEF SameRuns
    <3> QED BY <2>1, <2>2, <2>4, <3>1, <3>2 DEF SentAt
  <2>5. CASE m = NoNode
    <3>1. m \notin Nodes
      BY <2>5, NodesAssumption
    <3>2. RunsIn(q, m) = 0 /\ RunsIn(runData, m) = 0
      BY <1>1, <3>1 DEF IsRunData, RunsIn, Typed
    <3> QED BY <2>1, <2>2, <3>1, <3>2 DEF SentAt
  <2> QED BY <2>1, <2>3, <2>4, <2>5
<1> QED BY <1>q, <1>2 DEF AllSent

-----------------------------------------------------------------------------
(* Whatever was sent is somewhere. *)
Lossless ==
  ~retracted => /\ Sound(Sent, Here)
                /\ \A s \in Sent : Small(s.to) /\ Few(Sent, s) => Somewhere(s)

(* A run that is to be repeated has passed nothing on. *)
Idle == ~retracted /\ Standing => runData[last][RunsIn(runData, last)].out = {}

LEMMA LosslessBy ==
  ASSUME UNCHANGED workflow, NEW X, X = Sent', Sound(X, There),
         \A s \in X : Small(s.to) /\ Few(X, s) => Somewhere(s)'
  PROVE  Lossless'
<1>1. \A n : Inputs(workflow', n) = Inputs(workflow, n)
  OBVIOUS
<1>2. Sound(Sent, Here)'
  <2>1. Sound(X, Here)' <=> Sound(X, There)
    BY <1>1 DEF Sound, SetFits, Small, Here, There
  <2>2. Sound(Sent, Here)' <=> Sound(X, Here)'
    BY DEF Sound, SetFits, Others
  <2> QED BY <2>1, <2>2
<1>3. \A s \in Sent' : Small(s.to)' /\ Few(Sent, s)' => Somewhere(s)'
  <2>1. \A s : Small(s.to)' <=> Small(s.to)
    BY <1>1 DEF Small
  <2>2. \A s : Few(Sent, s)' <=> Few(X, s)
    BY DEF Few
  <2> QED BY <2>1, <2>2
<1> QED BY <1>2, <1>3 DEF Lossless

(* Nothing is sent, and what waits stays. *)
LEMMA LosslessStays ==
  ASSUME ~retracted, Lossless, UNCHANGED <<workflow, waiting>>, Sent' = Sent, Sent \subseteq Signals,
         \A s \in Signals : Somewhere(s) => Somewhere(s)'
  PROVE  Lossless'
<1>1. PICK X : X = Sent
  OBVIOUS
<1>2. Sound(X, There)
  <2>1. Sound(X, Here)
    BY <1>1 DEF Lossless
  <2> QED BY <2>1 DEF Sound, Here, There
<1>3. \A s \in X : Small(s.to) /\ Few(X, s) => Somewhere(s)'
  BY <1>1 DEF Lossless
<1>4. X = Sent'
  BY <1>1
<1> QED BY <1>2, <1>3, <1>4, LosslessBy

LEMMA QuietKeeps ==
  ASSUME Quiet, NEW s \in Signals, Somewhere(s)
  PROVE  Somewhere(s)'
<1>1. InRuns(s)' = InRuns(s)
  BY StaysInRuns DEF Quiet
<1>2. InStack(s, There) = InStack(s, Here) /\ UNCHANGED <<waiting, skipped>>
  BY DEF Quiet
<1>3. InStack(s, Here)' = InStack(s, There) /\ InWaiting(s, Here)' = InWaiting(s, Here)
  BY <1>2 DEF InStack, InWaiting, Here, There
<1> QED BY <1>1, <1>2, <1>3 DEF Somewhere, Held

LEMMA DropKeeps ==
  ASSUME Typed, ~Standing, ~Standing', stack # <<>>, NEW s \in Signals, Somewhere(s),
         stack' = Tail(stack), UNCHANGED waiting, skipped' = skipped \cup Received,
         \A n \in Nodes : /\ RunsIn(runData', n) = RunsIn(runData, n)
                          /\ SameRuns(runData', runData, n, RunsIn(runData, n))
  PROVE  Somewhere(s)'
<1>1. InRuns(s)' = InRuns(s)
  <2>1. \A n : RunsIn(runData, n)' = RunsIn(runData', n)
    BY DEF RunsIn
  <2>2. RunsStay
    BY <2>1 DEF RunsStay, Kept
  <2> QED BY <2>2, StaysInRuns
<1>2. Held(s, Here) => Held(s, Base) \/ OnTop(s)
  BY TopOfStack DEF Held
<1>3. Held(s, Here)' <=> Held(s, Base)
  BY DEF Held, InStack, InWaiting, Here, Base
<1>4. OnTop(s) => s \in skipped'
  BY ReceivedIs
<1> QED BY <1>1, <1>2, <1>3, <1>4 DEF Somewhere

LEMMA RunKeeps ==
  ASSUME Typed, ~Standing, ~Standing', stack # <<>>, NEW task \in TasksOf(item.node),
         task.source = item.data, runData' = Pushed(item.node, task), UNCHANGED skipped,
         NEW s \in Signals, Somewhere(s)
  PROVE  Held(s, Base) \/ Somewhere(s)'
<1>1. InRuns(s) # {} \/ OnTop(s) => InRuns(s)' # {}
  BY RunInRuns
<1>2. Held(s, Here) => Held(s, Base) \/ OnTop(s)
  BY TopOfStack DEF Held
<1> QED BY <1>1, <1>2 DEF Somewhere

LEMMA IdleNext == EngineInv /\ Placed /\ Idle /\ [Next]_vars => Idle'
<1> SUFFICES ASSUME EngineInv, Placed, Idle, [Next]_vars, ~retracted', Standing'
             PROVE  (runData[last][RunsIn(runData, last)].out = {})'
  BY DEF Idle
<1>0. Typed /\ ~retracted
  BY NotRetracted DEF EngineInv
<1>1. CASE Fail \/ PutToWait
  <2>n. PICK n \in Nodes : n = item.node
    BY <1>0, <1>1, ItemFacts DEF Fail, PutToWait, Running
  <2>1. PICK task \in TasksOf(n) : runData' = Pushed(n, task) /\ task.out = {} /\ last' = n
    <3>1. PICK result \in {"success", "error"} : runData' = Pushed(item.node, Task(item.data, {}, result))
      BY <1>1 DEF Fail, PutToWait
    <3>2. stack # <<>> /\ last' = item.node
      BY <1>1 DEF Fail, PutToWait, Running
    <3>3. Task(item.data, {}, result) \in TasksOf(item.node)
      BY <1>0, <3>2, TaskFits
    <3>4. Task(item.data, {}, result).out = {}
      BY DEF Task
    <3> QED BY <2>n, <3>1, <3>2, <3>3, <3>4
  <2>2. RunsIn(runData', n) = RunsIn(runData, n) + 1 /\ runData'[n][RunsIn(runData, n) + 1] = task
    BY <1>0, <2>1, PushedRuns DEF Typed
  <2>3. runData'[last'][RunsIn(runData', last')].out = {}
    BY <2>1, <2>2
  <2> QED BY <2>3 DEF RunsIn
<1>2. CASE Cancel
  <2>1. stack # <<>> /\ ~Standing /\ UNCHANGED <<runData, last, stack>>
    BY <1>2 DEF Cancel, Running, Standing
  <2>2. \A s \in Signals : InPlace(s)
    BY <1>0 DEF Placed, InPlace
  <2>3. ~(/\ last = item.node /\ RunsIn(runData, last) > 0
          /\ runData[last][RunsIn(runData, last)].source = item.data)
    BY <1>0, <2>1, <2>2, NotRecordedYet
  <2> QED BY <2>1, <2>3 DEF Standing, RunsIn, item
<1>3. CASE UNCHANGED vars
  BY <1>0, <1>3 DEF vars, progress, Standing, RunsIn, item, Idle
<1>4. CASE SkipNode \/ ReturnNothing \/ Succeed \/ PassThrough \/ Finish \/ Resume \/ Retry
  <2>1. status' \in {"running", "success"}
    BY <1>4 DEF SkipNode, ReturnNothing, Succeed, PassThrough, Complete, Finish, Resume, Retry,
                GoOn, Running
  <2> QED BY <2>1 DEF Standing
<1> QED BY <1>1, <1>2, <1>3, <1>4 DEF Next, Step

LEMMA SentLater == (Typed => Sent = AllSent(runData))'
<1>1. Typed => Sent = AllSent(runData)
  BY SentIs
<1> QED BY <1>1, PTL

LEMMA SentStays ==
  ASSUME Typed, Typed', UNCHANGED workflow,
         \/ \A n \in Nodes : NoMore(runData, runData', n)
         \/ \A n \in Nodes : NoMore(runData', runData, n)
  PROVE  Sent' = Sent
<1>1. IsRunData(runData) /\ IsRunData(runData')
  <2>1. IsRunData(runData)'
    BY DEF Typed
  <2>2. IsRunData(runData)' <=> IsRunData(runData')
    BY SameTypes DEF IsRunData
  <2> QED BY <2>1, <2>2 DEF Typed
<1>2. AllSent(runData') = AllSent(runData)
  <2>1. PICK r, q : r = runData /\ q = runData'
    OBVIOUS
  <2>2. IsRunData(r) /\ IsRunData(q)
    BY <1>1, <2>1
  <2>3. CASE \A n \in Nodes : NoMore(r, q, n)
    BY <2>1, <2>2, <2>3, SentAgain
  <2>4. CASE \A n \in Nodes : NoMore(q, r, n)
    <3>1. AllSent(r) = AllSent(q)
      BY <2>2, <2>4, SentAgain
    <3> QED BY <2>1, <3>1
  <2> QED BY <2>1, <2>3, <2>4
<1>3. AllSent(runData)' = AllSent(runData')
  <2>1. \A s : SentAt(runData, s)' <=> SentAt(runData', s)
    BY DEF SentAt, RunsIn
  <2> QED BY <2>1 DEF AllSent
<1>4. Sent = AllSent(runData)
  BY SentIs
<1>5. Sent' = AllSent(runData)'
  BY SentLater
<1> QED BY <1>2, <1>3, <1>4, <1>5

LEMMA SameNoMore ==
  ASSUME NEW r, NEW q, IsRunData(r), NEW n \in Nodes, RunsIn(q, n) = RunsIn(r, n), SameRuns(q, r, n, RunsIn(r, n))
  PROVE  NoMore(r, q, n)
<1>1. RunsIn(r, n) \in Nat
  BY RunsFacts
<1> QED BY <1>1 DEF NoMore

LEMMA SentIn ==
  ASSUME Typed
  PROVE  Sent \subseteq Signals
BY SentIs DEF AllSent

(* A run for the head of the stack adds what it passes on to what was sent. *)
LEMMA CompleteSent ==
  ASSUME Typed, Typed', UNCHANGED workflow, NEW n \in Nodes, NEW task \in TasksOf(n), runData' = Pushed(n, task)
  PROVE  Sent' = Sent \cup {s \in NewOf(n, NodesToAdd(n, task.out)) : s \in Signals}
<1>1. Sent' = AllSent(runData)'
  BY SentLater
<1>2. AllSent(runData)' = AllSent(runData')
  <2>1. \A s : SentAt(runData, s)' <=> SentAt(runData', s)
    BY DEF SentAt, RunsIn
  <2> QED BY <2>1 DEF AllSent
<1>3. AllSent(Pushed(n, task)) = AllSent(runData) \cup {s \in NewOf(n, NodesToAdd(n, task.out)) : s \in Signals}
  BY SentPushed
<1> QED BY <1>1, <1>2, <1>3, SentIs

(* A run for the head of the stack passes on what it passes on. *)
LEMMA CompleteLossless ==
  ASSUME Typed, Typed', status = "running", stack # <<>>, ~retracted, Lossless,
         NEW out \in SUBSET Outputs(workflow, item.node), NEW result \in {"success", "error"}, Complete(out, result)
  PROVE  Lossless'
<1>n. PICK n \in Nodes : n = item.node
  BY ItemFacts
<1> DEFINE passed == IF item.node = destination THEN {} ELSE out
           task == Task(item.data, passed, result)
<1>1. task \in TasksOf(item.node) /\ task.source = item.data /\ runData' = Pushed(item.node, task)
      /\ task.out = passed
  <2>1. task \in TasksOf(item.node)
    BY TaskFits
  <2> QED BY <2>1 DEF Complete, Task
<1> HIDE DEF task, passed
<1>2. ~Standing /\ ~Standing' /\ UNCHANGED <<skipped, workflow>>
  BY DEF Standing, Complete
<1>3. Runs(n) \in Nat /\ Fixed /\ Base \in States
  BY RunsAre, RunsFacts, ItemFacts DEF Typed
<1>4. ASSUME NEW s \in Signals, Somewhere(s)
      PROVE  Held(s, Base) \/ Somewhere(s)'
  BY <1>1, <1>2, <1>4, RunKeeps
<1>5. PICK X : X = Sent
  OBVIOUS
<1>6. X \in SUBSET Signals /\ X = AllSent(runData)
  BY <1>5, SentIs, SentIn
<1>7. Sound(X, Base) /\ \A s \in X : Small(s.to) /\ Few(X, s) => Somewhere(s)
  BY <1>5 DEF Lossless, Sound, Here, Base
<1>8. ASSUME NEW s \in Signals, Held(s, There)
      PROVE  Somewhere(s)'
  BY <1>8 DEF Somewhere, Held, InStack, InWaiting, Here, There
<1>9. Sent' = X \cup {s \in NewOf(n, NodesToAdd(n, passed)) : s \in Signals}
  BY <1>n, <1>1, <1>2, <1>5, CompleteSent
<1>10. CASE item.node = destination
  <2>1. NewOf(n, NodesToAdd(n, passed)) = {}
    BY <1>10 DEF passed, NewOf, NodesToAdd
  <2>2. Sent' = X
    BY <1>9, <2>1
  <2>3. There = Base
    BY <1>10 DEF Complete, There, Base
  <2>4. \A s \in X : Small(s.to) /\ Few(X, s) => Somewhere(s)'
    BY <1>4, <1>6, <1>7, <1>8, <2>3
  <2> QED BY <1>2, <1>7, <2>2, <2>3, <2>4, LosslessBy
<1>11. CASE item.node # destination
  <2>1. passed = out
    BY <1>11 DEF passed
  <2>2. PICK st \in Continued(Added(n, out)) : stack' = st.stack /\ waiting' = st.waiting
    BY <1>n, <1>11 DEF Complete
  <2> DEFINE C == NodesToAdd(n, out)
  <2>3. \A c \in C : Signal(c, n) \in Signals /\ Signal(c, n) \notin X
    <3> SUFFICES ASSUME NEW c \in C
                 PROVE  Signal(c, n) \in Signals /\ Signal(c, n) \notin X
      OBVIOUS
    <3>1. Signal(c, n) \in Signals /\ Signal(c, n).token = Token(n, c.output, Runs(n))
      BY <1>3, TokenOf DEF Signal
    <3>2. Signal(c, n).token.from = n /\ Signal(c, n).token.run = RunsIn(runData, n)
      BY <3>1, RunsAre DEF Token
    <3>3. RunsIn(runData, n) \in Nat
      BY <1>3, RunsAre
    <3>4. ~SentAt(runData, Signal(c, n))
      BY <3>2, <3>3 DEF SentAt
    <3> QED BY <1>6, <3>1, <3>4 DEF AllSent
  <2> DEFINE added == Added(n, out)
             Y == X \cup NewOf(n, C)
  <2>4. Delivered(X, n, C, added)
    <3>1. \A c \in NodesToAdd(n, out) : Signal(c, n) \notin X
      BY <2>3
    <3> QED BY <1>3, <1>6, <1>7, <3>1, AddedSound
  <2>5. added \in States
    BY <1>3, AddedTyped
  <2>6. Y = Sent'
    <3>1. {s \in NewOf(n, C) : s \in Signals} = NewOf(n, C)
      BY <2>3 DEF NewOf
    <3> QED BY <1>9, <2>1, <3>1
  <2> HIDE DEF C, added
  <2>7. Sound(Y, added)
        /\ \A s \in Y : Small(s.to) /\ Few(Y, s) /\ (Held(s, Base) \/ s \in NewOf(n, C)) => Held(s, added)
    BY <2>4 DEF Delivered
  <2> HIDE DEF Y
  <2>8. st \in Continued(added) /\ st \in States
    BY <2>2, <2>5, ContinuedTyped DEF added
  <2>9. There = st
    BY <2>2, <2>8 DEF There, States
  <2>10. Sound(Y, st) /\ \A s \in Signals : Held(s, added) => Held(s, st)
    BY <2>5, <2>7, <2>8, ContinuedSound
  <2>11. Y \subseteq Signals
    BY <1>6, <2>3 DEF Y, NewOf
  <2>12. ASSUME NEW s \in Y, Small(s.to), Few(Y, s)
         PROVE  Somewhere(s)'
    <3>1. CASE Held(s, Base) \/ s \in NewOf(n, C)
      BY <1>8, <2>7, <2>9, <2>10, <2>11, <2>12, <3>1
    <3>2. CASE ~(Held(s, Base) \/ s \in NewOf(n, C))
      <4>1. s \in X
        BY <3>2 DEF Y
      <4>2. Few(X, s)
        <5>1. X \subseteq Y
          BY DEF Y
        <5> QED BY <2>12, <5>1, FewBefore
      <4> QED BY <1>4, <1>6, <1>7, <2>12, <3>2, <4>1, <4>2
    <3> QED BY <3>1, <3>2
  <2> QED BY <1>2, <2>6, <2>9, <2>10, <2>12, LosslessBy
<1> QED BY <1>10, <1>11

LEMMA PopSent ==
  ASSUME Typed, Idle, ~retracted, Standing, runData' = Popped(last)
  PROVE  \A n \in Nodes : NoMore(runData', runData, n)
<1>n. PICK n : n = last
  OBVIOUS
<1>q. PICK q : q = runData'
  OBVIOUS
<1>r. PICK R \in Nat : R = RunsIn(runData, n)
  BY RunsFacts DEF Typed
<1>0. R > 0
  BY <1>n, <1>r DEF Standing
<1>1. /\ RunsIn(q, n) = R - 1
      /\ SameRuns(q, runData, n, R - 1)
      /\ \A m \in Nodes \ {n} : /\ RunsIn(q, m) = RunsIn(runData, m)
                                /\ SameRuns(q, runData, m, RunsIn(runData, m))
  BY <1>n, <1>q, <1>r, <1>0, PoppedRuns DEF Typed
<1>2. runData[n][R].out = {}
  BY <1>n, <1>r DEF Idle
<1>3. NoMore(q, runData, n)
  <2>1. SameRuns(runData, q, n, R - 1)
    BY <1>1 DEF SameRuns
  <2>2. \A i \in (R - 1) + 1..R : i = R
    OBVIOUS
  <2> QED BY <1>r, <1>1, <1>2, <2>1, <2>2 DEF NoMore
<1>4. ASSUME NEW m \in Nodes \ {n}
      PROVE  NoMore(q, runData, m)
  <2>1. RunsIn(q, m) = RunsIn(runData, m) /\ RunsIn(runData, m) \in Nat
    BY <1>1, RunsFacts DEF Typed
  <2>2. SameRuns(runData, q, m, RunsIn(q, m))
    BY <1>1 DEF SameRuns
  <2>3. RunsIn(q, m) + 1..RunsIn(runData, m) = {}
    BY <2>1
  <2> QED BY <2>1, <2>2, <2>3 DEF NoMore
<1> QED BY <1>q, <1>3, <1>4

(* What stops an execution, and what makes it go on, sends nothing. *)
LEMMA QuietSent ==
  ASSUME EngineInv, Typed', Idle, ~retracted, ~retracted', \A s \in Signals : InPlace(s), QuietStep
  PROVE  Sent' = Sent
<1>0. Typed /\ IsRunData(runData)
  BY DEF EngineInv, Typed
<1>1. CASE UNCHANGED <<workflow, runData>>
  BY <1>1 DEF Sent, SentBy
<1>2. CASE Fail \/ PutToWait
  <2>n. PICK n \in Nodes : n = item.node
    BY <1>0, <1>2, ItemFacts DEF Fail, PutToWait, Running
  <2>1. PICK task \in TasksOf(n) : runData' = Pushed(n, task) /\ task.out = {}
    <3>1. PICK result \in {"success", "error"} : runData' = Pushed(item.node, Task(item.data, {}, result))
      BY <1>2 DEF Fail, PutToWait
    <3>2. stack # <<>>
      BY <1>2 DEF Fail, PutToWait, Running
    <3>3. Task(item.data, {}, result) \in TasksOf(item.node) /\ Task(item.data, {}, result).out = {}
      BY <1>0, <3>2, TaskFits DEF Task
    <3> QED BY <2>n, <3>1, <3>3
  <2>q. PICK q : q = runData'
    OBVIOUS
  <2>r. PICK R \in Nat : R = RunsIn(runData, n)
    BY <1>0, RunsFacts
  <2>2. /\ RunsIn(q, n) = R + 1 /\ q[n][R + 1] = task
        /\ SameRuns(q, runData, n, R)
        /\ \A m \in Nodes \ {n} : /\ RunsIn(q, m) = RunsIn(runData, m)
                                  /\ SameRuns(q, runData, m, RunsIn(runData, m))
    BY <1>0, <2>q, <2>r, <2>1, PushedRuns
  <2>3. NoMore(runData, q, n)
    <3>1. \A i \in R + 1..R + 1 : i = R + 1
      OBVIOUS
    <3> QED BY <2>1, <2>r, <2>2, <3>1 DEF NoMore
  <2>4. \A m \in Nodes : NoMore(runData, q, m)
    BY <1>0, <2>2, <2>3, SameNoMore
  <2>5. UNCHANGED workflow
    BY <1>2 DEF Fail, PutToWait
  <2> QED BY <1>0, <2>q, <2>4, <2>5, SentStays
<1>3. CASE Standing /\ runData' = Popped(last) /\ UNCHANGED workflow
  BY <1>0, <1>3, PopSent, SentStays
<1>4. CASE Finish \/ Cancel \/ UNCHANGED vars
  BY <1>1, <1>4 DEF Finish, Cancel, vars, progress
<1>5. CASE Resume
  BY <1>3, <1>5 DEF EngineInv, Resume
<1>6. CASE Retry
  <2> DEFINE r == Runs(last)
  <2>1. CASE last # NoNode /\ r > 0 /\ runData[last][r].result = "error"
    <3>1. /\ runData' = Popped(last) /\ item.node = last /\ runData[last][r].source = item.data
          /\ stack # <<>> /\ UNCHANGED workflow
      BY <1>6, <2>1 DEF Retry
    <3>2. Standing
      BY <1>0, <2>1, <3>1, RunsAre, NotRecordedYet
    <3> QED BY <1>3, <3>1, <3>2
  <2>2. CASE ~(last # NoNode /\ r > 0 /\ runData[last][r].result = "error")
    BY <1>1, <1>6, <2>2 DEF Retry
  <2> QED BY <2>1, <2>2
<1> QED BY <1>2, <1>4, <1>5, <1>6 DEF QuietStep

LEMMA LosslessNext == EngineInv /\ Placed /\ Idle /\ Lossless /\ [Next]_vars => Lossless'
<1> SUFFICES ASSUME EngineInv, Placed, Idle, Lossless, [Next]_vars, ~retracted'
             PROVE  Lossless'
  BY DEF Lossless
<1>0. Typed /\ Typed' /\ Sent \subseteq Signals
  BY EngineNext, SentIn DEF EngineInv
<1>1. ~retracted /\ \A s \in Signals : InPlace(s)
  <2>1. ~retracted
    BY NotRetracted
  <2> QED BY <2>1 DEF Placed, InPlace
<1>2. CASE SkipNode \/ ReturnNothing
  <2>1. /\ ~Standing /\ ~Standing' /\ stack # <<>> /\ stack' = Tail(stack)
        /\ UNCHANGED <<workflow, waiting>> /\ skipped' = skipped \cup Received
    BY <1>2 DEF SkipNode, ReturnNothing, Running, Standing
  <2>2. \A n \in Nodes : /\ RunsIn(runData', n) = RunsIn(runData, n)
                         /\ SameRuns(runData', runData, n, RunsIn(runData, n))
    BY <1>2 DEF SkipNode, ReturnNothing, SameRuns
  <2>3. \A n \in Nodes : NoMore(runData, runData', n)
    BY <1>0, <2>2, SameNoMore DEF Typed
  <2>4. Sent' = Sent
    BY <1>0, <2>1, <2>3, SentStays
  <2>5. \A s \in Signals : Somewhere(s) => Somewhere(s)'
    BY <1>0, <2>1, <2>2, DropKeeps
  <2> QED BY <1>0, <1>1, <2>1, <2>4, <2>5, LosslessStays
<1>3. CASE Succeed \/ PassThrough
  <2>1. PICK out \in SUBSET Outputs(workflow, item.node), result \in {"success", "error"} :
          Complete(out, result)
    BY <1>3 DEF Succeed, PassThrough, PassedThrough, FirstOutput
  <2>2. status = "running" /\ stack # <<>>
    BY <1>3 DEF Succeed, PassThrough, Running
  <2> QED BY <1>0, <1>1, <2>1, <2>2, CompleteLossless
<1>4. CASE QuietStep
  <2>1. Quiet
    BY <1>1, <1>4, QuietSteps
  <2>2. Sent' = Sent
    BY <1>0, <1>1, <1>4, QuietSent
  <2>3. UNCHANGED <<workflow, waiting>>
    BY <1>4 DEF QuietStep, Fail, PutToWait, Finish, Cancel, Resume, Retry, vars, progress
  <2>4. \A s \in Signals : Somewhere(s) => Somewhere(s)'
    BY <2>1, QuietKeeps
  <2> QED BY <1>0, <1>1, <2>2, <2>3, <2>4, LosslessStays
<1> QED BY <1>2, <1>3, <1>4 DEF Next, Step, QuietStep

(* What a node has passed on stays with its record, through waits, failures,  *)
(* cancellations and retries: a run that is deleted had passed on nothing.    *)
LEMMA StandNext == EngineInv /\ Placed /\ Idle /\ [Next]_vars => (~retracted' => Sent \subseteq Sent')
<1> SUFFICES ASSUME EngineInv, Placed, Idle, [Next]_vars, ~retracted'
             PROVE  Sent \subseteq Sent'
  OBVIOUS
<1>0. Typed /\ Typed'
  BY EngineNext DEF EngineInv
<1>1. ~retracted /\ \A s \in Signals : InPlace(s)
  <2>1. ~retracted
    BY NotRetracted
  <2> QED BY <2>1 DEF Placed, InPlace
<1>2. CASE SkipNode \/ ReturnNothing
  BY <1>2 DEF SkipNode, ReturnNothing, Sent, SentBy
<1>3. CASE Succeed \/ PassThrough
  <2>1. PICK out \in SUBSET Outputs(workflow, item.node), result \in {"success", "error"} :
          Complete(out, result)
    BY <1>3 DEF Succeed, PassThrough, PassedThrough, FirstOutput
  <2>n. PICK n \in Nodes : n = item.node
    BY <1>0, <1>3, ItemFacts DEF Succeed, PassThrough, Running
  <2>2. PICK task \in TasksOf(n) : runData' = Pushed(n, task)
    <3>1. stack # <<>>
      BY <1>3 DEF Succeed, PassThrough, Running
    <3> QED BY <1>0, <2>n, <2>1, <3>1, TaskFits DEF Complete
  <2>3. UNCHANGED workflow
    BY <2>1 DEF Complete
  <2> QED BY <1>0, <2>2, <2>3, CompleteSent
<1>4. CASE QuietStep
  BY <1>0, <1>1, <1>4, QuietSent
<1> QED BY <1>2, <1>3, <1>4 DEF Next, Step, QuietStep

LEMMA LosslessInit == Init => Lossless /\ Idle
<1> SUFFICES ASSUME Init PROVE Lossless /\ Idle
  OBVIOUS
<1>1. Sent = {}
  BY DEF Init, Sent
<1>2. Sound(Sent, Here)
  BY DEF Init, Sound, Here
<1>3. ~Standing
  BY DEF Init, Standing
<1> QED BY <1>1, <1>2, <1>3 DEF Lossless, Idle

LEMMA ImageIsFinite ==
  ASSUME NEW S, IsFiniteSet(S), NEW f, DOMAIN f = S, f = [x \in S |-> f[x]]
  PROVE  IsFiniteSet({f[x] : x \in S})
<1> DEFINE T == {f[x] : x \in S}
<1>1. f \in Surjection(S, T)
  BY DEF Surjection
<1> HIDE DEF T
<1>2. IsFiniteSet(T)
  BY <1>1, FS_Surjection
<1> QED BY <1>2 DEF T

LEMMA SentIsFinite ==
  ASSUME Typed
  PROVE  IsFiniteSet(Sent)
<1>0. /\ IsRunData(runData) /\ IsFiniteSet(DOMAIN runData) /\ IsFiniteSet(workflow.connections)
  BY NodesAssumption, WorkflowsAssumption, FS_Subset DEF Typed, Fixed, IsRunData
<1>1. ASSUME NEW n, NEW i
      PROVE  IsFiniteSet(SentBy(n, i))
  <2> DEFINE S == workflow.connections
             f == [c \in S |-> [to |-> c.to, input |-> c.input, token |-> Token(n, c.output, i - 1)]]
             T == {f[c] : c \in S}
  <2>1. IsFiniteSet(T)
    <3>1. DOMAIN f = S /\ f = [x \in S |-> f[x]]
      OBVIOUS
    <3> HIDE DEF f
    <3> QED BY <1>0, <3>1, ImageIsFinite
  <2>2. SentBy(n, i) \subseteq T
    BY DEF SentBy
  <2> HIDE DEF T
  <2> QED BY <2>1, <2>2, FS_Subset
<1> DEFINE by(n) == UNION {SentBy(n, i) : i \in DOMAIN runData[n]}
<1>2. ASSUME NEW n \in DOMAIN runData
      PROVE  IsFiniteSet(by(n))
  <2> DEFINE S == DOMAIN runData[n]
             f == [i \in S |-> SentBy(n, i)]
             T == {f[i] : i \in S}
  <2>1. IsFiniteSet(S)
    <3>1. runData[n] \in Seq(TasksOf(n))
      BY <1>0 DEF IsRunData
    <3>2. PICK k \in Nat : S = 1..k
      BY <3>1
    <3> HIDE DEF S
    <3> QED BY <3>2, FS_Interval
  <2>2. IsFiniteSet(T)
    <3>1. DOMAIN f = S /\ f = [x \in S |-> f[x]]
      OBVIOUS
    <3> HIDE DEF f, S
    <3> QED BY <2>1, <3>1, ImageIsFinite
  <2>3. \A t \in T : IsFiniteSet(t)
    BY <1>1
  <2>4. by(n) = UNION T
    OBVIOUS
  <2> HIDE DEF T, by
  <2> QED BY <2>2, <2>3, <2>4, FS_UNION
<1> DEFINE D == DOMAIN runData
           f == [n \in D |-> by(n)]
           T == {f[n] : n \in D}
<1> HIDE DEF by
<1>3. IsFiniteSet(T)
  <2>1. DOMAIN f = D /\ f = [x \in D |-> f[x]]
    OBVIOUS
  <2>2. IsFiniteSet(D)
    BY <1>0
  <2> HIDE DEF f, D
  <2> QED BY <2>1, <2>2, ImageIsFinite
<1>4. \A t \in T : IsFiniteSet(t)
  BY <1>2
<1>5. Sent = UNION T
  BY DEF Sent, by
<1> HIDE DEF T
<1> QED BY <1>3, <1>4, <1>5, FS_UNION

LEMMA ThreeMembers ==
  ASSUME NEW S, IsFiniteSet(S), Cardinality(S) <= 2, NEW a \in S, NEW b \in S, NEW c \in S
  PROVE  a = b \/ b = c \/ a = c
<1> SUFFICES ASSUME a # b, b # c, a # c PROVE FALSE
  OBVIOUS
<1>0. ASSUME NEW T, IsFiniteSet(T), NEW x, x \notin T
      PROVE  IsFiniteSet(T \cup {x}) /\ Cardinality(T \cup {x}) = Cardinality(T) + 1
  BY <1>0, FS_AddElement
<1>1. PICK one : one = {a} /\ IsFiniteSet(one) /\ Cardinality(one) = 1
  BY FS_Singleton
<1>2. PICK two : two = one \cup {b}
  OBVIOUS
<1>3. IsFiniteSet(two) /\ Cardinality(two) = 2
  <2>1. b \notin one
    BY <1>1
  <2> QED BY <1>0, <1>1, <1>2, <2>1
<1>4. Cardinality(two \cup {c}) = 3
  <2>1. c \notin two
    BY <1>1, <1>2
  <2>2. Cardinality(two \cup {c}) = Cardinality(two) + 1
    BY <1>0, <1>3, <2>1, Zenon
  <2> QED BY <1>3, <2>2
<1>5. Cardinality(two \cup {c}) <= Cardinality(S)
  BY <1>1, <1>2, FS_Subset
<1>6. Cardinality(S) \in Nat
  BY FS_CardinalityType
<1> QED BY <1>4, <1>5, <1>6

LEMMA PlacesAre ==
  ASSUME Typed, NEW s \in Signals, Somewhere(s)
  PROVE  Places(s) >= 1
<1> DEFINE A == {i \in DOMAIN stack : stack[i].node = s.to /\ Holds(s, stack[i].data)}
           B == {i \in DOMAIN waiting[s.to] : Holds(s, waiting[s.to][i])}
           C == {i \in 1..Runs(s.to) : Holds(s, runData[s.to][i].source)}
<1>1. A = InStack(s, Here) /\ B = InWaiting(s, Here) /\ InRuns(s) \subseteq C
  <2>1. A = InStack(s, Here) /\ B = InWaiting(s, Here)
    BY DEF InStack, InWaiting, Here
  <2>2. InRuns(s) \subseteq C
    <3>1. Kept(s.to) \in Nat /\ RunsIn(runData, s.to) \in Nat /\ Kept(s.to) <= RunsIn(runData, s.to)
      BY KeptIsNat, RunsFacts DEF Typed
    <3>2. 1..Kept(s.to) \subseteq 1..Runs(s.to)
      BY <3>1, RunsAre
    <3> QED BY <3>2 DEF InRuns
  <2> QED BY <2>1, <2>2
<1>2. IsFiniteSet(A) /\ IsFiniteSet(B) /\ IsFiniteSet(C)
  <2>1. IsFiniteSet(DOMAIN stack)
    <3>1. stack \in Seq(Items)
      BY DEF Typed, Here, States
    <3>2. PICK k \in Nat : DOMAIN stack = 1..k
      BY <3>1
    <3> QED BY <3>2, FS_Interval
  <2>2. IsFiniteSet(DOMAIN waiting[s.to])
    <3>1. waiting[s.to] \in Sets(s.to)
      BY DEF Typed, Here, States, Waitings, Signals
    <3> QED BY <3>1, SetsOf DEF Indices
  <2>3. IsFiniteSet(1..Runs(s.to))
    <3>1. PICK k \in Nat : k = Runs(s.to)
      BY RunsFacts, RunsAre DEF Typed
    <3>2. IsFiniteSet(1..k)
      BY FS_Interval
    <3> QED BY <3>1, <3>2
  <2>4. A \subseteq DOMAIN stack /\ B \subseteq DOMAIN waiting[s.to] /\ C \subseteq 1..Runs(s.to)
    OBVIOUS
  <2> HIDE DEF A, B, C
  <2> QED BY <2>1, <2>2, <2>3, <2>4, FS_Subset
<1>3. Places(s) = Cardinality(A) + Cardinality(B) + Cardinality(C) + (IF s \in skipped THEN 1 ELSE 0)
  BY DEF Places
<1>4. A # {} \/ B # {} \/ C # {} \/ s \in skipped
  BY <1>1 DEF Somewhere, Held
<1> HIDE DEF A, B, C
<1>5. /\ Cardinality(A) \in Nat /\ (A # {} => Cardinality(A) # 0)
      /\ Cardinality(B) \in Nat /\ (B # {} => Cardinality(B) # 0)
      /\ Cardinality(C) \in Nat /\ (C # {} => Cardinality(C) # 0)
  BY <1>2, FS_CardinalityType, FS_EmptySet
<1> QED BY <1>3, <1>4, <1>5

(* Whatever a node passes on is with the node that is to receive it, on its  *)
(* way there, or was received: however the data of a node with two inputs    *)
(* come together, and however often the execution stops and goes on.  More   *)
(* than two runs that send data to one input may replace what waits.         *)
THEOREM NothingIsLost == Safety => []NothingLost
<1>1. Typed /\ Lossless => NothingLost
  <2> SUFFICES ASSUME Typed, Lossless, ~retracted, NEW s \in Sent, Inputs(workflow, s.to) \subseteq {0, 1},
                      Cardinality({r \in Sent : r.to = s.to /\ r.input = s.input}) <= 2
               PROVE  Places(s) >= 1
    BY DEF NothingLost
  <2> DEFINE S == {r \in Sent : r.to = s.to /\ r.input = s.input}
  <2>1. IsFiniteSet(S)
    BY SentIsFinite, FS_Subset
  <2>2. Few(Sent, s)
    <3> SUFFICES ASSUME NEW a \in S, NEW b \in S, NEW c \in S
                 PROVE  a = b \/ b = c \/ a = c
      BY DEF Few
    <3> HIDE DEF S
    <3>1. Cardinality(S) <= 2
      BY DEF S
    <3> QED BY <2>1, <3>1, ThreeMembers
  <2>3. Somewhere(s)
    BY <2>2 DEF Lossless, Small
  <2>4. s \in Signals
    BY SentIn
  <2> QED BY <2>3, <2>4, PlacesAre
<1> QED BY <1>1, EngineHolds, PlacedInit, PlacedNext, LosslessInit, IdleNext, LosslessNext, PTL DEF EngineInv, Safety

(* Whatever nodes return and wherever an execution waits, fails, is canceled  *)
(* and is retried: no result that a node has passed on is deleted from the    *)
(* record, unless a retry deletes the run of another node.                    *)
THEOREM ResultsAreKept == Safety => ResultsStand
<1>1. EngineInv /\ Placed /\ Idle /\ [Next]_vars => [~retracted' => Sent \subseteq Sent']_vars
  BY StandNext
<1> QED BY <1>1, EngineHolds, PlacedInit, PlacedNext, LosslessInit, IdleNext, PTL DEF Safety, ResultsStand
=============================================================================
