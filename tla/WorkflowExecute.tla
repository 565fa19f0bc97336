--------------------------- MODULE WorkflowExecute ---------------------------
(***************************************************************************)
(* The engine: WorkflowExecute of packages/core runs the nodes of a        *)
(* workflow one after the other (execution order v1).  What the nodes pass *)
(* to each other is abstracted to where it comes from: an output of a run  *)
(* of a node, which the code keeps as the source of the data.              *)
(***************************************************************************)
EXTENDS Naturals, Sequences, FiniteSets, FiniteSetsExt, Folds, Functions

CONSTANTS Nodes,         \* numbered by their position, the top left one first
          NoNode,        \* 0
          NoData,        \* null: an input that waits
          NoItems,       \* []: an input that was not waited for any longer
          Workflows,     \* records of a trigger, connections and required inputs
          Destinations,  \* where executions stop, NoNode for those that run it all
          MaxRuns,       \* bound: after so many runs a node passes nothing on
          MaxPauses      \* bound: how often an execution goes on after it has stopped

ASSUME NodesAssumption == Nodes \subseteq Nat \ {0} /\ IsFiniteSet(Nodes) /\ NoNode = 0

(* getStartNode() takes a trigger, or a node that nothing but a loop leads   *)
(* to: it has at most one input.                                             *)
ASSUME WorkflowsAssumption ==
  \A wf \in Workflows :
    /\ wf.trigger \in Nodes
    /\ wf.connections \subseteq [from : Nodes, output : Nat, to : Nodes, input : Nat]
    /\ IsFiniteSet(wf.connections)
    /\ \A c \in wf.connections : c.to = wf.trigger => c.input = 0

ASSUME DestinationsAssumption == Destinations \subseteq Nodes \cup {NoNode}
ASSUME BoundsAssumption == MaxRuns \in Nat /\ MaxPauses \in Nat

TokenSet == [from : Nodes \cup {NoNode}, output : Nat, run : Nat]

ASSUME NoDataAssumption == NoData \notin TokenSet /\ NoItems \notin TokenSet /\ NoData # NoItems

VARIABLES workflow,     \* what is executed, as it was when the execution began
          destination,
          runData,      \* what the runs of each node have received and passed on
          last,         \* lastNodeExecuted
          stack,        \* nodeExecutionStack
          waiting,      \* waitingExecution: the data of nodes that wait for more
          status,
          pauses,       \* how often it went on
          skipped,      \* history: what nodes have received in runs without a result
          retracted     \* history: a run was deleted that will not be repeated

progress == <<runData, last, stack, waiting, status>>
vars == <<workflow, destination, progress, pauses, skipped, retracted>>

-----------------------------------------------------------------------------
(* Workflows *)

(* Whatever is closed under connections and has what follows m has n.        *)
Leads(wf, m, n) ==
  \A S \in SUBSET Nodes :
    (\A c \in wf.connections : c.from \in S \cup {m} => c.to \in S) => n \in S
(* getParentNodes(): all that leads to a node, but not the node itself.      *)
ParentNodes(wf, n) == {m \in Nodes \ {n} : Leads(wf, m, n)}
Inputs(wf, n) == 0..Max({0} \cup {c.input : c \in {d \in wf.connections : d.to = n}})
Outputs(wf, n) == {c.output : c \in {d \in wf.connections : d.from = n}}

(* runNodeFilter *)
RunNodeFilter ==
  IF destination = NoNode THEN Nodes ELSE ParentNodes(workflow, destination) \cup {destination}

(* The connections over which a run passes data on.  Their nodes are put on  *)
(* the stack one by one, the top left one last, so that it comes to lie on   *)
(* top.                                                                      *)
NodesToAdd(n, out) == {c \in workflow.connections : c.from = n /\ c.output \in out}
LastToAdd(C) ==
  CHOOSE c \in C : \A d \in C \ {c} :
    \/ c.to < d.to
    \/ c.to = d.to /\ c.output > d.output
    \/ c.to = d.to /\ c.output = d.output /\ c.input > d.input

Token(from, output, run) == [from |-> from, output |-> output, run |-> run]
Item(n, data) == [node |-> n, data |-> data, disabled |-> FALSE]
Task(source, out, result) == [source |-> source, out |-> out, result |-> result]
Runs(n) == IF n \in DOMAIN runData THEN Len(runData[n]) ELSE 0
With(f, key, value) == [x \in DOMAIN f \cup {key} |-> IF x = key THEN value ELSE f[x]]
Tokens(data) == {data[k] : k \in DOMAIN data} \ {NoData, NoItems}

-----------------------------------------------------------------------------
Init ==
  /\ workflow \in Workflows
  /\ destination \in Destinations
  /\ stack = <<Item(workflow.trigger, [k \in {0} |-> Token(NoNode, 0, 0)])>>
  /\ waiting = [n \in Nodes |-> <<>>]
  /\ runData = <<>>
  /\ last = NoNode
  /\ status = "running"
  /\ pauses = 0
  /\ skipped = {}
  /\ retracted = FALSE

(* Mutant: a new set of data has only the input that it is created for.      *)
AddUnprepared(st, c, token) == [st EXCEPT !.stack = <<Item(c.to, [k \in {c.input} |-> token])>> \o @]

(* Mutant: a complete set of data stays with those that wait.                *)
AddKeepingSet(st, c, token) ==
  LET entries == st.waiting[c.to]
      lacking == {i \in DOMAIN entries : entries[i][c.input] = NoData}
      index == IF lacking # {} THEN Min(lacking) ELSE Cardinality(DOMAIN entries)
      before == IF lacking # {} THEN entries[index] ELSE [k \in Inputs(workflow, c.to) |-> NoData]
      data == [before EXCEPT ![c.input] = token]
  IN [st EXCEPT !.stack = IF NoData \in {data[k] : k \in DOMAIN data} THEN @
                          ELSE <<Item(c.to, data)>> \o @,
                !.waiting[c.to] = With(entries, index, data)]

(* addNodeToBeExecuted(): a node with several inputs waits for all of them,  *)
(* with one set of data per run to come.  A new set gets the number of those *)
(* that wait as its index, which may be the index of one of them.            *)
AddNodeToBeExecuted(st, c, token) ==
  LET entries == st.waiting[c.to]
      lacking == {i \in DOMAIN entries : entries[i][c.input] = NoData}
      index == IF lacking # {} THEN Min(lacking) ELSE Cardinality(DOMAIN entries)
      before == IF lacking # {} THEN entries[index] ELSE [k \in Inputs(workflow, c.to) |-> NoData]
      data == [before EXCEPT ![c.input] = token]
  IN IF NoData \notin {data[k] : k \in DOMAIN data}
     THEN [stack |-> <<Item(c.to, data)>> \o st.stack,
           waiting |-> [st.waiting EXCEPT ![c.to] = Restrict(@, DOMAIN @ \ {index})]]
     ELSE [st EXCEPT !.waiting[c.to] = With(entries, index, data)]

Added(n, out) ==
  MapThenFoldSet(LAMBDA c, st : AddNodeToBeExecuted(st, c, Token(n, c.output, Runs(n))),
                 [stack |-> Tail(stack), waiting |-> waiting], LAMBDA c : c, LastToAdd, NodesToAdd(n, out))

(* A waiting node that may run with the data that it has: none of its parents *)
(* waits, and the first set of its data has the inputs that it requires.      *)
WaitingNodes(st) == {n \in Nodes : st.waiting[n] # <<>>}
FirstSet(st, n) == Min(DOMAIN st.waiting[n])
CanRunPartly(st, n) ==
  /\ n \in WaitingNodes(st)
  /\ ParentNodes(workflow, n) \cap WaitingNodes(st) = {}
  /\ \A k \in workflow.required[n] : st.waiting[n][FirstSet(st, n)][k] # NoData

(* The inputs that received nothing are empty.                               *)
Filled(data) == [k \in DOMAIN data |-> IF data[k] = NoData THEN NoItems ELSE data[k]]

(* Mutant: nodes with a part of their data are never run.                    *)
ContinuedNever(st) == {st}

(* Mutant: with the first set of its data, a node loses the others.          *)
ContinuedDroppingSets(st) ==
  IF st.stack # <<>> \/ \A n \in Nodes : ~CanRunPartly(st, n) THEN {st}
  ELSE {[stack |-> <<Item(n, Filled(st.waiting[n][FirstSet(st, n)]))>>,
         waiting |-> [st.waiting EXCEPT ![n] = <<>>]]
        : n \in {m \in Nodes : CanRunPartly(st, m)}}

(* With an empty stack one of them is run.  The code takes the first that    *)
(* came to wait, which "waiting" does not tell.                              *)
Continued(st) ==
  IF st.stack # <<>> \/ \A n \in Nodes : ~CanRunPartly(st, n) THEN {st}
  ELSE {[stack |-> <<Item(n, Filled(st.waiting[n][FirstSet(st, n)]))>>,
         waiting |-> [st.waiting EXCEPT ![n] = Restrict(@, DOMAIN @ \ {FirstSet(st, n)})]]
        : n \in {m \in Nodes : CanRunPartly(st, m)}}

Pushed(n, task) ==
  IF n \in DOMAIN runData THEN [runData EXCEPT ![n] = Append(@, task)] ELSE With(runData, n, <<task>>)

(* Mutant: not only the last run of the node is deleted.                     *)
PoppedAll(n) == [runData EXCEPT ![n] = <<>>]

Popped(n) == [runData EXCEPT ![n] = SubSeq(@, 1, Len(@) - 1)]

-----------------------------------------------------------------------------
(* processRunExecutionData() *)

item == Head(stack)
Running == status = "running" /\ stack # <<>>
InFilter == item.node \in RunNodeFilter
Received == {[to |-> item.node, input |-> k, token |-> item.data[k]]
             : k \in {j \in DOMAIN item.data : item.data[j] # NoItems}}

(* A node that is not on the way to the destination is skipped. *)
SkipNode ==
  /\ Running /\ ~InFilter
  /\ stack' = Tail(stack)
  /\ skipped' = skipped \cup Received
  /\ UNCHANGED <<workflow, destination, runData, last, waiting, status, pauses, retracted>>

(* A node returns nothing, which leaves no trace but perhaps its name.       *)
ReturnNothing ==
  /\ Running /\ InFilter /\ ~item.disabled
  /\ last' \in {last, item.node}
  /\ stack' = Tail(stack)
  /\ skipped' = skipped \cup Received
  /\ UNCHANGED <<workflow, destination, runData, waiting, status, pauses, retracted>>

(* A run is recorded, and the nodes that get data from it are added.         *)
Complete(out, result) ==
  /\ runData' = Pushed(item.node, Task(item.data, IF item.node = destination THEN {} ELSE out, result))
  /\ last' = item.node
  /\ IF item.node = destination
     THEN stack' = Tail(stack) /\ UNCHANGED waiting
     ELSE \E st \in Continued(Added(item.node, out)) : stack' = st.stack /\ waiting' = st.waiting
  /\ UNCHANGED <<workflow, destination, status, pauses, skipped, retracted>>

Succeed ==
  /\ Running /\ InFilter /\ ~item.disabled
  /\ \E out \in SUBSET Outputs(workflow, item.node) :
       /\ out # {} => Runs(item.node) < MaxRuns
       /\ Complete(out, "success")

(* A disabled node, or one that goes on when it fails (continueOnFail),      *)
(* passes on its first input.  When that is empty, nothing is passed on, but *)
(* a disabled node may be one that outputs an item always.                   *)
FirstOutput == IF Runs(item.node) = MaxRuns THEN {} ELSE {0} \cap Outputs(workflow, item.node)
PassedThrough ==
  IF item.data[0] # NoItems THEN {FirstOutput}
  ELSE IF item.disabled THEN {{}, FirstOutput} ELSE {{}}

PassThrough ==
  /\ Running /\ InFilter
  /\ \E out \in PassedThrough, result \in {"success", "error"} :
       /\ item.disabled <=> result = "success"
       /\ Complete(out, result)

(* It fails, or is aborted: the execution stops before it.                   *)
Fail ==
  /\ Running /\ InFilter /\ ~item.disabled
  /\ runData' = Pushed(item.node, Task(item.data, {}, "error"))
  /\ last' = item.node
  /\ status' \in {"error", "canceled"}
  /\ UNCHANGED <<workflow, destination, stack, waiting, pauses, skipped, retracted>>

(* It makes the execution wait. *)
PutToWait ==
  /\ Running /\ InFilter /\ ~item.disabled
  /\ runData' = Pushed(item.node, Task(item.data, {}, "success"))
  /\ last' = item.node
  /\ status' = "waiting"
  /\ UNCHANGED <<workflow, destination, stack, waiting, pauses, skipped, retracted>>

(* The execution is canceled, or its time is over, between two nodes.        *)
Cancel ==
  /\ Running
  /\ status' = "canceled"
  /\ UNCHANGED <<workflow, destination, runData, last, stack, waiting, pauses, skipped, retracted>>

Finish ==
  /\ status = "running" /\ stack = <<>>
  /\ status' = "success"
  /\ UNCHANGED <<workflow, destination, runData, last, stack, waiting, pauses, skipped, retracted>>

GoOn == pauses < MaxPauses /\ pauses' = pauses + 1 /\ status' = "running"

(* A waiting execution is resumed: its node, which the items of the stack    *)
(* share, is disabled and will pass its input on.                            *)
Resume ==
  /\ status = "waiting" /\ GoOn
  /\ runData' = Popped(last)
  /\ stack' = [i \in DOMAIN stack |->
       IF stack[i].node = item.node THEN [stack[i] EXCEPT !.disabled = TRUE] ELSE stack[i]]
  /\ UNCHANGED <<workflow, destination, last, waiting, skipped, retracted>>

(* ExecutionService.retry(): the last run is deleted when it has an error,   *)
(* as it will be repeated, which holds when the execution stopped at it.     *)
(* With an empty stack the engine throws at once.                            *)
Retry ==
  /\ status \in {"error", "canceled"} /\ stack # <<>> /\ GoOn
  /\ last # NoNode => last \in DOMAIN runData
  /\ IF last # NoNode /\ Runs(last) > 0 /\ runData[last][Runs(last)].result = "error"
     THEN /\ runData' = Popped(last)
          /\ retracted' = (retracted \/ item.node # last \/ runData[last][Runs(last)].source # item.data)
     ELSE UNCHANGED <<runData, retracted>>
  /\ UNCHANGED <<workflow, destination, last, stack, waiting, skipped>>

Step == SkipNode \/ ReturnNothing \/ Succeed \/ PassThrough \/ Fail \/ PutToWait \/ Finish
Next == Step \/ Cancel \/ Resume \/ Retry

Safety == Init /\ [][Next]_vars
-----------------------------------------------------------------------------
(* Properties *)

(* The type of the state. *)
TypeOK ==
  /\ DOMAIN runData \subseteq Nodes /\ last \in Nodes \cup {NoNode}
  /\ \A n \in DOMAIN runData : \A i \in DOMAIN runData[n] :
       /\ runData[n][i].result \in {"success", "error"}
       /\ runData[n][i].out \subseteq Outputs(workflow, n)
  /\ \A i \in DOMAIN stack : /\ stack[i].node \in Nodes
                             /\ DOMAIN stack[i].data = Inputs(workflow, stack[i].node)
                             /\ \A k \in DOMAIN stack[i].data : stack[i].data[k] # NoData
                             /\ Tokens(stack[i].data) \subseteq TokenSet
  /\ \A n \in Nodes : \A i \in DOMAIN waiting[n] : Tokens(waiting[n][i]) \subseteq TokenSet
  /\ status \in {"running", "success", "error", "waiting", "canceled"}
  /\ pauses \in 0..MaxPauses

SentBy(n, i) ==
  {[to |-> c.to, input |-> c.input, token |-> Token(n, c.output, i - 1)]
   : c \in {d \in workflow.connections : d.from = n /\ d.output \in runData[n][i].out}}
Sent == UNION {UNION {SentBy(n, i) : i \in DOMAIN runData[n]} : n \in DOMAIN runData}

Holds(s, data) == s.input \in DOMAIN data /\ data[s.input] = s.token
Places(s) ==
    Cardinality({i \in DOMAIN stack : stack[i].node = s.to /\ Holds(s, stack[i].data)})
  + Cardinality({i \in DOMAIN waiting[s.to] : Holds(s, waiting[s.to][i])})
  + Cardinality({i \in 1..Runs(s.to) : Holds(s, runData[s.to][i].source)})
  + (IF s \in skipped THEN 1 ELSE 0)

(* Whatever a node passes on is kept for the node that is to receive it, if  *)
(* that has at most two inputs, unless more than two runs send data to one   *)
(* of its inputs, or a retry has deleted a run by mistake.                   *)
NothingLost ==
  ~retracted =>
    LET sent == Sent
    IN \A s \in sent :
         /\ Inputs(workflow, s.to) \subseteq {0, 1}
         /\ Cardinality({r \in sent : r.to = s.to /\ r.input = s.input}) <= 2
         => Places(s) >= 1

(* What a node passes on is received once, however often the execution       *)
(* waits, fails or is canceled in between, if no retry has deleted a run by  *)
(* mistake.                                                                  *)
NothingTwice ==
  status \in {"running", "success"} /\ ~retracted => \A s \in Sent : Places(s) <= 1

(* What a node has passed on stands: the run that is deleted when an         *)
(* execution goes on, after a wait, a failure or a cancellation, had passed  *)
(* on nothing, unless a retry deletes a run by mistake.                      *)
ResultsStand == [][~retracted' => Sent \subseteq Sent']_vars

(* An execution of a whole workflow without loops of which every node        *)
(* returned something ends with nobody waiting but for a required input, its *)
(* own or that of one of its parents.                                        *)
LacksRequired(n) == \E k \in workflow.required[n] : waiting[n][FirstSet([waiting |-> waiting], n)][k] = NoData
NobodyLeftWaiting ==
  status = "success" /\ skipped = {} /\ destination = NoNode /\ (\A n \in Nodes : ~Leads(workflow, n, n))
    => \A n \in WaitingNodes([waiting |-> waiting]) :
         \E m \in WaitingNodes([waiting |-> waiting]) \cap (ParentNodes(workflow, n) \cup {n}) : LacksRequired(m)
=============================================================================
