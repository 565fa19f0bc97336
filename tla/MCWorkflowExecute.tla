-------------------------- MODULE MCWorkflowExecute --------------------------
(* WorkflowExecute with small workflows for TLC. *)
EXTENDS WorkflowExecute

C(from, output, to, input) == [from |-> from, output |-> output, to |-> to, input |-> input]
Workflow(connections, required) ==
  [trigger |-> 1, connections |-> connections, required |-> [n \in 1..4 |-> IF n = 4 THEN required ELSE {}]]

(* All workflows of a trigger, 1, and two nodes, 2 and 3, that feed each other *)
(* and the two inputs of 4, with four connections, two of them to 4, and no   *)
(* loop.                                                                      *)
MCSmall == {Workflow(S, {}) : S \in
  {T \in SUBSET ({C(1, 0, 2, 0), C(1, 0, 3, 0), C(2, 0, 3, 0), C(3, 0, 2, 0)}
                 \cup {C(n, 0, 4, k) : n \in 1..3, k \in 0..1}) :
    /\ Cardinality(T) = 4 /\ Cardinality({c \in T : c.to = 4}) = 2
    /\ ~{C(2, 0, 3, 0), C(3, 0, 2, 0)} \subseteq T}}

(* An "if" before a merge that requires both inputs, nodes that follow a      *)
(* merge, a loop, and three runs that feed an input.                          *)
MCSpecial == {
  Workflow({C(1, 0, 2, 0), C(1, 1, 3, 0), C(2, 0, 4, 0), C(3, 0, 4, 1)}, {0, 1}),
  Workflow({C(1, 0, 2, 0), C(1, 1, 2, 1), C(2, 0, 4, 0), C(1, 0, 3, 0), C(3, 0, 4, 1)}, {0}),
  Workflow({C(1, 0, 2, 0), C(2, 0, 3, 0), C(3, 0, 2, 0), C(2, 1, 4, 0)}, {}),
  Workflow({C(1, 0, 2, 0), C(2, 0, 3, 0), C(3, 0, 2, 0), C(2, 1, 4, 0), C(1, 0, 4, 1)}, {}),
  Workflow({C(1, 0, 2, 0), C(1, 0, 3, 0), C(1, 0, 4, 0), C(2, 0, 4, 0), C(2, 0, 4, 1), C(3, 0, 4, 0)}, {})}
MCWorkflows == MCSmall \cup MCSpecial
MCNodes == 1..4
=============================================================================
