---------------------------- MODULE MCFlowGraph ----------------------------
\* The plans of FlowGraph.  In the run's plan a subflow that holds an approval is
\* beside a gated service; a condition in a later slice of their level chooses
\* between a human input and two services, a plain one and a gated one in a
\* slice of its own; then all join.  In the other plan the subflow's approval
\* has the id of a node that is gated in its parent.
EXTENDS FlowGraph

E(a, p, b) == [from |-> a, port |-> p, to |-> b]

RootPlan ==
  [kind |-> [n \in 1..8 |->
     CASE n = 1 -> "trigger" [] n = 2 -> "subflow" [] n = 3 -> "gated" [] n = 4 -> "condition"
       [] n = 5 -> "input" [] n = 6 -> "plain" [] n = 7 -> "gated" [] n = 8 -> "pass"],
   edges |-> {E(1, "out", 2), E(1, "out", 3), E(1, "out", 4),
              E(4, "true", 5), E(4, "false", 6), E(4, "false", 7)}
             \cup {E(n, "out", 8) : n \in {2, 3, 5, 6, 7}}]

ChildPlan(id) ==
  [kind |-> [n \in {1, id} |-> IF n = 1 THEN "trigger" ELSE "approval"],
   edges |-> {E(1, "out", id)}]

MCPlan == [r \in Runs |-> IF r = Root THEN RootPlan ELSE ChildPlan(9)]

\* A gated service first, then the subflow.
SharedRoot ==
  [kind |-> [n \in 1..3 |-> CASE n = 1 -> "trigger" [] n = 2 -> "gated" [] n = 3 -> "subflow"],
   edges |-> {E(1, "out", 2), E(2, "out", 3)}]
SharedPlan == [r \in Runs |-> IF r = Root THEN SharedRoot ELSE ChildPlan(2)]
=============================================================================
