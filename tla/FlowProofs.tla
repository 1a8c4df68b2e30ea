----------------------------- MODULE FlowProofs -----------------------------
(***************************************************************************)
(* Proofs about the two durable parts of the Flow, for values of all their *)
(* constants.                                                              *)
(*                                                                         *)
(* FlowGraph, for any two acyclic graphs: a node runs after what it        *)
(* depends on, a gate opens on a recorded approval of its own, a completed *)
(* run is whole, and a waiting node can be decided.                        *)
(*                                                                         *)
(* TriggerSchedules, for any triggers, contents and bounds, and any number *)
(* of edits under way: a schedule is one definition its trigger was given, *)
(* and agrees with it when nothing went wrong.                             *)
(***************************************************************************)
EXTENDS FlowGraph, TriggerSchedules, FiniteSetTheorems, WellFoundedInduction, TLAPS

-----------------------------------------------------------------------------
(* Levels.  LevelsOf reads a table over the nodes of a graph.  The table    *)
(* exists and has one value at each node since the graph has no cycle: of  *)
(* the nodes without a value one has no edge from the others.              *)

\* A finite set of numbers that is not empty has a greatest one.
LEMMA Greatest ==
  ASSUME NEW S \in SUBSET Nat, IsFiniteSet(S), S # {}
  PROVE  \E m \in S : \A k \in S : k <= m
<1> DEFINE F == {T \in SUBSET S : T # {} /\ \A m \in T : \E k \in T : ~ (k <= m)}
<1> SUFFICES ASSUME F # {} PROVE FALSE
  OBVIOUS
<1>0. F \in SUBSET SUBSET S
  OBVIOUS
<1>1. PICK T \in F : \A U \in F : ~ (<<U, T>> \in StrictSubsetOrdering(S))
  <2>1. IsWellFoundedOn(StrictSubsetOrdering(S), SUBSET S)
    BY FS_StrictSubsetOrderingWellFounded, FS_FiniteSubsetsOfFinite
  <2> HIDE DEF F
  <2> QED
    BY <1>0, <2>1, WFMin
<1>2. PICK x \in T : TRUE
  BY <1>1
<1> DEFINE U == T \ {x}
<1>3. U \notin F
  <2>1. <<U, T>> \in StrictSubsetOrdering(S)
    BY <1>1, <1>2 DEF StrictSubsetOrdering
  <2> QED
    BY <2>1, <1>1
<1>4. PICK m \in T : \A k \in U : k <= m
  BY <1>1, <1>2, <1>3
<1>5. m <= x \/ x <= m
  BY <1>1
<1>6. \/ \A k \in T : k <= m
      \/ \A k \in T : k <= x
  BY <1>1, <1>2, <1>4, <1>5
<1> QED
  BY <1>1, <1>2, <1>6

LEMMA MaxIsGreatest ==
  ASSUME NEW S \in SUBSET Nat, IsFiniteSet(S), S # {}
  PROVE  Max(S) \in S /\ \A k \in S : k <= Max(S)
<1>1. \E m \in S : \A k \in S : m >= k
  BY Greatest
<1> QED
  BY <1>1 DEF Max

\* What a table h says at node n: its level, from those of its predecessors.
LevelAt(h, r, n) ==
  IF Into(r, n) = {} THEN 0 ELSE 1 + Max({h[e.from] : e \in Into(r, n)})
IsLevels(h, r) == h = [n \in Nodes(r) |-> LevelAt(h, r, n)]

LEMMA LevelsAreRead == \A r : LevelsOf(r) = CHOOSE h : IsLevels(h, r)
  BY DEF LevelsOf, IsLevels, LevelAt

LEMMA EdgesWithin ==
  ASSUME NEW r \in Runs, NEW n \in Nodes(r), NEW e \in Into(r, n)
  PROVE  e.from \in Nodes(r) /\ e.to = n
  BY Plans DEF Into

\* The levels a node's predecessors have.
LEMMA LevelsOfPredecessors ==
  ASSUME NEW r \in Runs, NEW n \in Nodes(r), NEW h, \A e \in Into(r, n) : h[e.from] \in Nat
  PROVE  /\ LevelAt(h, r, n) \in Nat
         /\ \A e \in Into(r, n) : h[e.from] < LevelAt(h, r, n)
<1> DEFINE P == {e.from : e \in Into(r, n)}
           L == {h[e.from] : e \in Into(r, n)}
<1>1. CASE Into(r, n) = {}
  BY <1>1 DEF LevelAt
<1>2. CASE Into(r, n) # {}
  <2>1. IsFiniteSet(P)
    <3>1. P \subseteq Nodes(r)
      BY EdgesWithin
    <3> QED
      BY <3>1, PlansAreAcyclic, FS_Subset
  <2>2. [m \in P |-> h[m]] \in Surjection(P, L)
    BY DEF Surjection
  <2>3. IsFiniteSet(L)
    <3> HIDE DEF P, L
    <3> QED
      BY <2>1, <2>2, FS_Surjection
  <2>4. L \in SUBSET Nat /\ L # {}
    BY <1>2
  <2>5. Max(L) \in Nat /\ \A k \in L : k <= Max(L)
    <3> HIDE DEF L
    <3> QED
      BY <2>3, <2>4, MaxIsGreatest
  <2>6. LevelAt(h, r, n) = 1 + Max(L)
    BY <1>2 DEF LevelAt
  <2>7. \A e \in Into(r, n) : h[e.from] \in L
    OBVIOUS
  <2> HIDE DEF L
  <2> QED
    BY <2>4, <2>5, <2>6, <2>7
<1> QED
  BY <1>1, <1>2

\* A table of levels holds numbers, and each edge ascends in it.
LEMMA TablesAscend ==
  ASSUME NEW r \in Runs, NEW h, IsLevels(h, r)
  PROVE  /\ \A n \in Nodes(r) : h[n] \in Nat
         /\ \A n \in Nodes(r) : \A e \in Into(r, n) : h[e.from] < h[n]
<1> DEFINE S == {n \in Nodes(r) : h[n] \notin Nat}
<1>1. S = {}
  <2> SUFFICES ASSUME S # {} PROVE FALSE
    OBVIOUS
  <2>1. PICK n \in S : \A e \in Into(r, n) : e.from \notin S
    <3>1. S \in SUBSET Nodes(r)
      OBVIOUS
    <3> HIDE DEF S
    <3> QED
      BY <3>1, PlansAreAcyclic
  <2>2. \A e \in Into(r, n) : h[e.from] \in Nat
    BY <2>1, EdgesWithin
  <2> QED
    BY <2>1, <2>2, LevelsOfPredecessors DEF IsLevels
<1>2. \A n \in Nodes(r) : \A e \in Into(r, n) : h[e.from] \in Nat
  BY <1>1, EdgesWithin
<1>3. \A n \in Nodes(r) : h[n] = LevelAt(h, r, n)
  BY DEF IsLevels
<1> QED
  BY <1>1, <1>2, <1>3, LevelsOfPredecessors

\* The part of a table for some nodes and all that lead to them.
IsPart(h, r, C) ==
  /\ \A n \in C : \A e \in Into(r, n) : e.from \in C
  /\ h = [n \in C |-> LevelAt(h, r, n)]

\* Of the parts of a table one is greatest; what it leaves out has a node with
\* no edge from there, by which the part could grow.
LEMMA LevelsExist == ASSUME NEW r \in Runs PROVE \E h : IsLevels(h, r)
<1> DEFINE N == Nodes(r)
           F == {S \in SUBSET N : \E h : IsPart(h, r, N \ S)}
<1>1. N \in F
  <2>1. IsPart([n \in {} |-> 0], r, {})
    BY DEF IsPart
  <2>2. N \ N = {}
    OBVIOUS
  <2> QED
    BY <2>1, <2>2
<1>2. PICK S \in F : \A T \in F : ~ (<<T, S>> \in StrictSubsetOrdering(N))
  <2>1. IsWellFoundedOn(StrictSubsetOrdering(N), SUBSET N)
    BY PlansAreAcyclic, FS_StrictSubsetOrderingWellFounded, FS_FiniteSubsetsOfFinite, ZenonT(40)
  <2>2. F \in SUBSET SUBSET N
    OBVIOUS
  <2> HIDE DEF F
  <2> QED
    BY <1>1, <2>1, <2>2, WFMin
<1>3. PICK h : IsPart(h, r, N \ S)
  BY <1>2
<1>4. CASE S = {}
  BY <1>3, <1>4 DEF IsPart, IsLevels
<1>5. ASSUME S # {} PROVE FALSE
  <2>1. PICK n \in S : \A e \in Into(r, n) : e.from \notin S
    BY <1>5, PlansAreAcyclic
  <2> DEFINE C == N \ S
             D == N \ (S \ {n})
             g == [m \in D |-> LevelAt(h, r, m)]
  <2>2. n \in N /\ n \notin C /\ D = C \cup {n}
    BY <2>1
  <2>3. \A m \in D : \A e \in Into(r, m) : e.from \in C
    BY <1>3, <2>1, <2>2, EdgesWithin DEF IsPart
  <2>4. \A m \in C : h[m] = LevelAt(h, r, m)
    BY <1>3 DEF IsPart
  <2>5. \A m \in C : g[m] = h[m]
    BY <2>2, <2>4
  <2>6. ASSUME NEW m \in D PROVE LevelAt(g, r, m) = LevelAt(h, r, m)
    <3>1. {g[e.from] : e \in Into(r, m)} = {h[e.from] : e \in Into(r, m)}
      <4> HIDE DEF g, C, D
      <4> QED
        BY <2>3, <2>5
    <3> HIDE DEF g
    <3> QED
      BY <3>1 DEF LevelAt
  <2>7. g = [m \in D |-> LevelAt(g, r, m)]
    BY <2>6
  <2>8. IsPart(g, r, D)
    <3>1. \A m \in D : \A e \in Into(r, m) : e.from \in D
      BY <2>2, <2>3
    <3> HIDE DEF g
    <3> QED
      BY <2>7, <3>1 DEF IsPart
  <2>9. S \ {n} \in F
    BY <2>8
  <2>10. <<S \ {n}, S>> \in StrictSubsetOrdering(N)
    BY <2>1 DEF StrictSubsetOrdering
  <2> QED
    BY <1>2, <2>9, <2>10
<1> QED
  BY <1>4, <1>5

\* A node is in a later slice than those it has an edge from.
LEMMA PredecessorsComeBefore ==
  ASSUME NEW r \in Runs, NEW n \in Nodes(r), NEW e \in Into(r, n)
  PROVE  e.from \in Before[r][n]
<1>1. IsLevels(Level[r], r)
  <2>1. Level[r] = CHOOSE h : IsLevels(h, r)
    BY LevelsAreRead DEF Level
  <2> QED
    BY <2>1, LevelsExist
<1>2. Level[r][e.from] < Level[r][n]
  BY <1>1, TablesAscend
<1> QED
  BY <1>2, EdgesWithin DEF Before

-----------------------------------------------------------------------------
(* What holds of every run.                                                 *)

Gated == {"gated", "approval"}
Called == {"gated", "plain"}

\* Where a node is, by its kind and by what the run shows of it.
NodePlaced(r, n) ==
  /\ status[r][n] = "PENDING" <=> step[r][n] = "idle"
  /\ status[r][n] = "WAITING_APPROVAL" <=> step[r][n] = "decision"
  /\ status[r][n] = "SKIPPED" => step[r][n] = "done"
  /\ status[r][n] = "SUCCEEDED" => step[r][n] \in {"traced", "done"}
  /\ step[r][n] \in {"traced", "done"} => status[r][n] \in Ended
  /\ step[r][n] \in {"evaluate", "decision"} => Kind(r, n) \in Gated
  /\ step[r][n] = "plain" => Kind(r, n) \in Called
  /\ step[r][n] \in {"input", "subflow"} => Kind(r, n) = step[r][n]

\* OrderRespected of one node.
NodeOrdered(r, n) == status[r][n] # "PENDING" =>
  /\ \A e \in Into(r, n) : status[r][e.from] \in Ended /\ step[r][e.from] = "done"
  /\ Kind(r, n) # "trigger" => (status[r][n] = "SKIPPED" <=> ~Active(r, n))

\* The row that says d of a node stays: the Hub refuses to decide it again.
Said(r, n, d) == \E o \in Ids : approval[o] = [key |-> Key(r, n), status |-> d]

NodeSaid(r, n) ==
  /\ \A d \in Answers : <<r, n, d>> \in deciding => Said(r, n, d)
  /\ decision[r][n] # Unset => Said(r, n, decision[r][n])
  /\ Kind(r, n) = "gated" /\ (step[r][n] = "plain" \/ effects[r][n] > 0) => Said(r, n, "APPROVE")
  /\ Kind(r, n) = "approval" /\ (step[r][n] = "output" \/ status[r][n] = "SUCCEEDED")
       => Said(r, n, "APPROVE")

\* What a node has done when it is past its work.
NodeWhole(r, n) ==
  step[r][n] = "output" \/ status[r][n] = "SUCCEEDED" =>
    /\ Kind(r, n) \in Called => effects[r][n] > 0
    /\ Kind(r, n) = "subflow" => run[Child] = "COMPLETED"

RunWhole(r) == run[r] \in {"finishing", "COMPLETED"} => \A n \in Nodes(r) : step[r][n] = "done"

\* The inductive invariant.
GraphInv ==
  /\ GraphTypeOK
  /\ \A r \in Runs : RunWhole(r)
  /\ \A r \in Runs : \A n \in Nodes(r) :
       NodePlaced(r, n) /\ NodeOrdered(r, n) /\ NodeSaid(r, n) /\ NodeWhole(r, n)

\* No node of the subflow that opens an approval has the id of one that does in
\* its parent: they share the operation under which the Hub keeps the row.
ApprovalIdsDiffer == \A q, r \in Runs : \A n \in Nodes(q) \cap Nodes(r) :
  Kind(q, n) \in Gated /\ Kind(r, n) \in Gated => q = r

\* A waiting node has the row of its id for itself.
RowsOwned ==
  /\ \A n \in Ids : approval[n] # Unset =>
       \E r \in Runs : n \in Nodes(r) /\ Kind(r, n) \in Gated /\ approval[n].key = Key(r, n)
  /\ \A r \in Runs : \A n \in Nodes(r) : step[r][n] = "decision" => approval[n] # Unset

\* The run starts with all nodes pending.
LEMMA InitGraphInv == GraphInit => GraphInv
<1> SUFFICES ASSUME GraphInit PROVE GraphInv
  OBVIOUS
<1>1. GraphTypeOK
  BY Plans, UnsetIsNothing DEF GraphInit, GraphTypeOK, PerNode, NodesTyped, Closed, Ended, Answers
<1>2. \A r \in Runs : RunWhole(r)
  BY DEF GraphInit, RunWhole
<1>3. \A r \in Runs : \A n \in Nodes(r) :
         NodePlaced(r, n) /\ NodeOrdered(r, n) /\ NodeSaid(r, n) /\ NodeWhole(r, n)
  BY DEF GraphInit, PerNode, NodePlaced, NodeOrdered, NodeSaid, NodeWhole, Ended
<1> QED
  BY <1>1, <1>2, <1>3 DEF GraphInv

\* What Set changes, and that it keeps the type.
LEMMA SetAt ==
  ASSUME NEW f, NEW S, NodesTyped(f, S), NEW r \in Runs, NEW n \in Nodes(r), NEW v \in S
  PROVE  /\ NodesTyped(Set(f, r, n, v), S)
         /\ Set(f, r, n, v)[r][n] = v
         /\ \A q \in Runs : \A m \in Nodes(q) : q # r \/ m # n => Set(f, r, n, v)[q][m] = f[q][m]
  BY DEF NodesTyped, Set

\* A step of node n of run r: it and its step in the run were not at the end,
\* and no other node is touched.

RunStates == {"none", "RUNNING", "failing", "finishing"} \cup Closed
Statuses == Ended \cup {"PENDING", "RUNNING", "WAITING_APPROVAL", "WAITING_INPUT", "FAILED"}
Steps == {"idle", "authorize", "evaluate", "decision", "input", "plain", "subflow",
          "output", "traced", "done", "failing", "failed", "abandoned"}

\* A step of node n touches no other node.
LEMMA StepTouchesOne ==
  ASSUME GraphTypeOK, NEW r \in Runs, NEW n \in Nodes(r), NodeStep(r, n)
  PROVE  /\ NodesTyped(status', Statuses) /\ NodesTyped(step', Steps)
         /\ NodesTyped(route', {"true", "false", Unset}) /\ NodesTyped(effects', 0..MaxAttempts)
         /\ \A q \in Runs : \A m \in Nodes(q) : q # r \/ m # n =>
              /\ status'[q][m] = status[q][m] /\ step'[q][m] = step[q][m]
              /\ route'[q][m] = route[q][m] /\ effects'[q][m] = effects[q][m]
<1>1. /\ NodesTyped(status, Statuses) /\ NodesTyped(step, Steps)
      /\ NodesTyped(route, {"true", "false", Unset}) /\ NodesTyped(effects, 0..MaxAttempts)
  BY DEF GraphTypeOK, Statuses, Steps
<1>2. CASE Start(r, n)
  BY <1>1, <1>2, SetAt DEF Start, Show, Advance, Statuses, Steps, Ended
<1>3. CASE Authorize(r, n)
  BY <1>1, <1>3, SetAt DEF Authorize, Advance, Steps
<1>4. CASE Evaluate(r, n)
  BY <1>1, <1>4, SetAt DEF Evaluate, Show, Advance, Statuses, Steps
<1>5. CASE Hear(r, n)
  BY <1>1, <1>5, SetAt DEF Hear, Show, Advance, Statuses, Steps
<1>6. CASE AwaitInput(r, n)
  BY <1>1, <1>6, SetAt DEF AwaitInput, Show, Advance, Statuses, Steps
<1>7. CASE Execute(r, n)
  <2>1. effects[r][n] + 1 \in 0..MaxAttempts
    BY <1>1, <1>7, Plans DEF Execute, NodesTyped
  <2>2. effects' = Set(effects, r, n, effects[r][n] + 1)
    BY <1>7 DEF Execute, Set
  <2>3. /\ NodesTyped(effects', 0..MaxAttempts)
        /\ \A q \in Runs : \A m \in Nodes(q) : q # r \/ m # n => effects'[q][m] = effects[q][m]
    <3> DEFINE v == effects[r][n] + 1
               S == 0..MaxAttempts
    <3> HIDE DEF v, S
    <3>1. NodesTyped(effects, S) /\ v \in S /\ effects' = Set(effects, r, n, v)
      BY <1>1, <2>1, <2>2 DEF v, S
    <3>2. /\ NodesTyped(effects', S)
          /\ \A q \in Runs : \A m \in Nodes(q) : q # r \/ m # n => effects'[q][m] = effects[q][m]
      BY <3>1, SetAt
    <3> QED
      BY <3>2 DEF S
  <2>4. /\ NodesTyped(step', Steps)
        /\ \A q \in Runs : \A m \in Nodes(q) : q # r \/ m # n => step'[q][m] = step[q][m]
    <3>1. step' = step \/ \E s \in Steps : step' = Set(step, r, n, s)
      BY <1>7 DEF Execute, Advance, Steps
    <3> QED
      BY <1>1, <3>1, SetAt
  <2>5. status' = status /\ route' = route
    BY <1>7 DEF Execute
  <2> QED
    BY <1>1, <2>3, <2>4, <2>5
<1>8. CASE StartChild(r, n) \/ JoinChild(r, n)
  BY <1>1, <1>8, SetAt DEF StartChild, JoinChild, Advance, Steps
<1>9. CASE Output(r, n)
  BY <1>1, <1>9, SetAt DEF Output, Show, Advance, Statuses, Steps, Ended
<1>10. CASE Traced(r, n) \/ Throw(r, n)
  BY <1>1, <1>10, SetAt DEF Traced, Throw, Advance, Steps
<1>11. CASE Fail(r, n)
  BY <1>1, <1>11, SetAt DEF Fail, Show, Advance, Statuses, Steps
<1> QED
  BY <1>2, <1>3, <1>4, <1>5, <1>6, <1>7, <1>8, <1>9, <1>10, <1>11 DEF NodeStep

\* It is none of a node that ended.
LEMMA StepIsLocal ==
  ASSUME GraphTypeOK, NEW r \in Runs, NEW n \in Nodes(r), NodeStep(r, n)
  PROVE  /\ GraphTypeOK'
         /\ step[r][n] \notin {"done", "failed", "abandoned"}
         /\ UNCHANGED <<decision, input, deciding, lost>>
<1>13. step[r][n] \notin {"done", "failed", "abandoned"}
  BY DEF NodeStep, At, Start, Authorize, Evaluate, Hear, AwaitInput, Execute, StartChild,
     JoinChild, Output, Traced, Fail, Throw
<1>14. UNCHANGED <<decision, input, deciding, lost>>
  BY DEF NodeStep, Start, Authorize, Evaluate, Hear, AwaitInput, Execute, StartChild,
     JoinChild, Output, Traced, Fail, Throw
<1>15. run' \in [Runs -> RunStates]
  BY DEF GraphTypeOK, RunStates, NodeStep, Start, Authorize, Evaluate, Hear, AwaitInput, Execute,
     StartChild, JoinChild, Output, Traced, Fail, Throw, Runs
<1>16. /\ approval' \in [Ids -> Approvals \cup {Unset}]
       /\ \A m \in Ids : approval'[m] # Unset =>
            \E q \in Runs : m \in Nodes(q) /\ approval'[m].key = Key(q, m)
  <2>1. CASE Evaluate(r, n)
    <3>1. n \in Ids /\ Key(r, n) \in Runs \X Ids
      BY DEF Ids, Runs, Key
    <3> DEFINE row == [key |-> Key(r, n), status |-> "PENDING"]
    <3>2. row \in Approvals /\ row.key = Key(r, n)
      BY <3>1 DEF Approvals
    <3>3. approval' = [approval EXCEPT ![n] = IF @ = Unset THEN row ELSE @]
      BY <2>1 DEF Evaluate
    <3> HIDE DEF row
    <3> QED
      BY <3>1, <3>2, <3>3 DEF GraphTypeOK
  <2>2. CASE ~ Evaluate(r, n)
    <3>1. approval' = approval
      BY <2>2 DEF NodeStep, Start, Authorize, Hear, AwaitInput, Execute, StartChild,
         JoinChild, Output, Traced, Fail, Throw
    <3> QED
      BY <3>1 DEF GraphTypeOK
  <2> QED
    BY <2>1, <2>2
<1>17. GraphTypeOK'
  BY StepTouchesOne, <1>14, <1>15, <1>16 DEF GraphTypeOK, Statuses, Steps, RunStates
<1> QED
  BY <1>13, <1>14, <1>17

LEMMA SetReads ==
  ASSUME NEW f, NEW S, NodesTyped(f, S), NEW r \in Runs, NEW n \in Nodes(r), NEW v
  PROVE  Set(f, r, n, v)[r][n] = v
  BY DEF NodesTyped, Set

\* Where a step takes its node, and what it rests on.
LEMMA StepPlaces ==
  ASSUME GraphTypeOK, NEW r \in Runs, NEW n \in Nodes(r), NodePlaced(r, n), NodeStep(r, n)
  PROVE  /\ NodePlaced(r, n)'
         /\ step[r][n] # "idle" => status'[r][n] \notin {"PENDING", "SKIPPED"}
         /\ step'[r][n] = "decision" => step[r][n] = "decision" \/ Evaluate(r, n)
         /\ step'[r][n] = "plain" =>
              step[r][n] = "plain" \/ Kind(r, n) = "plain" \/ decision[r][n] = "APPROVE"
         /\ step'[r][n] = "output" \/ status'[r][n] = "SUCCEEDED" =>
              \/ step[r][n] = "output" \/ status[r][n] = "SUCCEEDED"
              \/ Kind(r, n) = "gated" /\ effects'[r][n] > 0
              \/ Kind(r, n) = "plain" /\ effects'[r][n] > 0
              \/ Kind(r, n) = "approval" /\ decision[r][n] = "APPROVE"
              \/ Kind(r, n) = "subflow" /\ run[Child] = "COMPLETED"
              \/ Kind(r, n) \notin Called \cup {"approval", "subflow"}
         /\ effects'[r][n] \in Nat /\ effects[r][n] \in Nat
         /\ effects'[r][n] > 0 => effects[r][n] > 0 \/ step[r][n] = "plain"
         /\ effects[r][n] > 0 => effects'[r][n] > 0
<1> USE DEF NodePlaced, Gated, Called, Ended
<1>0. /\ NodesTyped(status, Statuses) /\ NodesTyped(step, Steps)
      /\ NodesTyped(effects, 0..MaxAttempts) /\ MaxAttempts \in Nat
  BY Plans DEF GraphTypeOK, Statuses, Steps
<1>1. effects[r][n] \in Nat /\ Kind(r, n) \in Kinds
  BY <1>0, Plans DEF NodesTyped
<1>2. CASE Start(r, n)
  BY <1>0, <1>1, <1>2, SetReads DEF Start, Show, Advance, At
<1>3. CASE Authorize(r, n)
  BY <1>0, <1>1, <1>3, SetReads DEF Authorize, Advance, At, Kinds
<1>4. CASE Evaluate(r, n)
  BY <1>0, <1>1, <1>4, SetReads DEF Evaluate, Show, Advance, At
<1>5. CASE Hear(r, n)
  BY <1>0, <1>1, <1>5, SetReads DEF Hear, Show, Advance, At
<1>6. CASE AwaitInput(r, n)
  BY <1>0, <1>1, <1>6, SetReads DEF AwaitInput, Show, Advance, At
<1>7. CASE Execute(r, n)
  <2>1. effects'[r][n] = effects[r][n] + 1
    BY <1>0, <1>7 DEF Execute, NodesTyped
  <2>2. step[r][n] = "plain" /\ step'[r][n] \in {"plain", "output", "abandoned"}
    BY <1>0, <1>7, SetReads DEF Execute, Advance
  <2>3. status' = status /\ status[r][n] \notin {"PENDING", "SKIPPED", "SUCCEEDED", "WAITING_APPROVAL"}
    BY <1>7, <2>2 DEF Execute
  <2> QED
    BY <1>1, <2>1, <2>2, <2>3
<1>8. CASE StartChild(r, n) \/ JoinChild(r, n)
  BY <1>0, <1>1, <1>8, SetReads DEF StartChild, JoinChild, Advance, At
<1>9. CASE Output(r, n)
  BY <1>0, <1>1, <1>9, SetReads DEF Output, Show, Advance, At
<1>10. CASE Traced(r, n) \/ Throw(r, n)
  BY <1>0, <1>1, <1>10, SetReads DEF Traced, Throw, Advance, At
<1>11. CASE Fail(r, n)
  BY <1>0, <1>1, <1>11, SetReads DEF Fail, Show, Advance
<1> QED
  BY <1>2, <1>3, <1>4, <1>5, <1>6, <1>7, <1>8, <1>9, <1>10, <1>11 DEF NodeStep

\* What a node that has started rests on does not change under a step of a node
\* that has not ended.
LEMMA OrderStays ==
  ASSUME GraphInv, NEW q \in Runs, NEW m \in Nodes(q),
         \A e \in Into(q, m) : /\ step[q][e.from] = "done" /\ status[q][e.from] \in Ended
                               /\ step'[q][e.from] = step[q][e.from]
                               /\ status'[q][e.from] = status[q][e.from]
                               /\ route'[q][e.from] = route[q][e.from]
  PROVE  /\ \A e \in Into(q, m) : step'[q][e.from] = "done" /\ status'[q][e.from] \in Ended
         /\ Active(q, m)' <=> Active(q, m)
<1>1. Active(q, m)' <=> \E e \in Into(q, m) :
         /\ status'[q][e.from] = "SUCCEEDED"
         /\ Kind(q, e.from) = "condition" => route'[q][e.from] = e.port
  BY DEF Active, Kind, Into
<1> QED
  BY <1>1 DEF Active

LEMMA StepOrdered ==
  ASSUME GraphInv, NEW r \in Runs, NEW n \in Nodes(r), NodeStep(r, n),
         NEW q \in Runs, NEW m \in Nodes(q)
  PROVE  NodeOrdered(q, m)'
<1>1. GraphTypeOK /\ NodePlaced(r, n) /\ NodeOrdered(q, m)
  BY DEF GraphInv
<1>2. step[r][n] # "done"
  BY <1>1, StepIsLocal
<1>3. \A e \in Into(q, m) : step[q][e.from] = "done" =>
         /\ status[q][e.from] \in Ended
         /\ step'[q][e.from] = step[q][e.from]
         /\ status'[q][e.from] = status[q][e.from]
         /\ route'[q][e.from] = route[q][e.from]
  <2> SUFFICES ASSUME NEW e \in Into(q, m), step[q][e.from] = "done"
               PROVE  /\ status[q][e.from] \in Ended
                      /\ step'[q][e.from] = step[q][e.from]
                      /\ status'[q][e.from] = status[q][e.from]
                      /\ route'[q][e.from] = route[q][e.from]
    OBVIOUS
  <2>1. e.from \in Nodes(q)
    BY EdgesWithin
  <2>2. NodePlaced(q, e.from)
    BY <2>1 DEF GraphInv
  <2>3. q # r \/ e.from # n
    BY <1>2
  <2> QED
    BY <1>1, <2>1, <2>2, <2>3, StepTouchesOne DEF NodePlaced
<1>4. CASE q # r \/ m # n
  <2>1. status'[q][m] = status[q][m]
    BY <1>1, <1>4, StepTouchesOne
  <2> SUFFICES ASSUME status[q][m] # "PENDING"
               PROVE  /\ \A e \in Into(q, m) : status'[q][e.from] \in Ended /\ step'[q][e.from] = "done"
                      /\ Kind(q, m) # "trigger" => (status[q][m] = "SKIPPED" <=> ~Active(q, m)')
    BY <2>1 DEF NodeOrdered, Kind, Into
  <2> QED
    BY <1>1, <1>3, OrderStays DEF NodeOrdered
<1>5. CASE q = r /\ m = n
  <2>1. CASE step[r][n] # "idle"
    <3>1. status[r][n] \notin {"PENDING", "SKIPPED"} /\ status'[r][n] \notin {"PENDING", "SKIPPED"}
      BY <1>1, <1>2, <2>1, StepPlaces DEF NodePlaced
    <3>2. /\ \A e \in Into(r, n) : status'[r][e.from] \in Ended /\ step'[r][e.from] = "done"
          /\ Kind(r, n) # "trigger" => Active(r, n)'
      BY <1>1, <1>3, <1>5, <3>1, OrderStays DEF NodeOrdered
    <3> QED
      BY <1>5, <3>1, <3>2 DEF NodeOrdered, Kind, Into
  <2>2. CASE step[r][n] = "idle"
    <3>1. Start(r, n)
      BY <2>2 DEF NodeStep, At, Authorize, Evaluate, Hear, AwaitInput, Execute, StartChild,
         JoinChild, Output, Traced, Fail, Throw
    <3>2. \A e \in Into(r, n) : step[r][e.from] = "done"
      BY <3>1, PredecessorsComeBefore DEF Start, Due
    <3>3. /\ \A e \in Into(r, n) : status'[r][e.from] \in Ended /\ step'[r][e.from] = "done"
          /\ Active(r, n)' <=> Active(r, n)
      BY <1>3, <1>5, <3>2, OrderStays
    <3>4. status'[r][n] = IF Active(r, n) \/ Kind(r, n) = "trigger" THEN "RUNNING" ELSE "SKIPPED"
      <4>1. NodesTyped(status, Statuses)
        BY <1>1 DEF GraphTypeOK, Statuses
      <4> QED
        BY <3>1, <4>1, SetReads DEF Start, Show
    <3> QED
      BY <1>5, <3>3, <3>4 DEF NodeOrdered, Kind, Into
  <2> QED
    BY <2>1, <2>2
<1> QED
  BY <1>4, <1>5

\* Most steps leave the rows at the Hub, and the runs, alone.
LEMMA RowsLeft ==
  ASSUME NEW r \in Runs, NEW n \in Nodes(r)
  PROVE  /\ NodeStep(r, n) => Evaluate(r, n) \/ approval' = approval
         /\ RunStep(r) \/ Abort(r) \/ Signals(r, n) \/ GiveInput(r, n) => approval' = approval
         /\ Decision(r, n) => (\E x \in Answers : Decide(r, n, x)) \/ approval' = approval
<1>1. NodeStep(r, n) => Evaluate(r, n) \/ approval' = approval
  BY DEF NodeStep, Start, Authorize, Hear, AwaitInput, Execute, StartChild, JoinChild, Output,
     Traced, Fail, Throw
<1>2. RunStep(r) \/ Abort(r) \/ Signals(r, n) \/ GiveInput(r, n) => approval' = approval
  BY DEF RunStep, Abort, Finish, Close, Signals, Signal, GiveInput
<1>3. Decision(r, n) => (\E x \in Answers : Decide(r, n, x)) \/ approval' = approval
  BY DEF Decision, LoseSignal
<1> QED
  BY <1>1, <1>2, <1>3

LEMMA RunsLeft ==
  ASSUME NEW r \in Runs, NEW n \in Nodes(r)
  PROVE  /\ NodeStep(r, n) => StartChild(r, n) \/ Throw(r, n) \/ run' = run
         /\ Decision(r, n) \/ Signals(r, n) \/ GiveInput(r, n) => run' = run
<1>1. NodeStep(r, n) => StartChild(r, n) \/ Throw(r, n) \/ run' = run
  BY DEF NodeStep, Start, Authorize, Evaluate, Hear, AwaitInput, Execute, JoinChild, Output,
     Traced, Fail
<1>2. Decision(r, n) \/ Signals(r, n) \/ GiveInput(r, n) => run' = run
  BY DEF Decision, Decide, LoseSignal, Signals, Signal, GiveInput
<1> QED
  BY <1>1, <1>2

\* A decision that the Hub recorded stays recorded.
LEMMA SaidStays ==
  ASSUME GraphTypeOK, GraphNext, NEW q \in Runs, NEW m \in Nodes(q), NEW d \in Answers, Said(q, m, d)
  PROVE  Said(q, m, d)'
<1>1. PICK o \in Ids : approval[o] = [key |-> Key(q, m), status |-> d]
  BY DEF Said
<1>2. approval[o] # Unset
  <2>1. Key(q, m) \in Runs \X Ids
    BY DEF Key, Ids, Runs
  <2>2. [key |-> Key(q, m), status |-> d] \in Approvals
    BY <2>1 DEF Approvals
  <2> QED
    BY <1>1, <2>2, UnsetIsNothing
<1>3. approval'[o] = approval[o]
  <2> SUFFICES ASSUME approval' # approval PROVE approval'[o] = approval[o]
    OBVIOUS
  <2>1. PICK r \in Runs : \E n \in Nodes(r) : Evaluate(r, n) \/ \E x \in Answers : Decide(r, n, x)
    <3>1. PICK r \in Runs : \/ RunStep(r) \/ Abort(r)
                            \/ \E n \in Nodes(r) :
                                 NodeStep(r, n) \/ Decision(r, n) \/ Signals(r, n) \/ GiveInput(r, n)
      BY DEF GraphNext
    <3>2. approval' # approval => \E n \in Nodes(r) : NodeStep(r, n) \/ Decision(r, n)
      BY <3>1, RowsLeft DEF RunStep, Abort, Finish, Close
    <3> QED
      BY <3>2, RowsLeft
  <2>2. PICK n \in Nodes(r) : Evaluate(r, n) \/ \E x \in Answers : Decide(r, n, x)
    BY <2>1
  <2>3. CASE Evaluate(r, n)
    BY <1>1, <1>2, <2>3 DEF Evaluate, GraphTypeOK
  <2>4. ASSUME NEW x \in Answers, Decide(r, n, x) PROVE approval'[o] = approval[o]
    <3>1. PICK p \in Ids : /\ approval[p] = [key |-> Key(r, n), status |-> "PENDING"]
                           /\ approval' = [approval EXCEPT ![p].status = x]
      BY <2>4 DEF Decide
    <3>2. p # o
      BY <1>1, <3>1 DEF Answers
    <3> QED
      BY <3>1, <3>2 DEF GraphTypeOK
  <2> QED
    BY <2>2, <2>3, <2>4
<1> QED
  BY <1>1, <1>3 DEF Said, Key

\* A run that completed stays so.
LEMMA CompletedStays ==
  ASSUME GraphTypeOK, GraphNext, NEW q \in Runs, run[q] = "COMPLETED"
  PROVE  run'[q] = "COMPLETED"
<1>1. PICK r \in Runs : \/ RunStep(r) \/ Abort(r)
                        \/ \E n \in Nodes(r) :
                             NodeStep(r, n) \/ Decision(r, n) \/ Signals(r, n) \/ GiveInput(r, n)
  BY DEF GraphNext
<1>2. CASE RunStep(r) \/ Abort(r)
  BY <1>2 DEF GraphTypeOK, RunStep, Abort, Finish, Close, Open
<1>3. CASE \E n \in Nodes(r) : NodeStep(r, n) \/ Decision(r, n) \/ Signals(r, n) \/ GiveInput(r, n)
  <2>1. run' = run \/ \E n \in Nodes(r) : StartChild(r, n) \/ Throw(r, n)
    BY <1>3, RunsLeft
  <2> QED
    BY <2>1 DEF StartChild, Throw, GraphTypeOK
<1> QED
  BY <1>1, <1>2, <1>3

LEMMA StepSaid ==
  ASSUME GraphInv, NEW r \in Runs, NEW n \in Nodes(r), NodeStep(r, n),
         NEW q \in Runs, NEW m \in Nodes(q)
  PROVE  NodeSaid(q, m)'
<1>1. GraphTypeOK /\ NodeSaid(q, m) /\ NodePlaced(q, m) /\ NodeWhole(q, m)
  BY DEF GraphInv
<1>2. UNCHANGED <<decision, deciding>>
  BY <1>1, StepIsLocal
<1>3. \A d \in Answers : Said(q, m, d) => Said(q, m, d)'
  BY <1>1, SaidStays DEF GraphNext
<1>4. decision[q][m] # Unset => decision[q][m] \in Answers
  BY <1>1 DEF GraphTypeOK, NodesTyped
<1>5. /\ \A d \in Answers : <<q, m, d>> \in deciding' => Said(q, m, d)'
      /\ decision'[q][m] # Unset => Said(q, m, decision[q][m])'
  BY <1>1, <1>2, <1>3, <1>4 DEF NodeSaid
<1>6. decision[q][m] = "APPROVE" => Said(q, m, "APPROVE")
  BY <1>1, UnsetIsNothing DEF NodeSaid, Answers
<1>7. /\ Kind(q, m) = "gated" /\ (step'[q][m] = "plain" \/ effects'[q][m] > 0) => Said(q, m, "APPROVE")
      /\ Kind(q, m) = "approval" /\ (step'[q][m] = "output" \/ status'[q][m] = "SUCCEEDED")
           => Said(q, m, "APPROVE")
  <2>1. CASE q # r \/ m # n
    BY <1>1, <2>1, StepTouchesOne DEF NodeSaid
  <2>2. CASE q = r /\ m = n
    BY <1>1, <1>6, <2>2, StepPlaces DEF NodeSaid, Called
  <2> QED
    BY <2>1, <2>2
<1>8. /\ Kind(q, m) = "gated" /\ (step'[q][m] = "plain" \/ effects'[q][m] > 0) => Said(q, m, "APPROVE")'
      /\ Kind(q, m) = "approval" /\ (step'[q][m] = "output" \/ status'[q][m] = "SUCCEEDED")
           => Said(q, m, "APPROVE")'
  BY <1>3, <1>7 DEF Answers
<1> QED
  BY <1>2, <1>5, <1>8 DEF NodeSaid, Kind, Said, Key

LEMMA StepWhole ==
  ASSUME GraphInv, NEW r \in Runs, NEW n \in Nodes(r), NodeStep(r, n), NEW q \in Runs
  PROVE  RunWhole(q)' /\ \A m \in Nodes(q) : NodeWhole(q, m)'
<1>1. GraphTypeOK /\ GraphNext /\ RunWhole(q) /\ NodePlaced(r, n)
  BY DEF GraphInv, GraphNext
<1>2. RunWhole(q)'
  <2>1. run'[q] \in {"finishing", "COMPLETED"} => run[q] = run'[q]
    BY <1>1, RunsLeft DEF GraphTypeOK, StartChild, Throw
  <2>2. SUFFICES ASSUME run[q] \in {"finishing", "COMPLETED"}, NEW m \in Nodes(q)
                 PROVE  step'[q][m] = "done"
    BY <2>1 DEF RunWhole
  <2>3. step[q][m] = "done" /\ (q # r \/ m # n)
    BY <1>1, <2>2, StepIsLocal DEF RunWhole
  <2> QED
    BY <1>1, <2>3, StepTouchesOne
<1>3. ASSUME NEW m \in Nodes(q) PROVE NodeWhole(q, m)'
  <2>1. NodeWhole(q, m) /\ Child \in Runs
    BY DEF GraphInv, Runs
  <2>2. run[Child] = "COMPLETED" => run'[Child] = "COMPLETED"
    BY <1>1, <2>1, CompletedStays
  <2>3. CASE q # r \/ m # n
    BY <1>1, <2>1, <2>2, <2>3, StepTouchesOne DEF NodeWhole, Kind
  <2>4. CASE q = r /\ m = n
    BY <1>1, <2>1, <2>2, <2>4, StepPlaces DEF NodeWhole, Kind, Called
  <2> QED
    BY <2>3, <2>4
<1> QED
  BY <1>2, <1>3

LEMMA NodeStepInv ==
  ASSUME GraphInv, NEW r \in Runs, NEW n \in Nodes(r), NodeStep(r, n)
  PROVE  GraphInv'
<1>1. GraphTypeOK /\ GraphTypeOK'
  BY StepIsLocal DEF GraphInv
<1>2. ASSUME NEW q \in Runs, NEW m \in Nodes(q) PROVE NodePlaced(q, m)'
  <2>1. NodePlaced(q, m)
    BY DEF GraphInv
  <2>2. CASE q # r \/ m # n
    BY <1>1, <2>1, <2>2, StepTouchesOne DEF NodePlaced, Kind
  <2>3. CASE q = r /\ m = n
    BY <1>1, <2>1, <2>3, StepPlaces
  <2> QED
    BY <2>2, <2>3
<1> QED
  BY <1>1, <1>2, StepOrdered, StepSaid, StepWhole DEF GraphInv, Nodes

\* Steps that leave the nodes alone.
LEMMA NodesLeft ==
  ASSUME GraphInv, GraphNext, UNCHANGED <<status, step, route, effects>>
  PROVE  \A q \in Runs : \A m \in Nodes(q) :
           NodePlaced(q, m)' /\ NodeOrdered(q, m)' /\ NodeWhole(q, m)'
<1> SUFFICES ASSUME NEW q \in Runs, NEW m \in Nodes(q)
             PROVE  NodePlaced(q, m)' /\ NodeOrdered(q, m)' /\ NodeWhole(q, m)'
  BY DEF Nodes
<1>1. GraphTypeOK /\ NodePlaced(q, m) /\ NodeOrdered(q, m) /\ NodeWhole(q, m) /\ Child \in Runs
  BY DEF GraphInv, Runs
<1>2. NodePlaced(q, m)'
  BY <1>1 DEF NodePlaced, Kind
<1>3. NodeOrdered(q, m)'
  BY <1>1 DEF NodeOrdered, Active, Kind, Into
<1>4. NodeWhole(q, m)'
  BY <1>1, CompletedStays DEF NodeWhole, Kind
<1> QED
  BY <1>2, <1>3, <1>4

LEMMA SaidLeft ==
  ASSUME GraphInv, UNCHANGED <<status, step, effects, decision, approval>>, deciding' \subseteq deciding
  PROVE  \A q \in Runs : \A m \in Nodes(q) : NodeSaid(q, m)'
<1> SUFFICES ASSUME NEW q \in Runs, NEW m \in Nodes(q) PROVE NodeSaid(q, m)'
  BY DEF Nodes
<1> QED
  BY DEF GraphInv, NodeSaid, Said, Key, Kind

LEMMA RunStepInv ==
  ASSUME GraphInv, NEW r \in Runs, RunStep(r) \/ Abort(r)
  PROVE  GraphInv'
<1>1. GraphTypeOK /\ GraphNext /\ \A q \in Runs : RunWhole(q)
  BY DEF GraphInv, GraphNext
<1>2. UNCHANGED <<status, step, route, decision, input, effects, approval, deciding, lost>>
  BY DEF RunStep, Abort, Finish, Close
<1>3. GraphTypeOK'
  <2>1. run' \in [Runs -> RunStates]
    BY <1>1 DEF GraphTypeOK, RunStep, Abort, Finish, Close, RunStates, Closed
  <2> QED
    BY <1>1, <1>2, <2>1 DEF GraphTypeOK, RunStates
<1>4. ASSUME NEW q \in Runs PROVE RunWhole(q)'
  <2>1. run'[q] \in {"finishing", "COMPLETED"} =>
           run[q] \in {"finishing", "COMPLETED"} \/ \A n \in Nodes(q) : step[q][n] = "done"
    BY <1>1 DEF GraphTypeOK, RunStep, Abort, Finish, Close
  <2> QED
    BY <1>1, <1>2, <2>1 DEF RunWhole, Nodes
<1> QED
  BY <1>1, <1>2, <1>3, <1>4, NodesLeft, SaidLeft DEF GraphInv, Nodes

LEMMA HumanStepInv ==
  ASSUME GraphInv, NEW r \in Runs, NEW n \in Nodes(r),
         Decision(r, n) \/ Signals(r, n) \/ GiveInput(r, n)
  PROVE  GraphInv'
<1>1. GraphTypeOK /\ GraphNext /\ n \in Ids
  BY DEF GraphInv, GraphNext, Ids, Runs
<1>2. UNCHANGED <<run, status, step, route, effects>>
  BY DEF Decision, Decide, LoseSignal, Signals, Signal, GiveInput
<1>3. \A q \in Runs : RunWhole(q)'
  BY <1>2 DEF GraphInv, RunWhole, Nodes
<1>4. GraphTypeOK' /\ \A q \in Runs : \A m \in Nodes(q) : NodeSaid(q, m)'
  <2>1. CASE GiveInput(r, n)
    <3>1. GraphTypeOK'
      <4>1. NodesTyped(input', BOOLEAN)
        BY <1>1, <2>1, SetAt DEF GraphTypeOK, GiveInput
      <4> QED
        BY <1>1, <1>2, <2>1, <4>1 DEF GraphTypeOK, GiveInput
    <3> QED
      BY <3>1, <1>2, <2>1, SaidLeft DEF GiveInput
  <2>2. ASSUME NEW d \in Answers, LoseSignal(r, n, d)
        PROVE  GraphTypeOK' /\ \A q \in Runs : \A m \in Nodes(q) : NodeSaid(q, m)'
    <3>1. GraphTypeOK'
      BY <1>1, <1>2, <2>2 DEF GraphTypeOK, LoseSignal
    <3> QED
      BY <3>1, <1>2, <2>2, SaidLeft DEF LoseSignal
  <2>3. ASSUME NEW d \in Answers, Signal(r, n, d)
        PROVE  GraphTypeOK' /\ \A q \in Runs : \A m \in Nodes(q) : NodeSaid(q, m)'
    <3>1. NodesTyped(decision, Answers \cup {Unset})
      BY <1>1 DEF GraphTypeOK
    <3>2. NodesTyped(decision', Answers \cup {Unset})
      BY <2>3, <3>1, SetAt DEF Signal
    <3>3. GraphTypeOK'
      BY <1>1, <1>2, <2>3, <3>2 DEF GraphTypeOK, Signal
    <3>4. ASSUME NEW q \in Runs, NEW m \in Nodes(q) PROVE NodeSaid(q, m)'
      <4>1. \A x : Said(q, m, x)' <=> Said(q, m, x)
        BY <2>3 DEF Signal, Said, Key
      <4>2. \/ decision'[q][m] = decision[q][m]
            \/ q = r /\ m = n /\ decision'[q][m] = d
        BY <2>3, <3>1, SetAt DEF Signal
      <4>3. NodeSaid(q, m) /\ Said(r, n, d)
        BY <2>3 DEF GraphInv, NodeSaid, Signal
      <4>4. decision'[q][m] # Unset => Said(q, m, decision'[q][m])
        BY <4>2, <4>3 DEF NodeSaid
      <4>5. deciding' \subseteq deciding
        BY <2>3 DEF Signal
      <4>6. /\ \A x \in Answers : <<q, m, x>> \in deciding' => Said(q, m, x)'
            /\ decision'[q][m] # Unset => Said(q, m, decision[q][m])'
        BY <4>1, <4>3, <4>4, <4>5, <2>3 DEF NodeSaid, Said, Key, Signal
      <4> QED
        BY <1>2, <4>1, <4>3, <4>6 DEF NodeSaid, Kind
    <3> QED
      BY <3>3, <3>4 DEF Nodes
  <2>4. ASSUME NEW d \in Answers, Decide(r, n, d)
        PROVE  GraphTypeOK' /\ \A q \in Runs : \A m \in Nodes(q) : NodeSaid(q, m)'
    <3>1. PICK o \in Ids : /\ approval[o] # Unset
                           /\ approval[o] = [key |-> Key(r, n), status |-> "PENDING"]
                           /\ approval' = [approval EXCEPT ![o].status = d]
      BY <2>4 DEF Decide
    <3>2. approval'[o] = [key |-> Key(r, n), status |-> d] /\ approval'[o] \in Approvals
      BY <1>1, <3>1 DEF GraphTypeOK, Approvals, Answers
    <3>3. GraphTypeOK'
      <4>1. /\ approval' \in [Ids -> Approvals \cup {Unset}]
            /\ \A m \in Ids : approval'[m] # Unset =>
                 \E q \in Runs : m \in Nodes(q) /\ approval'[m].key = Key(q, m)
        BY <1>1, <3>1, <3>2 DEF GraphTypeOK
      <4>2. deciding' \subseteq Runs \X Ids \X Answers
        BY <1>1, <2>4 DEF GraphTypeOK, Decide
      <4> QED
        BY <1>1, <1>2, <2>4, <4>1, <4>2 DEF GraphTypeOK, Decide
    <3>4. ASSUME NEW q \in Runs, NEW m \in Nodes(q) PROVE NodeSaid(q, m)'
      <4>1. NodeSaid(q, m) /\ (decision[q][m] # Unset => decision[q][m] \in Answers)
        BY <1>1 DEF GraphInv, GraphTypeOK, NodesTyped
      <4>2. \A x \in Answers : Said(q, m, x) => Said(q, m, x)'
        BY <1>1, SaidStays
      <4>3. Said(r, n, d)'
        BY <3>2 DEF Said, Key
      <4>4. \A x \in Answers : <<q, m, x>> \in deciding' => Said(q, m, x)'
        BY <2>4, <4>1, <4>2, <4>3 DEF NodeSaid, Decide
      <4> QED
        BY <1>2, <2>4, <4>1, <4>2, <4>4 DEF NodeSaid, Kind, Decide, Answers
    <3> QED
      BY <3>3, <3>4 DEF Nodes
  <2> QED
    BY <2>1, <2>2, <2>3, <2>4 DEF Decision, Signals
<1> QED
  BY <1>1, <1>2, <1>3, <1>4, NodesLeft DEF GraphInv, Nodes

LEMMA NextGraphInv == GraphInv /\ [GraphNext]_graphVars => GraphInv'
<1> SUFFICES ASSUME GraphInv, [GraphNext]_graphVars PROVE GraphInv'
  OBVIOUS
<1>1. CASE GraphNext
  <2>1. PICK r \in Runs :
          \/ RunStep(r) \/ Abort(r)
          \/ \E n \in Nodes(r) : NodeStep(r, n) \/ Decision(r, n) \/ Signals(r, n) \/ GiveInput(r, n)
    BY <1>1 DEF GraphNext
  <2> QED
    BY <2>1, NodeStepInv, RunStepInv, HumanStepInv
<1>2. CASE UNCHANGED graphVars
  <2>1. UNCHANGED <<run, status, step, route, decision, input, effects, approval, deciding, lost>>
    BY <1>2 DEF graphVars
  <2>2. GraphTypeOK' /\ \A r \in Runs : RunWhole(r)'
    BY <2>1 DEF GraphInv, GraphTypeOK, RunWhole, Nodes
  <2>3. ASSUME NEW r \in Runs, NEW n \in Nodes(r)
        PROVE  (NodePlaced(r, n) /\ NodeOrdered(r, n) /\ NodeWhole(r, n))'
    BY <2>1 DEF GraphInv, NodePlaced, NodeOrdered, NodeWhole, Active, Kind, Into
  <2>4. \A r \in Runs : \A n \in Nodes(r) : NodeSaid(r, n)'
    BY <2>1, SaidLeft
  <2> QED
    BY <2>2, <2>3, <2>4 DEF GraphInv, Nodes
<1> QED
  BY <1>1, <1>2

\* executeNode, the slices and the signals keep the inductive invariant.
THEOREM GraphInvariant == GraphSpec => []GraphInv
  BY InitGraphInv, NextGraphInv, PTL DEF GraphSpec

\* No node of any acyclic graph leaves PENDING before all it has an edge from
\* ended well, and it is skipped exactly when none of its edges is active.
THEOREM Ordered == GraphSpec => []OrderRespected
<1>1. GraphInv => OrderRespected
  BY DEF GraphInv, OrderRespected, NodeOrdered
<1> QED
  BY <1>1, GraphInvariant, PTL

\* A gated service is called, and an approval passed, only with an APPROVE that
\* the Hub holds under the key of that run and node.
THEOREM GatesHeld == GraphSpec => []GateRespected
<1>1. GraphInv => GateRespected
  BY DEF GraphInv, GateRespected, NodeSaid, Said
<1> QED
  BY <1>1, GraphInvariant, PTL

\* A completed run left nothing undone: services were called, its subflow
\* completed.
THEOREM Whole == GraphSpec => []CompletedIsWhole
<1>1. GraphInv => CompletedIsWhole
  <2> SUFFICES ASSUME GraphInv, NEW r \in Runs, run[r] = "COMPLETED", NEW n \in Nodes(r)
               PROVE  /\ status[r][n] \in Ended
                      /\ status[r][n] = "SUCCEEDED" /\ Kind(r, n) \in {"gated", "plain"} => effects[r][n] > 0
                      /\ status[r][n] = "SUCCEEDED" /\ Kind(r, n) = "subflow" => run[Child] = "COMPLETED"
    BY DEF CompletedIsWhole
  <2> QED
    BY DEF GraphInv, RunWhole, NodePlaced, NodeWhole, Called
<1> QED
  BY <1>1, GraphInvariant, PTL

LEMMA InitRowsOwned == GraphInit => RowsOwned
  BY DEF GraphInit, RowsOwned, PerNode

LEMMA NextRowsOwned == GraphInv /\ RowsOwned /\ [GraphNext]_graphVars => RowsOwned'
<1> SUFFICES ASSUME GraphInv, RowsOwned, [GraphNext]_graphVars PROVE RowsOwned'
  OBVIOUS
<1>1. GraphTypeOK
  BY DEF GraphInv
<1>2. CASE UNCHANGED <<step, approval>>
  BY <1>2 DEF RowsOwned, Kind, Nodes, Key, Ids, Runs
<1>3. ASSUME NEW r \in Runs, NEW n \in Nodes(r), Evaluate(r, n) PROVE RowsOwned'
  <2> DEFINE row == [key |-> Key(r, n), status |-> "PENDING"]
  <2>1. n \in Ids /\ Key(r, n) \in Runs \X Ids
    BY DEF Ids, Runs, Key
  <2>2. row # Unset /\ row.key = Key(r, n)
    BY <2>1, UnsetIsNothing DEF Approvals
  <2>3. approval' = [approval EXCEPT ![n] = IF @ = Unset THEN row ELSE @]
    BY <1>3 DEF Evaluate
  <2> HIDE DEF row
  <2>4. Kind(r, n) \in Gated
    BY <1>3 DEF Evaluate, At, GraphInv, NodePlaced
  <2>5. /\ approval'[n] # Unset
        /\ \A o \in Ids : approval[o] # Unset => approval'[o] = approval[o]
        /\ \A o \in Ids : approval'[o] # Unset =>
             \/ approval'[o] = approval[o]
             \/ o = n /\ approval'[o] = row
    BY <1>1, <2>1, <2>2, <2>3 DEF GraphTypeOK
  <2>6. \A q \in Runs : \A m \in Nodes(q) : q # r \/ m # n => step'[q][m] = step[q][m]
    BY <1>1, <1>3, StepTouchesOne DEF NodeStep
  <2>7. ASSUME NEW o \in Ids, approval'[o] # Unset
        PROVE  \E q \in Runs : o \in Nodes(q) /\ Kind(q, o) \in Gated /\ approval'[o].key = Key(q, o)
    BY <2>2, <2>4, <2>5, <2>7 DEF RowsOwned
  <2>8. ASSUME NEW q \in Runs, NEW m \in Nodes(q), step'[q][m] = "decision"
        PROVE  approval'[m] # Unset
    <3>1. m \in Ids
      BY DEF Ids, Runs
    <3> QED
      BY <2>5, <2>6, <2>8, <3>1 DEF RowsOwned
  <2> QED
    BY <2>7, <2>8 DEF RowsOwned, Kind, Nodes, Key, Ids, Runs
<1>4. ASSUME NEW r \in Runs, NEW n \in Nodes(r), NodeStep(r, n), ~ Evaluate(r, n) PROVE RowsOwned'
  <2>1. approval' = approval
    BY <1>4, RowsLeft
  <2>2. \A q \in Runs : \A m \in Nodes(q) : step'[q][m] = "decision" => step[q][m] = "decision"
    <3>1. NodePlaced(r, n)
      BY DEF GraphInv
    <3> QED
      BY <1>1, <1>4, <3>1, StepTouchesOne, StepPlaces
  <2> QED
    BY <2>1, <2>2 DEF RowsOwned, Kind, Nodes, Key, Ids, Runs
<1>5. ASSUME NEW r \in Runs, NEW n \in Nodes(r), NEW d \in Answers, Decide(r, n, d) PROVE RowsOwned'
  <2>1. PICK p \in Ids : /\ approval[p] # Unset
                         /\ approval' = [approval EXCEPT ![p].status = d]
    BY <1>5 DEF Decide
  <2>2. ASSUME NEW o \in Ids
        PROVE  /\ approval'[o] # Unset => approval[o] # Unset
               /\ approval[o] # Unset => approval'[o] # Unset /\ approval'[o].key = approval[o].key
    <3>1. approval[p] \in Approvals /\ approval'[p] = [approval[p] EXCEPT !.status = d]
      BY <1>1, <2>1 DEF GraphTypeOK
    <3>2. approval'[p] \in Approvals /\ approval'[p].key = approval[p].key
      BY <3>1 DEF Approvals
    <3>3. o # p => approval'[o] = approval[o]
      BY <1>1, <2>1 DEF GraphTypeOK
    <3> QED
      BY <2>1, <3>2, <3>3, UnsetIsNothing
  <2>3. step' = step
    BY <1>5 DEF Decide
  <2>4. \A q \in Runs : Nodes(q) \subseteq Ids
    BY DEF Ids, Runs
  <2>5. \A o \in Ids : approval'[o] # Unset =>
           \E q \in Runs : o \in Nodes(q) /\ Kind(q, o) \in Gated /\ approval'[o].key = Key(q, o)
    <3> SUFFICES ASSUME NEW o \in Ids, approval'[o] # Unset
                 PROVE  \E q \in Runs : o \in Nodes(q) /\ Kind(q, o) \in Gated /\ approval'[o].key = Key(q, o)
      OBVIOUS
    <3>1. approval[o] # Unset /\ approval'[o].key = approval[o].key
      BY <2>2
    <3> QED
      BY <3>1 DEF RowsOwned
  <2>6. \A q \in Runs : \A m \in Nodes(q) : step'[q][m] = "decision" => approval'[m] # Unset
    <3> SUFFICES ASSUME NEW q \in Runs, NEW m \in Nodes(q), step[q][m] = "decision"
                 PROVE  approval'[m] # Unset
      BY <2>3
    <3>1. m \in Ids /\ approval[m] # Unset
      BY <2>4 DEF RowsOwned
    <3> QED
      BY <2>2, <3>1
  <2> QED
    BY <2>5, <2>6 DEF RowsOwned, Kind, Nodes, Key, Ids, Runs
<1>6. ASSUME NEW r \in Runs, NEW n \in Nodes(r), Decision(r, n) \/ Signals(r, n) \/ GiveInput(r, n)
      PROVE  RowsOwned'
  <2>1. (\E d \in Answers : Decide(r, n, d)) \/ approval' = approval
    BY <1>6, RowsLeft
  <2>2. step' = step
    BY <1>6 DEF Decision, Decide, LoseSignal, Signals, Signal, GiveInput
  <2> QED
    BY <1>2, <1>5, <2>1, <2>2
<1>7. ASSUME NEW r \in Runs, RunStep(r) \/ Abort(r) PROVE RowsOwned'
  BY <1>2, <1>7 DEF RunStep, Abort, Finish, Close
<1>8. CASE UNCHANGED graphVars
  BY <1>2, <1>8 DEF graphVars
<1> QED
  BY <1>3, <1>4, <1>6, <1>7, <1>8 DEF GraphNext

\* A node that waits has a row at the Hub by which it can be decided, when the
\* ids of approvals differ; with an id that is shared TLC refutes it.
THEOREM Decidable == ASSUME ApprovalIdsDiffer PROVE GraphSpec => []WaitingIsDecidable
<1>1. GraphInv /\ RowsOwned => WaitingIsDecidable
  <2> SUFFICES ASSUME GraphInv, RowsOwned, NEW r \in Runs, NEW n \in Nodes(r), status[r][n] = "WAITING_APPROVAL"
               PROVE  \E o \in Ids : approval[o] # Unset /\ approval[o].key = Key(r, n)
    BY DEF WaitingIsDecidable
  <2>1. n \in Ids /\ Kind(r, n) \in Gated /\ approval[n] # Unset
    BY DEF GraphInv, NodePlaced, RowsOwned, Ids, Runs
  <2>2. PICK q \in Runs : n \in Nodes(q) /\ Kind(q, n) \in Gated /\ approval[n].key = Key(q, n)
    BY <2>1 DEF RowsOwned
  <2>3. q = r
    BY <2>1, <2>2, ApprovalIdsDiffer DEF ApprovalIdsDiffer
  <2> QED
    BY <2>1, <2>2, <2>3
<1>2. GraphSpec => []RowsOwned
  BY InitRowsOwned, NextRowsOwned, GraphInvariant, PTL DEF GraphSpec
<1> QED
  BY <1>1, <1>2, GraphInvariant, PTL

-----------------------------------------------------------------------------
(* The schedules of the time triggers.                                      *)

USE Bounds, NoneIsNothing
USE DEF Rows, Schedules, Requests, PCs, Reconciling

\* What a handler that awaits the Hub knows.  A create has its id for itself;
\* a switch that still names the revision of the row pinned the row's plan.
Creates(e) == pc[e] = "authorize" /\ request[e].kind = "create"
Switches(e) == pc[e] = "authorize" /\ request[e].kind = "switch"

EditKnows(e) ==
  /\ pc[e] = "idle" <=> request[e] = None
  /\ pc[e] = "authorize" => plan[e] \in Contents
  /\ pc[e] = "authorize" /\ request[e].kind # "switch" => plan[e] = request[e].content
  /\ Creates(e) => trigger[Of(e)] = None /\ \A d \in Edits \ {e} : request[d] # None => Of(d) # Of(e)
  /\ pc[e] # "idle" /\ ~Creates(e) => trigger[Of(e)] # None
  /\ Switches(e) =>
       /\ request[e].expected <= trigger[Of(e)].revision
       /\ trigger[Of(e)].revision = request[e].expected => plan[e] = trigger[Of(e)].content

\* Every definition that is scheduled, or on its way to be, was given.
Given ==
  /\ \A t \in Triggers : trigger[t] # None => Options(trigger[t].content, trigger[t]) \in given[t]
  /\ \A t \in Triggers : schedule[t] # None => schedule[t] \in given[t]
  /\ \A e \in Edits : pc[e] \in Reconciling => target[e] \in given[Of(e)]
  /\ \A w \in late : w[2] \in given[w[1]]
  /\ \A o \in occurrence : o.as \in given[o.trigger] /\ ~o.as.paused

\* A trigger of which nothing went wrong has at most one reconciliation under
\* way, to its row, and without one agrees with its schedule.
Healthy(t) ==
  /\ \A d, e \in ReconcilingOf(t) : d = e
  /\ \A e \in ReconcilingOf(t) : target[e] = Options(trigger[t].content, trigger[t])
  /\ ReconcilingOf(t) = {} => Agrees(t)

Settling ==
  /\ up => unsynced = {}
  /\ ~up => \A e \in Edits : pc[e] = "idle"
  /\ \A t \in Triggers : t \notin failed \cup raced \cup unsynced => Healthy(t)

\* The inductive invariant.
SchedulesInv == TypeOK /\ (\A e \in Edits : EditKnows(e)) /\ Given /\ Settling

LEMMA InitSchedulesInv == Init => SchedulesInv
<1> SUFFICES ASSUME Init PROVE SchedulesInv
  OBVIOUS
<1>1. TypeOK
  BY DEF Init, TypeOK, Idle, Occurrences
<1>2. \A e \in Edits : EditKnows(e)
  BY DEF Init, EditKnows, Idle, Creates, Switches
<1>3. Given
  BY DEF Init, Given, Idle
<1>4. Settling
  BY DEF Init, Settling, Idle, Healthy, ReconcilingOf, Agrees
<1> QED
  BY <1>1, <1>2, <1>3, <1>4 DEF SchedulesInv

-----------------------------------------------------------------------------
\* What a request says of its trigger.
LEMMA RequestShape ==
  ASSUME NEW t \in Triggers, NEW q \in EditRequests(t), TypeOK
  PROVE  /\ q \in Requests /\ q.trigger = t
         /\ q.kind \in {"create", "update", "switch"}
         /\ q.kind = "create" <=> trigger[t] = None
         /\ q.kind # "switch" => q.content \in Contents
         /\ q.kind # "create" => q.expected \in Nat /\ q.expected <= trigger[t].revision
<1>1. trigger[t] \in Rows \cup {None}
  BY DEF TypeOK
<1>2. CASE trigger[t] = None
  BY <1>2 DEF EditRequests
<1>3. CASE trigger[t] # None
  <2>1. trigger[t].revision \in Nat
    BY <1>1, <1>3
  <2> QED
    BY <1>3, <2>1 DEF EditRequests
<1> QED
  BY <1>2, <1>3

\* A request under way names a trigger.
LEMMA Named ==
  ASSUME TypeOK, NEW e \in Edits, request[e] # None
  PROVE  /\ Of(e) \in Triggers /\ request[e].kind \in {"create", "update", "switch"}
         /\ request[e].kind # "switch" => request[e].content \in Contents
         /\ request[e].kind # "create" => request[e].expected \in Nat
         /\ request[e].kind # "update" => request[e].enabled \in BOOLEAN
         /\ request[e].enabled \in BOOLEAN
BY DEF TypeOK, Of

\* The options of a row are a schedule.
LEMMA OptionsType ==
  ASSUME NEW row \in Rows, NEW c \in Contents
  PROVE  Options(c, row) \in Schedules
BY DEF Options

\* What an edit that is not e keeps, when only e moved.
LEMMA AnswerType ==
  ASSUME TypeOK, NEW e \in Edits, Answer(e)
  PROVE  /\ request' \in [Edits -> Requests \cup {None}] /\ pc' \in [Edits -> PCs]
         /\ plan' \in [Edits -> Contents \cup {None}] /\ target' \in [Edits -> Schedules \cup {None}]
         /\ found' \in [Edits -> BOOLEAN]
         /\ pc'[e] = "idle" /\ request'[e] = None
         /\ \A d \in Edits \ {e} : /\ pc'[d] = pc[d] /\ request'[d] = request[d] /\ plan'[d] = plan[d]
                                   /\ target'[d] = target[d]
BY DEF Answer, Goto, TypeOK

\* An answer changes nothing of what the other edits know.
LEMMA AnswerKnows ==
  ASSUME TypeOK, NEW e \in Edits, Answer(e), UNCHANGED trigger, \A d \in Edits : EditKnows(d)
  PROVE  \A d \in Edits : EditKnows(d)'
<1>1. EditKnows(e)'
  BY AnswerType DEF EditKnows, Creates, Switches
<1>2. ASSUME NEW d \in Edits \ {e} PROVE EditKnows(d)'
  BY AnswerType DEF EditKnows, Creates, Switches, Of
<1> QED
  BY <1>1, <1>2

LEMMA BeginInv ==
  ASSUME SchedulesInv, NEW t \in Triggers, NEW e \in Edits, NEW q \in EditRequests(t), Begin(e, q)
  PROVE  SchedulesInv'
<1>1. /\ q \in Requests /\ q.trigger = t /\ q.kind \in {"create", "update", "switch"}
      /\ q.kind = "create" <=> trigger[t] = None
      /\ q.kind # "switch" => q.content \in Contents
      /\ q.kind # "create" => q.expected \in Nat /\ q.expected <= trigger[t].revision
  BY RequestShape DEF SchedulesInv
<1>2. /\ request' = [request EXCEPT ![e] = q] /\ pc' = [pc EXCEPT ![e] = "authorize"]
      /\ pc[e] = "idle" /\ request[e] = None /\ q # None /\ up
      /\ UNCHANGED <<trigger, schedule, target, found, late, up, unsynced, occurrence, bounds, history>>
      /\ q.kind = "create" => \A d \in Edits : request[d] # None => Of(d) # q.trigger
  BY <1>1 DEF Begin, Goto, SchedulesInv, EditKnows
<1>3. plan' = [plan EXCEPT ![e] = IF q.kind = "switch" THEN trigger[t].content ELSE q.content]
      /\ (q.kind = "switch" => trigger[t].content \in Contents)
  BY <1>1 DEF Begin, SchedulesInv, TypeOK
<1>4. TypeOK'
  <2>1. request' \in [Edits -> Requests \cup {None}] /\ pc' \in [Edits -> PCs]
    BY <1>1, <1>2 DEF SchedulesInv, TypeOK
  <2>2. plan' \in [Edits -> Contents \cup {None}]
    BY <1>1, <1>3 DEF SchedulesInv, TypeOK
  <2> QED
    BY <1>2, <2>1, <2>2 DEF SchedulesInv, TypeOK, bounds, history
<1>5. pc'[e] = "authorize" /\ request'[e] = q /\ plan'[e] = (IF q.kind = "switch" THEN trigger[t].content ELSE q.content)
  BY <1>2, <1>3 DEF SchedulesInv, TypeOK
<1>6. \A d \in Edits \ {e} : pc'[d] = pc[d] /\ request'[d] = request[d] /\ plan'[d] = plan[d] /\ target'[d] = target[d]
  BY <1>2, <1>3 DEF SchedulesInv, TypeOK
<1>7. EditKnows(e)'
  BY <1>1, <1>2, <1>3, <1>5, <1>6 DEF EditKnows, Creates, Switches, Of
<1>8. ASSUME NEW d \in Edits \ {e} PROVE EditKnows(d)'
  <2>1. EditKnows(d)
    BY DEF SchedulesInv
  <2>2. Creates(d) => trigger[Of(d)] = None /\ (q.trigger # Of(d))
    BY <1>1, <1>2, <2>1 DEF EditKnows, Creates
  <2> QED
    BY <1>1, <1>2, <1>5, <1>6, <2>1, <2>2 DEF EditKnows, Creates, Switches, Of
<1>9. \A s \in Triggers : ReconcilingOf(s)' = ReconcilingOf(s)
  BY <1>2, <1>5, <1>6 DEF ReconcilingOf, Of
<1>10. Given'
  BY <1>2, <1>5, <1>6 DEF SchedulesInv, Given, Of, Options, history
<1>11. Settling'
  BY <1>2, <1>9 DEF SchedulesInv, Settling, Healthy, Agrees, Options, history
<1> QED
  BY <1>4, <1>7, <1>8, <1>10, <1>11 DEF SchedulesInv

LEMMA RefuseInv ==
  ASSUME SchedulesInv, NEW e \in Edits, Refuse(e)
  PROVE  SchedulesInv'
<1>1. /\ Answer(e) /\ pc[e] = "authorize"
      /\ UNCHANGED <<trigger, schedule, late, up, unsynced, occurrence, bounds, history>>
  BY DEF Refuse
<1>2. TypeOK'
  BY <1>1, AnswerType DEF SchedulesInv, TypeOK, bounds, history
<1>3. \A d \in Edits : EditKnows(d)'
  BY <1>1, AnswerKnows DEF SchedulesInv
<1>4. pc'[e] = "idle" /\ \A d \in Edits \ {e} : pc'[d] = pc[d] /\ request'[d] = request[d] /\ target'[d] = target[d]
  BY <1>1, AnswerType DEF SchedulesInv
<1>5. \A s \in Triggers : ReconcilingOf(s)' = ReconcilingOf(s)
  BY <1>1, <1>4 DEF ReconcilingOf, Of
<1>6. Given'
  BY <1>1, <1>4 DEF SchedulesInv, Given, Of, Options, history
<1>7. \A d \in Edits : pc[d] = "idle" => pc'[d] = "idle"
  BY <1>4
<1>8. \A d \in Edits : pc[d] \in Reconciling => target'[d] = target[d]
  BY <1>1, <1>4
<1>9. Settling'
  BY <1>1, <1>5, <1>7, <1>8 DEF SchedulesInv, Settling, Healthy, Agrees, Options, history, ReconcilingOf
<1> QED
  BY <1>2, <1>3, <1>6, <1>9 DEF SchedulesInv

\* The row an edit writes: a row, of the content whose plan the edit pinned.
LEMMA CommitRow ==
  ASSUME SchedulesInv, NEW e \in Edits, pc[e] = "authorize", Current(request[e])
  PROVE  LET t == Of(e)
             row == Edited(request[e], trigger[t])
         IN /\ t \in Triggers /\ row \in Rows /\ row.content = plan[e]
            /\ trigger[t] # None => trigger[t] \in Rows /\ row.revision = trigger[t].revision + 1
<1> DEFINE t == Of(e)
           q == request[e]
           row == Edited(q, trigger[t])
<1>1. q # None /\ EditKnows(e)
  BY DEF SchedulesInv, EditKnows
<1>2. /\ t \in Triggers /\ q.kind \in {"create", "update", "switch"} /\ q.enabled \in BOOLEAN
      /\ q.kind # "switch" => q.content \in Contents
      /\ q.trigger = t
  BY <1>1, Named DEF SchedulesInv, Of
<1>3. trigger[t] \in Rows \cup {None} /\ plan[e] \in Contents
  BY <1>1, <1>2 DEF SchedulesInv, TypeOK, EditKnows
<1>4. CASE q.kind = "create"
  <2>1. row = [revision |-> 1, content |-> q.content, enabled |-> q.enabled]
    BY <1>4 DEF Edited
  <2> QED
    BY <1>1, <1>2, <1>4, <2>1 DEF EditKnows, Creates
<1>5. CASE q.kind = "update"
  <2>1. row = [revision |-> trigger[t].revision + 1, content |-> q.content, enabled |-> q.enabled]
    BY <1>5 DEF Edited
  <2>2. trigger[t] \in Rows
    BY <1>1, <1>3, <1>5 DEF EditKnows, Creates
  <2> QED
    BY <1>1, <1>2, <1>5, <2>1, <2>2 DEF EditKnows
<1>6. CASE q.kind = "switch"
  <2>1. row = [trigger[t] EXCEPT !.revision = @ + 1, !.enabled = q.enabled]
    BY <1>6 DEF Edited
  <2>2. trigger[t] \in Rows
    BY <1>1, <1>3, <1>6 DEF EditKnows, Creates
  <2>3. plan[e] = trigger[t].content
    BY <1>1, <1>2, <1>6 DEF EditKnows, Switches, Current
  <2>4. row = [revision |-> trigger[t].revision + 1, content |-> trigger[t].content, enabled |-> q.enabled]
    BY <2>1, <2>2
  <2> QED
    BY <1>2, <2>2, <2>3, <2>4
<1> QED
  BY <1>2, <1>4, <1>5, <1>6

LEMMA CommitInv ==
  ASSUME SchedulesInv, NEW e \in Edits, Commit(e)
  PROVE  SchedulesInv'
<1> PICK t : t = Of(e)
  OBVIOUS
<1> DEFINE row == Edited(request[e], trigger[t])
           o == Options(plan[e], row)
<1>1. /\ pc[e] = "authorize" /\ UNCHANGED <<schedule, late, up, unsynced, occurrence, bounds>>
      /\ request[e].trigger = t
  BY DEF Commit, Of
<1>2. CASE ~Current(request[e])
  <2>1. Answer(e) /\ UNCHANGED <<trigger, history>>
    BY <1>2 DEF Commit
  <2>2. Refuse(e)
    BY <1>1, <2>1 DEF Refuse
  <2> QED
    BY <2>2, RefuseInv
<1>3. CASE Current(request[e])
  <2>1. /\ t \in Triggers /\ row \in Rows /\ row.content = plan[e] /\ o = Options(row.content, row)
        /\ trigger[t] # None => trigger[t] \in Rows /\ row.revision = trigger[t].revision + 1
        /\ o \in Schedules /\ row # None
    <3>1. /\ t \in Triggers /\ row \in Rows /\ row.content = plan[e]
          /\ trigger[t] # None => trigger[t] \in Rows /\ row.revision = trigger[t].revision + 1
      BY <1>1, <1>3, CommitRow
    <3> QED
      BY <3>1, OptionsType
  <2>2. /\ trigger' = [trigger EXCEPT ![t] = row] /\ target' = [target EXCEPT ![e] = o]
        /\ given' = [given EXCEPT ![t] = @ \cup {o}]
        /\ raced' = raced \cup {s \in {t} : ReconcilingOf(s) # {}}
        /\ pc' = [pc EXCEPT ![e] = "describe"] /\ UNCHANGED <<request, plan, found, failed>>
    BY <1>1, <1>3, <2>1 DEF Commit, Goto
  <2> HIDE DEF row, o
  <2>3. /\ trigger'[t] = row /\ \A s \in Triggers \ {t} : trigger'[s] = trigger[s]
        /\ target'[e] = o /\ pc'[e] = "describe"
        /\ \A d \in Edits \ {e} : pc'[d] = pc[d] /\ target'[d] = target[d]
        /\ \A s \in Triggers : given[s] \subseteq given'[s]
        /\ o \in given'[t]
    BY <2>1, <2>2 DEF SchedulesInv, TypeOK
  <2>4. TypeOK'
    <3>1. trigger' \in [Triggers -> Rows \cup {None}] /\ target' \in [Edits -> Schedules \cup {None}]
      BY <2>1, <2>2 DEF SchedulesInv, TypeOK
    <3>2. given' \in [Triggers -> SUBSET Schedules] /\ pc' \in [Edits -> PCs] /\ raced' \subseteq Triggers
      BY <2>1, <2>2 DEF SchedulesInv, TypeOK
    <3> QED
      BY <1>1, <2>2, <3>1, <3>2 DEF SchedulesInv, TypeOK, bounds
  <2>5. EditKnows(e)'
    BY <1>1, <2>1, <2>2, <2>3 DEF SchedulesInv, EditKnows, Creates, Switches, Of
  <2>6. ASSUME NEW d \in Edits \ {e} PROVE EditKnows(d)'
    <3>1. EditKnows(d) /\ request[e] # None
      BY <1>1 DEF SchedulesInv, EditKnows
    <3>2. request[d] # None => Of(d) \in Triggers /\ (request[d].kind # "create" => request[d].expected \in Nat)
      BY Named DEF SchedulesInv
    <3>3. CASE Of(d) # t
      BY <2>2, <2>3, <3>1, <3>2, <3>3 DEF EditKnows, Creates, Switches, Of
    <3>4. CASE Of(d) = t /\ request[d] # None
      <4>1. ~Creates(d)
        BY <1>1, <3>1, <3>4 DEF EditKnows
      <4>2. trigger[t] # None
        BY <3>1, <3>4, <4>1 DEF EditKnows
      <4>3. trigger'[t].revision > trigger[t].revision /\ trigger[t].revision \in Nat /\ trigger'[t].revision \in Nat
        BY <2>1, <2>3, <4>2
      <4> QED
        BY <2>1, <2>2, <2>3, <3>1, <3>2, <3>4, <4>1, <4>3 DEF EditKnows, Creates, Switches, Of
    <3>5. CASE request[d] = None
      BY <2>2, <2>3, <3>1, <3>5 DEF EditKnows, Creates, Switches
    <3> QED
      BY <3>3, <3>4, <3>5
  <2>7. Given'
    <3>1. \A s \in Triggers : trigger'[s] # None => Options(trigger'[s].content, trigger'[s]) \in given'[s]
      BY <2>1, <2>3 DEF SchedulesInv, Given
    <3>2. \A s \in Triggers : schedule[s] # None => schedule[s] \in given'[s]
      BY <2>3 DEF SchedulesInv, Given
    <3>3. ASSUME NEW d \in Edits, pc'[d] \in Reconciling PROVE target'[d] \in given'[Of(d)]
      <4>1. CASE d = e
        BY <2>3, <4>1
      <4>2. CASE d # e
        <5>1. request[d] # None
          BY <2>3, <3>3, <4>2 DEF SchedulesInv, EditKnows
        <5> QED
          BY <2>3, <3>3, <4>2, <5>1, Named DEF SchedulesInv, Given
      <4> QED
        BY <4>1, <4>2
    <3>4. \A w \in late : w[2] \in given'[w[1]]
      BY <2>3 DEF SchedulesInv, Given, TypeOK
    <3>5. \A x \in occurrence : x.as \in given'[x.trigger] /\ ~x.as.paused
      BY <2>3 DEF SchedulesInv, Given, TypeOK, Occurrences
    <3> QED
      BY <1>1, <2>2, <3>1, <3>2, <3>3, <3>4, <3>5 DEF Given, Of, Options
  <2>8. Settling'
    <3>1. up
      BY <1>1 DEF SchedulesInv, Settling
    <3>2. \A s \in Triggers \ {t} : ReconcilingOf(s)' = ReconcilingOf(s)
      BY <1>1, <2>2, <2>3 DEF ReconcilingOf, Of
    <3>3. ReconcilingOf(t)' = ReconcilingOf(t) \cup {e}
      BY <1>1, <2>2, <2>3 DEF ReconcilingOf, Of
    <3>4. ASSUME NEW s \in Triggers \ {t}, s \notin failed' \cup raced' \cup unsynced' PROVE Healthy(s)'
      <4>1. Healthy(s)
        BY <1>1, <2>2, <3>4 DEF SchedulesInv, Settling
      <4>2. \A d \in ReconcilingOf(s) : target'[d] = target[d]
        BY <1>1, <2>3 DEF ReconcilingOf
      <4> QED
        BY <1>1, <2>3, <3>2, <4>1, <4>2 DEF Healthy, Agrees, Options
    <3>5. ASSUME t \notin failed' \cup raced' \cup unsynced' PROVE Healthy(t)'
      <4>1. ReconcilingOf(t) = {}
        BY <2>2, <3>5
      <4> QED
        BY <2>1, <2>3, <3>3, <4>1 DEF Healthy, Options
    <3> QED
      BY <1>1, <3>1, <3>4, <3>5 DEF SchedulesInv, Settling
  <2> QED
    BY <2>4, <2>5, <2>6, <2>7, <2>8 DEF SchedulesInv
<1> QED
  BY <1>2, <1>3

LEMMA DescribeInv ==
  ASSUME SchedulesInv, NEW e \in Edits, Describe(e)
  PROVE  SchedulesInv'
<1>1. /\ pc[e] = "describe" /\ pc' = [pc EXCEPT ![e] = "write"]
      /\ found' = [found EXCEPT ![e] = schedule[Of(e)] # None]
      /\ UNCHANGED <<trigger, schedule, request, plan, target, late, up, unsynced, occurrence, bounds, history>>
  BY DEF Describe, Goto
<1>2. TypeOK'
  <2>1. found' \in [Edits -> BOOLEAN] /\ pc' \in [Edits -> PCs]
    BY <1>1 DEF SchedulesInv, TypeOK
  <2> QED
    BY <1>1, <2>1 DEF SchedulesInv, TypeOK, bounds, history
<1>3. pc'[e] = "write" /\ \A d \in Edits \ {e} : pc'[d] = pc[d]
  BY <1>1 DEF SchedulesInv, TypeOK
<1>4. \A d \in Edits : EditKnows(d)'
  BY <1>1, <1>3 DEF SchedulesInv, EditKnows, Creates, Switches, Of
<1>5. \A s \in Triggers : ReconcilingOf(s)' = ReconcilingOf(s)
  BY <1>1, <1>3 DEF ReconcilingOf, Of
<1>6. Given'
  BY <1>1, <1>3 DEF SchedulesInv, Given, Of, Options, history
<1>7. Settling'
  BY <1>1, <1>3, <1>5 DEF SchedulesInv, Settling, Healthy, Agrees, Options, history
<1> QED
  BY <1>2, <1>4, <1>6, <1>7 DEF SchedulesInv

\* Where an answer ends a reconciliation of e, no other of its trigger is left
\* when nothing went wrong.
LEMMA AnswerReconciling ==
  ASSUME SchedulesInv, NEW e \in Edits, pc[e] \in Reconciling, Answer(e), NEW t, t = Of(e)
  PROVE  /\ t \in Triggers
         /\ \A s \in Triggers \ {t} : ReconcilingOf(s)' = ReconcilingOf(s)
         /\ ReconcilingOf(t)' = ReconcilingOf(t) \ {e}
         /\ e \in ReconcilingOf(t)
         /\ \A d \in Edits \ {e} : pc'[d] = pc[d] /\ request'[d] = request[d] /\ target'[d] = target[d]
         /\ pc'[e] = "idle"
<1>1. request[e] # None
  BY DEF SchedulesInv, EditKnows
<1>2. t \in Triggers
  BY <1>1, Named DEF SchedulesInv
<1>3. pc'[e] = "idle" /\ \A d \in Edits \ {e} : pc'[d] = pc[d] /\ request'[d] = request[d] /\ target'[d] = target[d]
  BY AnswerType DEF SchedulesInv
<1>4. \A s \in Triggers : ReconcilingOf(s)' = ReconcilingOf(s) \ {e}
  BY <1>3 DEF ReconcilingOf, Of
<1>5. \A s \in Triggers \ {t} : e \notin ReconcilingOf(s)
  BY DEF ReconcilingOf
<1>6. e \in ReconcilingOf(t)
  BY DEF ReconcilingOf
<1>7. \A s \in Triggers \ {t} : ReconcilingOf(s)' = ReconcilingOf(s)
  <2> SUFFICES ASSUME NEW s \in Triggers \ {t} PROVE ReconcilingOf(s)' = ReconcilingOf(s)
    OBVIOUS
  <2>1. ReconcilingOf(s)' = ReconcilingOf(s) \ {e} /\ e \notin ReconcilingOf(s)
    BY <1>4, <1>5
  <2> QED
    BY <2>1
<1>8. ReconcilingOf(t)' = ReconcilingOf(t) \ {e}
  BY <1>2, <1>4
<1> QED
  BY <1>2, <1>3, <1>6, <1>7, <1>8

LEMMA WriteInv ==
  ASSUME SchedulesInv, NEW e \in Edits, Write(e)
  PROVE  SchedulesInv'
<1> PICK t : t = Of(e)
  OBVIOUS
<1>1. /\ pc[e] = "write" /\ Answer(e) /\ schedule' = [schedule EXCEPT ![t] = target[e]]
      /\ UNCHANGED <<trigger, late, up, unsynced, occurrence, bounds, history>>
  BY DEF Write
<1>2. /\ t \in Triggers
      /\ \A s \in Triggers \ {t} : ReconcilingOf(s)' = ReconcilingOf(s)
      /\ ReconcilingOf(t)' = ReconcilingOf(t) \ {e} /\ e \in ReconcilingOf(t)
      /\ pc'[e] = "idle" /\ \A d \in Edits \ {e} : pc'[d] = pc[d] /\ request'[d] = request[d] /\ target'[d] = target[d]
  BY <1>1, AnswerReconciling
<1>3. target[e] \in given[t] /\ target[e] \in Schedules
  BY <1>1, <1>2 DEF SchedulesInv, Given, TypeOK
<1>4. schedule'[t] = target[e] /\ \A s \in Triggers \ {t} : schedule'[s] = schedule[s]
  BY <1>1, <1>2 DEF SchedulesInv, TypeOK
<1>5. TypeOK'
  <2>1. schedule' \in [Triggers -> Schedules \cup {None}]
    BY <1>1, <1>3 DEF SchedulesInv, TypeOK
  <2> QED
    BY <1>1, <2>1, AnswerType DEF SchedulesInv, TypeOK, bounds, history
<1>6. \A d \in Edits : EditKnows(d)'
  BY <1>1, AnswerKnows DEF SchedulesInv
<1>7. Given'
  <2>1. \A s \in Triggers : schedule'[s] # None => schedule'[s] \in given[s]
    BY <1>3, <1>4 DEF SchedulesInv, Given
  <2> QED
    BY <1>1, <1>2, <2>1 DEF SchedulesInv, Given, Of, Options, history
<1>8. ASSUME NEW s \in Triggers, s \notin failed \cup raced \cup unsynced PROVE Healthy(s)'
  <2>1. Healthy(s)
    BY <1>8 DEF SchedulesInv, Settling
  <2>2. CASE s = t
    <3>1. ReconcilingOf(t)' = {} /\ target[e] = Options(trigger[t].content, trigger[t])
      BY <1>2, <2>1, <2>2 DEF Healthy
    <3> QED
      BY <1>1, <1>4, <2>2, <3>1 DEF Healthy, Agrees, Options
  <2>3. CASE s # t
    <3>1. \A d \in ReconcilingOf(s) : target'[d] = target[d]
      BY <1>2, <2>3 DEF ReconcilingOf
    <3> QED
      BY <1>1, <1>2, <1>4, <2>1, <2>3, <3>1 DEF Healthy, Agrees, Options
  <2> QED
    BY <2>2, <2>3
<1>9. Settling'
  BY <1>1, <1>2, <1>8 DEF SchedulesInv, Settling, history
<1> QED
  BY <1>5, <1>6, <1>7, <1>9 DEF SchedulesInv

\* Writes that may still arrive are of schedules the trigger was given.
LEMMA SentType ==
  ASSUME SchedulesInv, NEW e \in Edits, pc[e] \in Reconciling
  PROVE  Sent(e) \in Triggers \X Schedules \X BOOLEAN /\ Sent(e)[2] \in given[Sent(e)[1]]
<1>1. request[e] # None
  BY DEF SchedulesInv, EditKnows
<1>2. Of(e) \in Triggers
  BY <1>1, Named DEF SchedulesInv
<1>3. target[e] \in given[Of(e)] /\ target[e] \in Schedules /\ found[e] \in BOOLEAN
  BY <1>2 DEF SchedulesInv, Given, TypeOK
<1> QED
  BY <1>2, <1>3 DEF Sent

LEMMA WriteFailsInv ==
  ASSUME SchedulesInv, NEW e \in Edits, WriteFails(e)
  PROVE  SchedulesInv'
<1> PICK t : t = Of(e)
  OBVIOUS
<1>1. /\ pc[e] \in Reconciling /\ Answer(e) /\ failed' = failed \cup {t}
      /\ UNCHANGED <<trigger, schedule, up, unsynced, occurrence, crashes, given, raced>>
  BY DEF WriteFails
<1>2. /\ t \in Triggers
      /\ \A s \in Triggers \ {t} : ReconcilingOf(s)' = ReconcilingOf(s)
      /\ pc'[e] = "idle" /\ \A d \in Edits \ {e} : pc'[d] = pc[d] /\ request'[d] = request[d] /\ target'[d] = target[d]
  BY <1>1, AnswerReconciling
<1>3. late' \subseteq late \cup {Sent(e)} /\ failures' \in Nat
  BY DEF WriteFails, SchedulesInv, TypeOK
<1>4. /\ late' \subseteq Triggers \X Schedules \X BOOLEAN
      /\ \A w \in late' : w[2] \in given[w[1]]
  BY <1>1, <1>3, SentType DEF SchedulesInv, TypeOK, Given
<1>5. TypeOK'
  BY <1>1, <1>2, <1>3, <1>4, AnswerType DEF SchedulesInv, TypeOK
<1>6. \A d \in Edits : EditKnows(d)'
  BY <1>1, AnswerKnows DEF SchedulesInv
<1>7. Given'
  BY <1>1, <1>2, <1>4 DEF SchedulesInv, Given, Of, Options
<1>8. ASSUME NEW s \in Triggers, s \notin failed' \cup raced \cup unsynced PROVE Healthy(s)'
  <2>1. Healthy(s) /\ s # t
    BY <1>1, <1>8 DEF SchedulesInv, Settling
  <2>2. \A d \in ReconcilingOf(s) : target'[d] = target[d]
    BY <1>2, <2>1 DEF ReconcilingOf
  <2> QED
    BY <1>1, <1>2, <2>1, <2>2 DEF Healthy, Agrees, Options
<1>9. Settling'
  BY <1>1, <1>2, <1>8 DEF SchedulesInv, Settling
<1> QED
  BY <1>5, <1>6, <1>7, <1>9 DEF SchedulesInv

LEMMA LateWriteInv ==
  ASSUME SchedulesInv, NEW w \in late, LateWrite(w)
  PROVE  SchedulesInv'
<1>1. /\ late' \subseteq late /\ failed' = failed \cup {w[1]}
      /\ schedule' = [schedule EXCEPT ![w[1]] = IF w[3] \/ @ = None THEN w[2] ELSE @]
      /\ UNCHANGED <<trigger, edits, up, unsynced, occurrence, bounds, given, raced>>
  BY DEF LateWrite
<1>2. w[1] \in Triggers /\ w[2] \in Schedules /\ w[2] \in given[w[1]]
  BY DEF SchedulesInv, TypeOK, Given
<1>3. schedule'[w[1]] \in {schedule[w[1]], w[2]} /\ \A s \in Triggers \ {w[1]} : schedule'[s] = schedule[s]
  BY <1>1, <1>2 DEF SchedulesInv, TypeOK
<1>4. TypeOK'
  <2>1. schedule' \in [Triggers -> Schedules \cup {None}] /\ failed' \subseteq Triggers
    BY <1>1, <1>2 DEF SchedulesInv, TypeOK
  <2> QED
    BY <1>1, <2>1 DEF SchedulesInv, TypeOK, edits, bounds
<1>5. \A d \in Edits : EditKnows(d)'
  BY <1>1 DEF SchedulesInv, EditKnows, Creates, Switches, Of, edits
<1>6. Given'
  <2>1. \A s \in Triggers : schedule'[s] # None => schedule'[s] \in given[s]
    BY <1>2, <1>3 DEF SchedulesInv, Given
  <2> QED
    BY <1>1, <2>1 DEF SchedulesInv, Given, Of, Options, edits
<1>7. ASSUME NEW s \in Triggers, s \notin failed' \cup raced \cup unsynced PROVE Healthy(s)'
  <2>1. Healthy(s) /\ s # w[1]
    BY <1>1, <1>7 DEF SchedulesInv, Settling
  <2> QED
    BY <1>1, <1>3, <2>1 DEF Healthy, Agrees, Options, ReconcilingOf, Of, edits
<1>8. Settling'
  BY <1>1, <1>7 DEF SchedulesInv, Settling, edits
<1> QED
  BY <1>4, <1>5, <1>6, <1>8 DEF SchedulesInv

LEMMA CrashInv ==
  ASSUME SchedulesInv, Crash
  PROVE  SchedulesInv'
<1>1. /\ crashes' = crashes + 1 /\ up' = FALSE /\ unsynced' = Triggers
      /\ pc' = Idle.pc /\ request' = Idle.local /\ plan' = Idle.local /\ target' = Idle.local
      /\ found' = Idle.found
      /\ UNCHANGED <<trigger, schedule, occurrence, failures, history>>
  BY DEF Crash
<1>2. late' \subseteq late \cup {Sent(e) : e \in {d \in Edits : pc[d] = "write"}}
  BY DEF Crash
<1>3. /\ late' \subseteq Triggers \X Schedules \X BOOLEAN
      /\ \A w \in late' : w[2] \in given[w[1]]
  <2> SUFFICES ASSUME NEW w \in late' PROVE w \in Triggers \X Schedules \X BOOLEAN /\ w[2] \in given[w[1]]
    OBVIOUS
  <2>1. CASE w \in late
    BY <2>1 DEF SchedulesInv, TypeOK, Given
  <2>2. CASE w \notin late
    <3>1. PICK e \in Edits : pc[e] = "write" /\ w = Sent(e)
      BY <1>2, <2>2
    <3> QED
      BY <3>1, SentType
  <2> QED
    BY <2>1, <2>2
<1>4. /\ \A e \in Edits : pc'[e] = "idle" /\ request'[e] = None
      /\ pc' \in [Edits -> PCs] /\ request' \in [Edits -> Requests \cup {None}]
      /\ plan' \in [Edits -> Contents \cup {None}] /\ target' \in [Edits -> Schedules \cup {None}]
      /\ found' \in [Edits -> BOOLEAN]
  BY <1>1 DEF Idle
<1>5. TypeOK'
  <2>0. crashes \in Nat /\ failures \in Nat
    BY DEF SchedulesInv, TypeOK
  <2>1. crashes' \in Nat /\ failures' \in Nat /\ up' \in BOOLEAN /\ unsynced' \subseteq Triggers
    <3>1. crashes' = crashes + 1 /\ up' = FALSE /\ unsynced' = Triggers /\ failures' = failures
      BY <1>1, Zenon
    <3>2. crashes' \in Nat
      BY <3>1, <2>0
    <3>3. failures' \in Nat
      BY <3>1, <2>0
    <3>4. up' \in BOOLEAN
      BY <3>1
    <3>5. unsynced' \subseteq Triggers
      BY <3>1
    <3> QED
      BY <3>2, <3>3, <3>4, <3>5
  <2>2. /\ trigger' \in [Triggers -> Rows \cup {None}] /\ schedule' \in [Triggers -> Schedules \cup {None}]
        /\ occurrence' \subseteq Occurrences /\ given' \in [Triggers -> SUBSET Schedules]
        /\ failed' \subseteq Triggers /\ raced' \subseteq Triggers
    <3>1. UNCHANGED <<trigger, schedule, occurrence, given, failed, raced>>
      BY <1>1 DEF history
    <3> QED
      BY <3>1, Zenon DEF SchedulesInv, TypeOK
  <2> QED
    BY <1>3, <1>4, <2>1, <2>2, Zenon DEF TypeOK
<1>6. \A d \in Edits : EditKnows(d)'
  BY <1>4 DEF EditKnows, Creates, Switches
<1>7. Given'
  BY <1>1, <1>3, <1>4 DEF SchedulesInv, Given, Options, history
<1>8. Settling'
  BY <1>1, <1>4 DEF Settling
<1> QED
  BY <1>5, <1>6, <1>7, <1>8 DEF SchedulesInv

LEMMA SyncInv ==
  ASSUME SchedulesInv, NEW t \in Triggers, Sync(t)
  PROVE  SchedulesInv'
<1>1. ~up /\ UNCHANGED <<trigger, edits, late, up, occurrence, crashes, given>>
  BY DEF Sync
<1>2. \A s \in Triggers : ReconcilingOf(s) = {} /\ ReconcilingOf(s)' = {}
  BY <1>1 DEF SchedulesInv, Settling, ReconcilingOf, edits
<1>3. trigger[t] # None =>
        /\ Options(trigger[t].content, trigger[t]) \in given[t]
        /\ Options(trigger[t].content, trigger[t]) \in Schedules
  BY DEF SchedulesInv, Given, TypeOK
<1>4. CASE unsynced' = Triggers /\ UNCHANGED <<schedule, failed, raced>> /\ failures' = failures + 1
  <2>1. TypeOK' /\ Given' /\ \A d \in Edits : EditKnows(d)'
    BY <1>1, <1>4 DEF SchedulesInv, TypeOK, Given, EditKnows, Creates, Switches, Of, edits, Options
  <2>2. Settling'
    BY <1>1, <1>4 DEF SchedulesInv, Settling, edits
  <2> QED
    BY <2>1, <2>2 DEF SchedulesInv
<1>5. CASE /\ unsynced' = unsynced \ {t} /\ trigger[t] = None /\ UNCHANGED <<schedule, failed, raced, failures>>
  <2>1. TypeOK' /\ Given' /\ \A d \in Edits : EditKnows(d)'
    BY <1>1, <1>5 DEF SchedulesInv, TypeOK, Given, EditKnows, Creates, Switches, Of, edits, Options
  <2>2. ASSUME NEW s \in Triggers, s \notin failed' \cup raced' \cup unsynced' PROVE Healthy(s)'
    BY <1>1, <1>2, <1>5, <2>2 DEF SchedulesInv, Settling, Healthy, Agrees, Options
  <2>3. Settling'
    BY <1>1, <2>2 DEF SchedulesInv, Settling, edits
  <2> QED
    BY <2>1, <2>3 DEF SchedulesInv
<1>6. CASE /\ unsynced' = unsynced \ {t} /\ trigger[t] # None /\ failures' = failures
           /\ schedule' = [schedule EXCEPT ![t] = Options(trigger[t].content, trigger[t])]
           /\ failed' = failed \ {t} /\ raced' = raced \ {t}
  <2>1. /\ schedule'[t] = Options(trigger[t].content, trigger[t])
        /\ \A s \in Triggers \ {t} : schedule'[s] = schedule[s]
        /\ schedule' \in [Triggers -> Schedules \cup {None}]
    BY <1>3, <1>6 DEF SchedulesInv, TypeOK
  <2>2. TypeOK'
    BY <1>1, <1>6, <2>1 DEF SchedulesInv, TypeOK, edits
  <2>3. \A d \in Edits : EditKnows(d)'
    BY <1>1 DEF SchedulesInv, EditKnows, Creates, Switches, Of, edits
  <2>4. Given'
    <3>1. \A s \in Triggers : schedule'[s] # None => schedule'[s] \in given[s]
      BY <1>3, <1>6, <2>1 DEF SchedulesInv, Given
    <3> QED
      BY <1>1, <3>1 DEF SchedulesInv, Given, Of, Options, edits
  <2>5. ASSUME NEW s \in Triggers, s \notin failed' \cup raced' \cup unsynced' PROVE Healthy(s)'
    <3>1. CASE s = t
      BY <1>1, <1>2, <2>1, <3>1 DEF Healthy, Agrees, Options
    <3>2. CASE s # t
      BY <1>1, <1>2, <1>6, <2>1, <2>5, <3>2 DEF SchedulesInv, Settling, Healthy, Agrees, Options
    <3> QED
      BY <3>1, <3>2
  <2>6. Settling'
    BY <1>1, <2>5 DEF SchedulesInv, Settling, edits
  <2> QED
    BY <2>2, <2>3, <2>4, <2>6 DEF SchedulesInv
<1> QED
  BY <1>4, <1>5, <1>6 DEF Sync

LEMMA ListenInv ==
  ASSUME SchedulesInv, Listen
  PROVE  SchedulesInv'
<1>1. unsynced = {} /\ up' = TRUE
      /\ UNCHANGED <<trigger, schedule, edits, late, unsynced, occurrence, bounds, history>>
  BY DEF Listen
<1>2. TypeOK' /\ Given' /\ \A d \in Edits : EditKnows(d)'
  BY <1>1 DEF SchedulesInv, TypeOK, Given, EditKnows, Creates, Switches, Of, edits, Options, bounds, history
<1>3. Settling'
  BY <1>1 DEF SchedulesInv, Settling, Healthy, Agrees, ReconcilingOf, Of, Options, edits, history
<1> QED
  BY <1>2, <1>3 DEF SchedulesInv

\* What a schedule starts carries the schedule, and an edit cannot reach it.
LEMMA OccurrenceInv ==
  ASSUME SchedulesInv, (\E t \in Triggers : Fire(t)) \/ (\E o \in occurrence : Proceed(o))
  PROVE  SchedulesInv'
<1>1. UNCHANGED <<trigger, schedule, edits, late, up, unsynced, bounds, history>>
  BY DEF Fire, Proceed
<1>2. /\ occurrence' \subseteq Occurrences
      /\ \A x \in occurrence' : x.as \in given[x.trigger] /\ ~x.as.paused
  <2>1. CASE \E t \in Triggers : Fire(t)
    <3>1. PICK t \in Triggers : Fire(t)
      BY <2>1
    <3>2. PICK n \in 1..MaxOccurrences :
            occurrence' = occurrence \cup
              {[trigger |-> t, as |-> schedule[t], number |-> n, step |-> "authorize"]}
      BY <3>1 DEF Fire
    <3>3. schedule[t] \in Schedules /\ schedule[t] \in given[t] /\ ~schedule[t].paused
      BY <3>1 DEF Fire, SchedulesInv, TypeOK, Given
    <3> DEFINE x == [trigger |-> t, as |-> schedule[t], number |-> n, step |-> "authorize"]
    <3>4. x \in Occurrences /\ x.as = schedule[t] /\ x.trigger = t
      BY <3>3 DEF Occurrences
    <3> HIDE DEF x
    <3>5. occurrence' = occurrence \cup {x}
      BY <3>2 DEF x
    <3>6. occurrence \subseteq Occurrences /\ \A y \in occurrence : y.as \in given[y.trigger] /\ ~y.as.paused
      BY DEF SchedulesInv, TypeOK, Given
    <3> QED
      BY <3>3, <3>4, <3>5, <3>6
  <2>2. CASE \E o \in occurrence : Proceed(o)
    <3>1. PICK o \in occurrence : Proceed(o)
      BY <2>2
    <3>2. PICK s \in {"run", "ended"} : occurrence' = (occurrence \ {o}) \cup {[o EXCEPT !.step = s]}
      BY <3>1 DEF Proceed
    <3>3. o \in Occurrences /\ o.as \in given[o.trigger] /\ ~o.as.paused
      BY DEF SchedulesInv, TypeOK, Given
    <3> DEFINE x == [o EXCEPT !.step = s]
    <3>4. x \in Occurrences /\ x.as = o.as /\ x.trigger = o.trigger
      BY <3>3 DEF Occurrences
    <3> HIDE DEF x
    <3>5. occurrence' = (occurrence \ {o}) \cup {x}
      BY <3>2 DEF x
    <3>6. occurrence \subseteq Occurrences /\ \A y \in occurrence : y.as \in given[y.trigger] /\ ~y.as.paused
      BY DEF SchedulesInv, TypeOK, Given
    <3> QED
      BY <3>3, <3>4, <3>5, <3>6
  <2> QED
    BY <2>1, <2>2
<1>3. TypeOK'
  BY <1>1, <1>2, Zenon DEF SchedulesInv, TypeOK, edits, bounds, history
<1>6. \A d \in Edits : EditKnows(d)'
  BY <1>1 DEF SchedulesInv, EditKnows, Creates, Switches, Of, edits
<1>4. Given'
  BY <1>1, <1>2 DEF SchedulesInv, Given, Of, Options, edits, history
<1>5. Settling'
  BY <1>1 DEF SchedulesInv, Settling, Healthy, Agrees, ReconcilingOf, Of, Options, edits, history
<1> QED
  BY <1>3, <1>4, <1>5, <1>6 DEF SchedulesInv

LEMMA NextSchedulesInv == SchedulesInv /\ [Next]_vars => SchedulesInv'
<1> SUFFICES ASSUME SchedulesInv, [Next]_vars PROVE SchedulesInv'
  OBVIOUS
<1>1. ASSUME NEW e \in Edits, EditStep(e) PROVE SchedulesInv'
  BY <1>1, CommitInv, DescribeInv, WriteInv, WriteFailsInv DEF EditStep
<1>2. CASE UNCHANGED vars
  <2>1. TypeOK' /\ Given' /\ \A d \in Edits : EditKnows(d)'
    BY <1>2 DEF SchedulesInv, TypeOK, Given, EditKnows, Creates, Switches, Of, edits, Options, bounds, history, vars
  <2>2. Settling'
    BY <1>2 DEF SchedulesInv, Settling, Healthy, Agrees, ReconcilingOf, Of, Options, edits, history, vars
  <2> QED
    BY <2>1, <2>2 DEF SchedulesInv
<1> QED
  BY <1>1, <1>2, RefuseInv, SyncInv, BeginInv, LateWriteInv, OccurrenceInv, ListenInv, CrashInv DEF Next

-----------------------------------------------------------------------------
\* The inductive invariant always holds.
THEOREM EditsInvariant == Spec => []SchedulesInv
BY InitSchedulesInv, NextSchedulesInv, PTL DEF Spec

\* A schedule is the whole of one definition its trigger was given, and what it
\* started ran an enabled definition.
THEOREM Scheduled == Spec => []DefinitionScheduled
<1>1. SchedulesInv => DefinitionScheduled
  BY DEF SchedulesInv, Given, DefinitionScheduled
<1> QED
  BY <1>1, EditsInvariant, PTL

\* A schedule agrees with its trigger when nothing is under way, unless since
\* the last restart a reconciliation failed or two of them overlapped.
THEOREM Settled == Spec => []SettledAgrees
<1>1. SchedulesInv => SettledAgrees
  <2> SUFFICES ASSUME SchedulesInv, NEW t \in Triggers, Quiet(t), t \notin failed \cup raced PROVE Agrees(t)
    BY DEF SettledAgrees
  <2>1. unsynced = {} /\ ReconcilingOf(t) = {}
    BY DEF Quiet, SchedulesInv, Settling
  <2> QED
    BY <2>1 DEF SchedulesInv, Settling, Healthy
<1> QED
  BY <1>1, EditsInvariant, PTL
=============================================================================
