----------------------------- MODULE FlowGraph -----------------------------
(***************************************************************************)
(* A run of a visual flow: graphExecutionWorkflow, executed durably by     *)
(* Temporal, its activities, the approvals it opens at the Hub, and the    *)
(* Flow's routes for decisions and human input.  A subflow is a run of its *)
(* own under the operation of its parent.                                  *)
(*                                                                         *)
(* Node ids are numbers: the compiler sorts a level by id and the workflow *)
(* runs it in slices of maxParallelism.  The code of a workflow between    *)
(* two awaits is one step; an activity, with its retries, succeeds or      *)
(* fails, and one that calls a service may have done so more than once.    *)
(***************************************************************************)
EXTENDS Naturals, FiniteSets, Functions, FiniteSetsExt

CONSTANTS Root, Child,   \* the workflow ids of the run and of its subflow
          Unset,
          Plan,          \* Plan[r]: the compiled graph of run r
          MaxParallel,   \* graph.maxParallelism
          MaxAttempts,   \* maximumAttempts of an activity
          MaxLost        \* bound on decisions whose signal is not delivered

Runs == {Root, Child}
\* gated: an action class for which the policy requires approval;
\* plain: the other services; pass: transform, loop, parallel and delay.
Kinds == {"trigger", "condition", "gated", "plain", "pass", "approval", "input", "subflow"}
Ports == {"true", "false", "out"}
Nodes(r) == DOMAIN Plan[r].kind
Ids == Nodes(Root) \cup Nodes(Child)
Kind(r, n) == Plan[r].kind[n]
Into(r, n) == {e \in Plan[r].edges : e.to = n}

Answers == {"APPROVE", "REJECT"}
Approvals == [key : Runs \X Ids, status : Answers \cup {"PENDING"}]

ASSUME UnsetIsNothing == Unset \notin Approvals \cup Answers \cup Ports

ASSUME Plans ==
  /\ MaxParallel \in Nat \ {0} /\ MaxAttempts \in Nat \ {0} /\ MaxLost \in Nat
  /\ \A r \in Runs :
       /\ \A n \in Nodes(r) : n \in Nat /\ Kind(r, n) \in Kinds
       /\ \A e \in Plan[r].edges : e.from \in Nodes(r) /\ e.to \in Nodes(r) /\ e.port \in Ports
       /\ \A n \in Nodes(r) : Kind(r, n) = "trigger" <=> Into(r, n) = {}

\* A graph is finite, and one with a cycle is refused: of any nodes one has no
\* edge from the others.
ASSUME PlansAreAcyclic == \A r \in Runs :
  /\ IsFiniteSet(Nodes(r))
  /\ \A S \in SUBSET Nodes(r) : S # {} => \E n \in S : \A e \in Into(r, n) : e.from \notin S

\* The frontier that Kahn's algorithm puts each node of a run in.
LevelsOf(r) ==
  LET level[n \in Nodes(r)] ==
        IF Into(r, n) = {} THEN 0 ELSE 1 + Max({level[e.from] : e \in Into(r, n)})
  IN level
Level == [r \in Runs |-> LevelsOf(r)]

\* The slice of its level that a node runs in.
Slice(r, n) ==
  Cardinality({m \in Nodes(r) : Level[r][m] = Level[r][n] /\ m < n}) \div MaxParallel

\* Before[r][n]: the nodes of earlier levels and slices.
Before == [r \in Runs |-> [n \in Nodes(r) |-> {m \in Nodes(r) :
  \/ Level[r][m] < Level[r][n]
  \/ Level[r][m] = Level[r][n] /\ Slice(r, m) < Slice(r, n)}]]

VARIABLES
  run,        \* a run; "finishing" and "failing" wait for the run's last trace
  status,     \* what graphRunState tells of a node
  step,       \* where executeNode is
  route,      \* the port a condition chose
  decision, input,   \* decisions and humanInputs: what the signals stored
  effects,    \* how often the service of a node was called
  approval,   \* Hub: the row of the operation <run's operation>-<node>
  deciding,   \* decisions the Hub recorded and the route has yet to signal
  lost        \* bound on undelivered signals

graphVars == <<run, status, step, route, decision, input, effects, approval, deciding, lost>>

PerNode(v) == [r \in Runs |-> [n \in Nodes(r) |-> v]]

GraphInit ==
  /\ run = [r \in Runs |-> IF r = Root THEN "RUNNING" ELSE "none"]
  /\ status = PerNode("PENDING") /\ step = PerNode("idle") /\ route = PerNode(Unset)
  /\ decision = PerNode(Unset) /\ input = PerNode(FALSE) /\ effects = PerNode(0)
  /\ approval = [n \in Ids |-> Unset] /\ deciding = {} /\ lost = 0

-----------------------------------------------------------------------------
Closed == {"COMPLETED", "FAILED", "TERMINATED"}
\* Workflow code runs until the workflow closes, also while a failure is traced.
Open(r) == run[r] \in {"RUNNING", "failing", "finishing"}

Set(f, r, n, v) == [f EXCEPT ![r][n] = v]
Advance(r, n, s) == step' = Set(step, r, n, s)
Show(r, n, s) == status' = Set(status, r, n, s)
At(r, n, s) == Open(r) /\ step[r][n] = s

\* nodeInput: the edges that carry a value.
Active(r, n) ==
  \E e \in Into(r, n) :
    /\ status[r][e.from] = "SUCCEEDED"
    /\ Kind(r, e.from) = "condition" => route[r][e.from] = e.port

\* Mutant: the next slice starts when the one before has settled, well or not.
DueSettled(r, n) ==
  run[r] = "RUNNING" /\ \A m \in Before[r][n] : step[r][m] \in {"done", "failing"}

\* Promise.all over a slice: it starts when every node before it has ended well.
Due(r, n) == run[r] = "RUNNING" /\ \A m \in Before[r][n] : step[r][m] = "done"

Start(r, n) ==
  /\ At(r, n, "idle") /\ Due(r, n)
  /\ IF Active(r, n) \/ Kind(r, n) = "trigger"
       THEN Show(r, n, "RUNNING") /\ Advance(r, n, "authorize")
       ELSE Show(r, n, "SKIPPED") /\ Advance(r, n, "done")
  /\ UNCHANGED <<run, route, decision, input, effects, approval, deciding, lost>>

\* authorizeGraphNode and the trace of the start.
Authorize(r, n) ==
  /\ At(r, n, "authorize")
  /\ Advance(r, n, CASE Kind(r, n) \in {"gated", "approval"} -> "evaluate"
                     [] Kind(r, n) \in {"plain", "subflow", "input"} -> Kind(r, n)
                     [] OTHER -> "output")
  /\ UNCHANGED <<run, status, route, decision, input, effects, approval, deciding, lost>>

\* The approval key: the run, the node.
Key(r, n) == <<r, n>>

\* Mutant: the workflow waits without a row at the Hub.
EvaluateOnly(r, n) ==
  /\ At(r, n, "evaluate")
  /\ Show(r, n, "WAITING_APPROVAL") /\ Advance(r, n, "decision")
  /\ UNCHANGED <<run, route, decision, input, effects, approval, deciding, lost>>

\* evaluateGraphNodePolicy and requestGraphApproval: the Hub keeps the row an
\* operation already has, and requires approval in any case.
Evaluate(r, n) ==
  /\ At(r, n, "evaluate")
  /\ approval' = [approval EXCEPT ![n] =
       IF @ = Unset THEN [key |-> Key(r, n), status |-> "PENDING"] ELSE @]
  /\ Show(r, n, "WAITING_APPROVAL") /\ Advance(r, n, "decision")
  /\ UNCHANGED <<run, route, decision, input, effects, deciding, lost>>

\* Mutant: any decision lets the node pass.
HearAny(r, n) ==
  /\ At(r, n, "decision") /\ decision[r][n] # Unset
  /\ Show(r, n, "RUNNING")
  /\ Advance(r, n, IF Kind(r, n) = "gated" THEN "plain" ELSE "output")
  /\ UNCHANGED <<run, route, decision, input, effects, approval, deciding, lost>>

Hear(r, n) ==
  /\ At(r, n, "decision") /\ decision[r][n] # Unset
  /\ IF decision[r][n] = "APPROVE"
       THEN /\ Show(r, n, "RUNNING")
            /\ Advance(r, n, IF Kind(r, n) = "gated" THEN "plain" ELSE "output")
       ELSE Show(r, n, "FAILED") /\ Advance(r, n, "failing")
  /\ UNCHANGED <<run, route, decision, input, effects, approval, deciding, lost>>

AwaitInput(r, n) ==
  /\ At(r, n, "input")
  /\ IF input[r][n] THEN Show(r, n, "RUNNING") /\ Advance(r, n, "output")
     ELSE status[r][n] = "RUNNING" /\ Show(r, n, "WAITING_INPUT") /\ UNCHANGED step
  /\ UNCHANGED <<run, route, decision, input, effects, approval, deciding, lost>>

\* executeGraphNode: one attempt calls the service; without its answer Temporal
\* attempts again while it may.  An attempt under way survives the workflow.
Execute(r, n) ==
  /\ step[r][n] = "plain" /\ run[r] # "none" /\ effects[r][n] < MaxAttempts
  /\ effects' = [effects EXCEPT ![r][n] = @ + 1]
  /\ \/ Open(r) /\ Advance(r, n, "output")
     \/ Open(r) /\ effects'[r][n] < MaxAttempts /\ UNCHANGED step
     \/ ~Open(r) /\ Advance(r, n, "abandoned")
  /\ UNCHANGED <<run, status, route, decision, input, approval, deciding, lost>>

\* executeChild, and its outcome.
StartChild(r, n) ==
  /\ At(r, n, "subflow") /\ run[Child] = "none"
  /\ run' = [run EXCEPT ![Child] = "RUNNING"]
  /\ UNCHANGED <<status, step, route, decision, input, effects, approval, deciding, lost>>

\* Mutant: the child is started and not waited for.
JoinStarted(r, n) ==
  /\ At(r, n, "subflow") /\ run[Child] # "none" /\ Advance(r, n, "output")
  /\ UNCHANGED <<run, status, route, decision, input, effects, approval, deciding, lost>>

JoinChild(r, n) ==
  /\ At(r, n, "subflow") /\ run[Child] = "COMPLETED" /\ Advance(r, n, "output")
  /\ UNCHANGED <<run, status, route, decision, input, effects, approval, deciding, lost>>

Output(r, n) ==
  /\ At(r, n, "output") /\ Show(r, n, "SUCCEEDED") /\ Advance(r, n, "traced")
  /\ \E port \in IF Kind(r, n) = "condition" THEN {"true", "false"} ELSE {Unset} :
       route' = Set(route, r, n, port)
  /\ UNCHANGED <<run, decision, input, effects, approval, deciding, lost>>

Traced(r, n) ==
  /\ At(r, n, "traced") /\ Advance(r, n, "done")
  /\ UNCHANGED <<run, status, route, decision, input, effects, approval, deciding, lost>>

\* Any activity may fail for good, also the trace of a node that succeeded; a
\* subflow fails with its child.
Fail(r, n) ==
  /\ Open(r)
  /\ \/ step[r][n] \in {"authorize", "evaluate", "plain", "traced"}
     \/ step[r][n] = "subflow" /\ run[Child] \in {"none", "FAILED"}
  /\ Show(r, n, "FAILED") /\ Advance(r, n, "failing")
  /\ UNCHANGED <<run, route, decision, input, effects, approval, deciding, lost>>

\* Mutant: the failure of a node is caught and the run goes on without it.
ThrowCaught(r, n) ==
  /\ At(r, n, "failing") /\ Advance(r, n, "failed")
  /\ UNCHANGED <<run, status, route, decision, input, effects, approval, deciding, lost>>

\* After the trace of the failure executeNode throws, and Promise.all with it.
Throw(r, n) ==
  /\ At(r, n, "failing") /\ Advance(r, n, "failed")
  /\ run' = [run EXCEPT ![r] = IF @ = "RUNNING" THEN "failing" ELSE @]
  /\ UNCHANGED <<status, route, decision, input, effects, approval, deciding, lost>>

\* The trace of the start fails for good, before any node has started.
Abort(r) ==
  /\ run[r] = "RUNNING" /\ \A n \in Nodes(r) : step[r][n] = "idle"
  /\ run' = [run EXCEPT ![r] = "FAILED"]
  /\ UNCHANGED <<status, step, route, decision, input, effects, approval, deciding, lost>>

\* All slices done; the trace of the completion may fail, and fails the run.
Finish(r) ==
  /\ run[r] = "RUNNING" /\ \A n \in Nodes(r) : step[r][n] = "done"
  /\ run' = [run EXCEPT ![r] = "finishing"]
  /\ UNCHANGED <<status, step, route, decision, input, effects, approval, deciding, lost>>

\* The workflow closes; Temporal terminates the children of a closed parent.
Close(r) ==
  /\ run[r] \in {"finishing", "failing"}
  /\ \E s \in IF run[r] = "finishing" THEN {"COMPLETED", "FAILED"} ELSE {"FAILED"} :
       run' = [q \in Runs |-> IF q = r THEN s
                 ELSE IF r = Root /\ Open(q) THEN "TERMINATED" ELSE run[q]]
  /\ UNCHANGED <<status, step, route, decision, input, effects, approval, deciding, lost>>

-----------------------------------------------------------------------------
\* The decision route: the row is found by the key of run and node, decided at
\* the Hub, which refuses a decided row; then the workflow is signalled.
Decide(r, n, d) ==
  /\ \E o \in Ids :
       /\ approval[o] # Unset
       /\ approval[o] = [key |-> Key(r, n), status |-> "PENDING"]
       /\ approval' = [approval EXCEPT ![o].status = d]
  /\ deciding' = deciding \cup {<<r, n, d>>}
  /\ UNCHANGED <<run, status, step, route, decision, input, effects, lost>>

Signal(r, n, d) ==
  /\ <<r, n, d>> \in deciding /\ deciding' = deciding \ {<<r, n, d>>}
  /\ decision' = IF Open(r) THEN Set(decision, r, n, d) ELSE decision
  /\ UNCHANGED <<run, status, step, route, input, effects, approval, lost>>

\* Temporal does not answer, the Flow dies, or the Hub was asked directly.
LoseSignal(r, n, d) ==
  /\ <<r, n, d>> \in deciding /\ deciding' = deciding \ {<<r, n, d>>}
  /\ lost < MaxLost /\ lost' = lost + 1
  /\ UNCHANGED <<run, status, step, route, decision, input, effects, approval>>

\* The input route asks for no state of the node.
GiveInput(r, n) ==
  /\ Open(r) /\ Kind(r, n) = "input" /\ ~input[r][n]
  /\ input' = Set(input, r, n, TRUE)
  /\ UNCHANGED <<run, status, step, route, decision, effects, approval, deciding, lost>>

-----------------------------------------------------------------------------
NodeStep(r, n) ==
  \/ Start(r, n) \/ Authorize(r, n) \/ Evaluate(r, n) \/ Hear(r, n) \/ AwaitInput(r, n)
  \/ Execute(r, n) \/ StartChild(r, n) \/ JoinChild(r, n)
  \/ Output(r, n) \/ Traced(r, n) \/ Fail(r, n) \/ Throw(r, n)
RunStep(r) == Finish(r) \/ Close(r)
Decision(r, n) ==
  \E d \in Answers : Decide(r, n, d) \/ LoseSignal(r, n, d)
Signals(r, n) == \E d \in Answers : Signal(r, n, d)

GraphNext == \E r \in Runs :
  \/ RunStep(r) \/ Abort(r)
  \/ \E n \in Nodes(r) : NodeStep(r, n) \/ Decision(r, n) \/ Signals(r, n) \/ GiveInput(r, n)

\* Temporal runs a workflow as long as a worker lives; humans need not answer.
Fairness == \A r \in Runs :
  /\ WF_graphVars(RunStep(r))
  /\ \A n \in Nodes(r) : WF_graphVars(NodeStep(r, n)) /\ WF_graphVars(Signals(r, n))

GraphSpec == GraphInit /\ [][GraphNext]_graphVars /\ Fairness
-----------------------------------------------------------------------------
Ended == {"SUCCEEDED", "SKIPPED"}
NodesTyped(v, S) == DOMAIN v = Runs /\ \A r \in Runs : v[r] \in [Nodes(r) -> S]

GraphTypeOK ==
  /\ run \in [Runs -> {"none", "RUNNING", "failing", "finishing"} \cup Closed]
  /\ NodesTyped(status, Ended \cup
       {"PENDING", "RUNNING", "WAITING_APPROVAL", "WAITING_INPUT", "FAILED"})
  /\ NodesTyped(step, {"idle", "authorize", "evaluate", "decision", "input", "plain",
       "subflow", "output", "traced", "done", "failing", "failed", "abandoned"})
  /\ NodesTyped(route, {"true", "false", Unset})
  /\ NodesTyped(decision, Answers \cup {Unset}) /\ NodesTyped(input, BOOLEAN)
  /\ NodesTyped(effects, 0..MaxAttempts)
  /\ approval \in [Ids -> Approvals \cup {Unset}]
  /\ \A n \in Ids : approval[n] # Unset =>
       \E r \in Runs : n \in Nodes(r) /\ approval[n].key = Key(r, n)
  /\ deciding \subseteq Runs \X Ids \X Answers
  /\ lost \in Nat

\* A node leaves PENDING only when all nodes it may depend on have ended well;
\* it runs on an active edge, and is skipped when the branch went elsewhere.
OrderRespected ==
  /\ GraphTypeOK
  /\ \A r \in Runs : \A n \in Nodes(r) : status[r][n] # "PENDING" =>
       /\ \A e \in Into(r, n) : status[r][e.from] \in Ended /\ step[r][e.from] = "done"
       /\ Kind(r, n) # "trigger" => (status[r][n] = "SKIPPED" <=> ~Active(r, n))

\* The service of a gated node is called, and an approval node passed, only
\* when the Hub holds an APPROVE under the key of exactly this run and node.
GateRespected == \A r \in Runs : \A n \in Nodes(r) :
  \/ Kind(r, n) = "gated" /\ effects[r][n] > 0
  \/ Kind(r, n) = "approval" /\ status[r][n] = "SUCCEEDED"
  => \E o \in Ids : approval[o] = [key |-> Key(r, n), status |-> "APPROVE"]

\* A run that completed left nothing undone, its subflow included; every
\* service on its path was called.
CompletedIsWhole == \A r \in Runs : run[r] = "COMPLETED" =>
  \A n \in Nodes(r) :
    /\ status[r][n] \in Ended
    /\ status[r][n] = "SUCCEEDED" /\ Kind(r, n) \in {"gated", "plain"} => effects[r][n] > 0
    /\ status[r][n] = "SUCCEEDED" /\ Kind(r, n) = "subflow" => run[Child] = "COMPLETED"

\* A node that waits for approval can be decided: the Hub has the row of its key.
WaitingIsDecidable == \A r \in Runs : \A n \in Nodes(r) :
  status[r][n] = "WAITING_APPROVAL" => \E o \in Ids : approval[o] # Unset /\ approval[o].key = Key(r, n)

\* Whatever fails, a run ends, unless one of its nodes waits for a human who
\* has not answered or whose answer was not delivered.
WaitsForHuman(r) == \E n \in Nodes(r) :
  \/ status[r][n] = "WAITING_APPROVAL" /\ decision[r][n] = Unset
  \/ status[r][n] = "WAITING_INPUT" /\ ~input[r][n]

RunEnds == <>[](run[Root] \in Closed \/ \E r \in Runs : Open(r) /\ WaitsForHuman(r))
=============================================================================
