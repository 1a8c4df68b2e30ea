-------------------------- MODULE SandboxExecution --------------------------
(***************************************************************************)
(* Governed execution: SandboxExecutor and its receipt store, together     *)
(* with the client they have, the activity of a sandbox node of the Flow,  *)
(* which Temporal attempts again and which believes only the trace at RnD. *)
(*                                                                         *)
(* A node fixes the idempotency key and the operation, so both are the     *)
(* node here.  A call is one attempt.  A handler is split at its awaits;   *)
(* what the Hub and RnD answer is any outcome.  A node's execution is      *)
(* never irreversible.  Docker containers and child processes outlive a    *)
(* crash of the Sandbox, a container also the kill of its client.          *)
(***************************************************************************)
EXTENDS Naturals, FiniteSets

CONSTANTS Nodes,
          None,
          MaxAttempts,   \* maximumAttempts of the node's retry policy
          MaxFailures,   \* bound on receipts the disk refuses
          MaxCrashes     \* bound on crashes of the Sandbox

ASSUME Bounds == MaxAttempts \in Nat \ {0} /\ MaxFailures \in Nat /\ MaxCrashes \in Nat

Calls == Nodes \X (1..MaxAttempts)
Exits == {0, 1}
Receipts == [exit : Exits]

ASSUME NoneIsNothing == None \notin Receipts

Awaiting == {"authorize", "evaluate", "trace"}     \* before the effect
Leased == Awaiting \cup {"running", "report"}
Replies == {"BUSY", "ERROR", "RECEIPT"}
PCs == {"unsent", "arrived", "lost"} \cup Leased \cup Replies

VARIABLES
  pc,        \* the handler of a call; a reply when it has ended
  lock,      \* nodes whose lock file exists
  receipt,   \* receipt files
  live,      \* calls whose process or container runs
  effects,   \* how often the effect of a node was begun
  proof,     \* traces sandbox.execution.completed at RnD
  node, attempt,   \* the activity of a node, and its attempt
  refused,   \* how often the disk refused the receipt of a node
  crashes

sandbox == <<pc, lock, receipt, live, effects, proof, refused>>
flow == <<node, attempt>>
vars == <<sandbox, flow, crashes>>

Init ==
  /\ pc = [c \in Calls |-> "unsent"]
  /\ lock = {} /\ receipt = [n \in Nodes |-> None]
  /\ live = {} /\ effects = [n \in Nodes |-> 0] /\ proof = {}
  /\ node = [n \in Nodes |-> "idle"] /\ attempt = [n \in Nodes |-> 1]
  /\ refused = [n \in Nodes |-> 0] /\ crashes = 0

-----------------------------------------------------------------------------
Goto(c, step) == pc' = [pc EXCEPT ![c] = step]

\* Mutant: the receipt is looked for before the lease is taken, by its caller.
AcquireBlind(c) == LET n == c[1] IN
  /\ pc[c] = "arrived"
  /\ IF n \in lock THEN Goto(c, "BUSY") /\ UNCHANGED lock
     ELSE lock' = lock \cup {n} /\ Goto(c, "authorize")
  /\ UNCHANGED <<receipt, live, effects, proof, refused, flow, crashes>>

\* Mutant: a lock file is taken over when the caller attempts again.
AcquireStale(c) == LET n == c[1] IN
  /\ pc[c] = "arrived"
  /\ IF receipt[n] # None THEN Goto(c, "RECEIPT") /\ UNCHANGED lock
     ELSE lock' = lock \cup {n} /\ Goto(c, "authorize")
  /\ UNCHANGED <<receipt, live, effects, proof, refused, flow, crashes>>

\* acquire, the look for a prior receipt and assertWorkspace; no await lies
\* between them, and a failure of any leaves no lock behind.
Acquire(c) == LET n == c[1] IN
  /\ pc[c] = "arrived"
  /\ \/ n \in lock /\ Goto(c, "BUSY") /\ UNCHANGED lock
     \/ n \notin lock /\ receipt[n] # None /\ Goto(c, "RECEIPT") /\ UNCHANGED lock
     \/ n \notin lock /\ Goto(c, "ERROR") /\ UNCHANGED lock
     \/ n \notin lock /\ receipt[n] = None
        /\ lock' = lock \cup {n} /\ Goto(c, "authorize")
  /\ UNCHANGED <<receipt, live, effects, proof, refused, flow, crashes>>

\* Mutant: the lease is released on success only.
ReleaseAnswered(c, reply) ==
  /\ lock' = IF reply = "RECEIPT" THEN lock \ {c[1]} ELSE lock
  /\ Goto(c, reply)

\* The finally block: whatever the outcome, the lease is released.
Release(c, reply) == lock' = lock \ {c[1]} /\ Goto(c, reply)

\* authorize, evaluate and the first trace: allowed and answered, or not.
Ask(c) ==
  /\ \/ pc[c] = "authorize" /\ Goto(c, "evaluate") /\ UNCHANGED lock
     \/ pc[c] = "evaluate" /\ Goto(c, "trace") /\ UNCHANGED lock
     \/ pc[c] \in Awaiting /\ Release(c, "ERROR")
  /\ UNCHANGED <<receipt, live, effects, proof, refused, flow, crashes>>

\* The command passes its checks and is spawned.
Spawn(c) ==
  /\ pc[c] = "trace" /\ Goto(c, "running")
  /\ live' = live \cup {c} /\ effects' = [effects EXCEPT ![c[1]] = @ + 1]
  /\ UNCHANGED <<lock, receipt, proof, refused, flow, crashes>>

\* receipts.put: the file is renamed into place, or the disk refuses it.
Put(c, exit) == LET n == c[1] IN
  \/ /\ receipt' = [receipt EXCEPT ![n] = [exit |-> exit]]
     /\ Goto(c, "report") /\ UNCHANGED <<lock, refused>>
  \/ /\ refused[n] < MaxFailures /\ refused' = [refused EXCEPT ![n] = @ + 1]
     /\ Release(c, "ERROR") /\ UNCHANGED receipt

Exit(c, exit) ==
  /\ pc[c] = "running" /\ c \in live /\ live' = live \ {c} /\ Put(c, exit)
  /\ UNCHANGED <<effects, proof, flow, crashes>>

\* Mutant: a timeout is an error of the call and leaves no receipt.
KillUnrecorded(c) ==
  /\ pc[c] = "running" /\ c \in live /\ Release(c, "ERROR")
  /\ UNCHANGED <<receipt, refused, live, effects, proof, flow, crashes>>

\* SIGKILL after the timeout ends the docker client; its container runs on.
Kill(c) ==
  /\ pc[c] = "running" /\ c \in live /\ Put(c, 1)
  /\ UNCHANGED <<live, effects, proof, flow, crashes>>

\* What nobody waits for any more ends when it ends.
Orphan(c) ==
  /\ c \in live /\ pc[c] # "running" /\ live' = live \ {c}
  /\ UNCHANGED <<pc, lock, receipt, effects, proof, refused, flow, crashes>>

\* The last trace: stored and acknowledged, stored and unanswered, or neither.
Report(c) == LET done == <<c[1], receipt[c[1]].exit>> IN
  /\ pc[c] = "report"
  /\ \/ proof' = proof \cup {done} /\ Release(c, "RECEIPT")
     \/ proof' \in {proof, proof \cup {done}} /\ Release(c, "ERROR")
  /\ UNCHANGED <<receipt, live, effects, refused, flow, crashes>>

\* Handlers are gone, lock files and processes stay.
Crash ==
  /\ crashes < MaxCrashes /\ crashes' = crashes + 1
  /\ pc' = [c \in Calls |-> IF pc[c] \in Leased \cup {"arrived"} THEN "lost" ELSE pc[c]]
  /\ UNCHANGED <<lock, receipt, live, effects, proof, refused, flow>>

-----------------------------------------------------------------------------
Current(n) == <<n, attempt[n]>>

Send(n) ==
  /\ node[n] = "idle" /\ node' = [node EXCEPT ![n] = "waiting"]
  /\ Goto(Current(n), "arrived")
  /\ UNCHANGED <<lock, receipt, live, effects, proof, refused, attempt, crashes>>

Again(n) ==
  IF attempt[n] < MaxAttempts
    THEN attempt' = [attempt EXCEPT ![n] = @ + 1] /\ node' = [node EXCEPT ![n] = "idle"]
    ELSE node' = [node EXCEPT ![n] = "FAILED"] /\ UNCHANGED attempt

\* The activity fails on an error, on a lost answer and on its own timeout,
\* and the handler it waited for runs on.
Fail(n) == node[n] \in {"waiting", "verify"} /\ Again(n) /\ UNCHANGED <<sandbox, crashes>>

Receive(n) ==
  /\ node[n] = "waiting" /\ pc[Current(n)] = "RECEIPT"
  /\ node' = [node EXCEPT ![n] = "verify"] /\ UNCHANGED <<sandbox, attempt, crashes>>

\* Mutant: the node believes the receipt and asks RnD for nothing.
VerifyReceipt(n) ==
  /\ node[n] = "verify" /\ receipt[n].exit = 0
  /\ node' = [node EXCEPT ![n] = "SUCCEEDED"] /\ UNCHANGED <<sandbox, attempt, crashes>>

\* A proof that matches the receipt, with exit code 0 in both.
Verify(n) ==
  /\ node[n] = "verify" /\ receipt[n].exit = 0 /\ <<n, 0>> \in proof
  /\ node' = [node EXCEPT ![n] = "SUCCEEDED"] /\ UNCHANGED <<sandbox, attempt, crashes>>

Activity(n) == Send(n) \/ Receive(n) \/ Verify(n) \/ Fail(n)
Ends(c) == Kill(c) \/ \E exit \in Exits : Exit(c, exit)
Handler(c) == Acquire(c) \/ Ask(c) \/ Spawn(c) \/ Ends(c) \/ Report(c)

Next ==
  \/ \E n \in Nodes : Activity(n)
  \/ \E c \in Calls : Handler(c) \/ Orphan(c)
  \/ Crash

\* Every await of a handler has a timeout and every process is killed; Temporal
\* times out and retries an activity.
Fairness ==
  /\ \A n \in Nodes : WF_vars(Activity(n))
  /\ \A c \in Calls : WF_vars(Handler(c))

Spec == Init /\ [][Next]_vars /\ Fairness
-----------------------------------------------------------------------------
TypeOK ==
  /\ pc \in [Calls -> PCs] /\ lock \subseteq Nodes
  /\ receipt \in [Nodes -> Receipts \cup {None}]
  /\ live \subseteq Calls /\ proof \subseteq Nodes \X Exits
  /\ effects \in [Nodes -> Nat] /\ refused \in [Nodes -> Nat] /\ crashes \in Nat
  /\ node \in [Nodes -> {"idle", "waiting", "verify", "SUCCEEDED", "FAILED"}]
  /\ attempt \in [Nodes -> 1..MaxAttempts]

\* A lock file has at most one live handler behind it, and every handler past
\* acquire has its lock.
Holders(n) == {c \in Calls : c[1] = n /\ pc[c] \in Leased}

LeaseInv ==
  /\ TypeOK
  /\ \A n \in Nodes : \A c, d \in Holders(n) : c = d
  /\ \A n \in Nodes : Holders(n) # {} => n \in lock
  /\ \A n \in Nodes : n \in lock /\ Holders(n) = {} => crashes > 0

\* The effect of a node is begun again only after the disk refused its
\* receipt: not after a timeout, a lost answer, a failed trace or a crash.
RepeatsOnlyUnrecorded == \A n \in Nodes : effects[n] <= 1 + refused[n]

\* A node that succeeded did its effect, has the receipt of exit 0, and RnD
\* holds the proof.
SuccessIsProven ==
  \A n \in Nodes : node[n] = "SUCCEEDED" =>
    effects[n] > 0 /\ receipt[n] = [exit |-> 0] /\ <<n, 0>> \in proof

\* The receipt store implements the lease with a final receipt.
Lease == INSTANCE LeasedEffect WITH
  Keys <- Nodes,
  lease <- [n \in Nodes |->
    IF n \notin lock THEN "free"
    ELSE IF Holders(n) = {} THEN "lost"
    ELSE IF \E c \in Holders(n) : pc[c] \in Awaiting THEN "held"
    ELSE "begun"]

ImplementsLease == Lease!Spec

\* Stalled owners and processes cannot hold a lease: it is released unless the
\* Sandbox crashed, and every activity ends.
LeaseReleased ==
  \A n \in Nodes :
    /\ n \in lock ~> n \notin lock \/ crashes > 0
    /\ <>(node[n] \in {"SUCCEEDED", "FAILED"})
=============================================================================
