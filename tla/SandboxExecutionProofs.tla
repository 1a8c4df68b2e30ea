----------------------- MODULE SandboxExecutionProofs -----------------------
(***************************************************************************)
(* Proofs about SandboxExecution, for any number of nodes and attempts and *)
(* any bounds on refused receipts and crashes.  The invariant says what a  *)
(* handler past acquire knows of the lock, the receipt and the effects of  *)
(* its node.                                                               *)
(***************************************************************************)
EXTENDS SandboxExecution, TLAPS

\* The receipt of a node is missing until its handler has put it there.
Knows(c) ==
  /\ pc[c] \in Leased => c[1] \in lock
  /\ pc[c] \in Awaiting \cup {"running"} => receipt[c[1]] = None
  /\ pc[c] = "report" => receipt[c[1]] # None
  /\ pc[c] \in Awaiting => effects[c[1]] <= refused[c[1]]
  /\ pc[c] = "running" => effects[c[1]] > 0

\* An attempt that the activity has not come to is not sent.
Fresh(c) ==
  /\ c[2] > attempt[c[1]] => pc[c] = "unsent"
  /\ c[2] = attempt[c[1]] /\ node[c[1]] = "idle" => pc[c] = "unsent"

Alone == \A c, d \in Calls : c[1] = d[1] /\ pc[c] \in Leased /\ pc[d] \in Leased => c = d

\* Who takes the lease of a node without a receipt finds at most as many
\* effects as refused receipts.
Counted(n) ==
  /\ effects[n] <= 1 + refused[n]
  /\ receipt[n] = None /\ n \notin lock => effects[n] <= refused[n]
  /\ receipt[n] # None => effects[n] > 0

Proven == \A p \in proof : receipt[p[1]] = [exit |-> p[2]]

\* Without a crash a lock has its handler.
Owned == \A n \in lock : crashes = 0 => \E c \in Calls : c[1] = n /\ pc[c] \in Leased

\* The inductive invariant.
IInv ==
  /\ TypeOK
  /\ \A c \in Calls : Knows(c) /\ Fresh(c)
  /\ Alone
  /\ \A n \in Nodes : Counted(n)
  /\ Proven
  /\ Owned
  /\ SuccessIsProven

USE Bounds, NoneIsNothing
USE DEF Exits, Receipts, Awaiting, Leased, Replies, PCs

LEMMA CallFacts ==
  /\ \A c \in Calls : c[1] \in Nodes /\ c[2] \in 1..MaxAttempts /\ c = <<c[1], c[2]>>
  /\ \A n \in Nodes, i \in 1..MaxAttempts : <<n, i>> \in Calls
  BY DEF Calls

LEMMA InitInv == Init => IInv
<1> SUFFICES ASSUME Init PROVE IInv
  OBVIOUS
<1>1. TypeOK
  BY CallFacts DEF Init, TypeOK
<1>2. \A c \in Calls : Knows(c) /\ Fresh(c)
  BY DEF Init, Knows, Fresh
<1>3. Alone /\ Proven /\ Owned /\ SuccessIsProven
  BY DEF Init, Alone, Proven, Owned, SuccessIsProven
<1>4. \A n \in Nodes : Counted(n)
  BY DEF Init, Counted
<1> QED
  BY <1>1, <1>2, <1>3, <1>4 DEF IInv

\* A handler that gives its lease back or never had it, and changes no more.
LEMMA ReleaseInv ==
  ASSUME IInv, NEW c \in Calls, NEW r \in Replies, pc[c] \in Awaiting \cup {"report"},
         Release(c, r), UNCHANGED <<receipt, live, effects, refused, flow, crashes>>,
         \/ proof' = proof
         \/ pc[c] = "report" /\ proof' = proof \cup {<<c[1], receipt[c[1]].exit>>}
  PROVE  IInv'
<1> USE DEF IInv, Release, Goto, flow
<1>0. c[1] \in Nodes /\ pc[c] \in Leased
  BY CallFacts
<1>1. TypeOK'
  <2>1. pc[c] = "report" => <<c[1], receipt[c[1]].exit>> \in Nodes \X Exits
    BY <1>0 DEF TypeOK, Knows
  <2> QED
    BY <1>0, <2>1 DEF TypeOK
<1>2. ASSUME NEW d \in Calls PROVE Knows(d)' /\ Fresh(d)'
  <2>1. d # c /\ pc[d] \in Leased => d[1] # c[1]
    BY <1>0 DEF Alone
  <2>2. Knows(d)'
    BY <1>0, <2>1 DEF TypeOK, Knows
  <2>3. Fresh(d)'
    BY <1>0, CallFacts DEF TypeOK, Fresh
  <2> QED
    BY <2>2, <2>3
<1>3. Alone'
  BY DEF Alone, TypeOK
<1>4. ASSUME NEW n \in Nodes PROVE Counted(n)'
  BY <1>0 DEF Counted, Knows, TypeOK
<1>5. Proven'
  <2>1. pc[c] = "report" => receipt[c[1]] \in Receipts
    BY <1>0 DEF Knows, TypeOK
  <2>2. pc[c] = "report" => receipt[c[1]] = [exit |-> receipt[c[1]].exit]
    BY <2>1
  <2> SUFFICES ASSUME NEW p \in proof' PROVE receipt[p[1]] = [exit |-> p[2]]
    BY DEF Proven
  <2>3. CASE p \in proof
    BY <2>3 DEF Proven
  <2>4. CASE pc[c] = "report" /\ p = <<c[1], receipt[c[1]].exit>>
    BY <2>2, <2>4
  <2> QED
    BY <2>3, <2>4
<1>6. Owned'
  <2> SUFFICES ASSUME NEW n \in lock', crashes = 0
               PROVE  \E d \in Calls : d[1] = n /\ pc'[d] \in Leased
    BY DEF Owned
  <2>1. PICK d \in Calls : d[1] = n /\ pc[d] \in Leased
    BY DEF Owned
  <2>2. d # c
    BY <2>1
  <2> QED
    BY <2>1, <2>2 DEF TypeOK
<1>7. SuccessIsProven'
  BY DEF SuccessIsProven
<1> QED
  BY <1>1, <1>2, <1>3, <1>4, <1>5, <1>6, <1>7

LEMMA AcquireInv ==
  ASSUME IInv, NEW c \in Calls, Acquire(c)
  PROVE  IInv'
<1> USE DEF IInv, Acquire, Goto, flow
<1>0. c[1] \in Nodes /\ pc[c] = "arrived"
  BY CallFacts
<1>1. TypeOK'
  BY <1>0 DEF TypeOK
<1>2. ASSUME NEW d \in Calls PROVE Knows(d)' /\ Fresh(d)'
  <2>1. Knows(d)'
    BY <1>0 DEF TypeOK, Knows, Counted
  <2>2. Fresh(d)'
    BY <1>0, CallFacts DEF TypeOK, Fresh
  <2> QED
    BY <2>1, <2>2
<1>3. Alone'
  BY <1>0 DEF Alone, Knows, TypeOK
<1>4. ASSUME NEW n \in Nodes PROVE Counted(n)'
  BY <1>0 DEF Counted, TypeOK
<1>5. Proven' /\ SuccessIsProven'
  BY DEF Proven, SuccessIsProven
<1>6. Owned'
  <2> SUFFICES ASSUME NEW n \in lock', crashes = 0
               PROVE  \E d \in Calls : d[1] = n /\ pc'[d] \in Leased
    BY DEF Owned
  <2>1. CASE n \in lock
    <3>1. PICK d \in Calls : d[1] = n /\ pc[d] \in Leased
      BY <2>1 DEF Owned
    <3> QED
      BY <3>1, <1>0 DEF TypeOK
  <2>2. CASE n \notin lock
    <3>1. n = c[1] /\ pc'[c] = "authorize"
      BY <2>2, <1>0 DEF TypeOK
    <3> QED
      BY <3>1
  <2> QED
    BY <2>1, <2>2
<1> QED
  BY <1>1, <1>2, <1>3, <1>4, <1>5, <1>6

\* A handler goes on under its lease, towards or into the effect.
LEMMA OnInv ==
  ASSUME IInv, NEW c \in Calls, NEW p \in Awaiting \cup {"running"}, pc[c] \in Awaiting, Goto(c, p),
         effects' = IF p = "running" THEN [effects EXCEPT ![c[1]] = @ + 1] ELSE effects,
         live' \in {live, live \cup {c}}, UNCHANGED <<lock, receipt, proof, refused, flow, crashes>>
  PROVE  IInv'
<1> USE DEF IInv, Goto, flow
<1>0. c[1] \in Nodes
  BY CallFacts
<1>1. TypeOK'
  BY <1>0 DEF TypeOK
<1>2. ASSUME NEW d \in Calls PROVE Knows(d)' /\ Fresh(d)'
  <2>1. d # c /\ pc[d] \in Leased => d[1] # c[1]
    BY <1>0 DEF Alone
  <2>2. Knows(d)'
    BY <1>0, <2>1, CallFacts DEF TypeOK, Knows
  <2>3. Fresh(d)'
    BY <1>0, CallFacts DEF TypeOK, Fresh
  <2> QED
    BY <2>2, <2>3
<1>3. Alone'
  BY <1>0 DEF Alone, TypeOK
<1>4. ASSUME NEW n \in Nodes PROVE Counted(n)'
  BY <1>0 DEF Counted, Knows, TypeOK
<1>5. Proven'
  BY DEF Proven
<1>6. Owned'
  <2> SUFFICES ASSUME NEW n \in lock', crashes = 0
               PROVE  \E d \in Calls : d[1] = n /\ pc'[d] \in Leased
    BY DEF Owned
  <2>1. PICK d \in Calls : d[1] = n /\ pc[d] \in Leased
    BY DEF Owned
  <2> QED
    BY <2>1 DEF TypeOK
<1>7. SuccessIsProven'
  BY <1>0 DEF SuccessIsProven, TypeOK
<1> QED
  BY <1>1, <1>2, <1>3, <1>4, <1>5, <1>6, <1>7

LEMMA PutInv ==
  ASSUME IInv, NEW c \in Calls, NEW exit \in Exits, pc[c] = "running", Put(c, exit),
         live' \in {live, live \ {c}}, UNCHANGED <<effects, proof, flow, crashes>>
  PROVE  IInv'
<1> USE DEF IInv, Put, Release, Goto, flow
<1>0. c[1] \in Nodes /\ receipt[c[1]] = None /\ effects[c[1]] > 0
  BY CallFacts DEF Knows
<1>1. TypeOK'
  BY <1>0 DEF TypeOK
<1>2. ASSUME NEW d \in Calls PROVE Knows(d)' /\ Fresh(d)'
  <2>1. d # c /\ pc[d] \in Leased => d[1] # c[1]
    BY DEF Alone
  <2>2. Knows(d)'
    BY <1>0, <2>1, CallFacts DEF TypeOK, Knows
  <2>3. Fresh(d)'
    BY <1>0, CallFacts DEF TypeOK, Fresh
  <2> QED
    BY <2>2, <2>3
<1>3. Alone'
  BY DEF Alone, TypeOK
<1>4. ASSUME NEW n \in Nodes PROVE Counted(n)'
  BY <1>0 DEF Counted, TypeOK
<1>5. Proven'
  <2> SUFFICES ASSUME NEW p \in proof PROVE receipt'[p[1]] = [exit |-> p[2]]
    BY DEF Proven
  <2>1. p[1] \in Nodes /\ p[2] \in Exits /\ receipt[p[1]] = [exit |-> p[2]]
    BY DEF Proven, TypeOK
  <2>2. [exit |-> p[2]] \in Receipts
    BY <2>1
  <2>3. p[1] # c[1]
    BY <1>0, <2>1, <2>2
  <2> QED
    BY <1>0, <2>1, <2>3 DEF TypeOK
<1>6. Owned'
  <2> SUFFICES ASSUME NEW n \in lock', crashes = 0
               PROVE  \E d \in Calls : d[1] = n /\ pc'[d] \in Leased
    BY DEF Owned
  <2>1. PICK d \in Calls : d[1] = n /\ pc[d] \in Leased
    BY DEF Owned
  <2> QED
    BY <2>1 DEF TypeOK
<1>7. SuccessIsProven'
  BY <1>0 DEF SuccessIsProven, TypeOK
<1> QED
  BY <1>1, <1>2, <1>3, <1>4, <1>5, <1>6, <1>7

LEMMA CrashInv ==
  ASSUME IInv, Crash
  PROVE  IInv'
<1> USE DEF IInv, Crash, flow
<1>1. TypeOK'
  BY DEF TypeOK
<1>2. ASSUME NEW d \in Calls PROVE Knows(d)' /\ Fresh(d)'
  BY DEF TypeOK, Knows, Fresh
<1>3. Alone'
  BY DEF Alone, TypeOK
<1>4. ASSUME NEW n \in Nodes PROVE Counted(n)'
  BY DEF Counted
<1>5. Proven' /\ SuccessIsProven' /\ Owned'
  BY DEF Proven, SuccessIsProven, Owned, TypeOK
<1> QED
  BY <1>1, <1>2, <1>3, <1>4, <1>5

LEMMA ActivityInv ==
  ASSUME IInv, NEW n \in Nodes, Activity(n)
  PROVE  IInv'
<1> USE DEF IInv, sandbox, flow, Goto, Current
<1>0. <<n, attempt[n]>> \in Calls
  BY CallFacts DEF TypeOK
<1>1. TypeOK'
  BY <1>0 DEF TypeOK, Activity, Send, Receive, Verify, Fail, Again
<1>2. UNCHANGED <<lock, receipt, live, effects, proof, refused, crashes>>
  BY DEF Activity, Send, Receive, Verify, Fail
<1>3. \A d \in Calls : pc'[d] = pc[d] \/ (pc[d] = "unsent" /\ pc'[d] = "arrived")
  BY <1>0, CallFacts DEF Activity, Send, Receive, Verify, Fail, TypeOK, Fresh
<1>4. ASSUME NEW d \in Calls PROVE Knows(d)'
  BY <1>2, <1>3 DEF Knows
<1>5. ASSUME NEW d \in Calls PROVE Fresh(d)'
  <2>1. CASE Send(n)
    BY <2>1, <1>0, CallFacts DEF Fresh, Send, TypeOK
  <2>2. CASE Receive(n) \/ Verify(n)
    BY <2>2, CallFacts DEF Fresh, Receive, Verify, TypeOK
  <2>3. CASE Fail(n)
    BY <2>3, CallFacts DEF Fresh, Fail, Again, TypeOK
  <2> QED
    BY <2>1, <2>2, <2>3 DEF Activity
<1>6. Alone'
  BY <1>3 DEF Alone
<1>7. ASSUME NEW k \in Nodes PROVE Counted(k)'
  BY <1>2 DEF Counted
<1>8. Proven'
  BY <1>2 DEF Proven
<1>9. Owned'
  <2> SUFFICES ASSUME NEW k \in lock, crashes = 0
               PROVE  \E d \in Calls : d[1] = k /\ pc'[d] \in Leased
    BY <1>2 DEF Owned
  <2>1. PICK d \in Calls : d[1] = k /\ pc[d] \in Leased
    BY DEF Owned
  <2> QED
    BY <2>1, <1>3
<1>10. SuccessIsProven'
  <2>1. CASE Verify(n)
    <3>1. receipt[n] = [exit |-> 0] /\ <<n, 0>> \in proof /\ effects[n] > 0
      BY <2>1 DEF Verify, Proven, Counted
    <3> QED
      BY <2>1, <3>1 DEF Verify, SuccessIsProven, TypeOK
  <2>2. CASE Send(n) \/ Receive(n) \/ Fail(n)
    BY <2>2 DEF Send, Receive, Fail, Again, SuccessIsProven, TypeOK
  <2> QED
    BY <2>1, <2>2 DEF Activity
<1> QED
  BY <1>1, <1>4, <1>5, <1>6, <1>7, <1>8, <1>9, <1>10

LEMMA HandlerInv ==
  ASSUME IInv, NEW c \in Calls, Handler(c)
  PROVE  IInv'
<1>1. CASE Acquire(c)
  BY <1>1, AcquireInv
<1>2. CASE Ask(c)
  <2>1. CASE pc[c] \in Awaiting /\ Release(c, "ERROR")
    BY <1>2, <2>1, ReleaseInv DEF Ask
  <2>2. CASE \/ pc[c] = "authorize" /\ Goto(c, "evaluate") /\ UNCHANGED lock
             \/ pc[c] = "evaluate" /\ Goto(c, "trace") /\ UNCHANGED lock
    BY <1>2, <2>2, OnInv DEF Ask
  <2> QED
    BY <1>2, <2>1, <2>2 DEF Ask
<1>3. CASE Spawn(c)
  BY <1>3, OnInv DEF Spawn
<1>4. CASE Ends(c)
  BY <1>4, PutInv DEF Ends, Exit, Kill
<1>5. CASE Report(c)
  BY <1>5, ReleaseInv DEF Report
<1> QED
  BY <1>1, <1>2, <1>3, <1>4, <1>5 DEF Handler

LEMMA NextInv == IInv /\ [Next]_vars => IInv'
<1> SUFFICES ASSUME IInv, [Next]_vars PROVE IInv'
  OBVIOUS
<1>1. ASSUME NEW n \in Nodes, Activity(n) PROVE IInv'
  BY <1>1, ActivityInv
<1>2. ASSUME NEW c \in Calls, Handler(c) PROVE IInv'
  BY <1>2, HandlerInv
<1>3. CASE UNCHANGED <<pc, lock, receipt, effects, proof, refused, flow, crashes>> /\ live' \subseteq live
  BY <1>3 DEF IInv, TypeOK, Knows, Fresh, Alone, Counted, Proven, Owned, SuccessIsProven, flow
<1>4. ASSUME NEW c \in Calls, Orphan(c) PROVE IInv'
  BY <1>3, <1>4 DEF Orphan
<1>5. CASE Crash
  BY <1>5, CrashInv
<1>6. CASE UNCHANGED vars
  BY <1>3, <1>6 DEF vars, sandbox
<1> QED
  BY <1>1, <1>2, <1>4, <1>5, <1>6 DEF Next

\* What a handler past acquire knows, and what a node counts on, always holds.
THEOREM ExecutionInvariant == Spec => []IInv
BY InitInv, NextInv, PTL DEF Spec

\* Types.
THEOREM TypeCorrect == Spec => []TypeOK
BY ExecutionInvariant, PTL DEF IInv

\* A lock file has at most one live handler, every handler past acquire has its
\* lock, and only a crash leaves a lock without one.
THEOREM Leases == Spec => []LeaseInv
<1>1. IInv => LeaseInv
  <2> SUFFICES ASSUME IInv PROVE LeaseInv
    OBVIOUS
  <2>1. \A n \in Nodes : \A c, d \in Holders(n) : c = d
    BY DEF IInv, Alone, Holders
  <2>2. \A n \in Nodes : Holders(n) # {} => n \in lock
    BY DEF IInv, Knows, Holders
  <2>3. \A n \in Nodes : n \in lock /\ Holders(n) = {} => crashes > 0
    BY DEF IInv, TypeOK, Owned, Holders
  <2> QED
    BY <2>1, <2>2, <2>3 DEF IInv, LeaseInv
<1> QED
  BY <1>1, ExecutionInvariant, PTL

\* The effect of a node is begun once, and once more for each receipt that the
\* disk refused: no retry, timeout or crash begins it again.
THEOREM Repeats == Spec => []RepeatsOnlyUnrecorded
<1>1. IInv => RepeatsOnlyUnrecorded
  BY DEF IInv, Counted, RepeatsOnlyUnrecorded
<1> QED
  BY <1>1, ExecutionInvariant, PTL

\* A node that succeeded did its effect, has its receipt and its proof.
THEOREM Succeeded == Spec => []SuccessIsProven
BY ExecutionInvariant, PTL DEF IInv

-----------------------------------------------------------------------------
\* The lease of LeasedEffect that a node's lock and handlers stand for.
LeaseOf(n) ==
  IF n \notin lock THEN "free"
  ELSE IF Holders(n) = {} THEN "lost"
  ELSE IF \E c \in Holders(n) : pc[c] \in Awaiting THEN "held"
  ELSE "begun"

leases == [n \in Nodes |-> LeaseOf(n)]

LEMMA LeaseCases ==
  ASSUME IInv, NEW c \in Calls
  PROVE  /\ pc[c] \in Awaiting => LeaseOf(c[1]) = "held"
         /\ pc[c] \in {"running", "report"} => LeaseOf(c[1]) = "begun"
<1>1. \A d \in Calls : pc[c] \in Leased /\ d \in Holders(c[1]) => d = c
  BY DEF IInv, Alone, Holders
<1>2. pc[c] \in Leased => c[1] \in lock /\ c \in Holders(c[1])
  BY DEF IInv, Knows, Holders
<1> QED
  BY <1>1, <1>2 DEF LeaseOf, Holders

\* One handler's step leaves the other nodes' leases alone.
LEMMA OneLease ==
  ASSUME IInv, NEW c \in Calls, NEW p, pc' = [pc EXCEPT ![c] = p],
         lock' \in {lock, lock \cup {c[1]}, lock \ {c[1]}}
  PROVE  leases' = [leases EXCEPT ![c[1]] = LeaseOf(c[1])']
<1>0. c[1] \in Nodes
  BY CallFacts
<1>1. ASSUME NEW n \in Nodes, n # c[1] PROVE LeaseOf(n)' = LeaseOf(n)
  <2>1. \A d \in Calls : d[1] = n => pc'[d] = pc[d]
    BY <1>1 DEF IInv, TypeOK
  <2>2. Holders(n)' = Holders(n)
    BY <2>1 DEF Holders
  <2>3. \A d \in Holders(n) : pc'[d] = pc[d]
    BY <2>1 DEF Holders
  <2> QED
    BY <1>1, <2>2, <2>3 DEF LeaseOf
<1> QED
  BY <1>0, <1>1 DEF leases

\* When no handler comes under a lease or leaves it, no lease moves.
LEMMA SameLeases ==
  ASSUME lock' = lock,
         \A d \in Calls : /\ (pc'[d] \in Leased) = (pc[d] \in Leased)
                          /\ (pc'[d] \in Awaiting) = (pc[d] \in Awaiting)
  PROVE  leases' = leases
<1>1. ASSUME NEW n \in Nodes PROVE LeaseOf(n)' = LeaseOf(n)
  <2>1. Holders(n)' = Holders(n)
    BY DEF Holders
  <2>2. (\E d \in Holders(n) : pc'[d] \in Awaiting) = (\E d \in Holders(n) : pc[d] \in Awaiting)
    BY DEF Holders
  <2> QED
    BY <2>1, <2>2 DEF LeaseOf
<1> QED
  BY <1>1 DEF leases

LEMMA LeaseMapping ==
  /\ Lease!Init = (leases = [n \in Nodes |-> "free"] /\ receipt = [n \in Nodes |-> None])
  /\ \A n : Lease!Take(n) = (leases[n] = "free" /\ leases' = [leases EXCEPT ![n] = "held"] /\ UNCHANGED receipt)
  /\ \A n : Lease!Begin(n) = (receipt[n] = None /\ leases[n] = "held" /\ leases' = [leases EXCEPT ![n] = "begun"] /\ UNCHANGED receipt)
  /\ \A n : Lease!Record(n) = (leases[n] = "begun" /\ receipt[n] = None /\ UNCHANGED leases
                               /\ \E r \in Receipts : receipt' = [receipt EXCEPT ![n] = r])
  /\ \A n : Lease!Release(n) = (leases[n] \in {"held", "begun"} /\ leases' = [leases EXCEPT ![n] = "free"] /\ UNCHANGED receipt)
  /\ Lease!Crash = (leases' = [n \in Nodes |-> IF leases[n] = "free" THEN "free" ELSE "lost"] /\ UNCHANGED receipt)
BY DEF Lease!Init, Lease!Take, Lease!Begin, Lease!Record, Lease!Release, Lease!Crash, Lease!Move, leases, LeaseOf

LEMMA LeaseInit == Init => Lease!Init
BY LeaseMapping DEF Init, leases, LeaseOf

\* A release and the steps of a handler, as steps of the lease.
LEMMA ReleaseStep ==
  ASSUME IInv, NEW c \in Calls, NEW r \in Replies, pc[c] \in Leased, Release(c, r), UNCHANGED receipt
  PROVE  Lease!Release(c[1])
<1>1. c[1] \in Nodes /\ leases[c[1]] = LeaseOf(c[1])
  BY CallFacts DEF leases
<1>2. leases[c[1]] \in {"held", "begun"}
  BY <1>1, LeaseCases
<1>3. LeaseOf(c[1])' = "free"
  BY DEF Release, LeaseOf
<1>4. leases' = [leases EXCEPT ![c[1]] = "free"]
  BY <1>3, OneLease DEF Release, Goto
<1> QED
  BY <1>2, <1>4, LeaseMapping

LEMMA HandlerStep ==
  ASSUME IInv, IInv', NEW c \in Calls, Handler(c)
  PROVE  Lease!Next \/ UNCHANGED <<leases, receipt>>
<1>0. c[1] \in Nodes /\ leases[c[1]] = LeaseOf(c[1]) /\ pc \in [Calls -> PCs] /\ receipt \in [Nodes -> Receipts \cup {None}]
  BY CallFacts DEF leases, IInv, TypeOK
<1>n. \A n \in Nodes : Lease!Take(n) \/ Lease!Begin(n) \/ Lease!Record(n) \/ Lease!Release(n) => Lease!Next
  BY DEF Lease!Next, Lease!Take, Lease!Begin, Lease!Record, Lease!Release
<1>1. CASE Acquire(c)
  <2>1. CASE c[1] \notin lock /\ lock' = lock \cup {c[1]} /\ Goto(c, "authorize")
    <3>1. leases[c[1]] = "free" /\ receipt' = receipt
      BY <1>0, <1>1, <2>1 DEF LeaseOf, Acquire
    <3>2. LeaseOf(c[1])' = "held"
      <4>1. pc'[c] = "authorize" /\ c \in Holders(c[1])' /\ c[1] \in lock'
        BY <1>0, <2>1 DEF Goto, Holders
      <4> QED
        BY <4>1 DEF LeaseOf
    <3>3. leases' = [leases EXCEPT ![c[1]] = "held"]
      BY <2>1, <3>2, OneLease DEF Goto
    <3> QED
      BY <1>0, <1>n, <3>1, <3>3, LeaseMapping
  <2>2. CASE lock' = lock /\ \E p \in {"BUSY", "RECEIPT", "ERROR"} : Goto(c, p)
    <3>1. leases' = leases
      BY <1>0, <1>1, <2>2, SameLeases DEF Goto, Acquire
    <3> QED
      BY <1>1, <3>1 DEF Acquire
  <2> QED
    BY <1>1, <2>1, <2>2 DEF Acquire
<1>2. CASE Ask(c)
  <2>1. CASE pc[c] \in Awaiting /\ Release(c, "ERROR")
    BY <1>0, <1>2, <1>n, <2>1, ReleaseStep DEF Ask
  <2>2. CASE lock' = lock /\ pc[c] \in Awaiting /\ \E p \in {"evaluate", "trace"} : Goto(c, p)
    <3>1. leases' = leases
      BY <1>0, <2>2, SameLeases DEF Goto
    <3> QED
      BY <1>2, <3>1 DEF Ask
  <2> QED
    BY <1>2, <2>1, <2>2 DEF Ask
<1>3. CASE Spawn(c)
  <2>1. leases[c[1]] = "held" /\ receipt[c[1]] = None /\ receipt' = receipt
    BY <1>0, <1>3, LeaseCases DEF Spawn, IInv, Knows
  <2>2. LeaseOf(c[1])' = "begun"
    <3>1. /\ \A d \in Calls : pc'[d] \in Leased /\ d[1] = c[1] => d = c
          /\ pc'[c] = "running" /\ c[1] \in lock'
      BY <1>0, <1>3 DEF Spawn, Goto, IInv, Alone, Knows
    <3>2. Holders(c[1])' = {c}
      BY <3>1 DEF Holders
    <3> QED
      BY <3>1, <3>2 DEF LeaseOf
  <2>3. leases' = [leases EXCEPT ![c[1]] = "begun"]
    BY <1>3, <2>2, OneLease DEF Spawn, Goto
  <2> QED
    BY <1>0, <1>n, <2>1, <2>3, LeaseMapping
<1>4. ASSUME NEW exit \in Exits, pc[c] = "running", Put(c, exit) PROVE Lease!Next
  <2>1. leases[c[1]] = "begun" /\ receipt[c[1]] = None
    BY <1>0, <1>4, LeaseCases DEF IInv, Knows
  <2>2. CASE Release(c, "ERROR") /\ UNCHANGED receipt
    BY <1>0, <1>4, <1>n, <2>2, ReleaseStep
  <2>3. CASE receipt' = [receipt EXCEPT ![c[1]] = [exit |-> exit]] /\ Goto(c, "report") /\ UNCHANGED lock
    <3>1. leases' = leases
      BY <1>0, <1>4, <2>3, SameLeases DEF Goto
    <3>2. [exit |-> exit] \in Receipts
      OBVIOUS
    <3> QED
      BY <1>0, <1>n, <2>1, <2>3, <3>1, <3>2, LeaseMapping
  <2> QED
    BY <1>4, <2>2, <2>3 DEF Put
<1>5. CASE Ends(c)
  BY <1>4, <1>5 DEF Ends, Exit, Kill
<1>6. CASE Report(c)
  BY <1>0, <1>6, <1>n, ReleaseStep DEF Report
<1> QED
  BY <1>1, <1>2, <1>3, <1>5, <1>6 DEF Handler

LEMMA LeaseNext == IInv /\ IInv' /\ [Next]_vars => [Lease!Next]_(Lease!vars)
<1> SUFFICES ASSUME IInv, IInv', [Next]_vars PROVE Lease!Next \/ UNCHANGED <<leases, receipt>>
  BY DEF Lease!vars, leases, LeaseOf
<1>1. ASSUME NEW n \in Nodes, Activity(n) PROVE UNCHANGED <<leases, receipt>>
  <2>1. lock' = lock /\ receipt' = receipt /\ <<n, attempt[n]>> \in Calls
    BY <1>1, CallFacts DEF Activity, Send, Receive, Verify, Fail, sandbox, IInv, TypeOK
  <2>2. \A d \in Calls : pc'[d] = pc[d] \/ (pc[d] = "unsent" /\ pc'[d] = "arrived")
    BY <1>1, <2>1, CallFacts
       DEF Activity, Send, Receive, Verify, Fail, sandbox, Goto, Current, IInv, TypeOK, Fresh
  <2> QED
    BY <2>1, <2>2, SameLeases
<1>2. ASSUME NEW c \in Calls, Handler(c) PROVE Lease!Next \/ UNCHANGED <<leases, receipt>>
  BY <1>2, HandlerStep
<1>3. ASSUME NEW c \in Calls, Orphan(c) PROVE UNCHANGED <<leases, receipt>>
  BY <1>3, SameLeases DEF Orphan
<1>4. CASE Crash
  <2>1. \A d \in Calls : pc'[d] \notin Leased
    BY <1>4 DEF Crash, IInv, TypeOK
  <2>2. ASSUME NEW n \in Nodes PROVE LeaseOf(n)' = IF leases[n] = "free" THEN "free" ELSE "lost"
    <3>1. Holders(n)' = {}
      BY <2>1 DEF Holders
    <3>2. lock' = lock
      BY <1>4 DEF Crash
    <3> QED
      BY <3>1, <3>2 DEF LeaseOf, leases
  <2>3. Lease!Crash
    BY <1>4, <2>2, LeaseMapping DEF Crash, leases
  <2> QED
    BY <2>3 DEF Lease!Next
<1>5. CASE UNCHANGED vars
  BY <1>5, SameLeases DEF vars, sandbox
<1> QED
  BY <1>1, <1>2, <1>3, <1>4, <1>5 DEF Next

\* The receipt store implements the lease with a final receipt.
THEOREM Refinement == Spec => ImplementsLease
<1>1. IInv /\ IInv' /\ [Next]_vars => [Lease!Next]_(Lease!vars)
  BY LeaseNext
<1> QED
  BY <1>1, LeaseInit, ExecutionInvariant, PTL DEF Spec, ImplementsLease, Lease!Spec
=============================================================================
