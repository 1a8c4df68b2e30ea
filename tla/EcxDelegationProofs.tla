------------------------ MODULE EcxDelegationProofs ------------------------
(***************************************************************************)
(* Proofs about EcxDelegation, for any requests, packets, delegations and  *)
(* crashes: a sender continues at most once and on whole results, a        *)
(* success is the one its receipt holds, and the ledger says so.           *)
(***************************************************************************)
EXTENDS EcxDelegation, TLAPS

Outcomes == {"SUCCEEDED", "FAILED", "UNCERTAIN"}
Appending(r, next) == pc[r] = "append" /\ then[r] = next

\* What a request knows at each of its steps.
Knows(r) ==
  /\ pc[r] # "unsent" => del[r] \in Delegations
  /\ pc[r] = "unsent" => r \notin sent
  /\ \/ pc[r] \in {"validate", "claim", "complete", "inflight"} \/ r \in sent
     \/ (pc[r] = "begin" /\ ~IsFanout(del[r])) \/ Appending(r, "claim") \/ Appending(r, "complete")
     => Whole(r)
  /\ pc[r] = "claim" \/ Appending(r, "claim") \/ r \in sent => Continues(del[r])
  /\ pc[r] = "complete" \/ Appending(r, "complete") => ~Continues(del[r])
  /\ pc[r] = "inflight" => r \in sent
  /\ r \in sent => pc[r] \in {"inflight", "done", "lost"} \/ (pc[r] = "append" /\ then[r] \in Answers)
  /\ \/ pc[r] \in {"validate", "append", "claim", "complete", "inflight", "replay"}
     \/ pc[r] = "children" /\ IsFanout(del[r])
     => MyRow(r).state # "absent"
  /\ pc[r] = "append" => then[r] \in Answers \cup {"claim", "complete"}

\* What it has read of a success is the receipt, and it tells no other.
Told(r) ==
  /\ pc[r] = "unsent" => seen[r].state # "SUCCEEDED"
  /\ seen[r].state = "SUCCEEDED" => del[r] \in Delegations /\ seen[r] = MyRow(r)
  /\ Appending(r, "SUCCEEDED") \/ Appending(r, "REPLAYED") => seen[r].state = "SUCCEEDED"
  /\ answer[r] # "none" => pc[r] = "done"
  /\ answer[r] \in {"SUCCEEDED", "REPLAYED"} => seen[r].state = "SUCCEEDED"

\* The continuation of d was sent, and is not in flight any more.
Settled(d) == \E r \in SentFor(d) : pc[r] # "inflight"
Recorded(d, stage) == events[d][stage] # None
Ahead(r, i, stage) == Recorded(del[r], stage) \/ \E j \in 1..(i - 1) : todo[r][j] = stage

\* The events it owes come in their order, an outcome after its cause.
Owes(r) ==
  /\ pc[r] = "append" => \A i \in 1..Len(todo[r]) : todo[r][i] \in Outcomes =>
       /\ seen[r].state = todo[r][i] /\ Ahead(r, i, "returned") /\ Ahead(r, i, "started")
       /\ todo[r][i] = "UNCERTAIN" => Settled(del[r])
  /\ Appending(r, "claim") => Ahead(r, Len(todo[r]) + 1, "returned") /\ Ahead(r, Len(todo[r]) + 1, "started")
  /\ pc[r] \in {"claim", "inflight"} => Recorded(del[r], "returned") /\ Recorded(del[r], "started")
  /\ pc[r] = "replay" =>
       /\ seen[r].state \in Outcomes
       /\ seen[r].state = "UNCERTAIN" /\ ~IsFanout(del[r]) /\ ~Pending(seen[r]) => Settled(del[r])

Request(r) == Knows(r) /\ Told(r) /\ Owes(r)

\* A reply is the receipt's, and a packet has one execution in flight.
Children ==
  /\ \A r \in Requests, p \in Packets :
       /\ branch[r][p] \in Replies => child[p] = branch[r][p]
       /\ branch[r][p] = "inflight" => child[p] = "claimed"
  /\ \A q, r \in Requests, p \in Packets : branch[q][p] = "inflight" /\ branch[r][p] = "inflight" => q = r

\* One continuation, claimed from STARTED, ends in the receipt.
Claims ==
  /\ \A r \in sent : MyRow(r).state \notin {"absent", "STARTED"}
  /\ \A q, r \in sent : del[q] = del[r] => q = r
  /\ \A r \in Requests : pc[r] = "inflight" => MyRow(r).state # "SUCCEEDED"

Succeeds(d) == receipt[d].state = "SUCCEEDED" =>
  /\ receipt[d].error = "none" /\ receipt[d].result # None
  /\ \A p \in Plan[d] : child[p] \in Replies
  /\ receipt[d].result.replies = [p \in Plan[d] |-> child[p]]
  /\ IF Continues(d) THEN \E r \in SentFor(d) : executed[r] # None /\ receipt[d].result.final = executed[r]
     ELSE \E p \in Plan[d] : receipt[d].result.final = child[p]

Ledger(d) ==
  /\ receipt[d].state = "UNCERTAIN" /\ ~IsFanout(d) /\ ~Pending(receipt[d]) => Settled(d)
  /\ Recorded(d, "SUCCEEDED") => receipt[d].state = "SUCCEEDED" /\ events[d]["SUCCEEDED"] = receipt[d]
  /\ Recorded(d, "UNCERTAIN") => Settled(d)
  /\ \A s \in Outcomes : Recorded(d, s) => Recorded(d, "returned") /\ Recorded(d, "started")

EventRows == events = [d \in Delegations |-> [s \in Stages |-> events[d][s]]]

\* The inductive invariant.
IInv ==
  /\ TypeOK /\ EventRows /\ Children /\ Claims
  /\ \A r \in Requests : Request(r)
  /\ \A d \in Delegations : Succeeds(d) /\ Ledger(d)

USE Plans, RepliesApart, NoneIsNothing
USE DEF States, Errors, Stages, Answers, Unfinished, Idle, PCs, BranchStates, ChildStates, Outcomes

\* What never changes again: a success, a reply, an event, an answer of Connect,
\* a continuation that has ended.
Mono ==
  /\ \A d \in Delegations :
       /\ receipt[d].state = "SUCCEEDED" => receipt'[d] = receipt[d]
       /\ receipt[d].state # "absent" => receipt'[d].state # "absent"
       /\ receipt[d].state \notin {"absent", "STARTED"} => receipt'[d].state \notin {"absent", "STARTED"}
       /\ \A s \in Stages : Recorded(d, s) => Recorded(d, s)'
       /\ Settled(d) => Settled(d)'
  /\ \A p \in Packets : child[p] \in Replies => child'[p] = child[p]
  /\ \A r \in Requests : executed[r] # None => executed'[r] = executed[r]

\* Nothing of request q changed.
Same(q) ==
  /\ pc'[q] = pc[q] /\ answer'[q] = answer[q] /\ del'[q] = del[q] /\ branch'[q] = branch[q]
  /\ seen'[q] = seen[q] /\ todo'[q] = todo[q] /\ then'[q] = then[q]
  /\ q \in sent' <=> q \in sent

LEMMA InitInv == Init => IInv
<1> SUFFICES ASSUME Init PROVE IInv
  OBVIOUS
<1>1. receipt \in [Delegations -> Rows \cup {NoRow}] /\ seen \in [Requests -> Rows \cup {NoRow}]
      /\ \A d \in Delegations : receipt[d].state = "absent"
  BY DEF Init, NoRow
<1>2. TypeOK /\ EventRows
  BY <1>1 DEF Init, TypeOK, EventRows
<1>3. Children /\ Claims
  BY DEF Init, Children, Claims
<1>4. \A r \in Requests : Knows(r)
  BY DEF Init, Knows, Appending
<1>5. \A r \in Requests : Told(r) /\ Owes(r)
  BY DEF Init, Told, Owes, Appending, NoRow
<1>6. \A d \in Delegations : Succeeds(d) /\ Ledger(d)
  BY <1>1 DEF Init, Succeeds, Ledger, Recorded
<1> QED
  BY <1>2, <1>3, <1>4, <1>5, <1>6 DEF IInv, Request

-----------------------------------------------------------------------------
\* A request that did not move knows what it knew.
LEMMA OtherKeeps ==
  ASSUME IInv, Mono, NEW q \in Requests, Same(q)
  PROVE  Request(q)'
<1>1. Request(q) /\ (del[q] \notin Delegations => pc[q] = "unsent")
  BY DEF IInv, Request, Knows
<1>2. Knows(q)'
  BY <1>1 DEF Request, Knows, Appending, Same, Mono, Whole, MyPlan, MyRow
<1>3. Told(q)'
  BY <1>1 DEF Request, Told, Appending, Same, Mono, MyRow
<1>4. ASSUME NEW i, NEW s \in Stages, del[q] \in Delegations, Ahead(q, i, s) PROVE Ahead(q, i, s)'
  BY <1>4 DEF Ahead, Same, Mono, Recorded
<1>5. del[q] \in Delegations => /\ Settled(del[q]) => Settled(del[q])'
                                /\ \A s \in Stages : Recorded(del[q], s) => Recorded(del[q], s)'
  BY DEF Mono, Same, Settled, SentFor, Recorded
<1>6. Owes(q)'
  <2>1. CASE pc[q] = "append"
    BY <1>1, <1>4, <1>5, <2>1 DEF Request, Knows, Owes, Appending, Same
  <2>2. CASE pc[q] # "append"
    BY <1>1, <1>5, <2>2 DEF Request, Knows, Owes, Appending, Same, Pending
  <2> QED
    BY <2>1, <2>2
<1> QED
  BY <1>2, <1>3, <1>6 DEF Request

\* A receipt that succeeded stays true.
LEMMA SuccessKeeps ==
  ASSUME IInv, Mono, NEW d \in Delegations, receipt'[d] = receipt[d] \/ receipt[d].state = "SUCCEEDED",
         \A r \in SentFor(d) : r \in SentFor(d)'
  PROVE  Succeeds(d)'
<1>1. receipt'[d] = receipt[d] /\ Succeeds(d) /\ Plan[d] \subseteq Packets
  BY DEF IInv, Mono
<1>2. SUFFICES ASSUME receipt[d].state = "SUCCEEDED" PROVE Succeeds(d)'
  BY <1>1 DEF Succeeds
<1>3. \A p \in Plan[d] : child[p] \in Replies /\ child'[p] = child[p]
  BY <1>1, <1>2 DEF Succeeds, Mono
<1>4. [p \in Plan[d] |-> child[p]] = [p \in Plan[d] |-> child'[p]]
  BY <1>3
<1>5. CASE Continues(d)
  <2>1. PICK r \in SentFor(d) : executed[r] # None /\ receipt[d].result.final = executed[r]
    BY <1>1, <1>2, <1>5 DEF Succeeds
  <2>2. r \in SentFor(d)' /\ executed'[r] = executed[r]
    BY <2>1 DEF Mono, SentFor, IInv, TypeOK
  <2> QED
    BY <1>1, <1>2, <1>3, <1>4, <1>5, <2>1, <2>2 DEF Succeeds
<1>6. CASE ~Continues(d)
  <2>1. PICK p \in Plan[d] : receipt[d].result.final = child[p]
    BY <1>1, <1>2, <1>6 DEF Succeeds
  <2> QED
    BY <1>1, <1>2, <1>3, <1>4, <1>6, <2>1 DEF Succeeds
<1> QED
  BY <1>5, <1>6

\* A ledger whose receipt and events did not change stays in order.
LEMMA LedgerKeeps ==
  ASSUME IInv, Mono, NEW d \in Delegations, receipt'[d] = receipt[d], events'[d] = events[d]
  PROVE  Ledger(d)'
<1>1. Ledger(d) /\ (Settled(d) => Settled(d)') /\ \A s \in Stages : Recorded(d, s)' = Recorded(d, s)
  BY DEF IInv, Mono, Recorded
<1> QED
  BY <1>1 DEF Ledger, Pending

\* A continuation that has ended stays ended when r alone moves.
LEMMA SettledKeeps ==
  ASSUME IInv, NEW r \in Requests, \A q \in Requests \ {r} : Same(q),
         r \in sent => r \in sent' /\ del'[r] = del[r] /\ (pc[r] # "inflight" => pc'[r] # "inflight")
  PROVE  \A d \in Delegations : /\ Settled(d) => Settled(d)'
                                /\ \A q \in SentFor(d) : q \in SentFor(d)'
<1>1. sent \subseteq Requests
  BY DEF IInv, TypeOK
<1> QED
  BY <1>1 DEF Settled, SentFor, Same

\* Steps that touch no store but what they know themselves.
LEMMA LocalStep ==
  ASSUME IInv, NEW r \in Requests, \A q \in Requests \ {r} : Same(q),
         UNCHANGED <<child, receipt, events, branch, sent, executed>>,
         pc'[r] # "inflight", r \in sent => del'[r] = del[r], TypeOK', Request(r)'
  PROVE  IInv'
<1>0. \A d \in Delegations : (Settled(d) => Settled(d)') /\ \A q \in SentFor(d) : q \in SentFor(d)'
  BY SettledKeeps
<1>1. Mono
  <2>1. \A d \in Delegations, s \in Stages : Recorded(d, s) => Recorded(d, s)'
    BY DEF Recorded
  <2> QED
    BY <1>0, <2>1 DEF Mono
<1>2. Children'
  <2>1. Children /\ child' = child /\ branch' = branch
    BY DEF IInv
  <2> QED
    BY <2>1 DEF Children
<1>3. sent \subseteq Requests
  BY DEF IInv, TypeOK
<1>4. Claims'
  BY <1>3 DEF IInv, Claims, MyRow, Same
<1>5. \A d \in Delegations : Succeeds(d)' /\ Ledger(d)'
  BY <1>1, SettledKeeps, SuccessKeeps, LedgerKeeps
<1>6. \A q \in Requests : Request(q)'
  BY <1>1, OtherKeeps
<1>7. EventRows'
  BY DEF IInv, EventRows
<1> QED
  BY <1>2, <1>4, <1>5, <1>6, <1>7 DEF IInv

LEMMA AdmitInv ==
  ASSUME IInv, NEW r \in Requests, NEW d \in Delegations, Admit(r, d)
  PROVE  IInv'
<1>1. /\ pc[r] = "unsent" /\ del' = [del EXCEPT ![r] = d]
      /\ UNCHANGED <<child, receipt, events, branch, seen, todo, then, sent, executed, rejected, crashes>>
  BY DEF Admit, stores, local, world
<1>2. PICK step \in {"begin", "children", "done"}, a \in Answers \cup {"none"} :
        /\ pc' = [pc EXCEPT ![r] = step]
        /\ step = "begin" => IsFanout(d)
        /\ step = "children" => ~IsFanout(d)
        /\ IF step = "done" THEN a = "REFUSED" /\ answer' = [answer EXCEPT ![r] = a] ELSE answer' = answer
  <2>1. CASE Goto(r, IF IsFanout(d) THEN "begin" ELSE "children")
    BY <2>1 DEF Goto
  <2>2. CASE Finish(r, "REFUSED")
    BY <2>2 DEF Finish
  <2> QED
    BY <2>1, <2>2 DEF Admit
<1>3. /\ pc' \in [Requests -> PCs] /\ answer' \in [Requests -> Answers \cup {"none"}]
      /\ del' \in [Requests -> Delegations \cup {None}]
      /\ pc'[r] = step /\ del'[r] = d /\ answer'[r] = IF step = "done" THEN "REFUSED" ELSE answer[r]
      /\ \A q \in Requests \ {r} : pc'[q] = pc[q] /\ del'[q] = del[q] /\ answer'[q] = answer[q]
  BY <1>1, <1>2, ZenonT(40) DEF IInv, TypeOK
<1>4. TypeOK'
  BY <1>1, <1>3, Zenon DEF IInv, TypeOK
<1>5. \A q \in Requests \ {r} : Same(q)
  BY <1>1, <1>3 DEF Same
<1>6. Request(r)'
  BY <1>1, <1>2, <1>3 DEF IInv, Request, Knows, Told, Owes, Appending
<1>7. r \notin sent
  BY <1>1 DEF IInv, Request, Knows
<1> QED
  BY <1>1, <1>2, <1>3, <1>4, <1>5, <1>6, <1>7, LocalStep

LEMMA CrashInv ==
  ASSUME IInv, NEW r \in Requests, Crash(r)
  PROVE  IInv'
<1>1. /\ pc[r] \notin Idle /\ pc' = [pc EXCEPT ![r] = "lost"] /\ crashes' = crashes + 1
      /\ UNCHANGED <<child, receipt, events, del, answer, branch, seen, todo, then, sent, executed, rejected>>
  BY DEF Crash, Goto, stores, local
<1>2. pc' \in [Requests -> PCs] /\ pc'[r] = "lost" /\ \A q \in Requests \ {r} : pc'[q] = pc[q]
  BY <1>1 DEF IInv, TypeOK
<1>3. TypeOK'
  <2>1. crashes' \in Nat
    BY <1>1 DEF IInv, TypeOK
  <2> QED
    BY <1>1, <1>2, <2>1, Zenon DEF IInv, TypeOK
<1>4. \A q \in Requests \ {r} : Same(q)
  BY <1>1, <1>2 DEF Same
<1>5. Request(r)'
  BY <1>1, <1>2 DEF IInv, Request, Knows, Told, Owes, Appending, Whole, MyPlan, MyRow
<1> QED
  BY <1>1, <1>2, <1>3, <1>4, <1>5, LocalStep

LEMMA JoinInv ==
  ASSUME IInv, NEW r \in Requests, JoinChildren(r)
  PROVE  IInv'
<1>1. /\ pc[r] = "children" /\ Whole(r)
      /\ pc' = [pc EXCEPT ![r] = IF IsFanout(del[r]) THEN "validate" ELSE "begin"]
      /\ UNCHANGED <<child, receipt, events, del, answer, branch, seen, todo, then, sent, executed, rejected, crashes>>
  BY DEF JoinChildren, Joined, Goto, stores, local, world
<1>2. pc' \in [Requests -> PCs] /\ pc'[r] = (IF IsFanout(del[r]) THEN "validate" ELSE "begin")
      /\ \A q \in Requests \ {r} : pc'[q] = pc[q]
  BY <1>1 DEF IInv, TypeOK
<1>3. TypeOK'
  BY <1>1, <1>2, Zenon DEF IInv, TypeOK
<1>4. \A q \in Requests \ {r} : Same(q)
  BY <1>1, <1>2 DEF Same
<1>5. Request(r)'
  BY <1>1, <1>2 DEF IInv, Request, Knows, Told, Owes, Appending, Whole, MyPlan, MyRow
<1> QED
  BY <1>1, <1>2, <1>3, <1>4, <1>5, LocalStep

LEMMA AppendEndInv ==
  ASSUME IInv, NEW r \in Requests, AppendEnd(r)
  PROVE  IInv'
<1>1. /\ pc[r] = "append" /\ todo[r] = <<>>
      /\ UNCHANGED <<child, receipt, events, del, branch, seen, todo, then, sent, executed, rejected, crashes>>
  BY DEF AppendEnd, stores, local, world
<1>2. Knows(r) /\ Told(r) /\ Owes(r)
  BY DEF IInv, Request
<1>3. CASE then[r] \in Answers
  <2>1. pc' = [pc EXCEPT ![r] = "done"] /\ answer' = [answer EXCEPT ![r] = then[r]]
    BY <1>3 DEF AppendEnd, Finish
  <2>2. /\ pc' \in [Requests -> PCs] /\ answer' \in [Requests -> Answers \cup {"none"}]
        /\ pc'[r] = "done" /\ answer'[r] = then[r]
        /\ \A q \in Requests \ {r} : pc'[q] = pc[q] /\ answer'[q] = answer[q]
    BY <1>3, <2>1 DEF IInv, TypeOK
  <2>3. TypeOK'
    BY <1>1, <2>2, Zenon DEF IInv, TypeOK
  <2>4. \A q \in Requests \ {r} : Same(q)
    BY <1>1, <2>2 DEF Same
  <2>5. Request(r)'
    BY <1>1, <1>2, <2>2 DEF Request, Knows, Told, Owes, Appending, Whole, MyPlan, MyRow
  <2> QED
    BY <1>1, <2>2, <2>3, <2>4, <2>5, LocalStep
<1>4. CASE then[r] \notin Answers
  <2>1. pc' = [pc EXCEPT ![r] = then[r]] /\ answer' = answer /\ then[r] \in {"claim", "complete"}
    BY <1>1, <1>2, <1>4 DEF AppendEnd, Goto, Knows
  <2>2. pc' \in [Requests -> PCs] /\ pc'[r] = then[r] /\ \A q \in Requests \ {r} : pc'[q] = pc[q]
    BY <2>1 DEF IInv, TypeOK
  <2>3. TypeOK'
    BY <1>1, <2>1, <2>2, Zenon DEF IInv, TypeOK
  <2>4. \A q \in Requests \ {r} : Same(q)
    BY <1>1, <2>1, <2>2 DEF Same
  <2>5. then[r] = "claim" => Recorded(del[r], "returned") /\ Recorded(del[r], "started")
    BY <1>1, <1>2 DEF Owes, Appending, Ahead
  <2>6. Knows(r)' /\ Told(r)'
    BY <1>1, <1>2, <2>1, <2>2 DEF Knows, Told, Appending, Whole, MyPlan, MyRow
  <2>7. Owes(r)'
    BY <1>1, <2>1, <2>2, <2>5 DEF Owes, Appending, Recorded
  <2> QED
    BY <1>1, <2>1, <2>2, <2>3, <2>4, <2>6, <2>7, LocalStep DEF Request
<1> QED
  BY <1>3, <1>4

-----------------------------------------------------------------------------
\* Owing the events of a sequence in order.
LEMMA OweType ==
  ASSUME IInv, NEW r \in Requests, NEW stages \in Seq(Stages), NEW next \in Answers \cup {"claim", "complete"},
         Owe(r, stages, next)
  PROVE  /\ pc' \in [Requests -> PCs] /\ todo' \in [Requests -> Seq(Stages)]
         /\ then' \in [Requests -> Answers \cup {"none", "claim", "complete"}]
         /\ answer' = answer /\ pc'[r] = "append" /\ todo'[r] = stages /\ then'[r] = next
         /\ \A q \in Requests \ {r} : pc'[q] = pc[q] /\ todo'[q] = todo[q] /\ then'[q] = then[q]
BY DEF Owe, Goto, IInv, TypeOK

LEMMA OwedShape ==
  ASSUME NEW d \in Delegations, NEW row, row.state \in Outcomes
  PROVE  /\ Owed(d, row) \in {<<>>, <<"returned">>, <<"returned", "started">>, <<"returned", "started", row.state>>}
         /\ Owed(d, row) \in Seq(Stages)
         /\ Owed(d, row) = <<"returned", "started", row.state>> /\ row.state = "UNCERTAIN" => ~IsFanout(d) /\ ~Pending(row)
<1>1. CASE IsFanout(d) /\ row.state # "SUCCEEDED"
  <2>1. Continues(d)
    BY <1>1 DEF Continues, IsFanout
  <2>2. Owed(d, row) = <<>>
    BY <1>1, <2>1 DEF Owed
  <2> QED
    BY <2>2
<1>2. CASE ~(IsFanout(d) /\ row.state # "SUCCEEDED") /\ ~Continues(d)
  <2>1. Owed(d, row) = <<"returned">>
    BY <1>2 DEF Owed
  <2> QED
    BY <2>1
<1>3. CASE Continues(d) /\ ~IsFanout(d) /\ Pending(row)
  BY <1>3 DEF Owed
<1>4. CASE ~(IsFanout(d) /\ row.state # "SUCCEEDED") /\ Continues(d) /\ ~(~IsFanout(d) /\ Pending(row))
  <2>1. Owed(d, row) = <<"returned", "started", row.state>>
    BY <1>4 DEF Owed
  <2> QED
    BY <1>4, <2>1
<1> QED
  BY <1>1, <1>2, <1>3, <1>4

LEMMA ReplayInv ==
  ASSUME IInv, NEW r \in Requests, Replay(r)
  PROVE  IInv'
<1> DEFINE stages == Owed(del[r], seen[r])
           next == IF seen[r].state = "SUCCEEDED" THEN "REPLAYED" ELSE seen[r].state
<1>1. /\ pc[r] = "replay" /\ Owe(r, stages, next)
      /\ UNCHANGED <<child, receipt, events, del, branch, seen, sent, executed, rejected, crashes>>
  BY DEF Replay, stores, world
<1>2. Knows(r) /\ Told(r) /\ Owes(r)
  BY DEF IInv, Request
<1>3. del[r] \in Delegations /\ seen[r].state \in Outcomes /\ next \in Answers
  BY <1>1, <1>2 DEF Knows, Owes
<1>4. /\ stages \in {<<>>, <<"returned">>, <<"returned", "started">>, <<"returned", "started", seen[r].state>>}
      /\ stages \in Seq(Stages)
      /\ stages = <<"returned", "started", seen[r].state>> /\ seen[r].state = "UNCERTAIN" => Settled(del[r])
  <2>1. /\ stages \in {<<>>, <<"returned">>, <<"returned", "started">>, <<"returned", "started", seen[r].state>>}
        /\ stages \in Seq(Stages)
        /\ stages = <<"returned", "started", seen[r].state>> /\ seen[r].state = "UNCERTAIN"
             => ~IsFanout(del[r]) /\ ~Pending(seen[r])
    BY <1>3, OwedShape
  <2> QED
    BY <1>1, <1>2, <2>1 DEF Owes
<1> HIDE DEF stages, next
<1>5. /\ pc' \in [Requests -> PCs] /\ todo' \in [Requests -> Seq(Stages)]
      /\ then' \in [Requests -> Answers \cup {"none", "claim", "complete"}]
      /\ answer' = answer /\ pc'[r] = "append" /\ todo'[r] = stages /\ then'[r] = next
      /\ \A q \in Requests \ {r} : pc'[q] = pc[q] /\ todo'[q] = todo[q] /\ then'[q] = then[q]
  BY <1>1, <1>3, <1>4, OweType
<1>6. TypeOK'
  BY <1>1, <1>5, Zenon DEF IInv, TypeOK
<1>7. \A q \in Requests \ {r} : Same(q)
  BY <1>1, <1>5 DEF Same
<1>8. Knows(r)' /\ Told(r)'
  BY <1>1, <1>2, <1>3, <1>5 DEF Knows, Told, Appending, Whole, MyPlan, MyRow, next
<1>9. Owes(r)'
  <2>1. ASSUME NEW i \in 1..Len(stages), stages[i] \in Outcomes
        PROVE  /\ i = 3 /\ stages[1] = "returned" /\ stages[2] = "started" /\ stages[i] = seen[r].state
               /\ stages = <<"returned", "started", seen[r].state>>
    BY <1>4, <2>1
  <2>2. ASSUME NEW i \in 1..Len(stages), stages[i] \in Outcomes
        PROVE  /\ seen[r].state = stages[i]
               /\ \E j \in 1..(i - 1) : stages[j] = "returned"
               /\ \E j \in 1..(i - 1) : stages[j] = "started"
               /\ stages[i] = "UNCERTAIN" => Settled(del[r])
    BY <1>4, <2>1, <2>2
  <2>3. Settled(del[r]) => Settled(del[r])'
    BY <1>1, <1>5 DEF Settled, SentFor, IInv, TypeOK
  <2> QED
    BY <1>1, <1>3, <1>5, <2>2, <2>3 DEF Owes, Appending, Ahead
<1> QED
  BY <1>1, <1>5, <1>6, <1>7, <1>8, <1>9, LocalStep DEF Request

-----------------------------------------------------------------------------
\* A branch moves: what is a reply stays, and a claimed packet is only settled
\* by the request that claimed it.
LEMMA BranchStep ==
  ASSUME IInv, NEW r \in Requests, NEW p \in Packets, NEW o \in BranchStates, NEW c \in ChildStates,
         pc[r] = "children", branch[r][p] \in Unfinished,
         branch' = [branch EXCEPT ![r][p] = o], child' = [child EXCEPT ![p] = c],
         child[p] \in Replies => c = child[p],
         o \in Replies => c = o,
         o = "inflight" => child[p] = "absent" /\ c = "claimed",
         o # "inflight" /\ c # child[p] => branch[r][p] = "inflight",
         UNCHANGED <<receipt, events, del, pc, answer, seen, todo, then, sent, executed, rejected, crashes>>
  PROVE  IInv'
<1>1. /\ branch' \in [Requests -> [Packets -> BranchStates]] /\ child' \in [Packets -> ChildStates]
      /\ branch'[r][p] = o /\ child'[p] = c
      /\ \A q \in Requests, x \in Packets : q # r \/ x # p => branch'[q][x] = branch[q][x]
      /\ \A x \in Packets \ {p} : child'[x] = child[x]
      /\ \A q \in Requests \ {r} : branch'[q] = branch[q]
  BY DEF IInv, TypeOK
<1>2. TypeOK' /\ EventRows'
  <2>1. TypeOK'
    BY <1>1, Zenon DEF IInv, TypeOK
  <2> QED
    BY <2>1 DEF IInv, EventRows
<1>3. \A q \in Requests \ {r} : Same(q)
  BY <1>1 DEF Same
<1>4. r \notin sent
  BY DEF IInv, Request, Knows
<1>5. Mono
  BY <1>1, <1>3, <1>4, SettledKeeps DEF Mono, Recorded
<1>6. Children'
  <2>1. ASSUME NEW q \in Requests, NEW x \in Packets
        PROVE  /\ branch'[q][x] \in Replies => child'[x] = branch'[q][x]
               /\ branch'[q][x] = "inflight" => child'[x] = "claimed"
    <3>1. /\ branch[q][x] \in Replies => child[x] = branch[q][x]
          /\ branch[q][x] = "inflight" => child[x] = "claimed"
          /\ branch[q][x] = "inflight" /\ branch[r][x] = "inflight" => q = r
      BY DEF IInv, Children
    <3> QED
      BY <1>1, <3>1
  <2>2. ASSUME NEW q \in Requests, NEW t \in Requests, NEW x \in Packets,
               branch'[q][x] = "inflight", branch'[t][x] = "inflight"
        PROVE  q = t
    <3>1. \A u \in Requests : branch[u][x] = "inflight" => child[x] = "claimed"
      BY DEF IInv, Children
    <3>2. branch[q][x] = "inflight" /\ branch[t][x] = "inflight" => q = t
      BY DEF IInv, Children
    <3> QED
      BY <1>1, <2>2, <3>1, <3>2
  <2> QED
    BY <2>1, <2>2 DEF Children
<1>7. Claims'
  BY DEF IInv, Claims, MyRow
<1>8. \A d \in Delegations : Succeeds(d)' /\ Ledger(d)'
  BY <1>3, <1>4, <1>5, SettledKeeps, SuccessKeeps, LedgerKeeps
<1>9. Request(r)'
  BY <1>4 DEF IInv, Request, Knows, Told, Owes, Appending, MyRow
<1> QED
  BY <1>2, <1>3, <1>5, <1>6, <1>7, <1>8, <1>9, OtherKeeps DEF IInv

LEMMA BranchInv ==
  ASSUME IInv, NEW r \in Requests, Branch(r)
  PROVE  IInv'
<1>0. ASSUME NEW p \in Packets, Branches(r, p)
      PROVE  /\ pc[r] = "children"
             /\ UNCHANGED <<receipt, events, del, pc, answer, seen, todo, then, sent, executed, rejected, crashes>>
             /\ child[p] \in ChildStates /\ branch[r][p] \in BranchStates
             /\ child = [child EXCEPT ![p] = child[p]]
  BY <1>0 DEF Branches, world, IInv, TypeOK
<1>1. ASSUME NEW p \in Packets, BranchAdmit(r, p) PROVE IInv'
  <2>1. PICK o \in {"running", "error"} : branch' = [branch EXCEPT ![r][p] = o]
    BY <1>1 DEF BranchAdmit, Settle
  <2>2. Branches(r, p) /\ branch[r][p] = "idle" /\ child' = [child EXCEPT ![p] = child[p]]
    BY <1>0, <1>1 DEF BranchAdmit
  <2> QED
    BY <1>0, <2>1, <2>2, BranchStep
<1>2. ASSUME NEW p \in Packets, BranchClaim(r, p) PROVE IInv'
  <2>1. Branches(r, p) /\ branch[r][p] = "running"
    BY <1>2 DEF BranchClaim
  <2>2. CASE child[p] = "absent" /\ child' = [child EXCEPT ![p] = "claimed"] /\ Settle(r, p, "inflight")
    BY <1>0, <2>1, <2>2, BranchStep DEF Settle
  <2>3. CASE UNCHANGED child /\ Settle(r, p, "error")
    <3>1. child' = [child EXCEPT ![p] = child[p]]
      BY <1>0, <2>1, <2>3
    <3> QED
      BY <1>0, <2>1, <2>3, <3>1, BranchStep DEF Settle
  <2>4. CASE /\ child[p] # "absent" /\ UNCHANGED child
             /\ Settle(r, p, CASE child[p] \in {"claimed", "UNCERTAIN"} -> "uncertain"
                               [] child[p] = "FAILED" -> "error"
                               [] OTHER -> child[p])
    <3> DEFINE o == CASE child[p] \in {"claimed", "UNCERTAIN"} -> "uncertain"
                      [] child[p] = "FAILED" -> "error"
                      [] OTHER -> child[p]
    <3>1. child[p] \in ChildStates
      BY <1>0, <2>1
    <3>2. o \in {"uncertain", "error"} \/ (o = child[p] /\ child[p] \in Replies)
      <4>1. CASE child[p] \in {"claimed", "UNCERTAIN"}
        BY <4>1
      <4>2. CASE child[p] = "FAILED"
        BY <4>2
      <4>3. CASE child[p] \notin {"claimed", "UNCERTAIN", "FAILED"}
        <5>1. o = child[p]
          BY <4>3
        <5> QED
          BY <2>4, <3>1, <4>3, <5>1
      <4> QED
        BY <4>1, <4>2, <4>3
    <3>3. branch' = [branch EXCEPT ![r][p] = o] /\ child' = [child EXCEPT ![p] = child[p]]
      BY <1>0, <2>1, <2>4 DEF Settle
    <3> HIDE DEF o
    <3>4. o \in BranchStates /\ o # "inflight" /\ (o \in Replies => child[p] = o)
      BY <3>2
    <3> QED
      BY <1>0, <2>1, <3>1, <3>3, <3>4, BranchStep
  <2> QED
    BY <1>2, <2>2, <2>3, <2>4 DEF BranchClaim
<1>3. ASSUME NEW p \in Packets, BranchEnds(r, p) PROVE IInv'
  <2>1. Branches(r, p) /\ branch[r][p] = "inflight" /\ child[p] = "claimed"
    BY <1>3 DEF BranchEnds, IInv, Children
  <2>2. PICK c \in Replies \cup {"FAILED", "UNCERTAIN"} :
          /\ child' = [child EXCEPT ![p] = c]
          /\ \/ Settle(r, p, CASE c = "FAILED" -> "error"
                               [] c = "UNCERTAIN" -> "uncertain"
                               [] OTHER -> c)
             \/ Settle(r, p, "error")
    BY <1>3 DEF BranchEnds
  <2>3. PICK o \in {"error", "uncertain", c} :
          branch' = [branch EXCEPT ![r][p] = o] /\ (o = c => c \in Replies)
    <3>1. CASE Settle(r, p, "error")
      BY <3>1 DEF Settle
    <3>2. CASE c = "FAILED" /\ Settle(r, p, CASE c = "FAILED" -> "error" [] c = "UNCERTAIN" -> "uncertain" [] OTHER -> c)
      BY <3>2 DEF Settle
    <3>3. CASE c = "UNCERTAIN" /\ Settle(r, p, CASE c = "FAILED" -> "error" [] c = "UNCERTAIN" -> "uncertain" [] OTHER -> c)
      BY <3>3 DEF Settle
    <3>4. CASE c \notin {"FAILED", "UNCERTAIN"} /\ Settle(r, p, CASE c = "FAILED" -> "error" [] c = "UNCERTAIN" -> "uncertain" [] OTHER -> c)
      <4>1. (CASE c = "FAILED" -> "error" [] c = "UNCERTAIN" -> "uncertain" [] OTHER -> c) = c
        BY <3>4
      <4> QED
        BY <3>4, <4>1 DEF Settle
    <3> QED
      BY <2>2, <3>1, <3>2, <3>3, <3>4
  <2>4. c \in ChildStates /\ o \in BranchStates /\ o # "inflight" /\ (o \in Replies => c = o)
    BY <2>2, <2>3
  <2> QED
    BY <1>0, <2>1, <2>2, <2>3, <2>4, BranchStep
<1> QED
  BY <1>1, <1>2, <1>3 DEF Branch

-----------------------------------------------------------------------------
\* A request writes the receipt of its delegation.
LEMMA ReceiptStep ==
  ASSUME IInv, NEW r \in Requests, NEW row, del[r] \in Delegations,
         \A q \in Requests \ {r} : Same(q),
         receipt' = [receipt EXCEPT ![del[r]] = row],
         UNCHANGED <<child, events, branch, executed, del>>,
         sent' = sent \/ (sent' = sent \cup {r} /\ r \notin sent /\ MyRow(r).state = "STARTED"),
         r \in sent' => row.state \notin {"absent", "STARTED"},
         row.state # "absent", MyRow(r).state # "absent" => row.state # "STARTED" \/ MyRow(r).state = "STARTED",
         MyRow(r).state = "SUCCEEDED" => row = MyRow(r),
         r \in sent /\ pc[r] # "inflight" => pc'[r] # "inflight",
         row.state = "SUCCEEDED" =>
           /\ pc'[r] # "inflight" /\ Succeeds(del[r])'
           /\ \A q \in Requests \ {r} : pc[q] = "inflight" => del[q] # del[r],
         row.state = "UNCERTAIN" /\ ~IsFanout(del[r]) /\ ~Pending(row) => Settled(del[r])',
         TypeOK', Request(r)'
  PROVE  IInv'
<1> DEFINE d == del[r]
<1>1. receipt'[d] = row /\ MyRow(r) = receipt[d] /\ \A e \in Delegations \ {d} : receipt'[e] = receipt[e]
  BY DEF IInv, TypeOK, MyRow
<1>2. sent \subseteq Requests /\ \A q \in sent : del[q] \in Delegations
  BY DEF IInv, TypeOK, Request, Knows
<1>3. \A e \in Delegations : (Settled(e) => Settled(e)') /\ \A q \in SentFor(e) : q \in SentFor(e)'
  BY SettledKeeps
<1>4. Mono
  <2>1. \A e \in Delegations, s \in Stages : Recorded(e, s) => Recorded(e, s)'
    BY DEF Recorded
  <2>2. ASSUME NEW e \in Delegations
        PROVE  /\ receipt[e].state = "SUCCEEDED" => receipt'[e] = receipt[e]
               /\ receipt[e].state # "absent" => receipt'[e].state # "absent"
               /\ receipt[e].state \notin {"absent", "STARTED"} => receipt'[e].state \notin {"absent", "STARTED"}
    BY <1>1
  <2> QED
    BY <1>3, <2>1, <2>2 DEF Mono
<1>5. Children' /\ EventRows'
  <2>1. Children /\ EventRows /\ child' = child /\ branch' = branch /\ events' = events
    BY DEF IInv
  <2> QED
    BY <2>1 DEF Children, EventRows
<1>6. Claims'
  <2>1. \A q \in sent' : receipt'[del[q]].state \notin {"absent", "STARTED"}
    <3>1. ASSUME NEW q \in sent, q # r PROVE receipt'[del[q]].state \notin {"absent", "STARTED"}
      <4>1. receipt[del[q]].state \notin {"absent", "STARTED"}
        BY DEF IInv, Claims, MyRow
      <4> QED
        BY <1>2, <1>4, <4>1 DEF Mono
    <3> QED
      BY <1>1, <3>1
  <2>2. ASSUME NEW q \in sent', NEW t \in sent', del[q] = del[t] PROVE q = t
    <3>1. \A x, y \in sent : del[x] = del[y] => x = y
      BY DEF IInv, Claims
    <3>2. \A x \in sent : receipt[del[x]].state # "STARTED"
      BY DEF IInv, Claims, MyRow
    <3> QED
      BY <1>1, <2>2, <3>1, <3>2
  <2>3. ASSUME NEW q \in Requests, pc'[q] = "inflight" PROVE receipt'[del[q]].state # "SUCCEEDED"
    <3>1. CASE q = r
      BY <1>1, <2>3, <3>1
    <3>2. CASE q # r
      <4>1. pc[q] = "inflight" /\ receipt[del[q]].state # "SUCCEEDED" /\ del[q] \in Delegations
        BY <1>2, <2>3, <3>2 DEF Same, IInv, Claims, MyRow, Request, Knows
      <4> QED
        BY <1>1, <3>2, <4>1
    <3> QED
      BY <3>1, <3>2
  <2> QED
    BY <2>1, <2>2, <2>3 DEF Claims, MyRow
<1>7. ASSUME NEW e \in Delegations PROVE Succeeds(e)'
  <2>1. CASE e # d
    BY <1>1, <1>3, <1>4, <2>1, SuccessKeeps
  <2>2. CASE e = d /\ row.state = "SUCCEEDED"
    <3>1. Succeeds(del[r])'
      BY <2>2
    <3> QED
      BY <2>2, <3>1 DEF Succeeds, SentFor
  <2>3. CASE e = d /\ row.state # "SUCCEEDED"
    BY <1>1, <2>3 DEF Succeeds
  <2> QED
    BY <2>1, <2>2, <2>3
<1>8. ASSUME NEW e \in Delegations PROVE Ledger(e)'
  <2>1. CASE e # d
    BY <1>1, <1>4, <2>1, LedgerKeeps
  <2>2. CASE e = d
    <3>1. Ledger(d) /\ (Settled(d) => Settled(d)') /\ \A s \in Stages : Recorded(d, s)' = Recorded(d, s)
      BY <1>3 DEF IInv, Recorded
    <3>2. Settled(del[r])' = Settled(e)'
      BY <2>2 DEF Settled, SentFor
    <3> QED
      BY <1>1, <2>2, <3>1, <3>2 DEF Ledger, Recorded
  <2> QED
    BY <2>1, <2>2
<1> QED
  BY <1>4, <1>5, <1>6, <1>7, <1>8, OtherKeeps DEF IInv

LEMMA RowType ==
  ASSUME NEW state \in States, NEW error \in Errors, NEW result \in Results \cup {None}
  PROVE  LET row == Row(state, error, result)
         IN row \in Rows /\ row.state = state /\ row.error = error /\ row.result = result
BY DEF Row, Rows

LEMMA DowngradedType ==
  ASSUME NEW row \in Rows \cup {NoRow}, NEW state \in {"FAILED", "UNCERTAIN"}, NEW error \in Errors
  PROVE  /\ Downgraded(row, state, error) \in Rows
         /\ row.state = "SUCCEEDED" => Downgraded(row, state, error) = row
         /\ row.state # "SUCCEEDED" => /\ Downgraded(row, state, error).state = state
                                       /\ Downgraded(row, state, error).error = error
<1>1. row.result \in Results \cup {None}
  BY DEF Rows, NoRow
<1>2. CASE row.state = "SUCCEEDED"
  BY <1>2 DEF Downgraded, Rows, NoRow
<1>3. CASE row.state # "SUCCEEDED"
  BY <1>1, <1>3, RowType DEF Downgraded
<1> QED
  BY <1>2, <1>3

\* The result of a request whose branches are whole.
LEMMA ResultType ==
  ASSUME NEW r \in Requests, del[r] \in Delegations, Whole(r), NEW v \in Replies
  PROVE  [replies |-> MyReplies(r), final |-> v] \in Results
<1>1. MyReplies(r) \in [Plan[del[r]] -> Replies]
  BY DEF MyReplies, MyPlan, Whole
<1>2. MyReplies(r) \in UNION {[Plan[d] -> Replies] : d \in Delegations}
  BY <1>1
<1> QED
  BY <1>2 DEF Results

\* A request that ends, with or without an answer of its own.
LEMMA FinishType ==
  ASSUME IInv, NEW r \in Requests, NEW a \in Answers, Finish(r, a)
  PROVE  /\ pc' \in [Requests -> PCs] /\ answer' \in [Requests -> Answers \cup {"none"}]
         /\ pc'[r] = "done" /\ answer'[r] = a
         /\ \A q \in Requests \ {r} : pc'[q] = pc[q] /\ answer'[q] = answer[q]
BY DEF Finish, IInv, TypeOK

\* A refusal, a conflict or an error that changes nothing else.
LEMMA FinishKeeps ==
  ASSUME IInv, NEW r \in Requests, pc[r] \notin Idle, NEW a \in Answers \ {"SUCCEEDED", "REPLAYED"}, Finish(r, a),
         UNCHANGED <<child, receipt, events, del, branch, seen, todo, then, sent, executed, rejected, crashes>>
  PROVE  IInv'
<1>1. /\ pc' \in [Requests -> PCs] /\ answer' \in [Requests -> Answers \cup {"none"}]
      /\ pc'[r] = "done" /\ answer'[r] = a
      /\ \A q \in Requests \ {r} : pc'[q] = pc[q] /\ answer'[q] = answer[q]
  BY FinishType
<1>2. TypeOK'
  BY <1>1, Zenon DEF IInv, TypeOK
<1>3. \A q \in Requests \ {r} : Same(q)
  BY <1>1 DEF Same
<1>4. Request(r)'
  BY <1>1 DEF IInv, Request, Knows, Told, Owes, Appending, Whole, MyPlan, MyRow
<1> QED
  BY <1>1, <1>2, <1>3, <1>4, LocalStep

\* A success that is written again as it was.
LEMMA SuccessUnwritten ==
  ASSUME IInv, NEW r \in Requests, del[r] \in Delegations, MyRow(r).state = "SUCCEEDED",
         receipt'[del[r]] = MyRow(r), UNCHANGED <<child, executed, del, sent>>
  PROVE  /\ \A q \in Requests \ {r} : pc[q] = "inflight" => del[q] # del[r]
         /\ Succeeds(del[r])'
<1>1. Succeeds(del[r]) /\ receipt'[del[r]] = receipt[del[r]]
  BY DEF IInv, MyRow
<1>2. \A q \in Requests \ {r} : pc[q] = "inflight" => del[q] # del[r]
  BY DEF IInv, Claims, MyRow
<1> QED
  BY <1>1, <1>2 DEF Succeeds, SentFor

LEMMA FailInv ==
  ASSUME IInv, NEW r \in Requests, FailChildren(r)
  PROVE  IInv'
<1>1. PICK a \in {"UNCERTAIN", "FAILED"} :
        /\ pc[r] = "children" /\ Finish(r, a)
        /\ UNCHANGED <<child, events, del, branch, seen, todo, then, sent, executed, rejected, crashes>>
        /\ IF IsFanout(del[r]) THEN Write(r, Downgraded(MyRow(r), a, "child")) ELSE UNCHANGED receipt
  BY DEF FailChildren, Joined, local, world
<1>2. /\ pc' \in [Requests -> PCs] /\ answer' \in [Requests -> Answers \cup {"none"}]
      /\ pc'[r] = "done" /\ answer'[r] = a
      /\ \A q \in Requests \ {r} : pc'[q] = pc[q] /\ answer'[q] = answer[q]
  BY <1>1, FinishType
<1>3. CASE ~IsFanout(del[r])
  BY <1>1, <1>3, FinishKeeps
<1>4. CASE IsFanout(del[r])
  <2> DEFINE row == Downgraded(MyRow(r), a, "child")
  <2>1. del[r] \in Delegations /\ MyRow(r) \in Rows \cup {NoRow} /\ MyRow(r).state # "absent" /\ r \notin sent
    BY <1>1, <1>4 DEF IInv, Request, Knows, TypeOK, MyRow
  <2>2. row \in Rows /\ (MyRow(r).state = "SUCCEEDED" => row = MyRow(r)) /\ (MyRow(r).state # "SUCCEEDED" => row.state = a)
    BY <2>1, DowngradedType
  <2>3. receipt' = [receipt EXCEPT ![del[r]] = row]
    BY <1>1, <1>4 DEF Write
  <2> HIDE DEF row
  <2>4. receipt' \in [Delegations -> Rows \cup {NoRow}] /\ receipt'[del[r]] = row
    BY <2>1, <2>2, <2>3 DEF IInv, TypeOK
  <2>5. TypeOK'
    BY <1>1, <1>2, <2>4, Zenon DEF IInv, TypeOK
  <2>6. \A q \in Requests \ {r} : Same(q)
    BY <1>1, <1>2 DEF Same
  <2>7. Request(r)'
    BY <1>1, <1>2, <2>1, <2>2, <2>4 DEF IInv, Request, Knows, Told, Owes, Appending, MyRow
  <2>8. row.state = "SUCCEEDED" => /\ \A q \in Requests \ {r} : pc[q] = "inflight" => del[q] # del[r]
                                   /\ Succeeds(del[r])'
    BY <1>1, <2>1, <2>2, <2>3, <2>4, SuccessUnwritten
  <2> QED
    BY <1>1, <1>2, <1>4, <2>1, <2>2, <2>3, <2>5, <2>6, <2>7, <2>8, ReceiptStep
<1> QED
  BY <1>3, <1>4

LEMMA GotoType ==
  ASSUME IInv, NEW r \in Requests, NEW step \in PCs, Goto(r, step)
  PROVE  /\ pc' \in [Requests -> PCs] /\ answer' = answer /\ pc'[r] = step
         /\ \A q \in Requests \ {r} : pc'[q] = pc[q]
BY DEF Goto, IInv, TypeOK

LEMMA ReadType ==
  ASSUME IInv, NEW r \in Requests, NEW row \in Rows \cup {NoRow}, Read(r, row)
  PROVE  /\ seen' \in [Requests -> Rows \cup {NoRow}] /\ seen'[r] = row
         /\ \A q \in Requests \ {r} : seen'[q] = seen[q]
BY DEF Read, IInv, TypeOK

LEMMA WriteType ==
  ASSUME IInv, NEW r \in Requests, del[r] \in Delegations, NEW row \in Rows \cup {NoRow}, Write(r, row)
  PROVE  /\ receipt' \in [Delegations -> Rows \cup {NoRow}] /\ receipt'[del[r]] = row
         /\ receipt' = [receipt EXCEPT ![del[r]] = row]
BY DEF Write, IInv, TypeOK

\* Reading the receipt, to replay it.
LEMMA ReplayKeeps ==
  ASSUME IInv, NEW r \in Requests, del[r] \in Delegations, pc[r] \in {"begin", "claim"},
         MyRow(r).state \notin {"absent", "STARTED"}, Read(r, MyRow(r)), Goto(r, "replay"),
         UNCHANGED <<child, receipt, events, del, branch, todo, then, sent, executed, rejected, crashes>>
  PROVE  IInv'
<1>1. MyRow(r) \in Rows \cup {NoRow} /\ MyRow(r).state \in Outcomes /\ MyRow(r) = receipt[del[r]]
  BY DEF IInv, TypeOK, MyRow, Rows, NoRow
<1>2. /\ pc' \in [Requests -> PCs] /\ answer' = answer /\ pc'[r] = "replay"
      /\ \A q \in Requests \ {r} : pc'[q] = pc[q]
      /\ seen' \in [Requests -> Rows \cup {NoRow}] /\ seen'[r] = MyRow(r)
      /\ \A q \in Requests \ {r} : seen'[q] = seen[q]
  BY <1>1, GotoType, ReadType
<1>3. TypeOK'
  BY <1>2, Zenon DEF IInv, TypeOK
<1>4. \A q \in Requests \ {r} : Same(q)
  BY <1>2 DEF Same
<1>5. Knows(r)' /\ Told(r)'
  BY <1>1, <1>2 DEF IInv, Request, Knows, Told, Appending, Whole, MyPlan, MyRow
<1>6. Owes(r)'
  <2>1. r \notin sent
    BY DEF IInv, Request, Knows
  <2>2. Settled(del[r]) => Settled(del[r])'
    BY <1>2, <2>1 DEF Settled, SentFor, IInv, TypeOK
  <2>3. Ledger(del[r])
    BY DEF IInv
  <2> QED
    BY <1>1, <1>2, <2>2, <2>3 DEF Owes, Appending, Ledger, Pending
<1> QED
  BY <1>2, <1>3, <1>4, <1>5, <1>6, LocalStep DEF Request

LEMMA BeginInv ==
  ASSUME IInv, NEW r \in Requests, Begin(r)
  PROVE  IInv'
<1> DEFINE step == IF IsFanout(del[r]) THEN "children" ELSE "validate"
<1>1. /\ pc[r] = "begin" /\ del[r] \in Delegations /\ r \notin sent
      /\ UNCHANGED <<child, events, del, branch, todo, then, sent, executed, rejected, crashes>>
      /\ MyRow(r) \in Rows \cup {NoRow} /\ MyRow(r) = receipt[del[r]]
      /\ step \in PCs
  BY DEF Begin, IInv, Request, Knows, world, TypeOK, MyRow
<1>2. CASE /\ MyRow(r).state = "absent" /\ Write(r, Row("STARTED", "none", None))
           /\ Goto(r, step) /\ UNCHANGED seen
  <2> DEFINE row == Row("STARTED", "none", None)
  <2>1. row \in Rows /\ row.state = "STARTED"
    BY RowType
  <2>2. Write(r, row)
    BY <1>2
  <2> HIDE DEF row
  <2>3. /\ receipt' \in [Delegations -> Rows \cup {NoRow}] /\ receipt'[del[r]] = row
        /\ receipt' = [receipt EXCEPT ![del[r]] = row]
    BY <1>1, <2>1, <2>2, WriteType
  <2>4. /\ pc' \in [Requests -> PCs] /\ answer' = answer /\ pc'[r] = step
        /\ \A q \in Requests \ {r} : pc'[q] = pc[q]
    BY <1>1, <1>2, GotoType
  <2>5. TypeOK'
    BY <1>1, <1>2, <2>3, <2>4, Zenon DEF IInv, TypeOK
  <2>6. \A q \in Requests \ {r} : Same(q)
    BY <1>1, <1>2, <2>4 DEF Same
  <2>7. Request(r)'
    BY <1>1, <1>2, <2>1, <2>3, <2>4 DEF IInv, Request, Knows, Told, Owes, Appending, Whole, MyPlan, MyRow
  <2> QED
    BY <1>1, <1>2, <2>1, <2>3, <2>4, <2>5, <2>6, <2>7, ReceiptStep
<1>3. CASE MyRow(r).state = "STARTED" /\ UNCHANGED <<receipt, seen>> /\ Goto(r, step)
  <2>1. /\ pc' \in [Requests -> PCs] /\ answer' = answer /\ pc'[r] = step
        /\ \A q \in Requests \ {r} : pc'[q] = pc[q]
    BY <1>1, <1>3, GotoType
  <2>2. TypeOK'
    BY <1>1, <1>3, <2>1, Zenon DEF IInv, TypeOK
  <2>3. \A q \in Requests \ {r} : Same(q)
    BY <1>1, <1>3, <2>1 DEF Same
  <2>4. Request(r)'
    BY <1>1, <1>3, <2>1 DEF IInv, Request, Knows, Told, Owes, Appending, Whole, MyPlan, MyRow
  <2> QED
    BY <1>1, <1>3, <2>1, <2>2, <2>3, <2>4, LocalStep
<1>4. CASE MyRow(r).state \notin {"absent", "STARTED"} /\ UNCHANGED receipt /\ Read(r, MyRow(r)) /\ Goto(r, "replay")
  BY <1>1, <1>4, ReplayKeeps
<1>5. CASE Finish(r, "CONFLICT") /\ UNCHANGED <<receipt, seen>>
  BY <1>1, <1>5, FinishKeeps
<1> QED
  BY <1>2, <1>3, <1>4, <1>5 DEF Begin

LEMMA ValidateInv ==
  ASSUME IInv, NEW r \in Requests, Validate(r)
  PROVE  IInv'
<1>1. /\ pc[r] = "validate" /\ del[r] \in Delegations /\ r \notin sent
      /\ UNCHANGED <<child, events, del, branch, seen, sent, executed, rejected, crashes>>
      /\ MyRow(r) \in Rows \cup {NoRow} /\ MyRow(r) = receipt[del[r]] /\ MyRow(r).state # "absent"
      /\ Knows(r) /\ Told(r) /\ Owes(r)
  BY DEF Validate, IInv, Request, Knows, world, TypeOK, MyRow
<1>2. CASE /\ Owe(r, IF Continues(del[r]) THEN <<"returned", "started">> ELSE <<"returned">>,
                  IF Continues(del[r]) THEN "claim" ELSE "complete")
           /\ UNCHANGED receipt
  <2> DEFINE stages == IF Continues(del[r]) THEN <<"returned", "started">> ELSE <<"returned">>
             next == IF Continues(del[r]) THEN "claim" ELSE "complete"
  <2>1. /\ stages \in Seq(Stages) /\ \A i \in 1..Len(stages) : stages[i] \notin Outcomes
        /\ next = "claim" => /\ Continues(del[r])
                             /\ \E i \in 1..((Len(stages) + 1) - 1) : stages[i] = "returned"
                             /\ \E i \in 1..((Len(stages) + 1) - 1) : stages[i] = "started"
        /\ next = "complete" => ~Continues(del[r])
        /\ next \in {"claim", "complete"}
    <3>1. CASE Continues(del[r])
      BY <3>1
    <3>2. CASE ~Continues(del[r])
      BY <3>2
    <3> QED
      BY <3>1, <3>2
  <2>2. Owe(r, stages, next)
    BY <1>2
  <2> HIDE DEF stages, next
  <2>3. /\ pc' \in [Requests -> PCs] /\ todo' \in [Requests -> Seq(Stages)]
        /\ then' \in [Requests -> Answers \cup {"none", "claim", "complete"}]
        /\ answer' = answer /\ pc'[r] = "append" /\ todo'[r] = stages /\ then'[r] = next
        /\ \A q \in Requests \ {r} : pc'[q] = pc[q] /\ todo'[q] = todo[q] /\ then'[q] = then[q]
    BY <2>1, <2>2, OweType
  <2>4. TypeOK'
    BY <1>1, <1>2, <2>3, Zenon DEF IInv, TypeOK
  <2>5. \A q \in Requests \ {r} : Same(q)
    BY <1>1, <1>2, <2>3 DEF Same
  <2>6. Knows(r)' /\ Told(r)'
    BY <1>1, <1>2, <2>1, <2>3 DEF Knows, Told, Appending, Whole, MyPlan, MyRow
  <2>7. Owes(r)'
    BY <2>1, <2>3 DEF Owes, Appending, Ahead
  <2> QED
    BY <1>1, <1>2, <2>3, <2>4, <2>5, <2>6, <2>7, LocalStep DEF Request
<1>3. CASE Write(r, Downgraded(MyRow(r), "FAILED", "policy")) /\ Finish(r, "REFUSED") /\ UNCHANGED <<todo, then>>
  <2> DEFINE row == Downgraded(MyRow(r), "FAILED", "policy")
  <2>1. row \in Rows /\ (MyRow(r).state = "SUCCEEDED" => row = MyRow(r)) /\ (MyRow(r).state # "SUCCEEDED" => row.state = "FAILED")
    BY <1>1, DowngradedType
  <2>2. Write(r, row)
    BY <1>3
  <2> HIDE DEF row
  <2>3. /\ receipt' \in [Delegations -> Rows \cup {NoRow}] /\ receipt'[del[r]] = row
        /\ receipt' = [receipt EXCEPT ![del[r]] = row]
    BY <1>1, <2>1, <2>2, WriteType
  <2>4. /\ pc' \in [Requests -> PCs] /\ answer' \in [Requests -> Answers \cup {"none"}]
        /\ pc'[r] = "done" /\ answer'[r] = "REFUSED"
        /\ \A q \in Requests \ {r} : pc'[q] = pc[q] /\ answer'[q] = answer[q]
    BY <1>3, FinishType
  <2>5. TypeOK'
    BY <1>1, <1>3, <2>3, <2>4, Zenon DEF IInv, TypeOK
  <2>6. \A q \in Requests \ {r} : Same(q)
    BY <1>1, <1>3, <2>4 DEF Same
  <2>7. Request(r)'
    BY <1>1, <2>1, <2>3, <2>4 DEF Request, Knows, Told, Owes, Appending, Whole, MyPlan, MyRow
  <2>8. row.state = "SUCCEEDED" => /\ \A q \in Requests \ {r} : pc[q] = "inflight" => del[q] # del[r]
                                   /\ Succeeds(del[r])'
    BY <1>1, <2>1, <2>3, SuccessUnwritten
  <2> QED
    BY <1>1, <2>1, <2>3, <2>4, <2>5, <2>6, <2>7, <2>8, ReceiptStep
<1>4. CASE Finish(r, "REFUSED") /\ UNCHANGED <<receipt, todo, then>>
  BY <1>1, <1>4, FinishKeeps
<1> QED
  BY <1>2, <1>3, <1>4 DEF Validate

-----------------------------------------------------------------------------
\* What is appended is something, and a success is the receipt's.
LEMMA DraftSome ==
  ASSUME IInv, NEW r \in Requests, del[r] \in Delegations, NEW stage \in Stages
  PROVE  Draft(r, stage) # None /\ (stage \in Outcomes => Draft(r, stage) = seen[r])
<1>1. seen[r] \in Rows \cup {NoRow} /\ branch[r] \in [Packets -> BranchStates] /\ Plan[del[r]] \subseteq Packets
  BY DEF IInv, TypeOK
<1>2. CASE stage = "started"
  <2>1. Draft(r, stage) = <<>>
    BY <1>2 DEF Draft
  <2> QED
    BY <1>2, <2>1
<1>3. CASE stage = "returned"
  <2>1. Draft(r, stage) = IF IsFanout(del[r]) /\ seen[r].result # None THEN seen[r].result.replies ELSE MyReplies(r)
    BY <1>3 DEF Draft
  <2>2. MyReplies(r) \in [Plan[del[r]] -> BranchStates]
    BY <1>1 DEF MyReplies, MyPlan
  <2>3. seen[r].result # None => seen[r].result \in Results
    BY <1>1 DEF Rows, NoRow
  <2>4. \A x \in Results : x.replies # None
    BY DEF Results
  <2>5. MyReplies(r) # None
    BY <2>2
  <2> QED
    BY <1>3, <2>1, <2>3, <2>4, <2>5
<1>4. CASE stage \in Outcomes
  <2>1. Draft(r, stage) = seen[r]
    BY <1>4 DEF Draft
  <2> QED
    BY <1>1, <2>1
<1> QED
  BY <1>2, <1>3, <1>4

LEMMA AppendInv ==
  ASSUME IInv, NEW r \in Requests, AppendNext(r)
  PROVE  IInv'
<1>1. /\ pc[r] = "append" /\ todo[r] # <<>> /\ del[r] \in Delegations
      /\ UNCHANGED <<child, receipt, del, branch, seen, then, sent, executed, rejected, crashes>>
      /\ Knows(r) /\ Told(r) /\ Owes(r)
  BY DEF AppendNext, IInv, Request, Knows, world
<1>2. CASE Finish(r, "HISTORY") /\ UNCHANGED <<events, todo>>
  BY <1>1, <1>2, FinishKeeps
<1>3. CASE ~(Finish(r, "HISTORY") /\ UNCHANGED <<events, todo>>)
  <2> DEFINE stage == Head(todo[r])
             draft == Draft(r, stage)
             d == del[r]
  <2>1. /\ events[d][stage] \in {None, draft}
        /\ events' = [events EXCEPT ![d][stage] = draft]
        /\ todo' = [todo EXCEPT ![r] = Tail(@)] /\ UNCHANGED <<pc, answer>>
    BY <1>3 DEF AppendNext
  <2>2. /\ todo[r] \in Seq(Stages) /\ Len(todo[r]) \in Nat /\ Len(todo[r]) > 0
        /\ stage \in Stages /\ stage = todo[r][1]
        /\ Tail(todo[r]) \in Seq(Stages) /\ Len(Tail(todo[r])) = Len(todo[r]) - 1
        /\ \A i \in 1..(Len(todo[r]) - 1) : Tail(todo[r])[i] = todo[r][i + 1]
    BY <1>1 DEF IInv, TypeOK
  <2>3. draft # None /\ (stage \in Outcomes => draft = seen[r])
    BY <1>1, <2>2, DraftSome
  <2> HIDE DEF stage, draft
  <2>4. /\ events'[d][stage] = draft
        /\ \A e \in Delegations, s \in Stages : e # d \/ s # stage => events'[e][s] = events[e][s]
        /\ EventRows' /\ DOMAIN events' = Delegations
    <3>1. EventRows /\ stage \in Stages /\ d \in Delegations
      BY <1>1, <2>2 DEF IInv
    <3>2. DOMAIN events = Delegations /\ \A e \in Delegations : DOMAIN events[e] = Stages
      BY <3>1 DEF EventRows
    <3>3. \A e \in Delegations : events'[e] = IF e = d THEN [events[d] EXCEPT ![stage] = draft] ELSE events[e]
      BY <2>1, <3>1, <3>2
    <3>4. \A e \in Delegations, s \in Stages : events'[e][s] = IF e = d /\ s = stage THEN draft ELSE events[e][s]
      BY <3>1, <3>2, <3>3
    <3>5. events' = [e \in Delegations |-> events'[e]]
      BY <2>1, <3>1, <3>2
    <3>6. \A e \in Delegations : events'[e] = [s \in Stages |-> events'[e][s]]
      <4> SUFFICES ASSUME NEW e \in Delegations PROVE events'[e] = [s \in Stages |-> events'[e][s]]
        OBVIOUS
      <4>1. events[e] = [s \in Stages |-> events[e][s]]
        BY <3>1 DEF EventRows
      <4>2. CASE e = d
        BY <3>1, <3>3, <4>1, <4>2
      <4>3. CASE e # d
        BY <3>3, <4>1, <4>3
      <4> QED
        BY <4>2, <4>3
    <3>7. EventRows'
      BY <3>5, <3>6 DEF EventRows
    <3> QED
      BY <1>1, <2>2, <3>1, <3>4, <3>5, <3>7
  <2>5. /\ todo' \in [Requests -> Seq(Stages)] /\ todo'[r] = Tail(todo[r])
        /\ \A q \in Requests \ {r} : todo'[q] = todo[q]
    BY <2>1, <2>2 DEF IInv, TypeOK
  <2>6. TypeOK'
    BY <1>1, <2>1, <2>4, <2>5, Zenon DEF IInv, TypeOK
  <2>7. \A q \in Requests \ {r} : Same(q)
    BY <1>1, <2>1, <2>5 DEF Same
  <2>8. \A e \in Delegations : (Settled(e) => Settled(e)') /\ \A q \in SentFor(e) : q \in SentFor(e)'
    BY <1>1, <2>1, <2>7, SettledKeeps
  <2>9. \A e \in Delegations, s \in Stages : Recorded(e, s)' = (Recorded(e, s) \/ (e = d /\ s = stage))
    BY <1>1, <2>2, <2>3, <2>4 DEF Recorded
  <2>10. Mono
    <3>1. \A e \in Delegations, s \in Stages : Recorded(e, s) => Recorded(e, s)'
      BY <2>9
    <3> QED
      BY <1>1, <2>8, <3>1 DEF Mono
  <2>11. Children' /\ Claims'
    <3>1. Children /\ Claims /\ child' = child /\ branch' = branch
      BY <1>1 DEF IInv
    <3> QED
      BY <1>1, <2>1, <3>1 DEF Children, Claims, MyRow
  <2>12. ASSUME NEW i \in 1..Len(todo[r]), stage \in {"SUCCEEDED", "FAILED", "UNCERTAIN"}
         PROVE  /\ seen[r].state = stage /\ Recorded(d, "returned") /\ Recorded(d, "started")
                /\ stage = "UNCERTAIN" => Settled(d)
    <3>1. /\ seen[r].state = stage /\ Ahead(r, 1, "returned") /\ Ahead(r, 1, "started")
          /\ stage = "UNCERTAIN" => Settled(d)
      BY <1>1, <2>2, <2>12 DEF Owes
    <3> QED
      BY <3>1 DEF Ahead
  <2>13. \A e \in Delegations : Succeeds(e)' /\ Ledger(e)'
    <3>1. ASSUME NEW e \in Delegations, e # d PROVE Ledger(e)'
      <4>1. events'[e] = events[e]
        <5>1. events[e] = [s \in Stages |-> events[e][s]] /\ events'[e] = [s \in Stages |-> events'[e][s]]
          BY <2>4 DEF IInv, EventRows
        <5>2. \A s \in Stages : events'[e][s] = events[e][s]
          BY <2>4, <3>1
        <5> QED
          BY <5>1, <5>2
      <4> QED
        BY <1>1, <2>10, <4>1, LedgerKeeps
    <3>2. ASSUME NEW e \in Delegations, e = d PROVE Ledger(e)'
      <4>1. Ledger(d) /\ (Settled(e) => Settled(e)') /\ receipt'[e] = receipt[d] /\ 1 \in 1..Len(todo[r])
        BY <1>1, <2>2, <2>8, <3>2 DEF IInv
      <4>2. receipt[d].state = "UNCERTAIN" /\ ~IsFanout(d) /\ ~Pending(receipt[d]) => Settled(e)'
        BY <3>2, <4>1 DEF Ledger
      <4>3. Recorded(e, "SUCCEEDED")' => receipt[d].state = "SUCCEEDED" /\ events'[d]["SUCCEEDED"] = receipt[d]
        <5>1. CASE stage = "SUCCEEDED"
          <6>1. seen[r].state = "SUCCEEDED" /\ draft = seen[r]
            BY <2>3, <2>12, <4>1, <5>1
          <6>2. seen[r] = receipt[d]
            BY <1>1, <6>1 DEF Told, MyRow
          <6> QED
            BY <2>4, <5>1, <6>1, <6>2
        <5>2. CASE stage # "SUCCEEDED"
          BY <1>1, <2>4, <2>9, <3>2, <4>1, <5>2 DEF Ledger
        <5> QED
          BY <5>1, <5>2
      <4>4. Recorded(e, "UNCERTAIN")' => Settled(e)'
        BY <2>9, <2>12, <3>2, <4>1 DEF Ledger
      <4>5. \A s \in Outcomes : Recorded(e, s)' => Recorded(e, "returned")' /\ Recorded(e, "started")'
        BY <2>9, <2>12, <3>2, <4>1 DEF Ledger
      <4> QED
        BY <1>1, <3>2, <4>1, <4>2, <4>3, <4>4, <4>5 DEF Ledger, Pending
    <3> QED
      BY <1>1, <2>8, <2>10, <3>1, <3>2, SuccessKeeps
  <2>14. Knows(r)' /\ Told(r)'
    BY <1>1, <2>1 DEF Knows, Told, Appending, Whole, MyPlan, MyRow
  <2>15. Owes(r)'
    <3>1. \A s \in Stages : Recorded(del[r], s)' = (Recorded(d, s) \/ s = stage)
      <4>1. \A s \in Stages : Recorded(del[r], s)' = Recorded(d, s)'
        BY <1>1 DEF Recorded
      <4> QED
        BY <1>1, <2>4, <2>3, <2>2 DEF Recorded
    <3>2. ASSUME NEW i \in 1..Len(todo[r]), NEW s \in Stages, Ahead(r, i + 1, s)
          PROVE  Ahead(r, i, s)'
      <4>1. CASE Recorded(del[r], s)
        BY <3>1, <4>1 DEF Ahead
      <4>2. CASE \E j \in 1..((i + 1) - 1) : todo[r][j] = s
        <5>1. PICK j \in 1..i : todo[r][j] = s
          BY <4>2
        <5>2. CASE j = 1
          BY <2>2, <3>1, <5>1, <5>2 DEF Ahead
        <5>3. CASE j # 1
          <6>1. j - 1 \in 1..(i - 1) /\ todo'[r][j - 1] = s
            BY <2>2, <2>5, <5>1, <5>3
          <6> QED
            BY <6>1 DEF Ahead
        <5> QED
          BY <5>2, <5>3
      <4> QED
        BY <3>2, <4>1, <4>2 DEF Ahead
    <3>3. Settled(del[r]) => Settled(del[r])'
      BY <1>1, <2>1 DEF Settled, SentFor
    <3>4. ASSUME NEW i \in 1..Len(todo'[r]), todo'[r][i] \in Outcomes
          PROVE  /\ seen[r].state = todo'[r][i] /\ Ahead(r, i, "returned")' /\ Ahead(r, i, "started")'
                 /\ todo'[r][i] = "UNCERTAIN" => Settled(del[r])'
      <4>1. i + 1 \in 1..Len(todo[r]) /\ i \in 1..Len(todo[r]) /\ todo'[r][i] = todo[r][i + 1]
        BY <2>2, <2>5
      <4>2. /\ seen[r].state = todo[r][i + 1] /\ Ahead(r, i + 1, "returned") /\ Ahead(r, i + 1, "started")
            /\ todo[r][i + 1] = "UNCERTAIN" => Settled(del[r])
        BY <1>1, <3>4, <4>1 DEF Owes
      <4> QED
        BY <3>2, <3>3, <4>1, <4>2
    <3>5. Appending(r, "claim") => Ahead(r, Len(todo[r]) + 1, "returned")' /\ Ahead(r, Len(todo[r]) + 1, "started")'
      <4>1. PICK n \in 1..Len(todo[r]) : n = Len(todo[r]) /\ n = Len(todo'[r]) + 1
        BY <2>2, <2>5
      <4>2. Appending(r, "claim") => Ahead(r, n + 1, "returned") /\ Ahead(r, n + 1, "started")
        BY <1>1, <4>1 DEF Owes
      <4>3. Appending(r, "claim") => Ahead(r, n, "returned")' /\ Ahead(r, n, "started")'
        BY <3>2, <4>2
      <4> QED
        BY <4>1, <4>3 DEF Ahead
    <3>6. Appending(r, "claim")' = Appending(r, "claim")
      BY <1>1, <2>1 DEF Appending
    <3> QED
      BY <1>1, <2>1, <3>4, <3>5, <3>6 DEF Owes, Appending
  <2> QED
    BY <1>1, <2>4, <2>6, <2>7, <2>10, <2>11, <2>13, <2>14, <2>15, OtherKeeps DEF IInv, Request
<1> QED
  BY <1>2, <1>3

-----------------------------------------------------------------------------
\* A full delegation has one packet, so its receipt can only say one thing.
LEMMA CompleteInv ==
  ASSUME IInv, NEW r \in Requests, Complete(r)
  PROVE  IInv'
<1>1. /\ pc[r] = "complete" /\ del[r] \in Delegations /\ r \notin sent
      /\ UNCHANGED <<child, events, del, branch, todo, then, sent, executed, rejected, crashes>>
      /\ MyRow(r) \in Rows \cup {NoRow} /\ MyRow(r) = receipt[del[r]]
      /\ Knows(r) /\ Told(r) /\ Owes(r) /\ Whole(r) /\ ~Continues(del[r]) /\ Finish(r, "SUCCEEDED")
  BY DEF Complete, IInv, Request, Knows, world, TypeOK, MyRow
<1>2. PICK p \in Plan[del[r]] :
        LET row == Row("SUCCEEDED", "none", [replies |-> MyReplies(r), final |-> branch[r][p]])
        IN Write(r, row) /\ Read(r, row)
  BY DEF Complete, MyPlan
<1> DEFINE result == [replies |-> MyReplies(r), final |-> branch[r][p]]
           row == Row("SUCCEEDED", "none", result)
<1>3. /\ Plan[del[r]] = {p} /\ Plan[del[r]] \subseteq Packets
      /\ child[p] \in Replies /\ branch[r][p] = child[p]
      /\ MyReplies(r) = [x \in Plan[del[r]] |-> child[x]]
  <2>1. Plan[del[r]] = {p} /\ Plan[del[r]] \subseteq Packets
    BY <1>1 DEF Continues, IsFanout
  <2>2. child[p] \in Replies /\ branch[r][p] = child[p]
    BY <1>1, <2>1 DEF Whole, MyPlan, IInv, Children
  <2> QED
    BY <2>1, <2>2 DEF MyReplies, MyPlan
<1>4. result \in Results
  BY <1>1, <1>3, ResultType
<1>5. /\ row \in Rows /\ row.state = "SUCCEEDED" /\ row.error = "none" /\ row.result = result
      /\ result.replies = [x \in Plan[del[r]] |-> child[x]] /\ result.final = child[p]
      /\ row = [state |-> "SUCCEEDED", error |-> "none", result |-> result]
  <2>1. row \in Rows /\ row.state = "SUCCEEDED" /\ row.error = "none" /\ row.result = result
    BY <1>4, RowType
  <2> QED
    BY <1>3, <2>1 DEF Row
<1>6. MyRow(r).state = "SUCCEEDED" => row = MyRow(r)
  <2> SUFFICES ASSUME MyRow(r).state = "SUCCEEDED" PROVE row = MyRow(r)
    OBVIOUS
  <2>1. /\ MyRow(r).error = "none" /\ MyRow(r).result # None
        /\ MyRow(r).result.replies = [x \in Plan[del[r]] |-> child[x]]
        /\ MyRow(r).result.final = child[p]
    BY <1>1, <1>3, ZenonT(40) DEF IInv, Succeeds
  <2>2. MyRow(r) \in Rows
    BY <1>1 DEF NoRow
  <2>3. MyRow(r).result \in Results
    BY <2>1, <2>2 DEF Rows
  <2>4. MyRow(r).result = result
    BY <1>3, <2>1, <2>3 DEF Results
  <2>5. MyRow(r) = [state |-> "SUCCEEDED", error |-> "none", result |-> result]
    BY <2>1, <2>2, <2>4 DEF Rows
  <2> QED
    BY <1>5, <2>5
<1>7. Write(r, row) /\ Read(r, row)
  BY <1>2
<1> HIDE DEF row, result
<1>8. /\ receipt' \in [Delegations -> Rows \cup {NoRow}] /\ receipt'[del[r]] = row
      /\ receipt' = [receipt EXCEPT ![del[r]] = row]
      /\ seen' \in [Requests -> Rows \cup {NoRow}] /\ seen'[r] = row
      /\ \A q \in Requests \ {r} : seen'[q] = seen[q]
  BY <1>1, <1>5, <1>7, WriteType, ReadType
<1>9. /\ pc' \in [Requests -> PCs] /\ answer' \in [Requests -> Answers \cup {"none"}]
      /\ pc'[r] = "done" /\ answer'[r] = "SUCCEEDED"
      /\ \A q \in Requests \ {r} : pc'[q] = pc[q] /\ answer'[q] = answer[q]
  BY <1>1, FinishType
<1>10. TypeOK'
  BY <1>1, <1>8, <1>9, Zenon DEF IInv, TypeOK
<1>11. \A q \in Requests \ {r} : Same(q)
  BY <1>1, <1>8, <1>9 DEF Same
<1>12. Request(r)'
  BY <1>1, <1>5, <1>8, <1>9 DEF Request, Knows, Told, Owes, Appending, Whole, MyPlan, MyRow
<1>13. Succeeds(del[r])'
  <2>1. row.result # None
    BY <1>4, <1>5
  <2>2. \A x \in Plan[del[r]] : child[x] \in Replies
    BY <1>3
  <2> QED
    BY <1>1, <1>3, <1>5, <1>8, <2>1, <2>2 DEF Succeeds
<1>14. \A q \in Requests \ {r} : pc[q] = "inflight" => del[q] # del[r]
  BY <1>1 DEF IInv, Request, Knows
<1> QED
  BY <1>1, <1>5, <1>6, <1>8, <1>9, <1>10, <1>11, <1>12, <1>13, <1>14, ReceiptStep

LEMMA ClaimInv ==
  ASSUME IInv, NEW r \in Requests, Claim(r)
  PROVE  IInv'
<1>1. /\ pc[r] = "claim" /\ del[r] \in Delegations /\ r \notin sent
      /\ UNCHANGED <<child, events, del, branch, todo, then, executed, rejected, crashes>>
      /\ MyRow(r) \in Rows \cup {NoRow} /\ MyRow(r) = receipt[del[r]] /\ MyRow(r).state # "absent"
      /\ Knows(r) /\ Told(r) /\ Owes(r) /\ Whole(r) /\ Continues(del[r])
  BY DEF Claim, IInv, Request, Knows, TypeOK, MyRow
<1>2. CASE MyRow(r).state = "STARTED"
  <2> DEFINE row == Row("UNCERTAIN", "pending", MyRow(r).result)
  <2>1. row \in Rows /\ row.state = "UNCERTAIN" /\ row.error = "pending"
    <3>1. MyRow(r).result \in Results \cup {None}
      BY <1>1 DEF Rows, NoRow
    <3> QED
      BY <3>1, RowType
  <2>2. Write(r, row) /\ sent' = sent \cup {r} /\ Goto(r, "inflight") /\ seen' = seen
    BY <1>2 DEF Claim
  <2> HIDE DEF row
  <2>3. /\ receipt' \in [Delegations -> Rows \cup {NoRow}] /\ receipt'[del[r]] = row
        /\ receipt' = [receipt EXCEPT ![del[r]] = row]
    BY <1>1, <2>1, <2>2, WriteType
  <2>4. /\ pc' \in [Requests -> PCs] /\ answer' = answer /\ pc'[r] = "inflight"
        /\ \A q \in Requests \ {r} : pc'[q] = pc[q]
    BY <2>2, GotoType
  <2>5. TypeOK'
    <3>1. sent' \subseteq Requests /\ rejected' \subseteq sent'
      BY <1>1, <2>2 DEF IInv, TypeOK
    <3> QED
      BY <1>1, <2>2, <2>3, <2>4, <3>1, Zenon DEF IInv, TypeOK
  <2>6. \A q \in Requests \ {r} : Same(q)
    BY <1>1, <2>2, <2>4 DEF Same
  <2>7. Request(r)'
    BY <1>1, <1>2, <2>1, <2>2, <2>3, <2>4 DEF Request, Knows, Told, Owes, Appending, Whole, MyPlan, MyRow, Recorded
  <2> QED
    BY <1>1, <1>2, <2>1, <2>2, <2>3, <2>4, <2>5, <2>6, <2>7, ReceiptStep DEF Pending
<1>3. CASE MyRow(r).state # "STARTED"
  <2>1. Read(r, MyRow(r)) /\ Goto(r, "replay") /\ UNCHANGED <<receipt, sent>>
    BY <1>3 DEF Claim
  <2> QED
    BY <1>1, <1>3, <2>1, ReplayKeeps
<1> QED
  BY <1>2, <1>3

\* The continuation ends, in a success or not, and its event is owed.
LEMMA EndStep ==
  ASSUME IInv, NEW r \in Requests, NEW row \in Rows, NEW next \in Answers,
         pc[r] = "inflight", Write(r, row), Read(r, row), Owe(r, <<row.state>>, next),
         row.state \in Outcomes,
         next \in {"SUCCEEDED", "REPLAYED"} => row.state = "SUCCEEDED",
         row.state = "SUCCEEDED" => Succeeds(del[r])',
         UNCHANGED <<child, events, del, branch, sent, executed, rejected, crashes>>
  PROVE  IInv'
<1>1. /\ del[r] \in Delegations /\ r \in sent /\ MyRow(r) = receipt[del[r]]
      /\ Knows(r) /\ Told(r) /\ Owes(r) /\ Whole(r) /\ Continues(del[r])
      /\ MyRow(r).state \notin {"absent", "STARTED", "SUCCEEDED"}
  BY DEF IInv, Request, Knows, Claims, MyRow
<1>2. /\ receipt' \in [Delegations -> Rows \cup {NoRow}] /\ receipt'[del[r]] = row
      /\ receipt' = [receipt EXCEPT ![del[r]] = row]
      /\ seen' \in [Requests -> Rows \cup {NoRow}] /\ seen'[r] = row
      /\ \A q \in Requests \ {r} : seen'[q] = seen[q]
  BY <1>1, WriteType, ReadType
<1>3. <<row.state>> \in Seq(Stages)
  OBVIOUS
<1>4. /\ pc' \in [Requests -> PCs] /\ todo' \in [Requests -> Seq(Stages)]
      /\ then' \in [Requests -> Answers \cup {"none", "claim", "complete"}]
      /\ answer' = answer /\ pc'[r] = "append" /\ todo'[r] = <<row.state>> /\ then'[r] = next
      /\ \A q \in Requests \ {r} : pc'[q] = pc[q] /\ todo'[q] = todo[q] /\ then'[q] = then[q]
  BY <1>3, OweType
<1>5. TypeOK'
  BY <1>2, <1>4, Zenon DEF IInv, TypeOK
<1>6. \A q \in Requests \ {r} : Same(q)
  BY <1>2, <1>4 DEF Same
<1>7. Settled(del[r])'
  BY <1>1, <1>4 DEF Settled, SentFor
<1>8. Knows(r)' /\ Told(r)'
  BY <1>1, <1>2, <1>4 DEF Knows, Told, Appending, Whole, MyPlan, MyRow
<1>9. Owes(r)'
  <2>1. Recorded(del[r], "returned")' /\ Recorded(del[r], "started")'
    BY <1>1 DEF Owes, Recorded
  <2>2. Len(todo'[r]) = 1 /\ todo'[r][1] = row.state
    BY <1>4
  <2>3. ASSUME NEW i \in 1..Len(todo'[r])
        PROVE  /\ seen'[r].state = todo'[r][i] /\ Ahead(r, i, "returned")' /\ Ahead(r, i, "started")'
               /\ Settled(del[r])'
    BY <1>2, <1>7, <2>1, <2>2 DEF Ahead
  <2> QED
    BY <1>4, <2>3 DEF Owes, Appending
<1>10. \A q \in Requests \ {r} : pc[q] = "inflight" => del[q] # del[r]
  <2>1. \A q, t \in sent : del[q] = del[t] => q = t
    BY DEF IInv, Claims
  <2>2. \A q \in Requests : pc[q] = "inflight" => q \in sent
    BY DEF IInv, Request, Knows
  <2> QED
    BY <1>1, <2>1, <2>2
<1> QED
  BY <1>1, <1>2, <1>4, <1>5, <1>6, <1>7, <1>8, <1>9, <1>10, ReceiptStep DEF Request

LEMMA ContinuedInv ==
  ASSUME IInv, NEW r \in Requests, Continued(r)
  PROVE  IInv'
<1> DEFINE result == [replies |-> MyReplies(r), final |-> executed[r]]
           row == Row("SUCCEEDED", "none", result)
<1>1. /\ pc[r] = "inflight" /\ executed[r] # None
      /\ Write(r, row) /\ Read(r, row) /\ Owe(r, <<"SUCCEEDED">>, "SUCCEEDED")
      /\ UNCHANGED <<child, events, del, branch, sent, executed, rejected, crashes>>
  BY DEF Continued, world
<1>2. del[r] \in Delegations /\ r \in sent /\ Whole(r) /\ Continues(del[r]) /\ executed[r] \in Replies
      /\ Plan[del[r]] \subseteq Packets
  BY <1>1 DEF IInv, Request, Knows, TypeOK
<1>3. /\ \A p \in Plan[del[r]] : child[p] \in Replies /\ branch[r][p] = child[p]
      /\ MyReplies(r) = [p \in Plan[del[r]] |-> child[p]]
  <2>1. \A p \in Plan[del[r]] : child[p] \in Replies /\ branch[r][p] = child[p]
    BY <1>2 DEF Whole, MyPlan, IInv, Children
  <2> QED
    BY <2>1 DEF MyReplies, MyPlan
<1>4. result \in Results
  BY <1>2, ResultType
<1>5. /\ row \in Rows /\ row.state = "SUCCEEDED" /\ row.error = "none" /\ row.result = result /\ result # None
      /\ result.replies = [p \in Plan[del[r]] |-> child[p]] /\ result.final = executed[r]
  <2>1. row \in Rows /\ row.state = "SUCCEEDED" /\ row.error = "none" /\ row.result = result
    BY <1>4, RowType
  <2> QED
    BY <1>3, <1>4, <2>1
<1> HIDE DEF row, result
<1>6. receipt'[del[r]] = row
  BY <1>1, <1>2, <1>5, WriteType
<1>7. Succeeds(del[r])'
  <2>1. r \in SentFor(del[r])'
    BY <1>1, <1>2 DEF SentFor
  <2> QED
    BY <1>1, <1>2, <1>3, <1>5, <1>6, <2>1 DEF Succeeds
<1> QED
  BY <1>1, <1>5, <1>7, EndStep

LEMMA NotContinuedInv ==
  ASSUME IInv, NEW r \in Requests, NotContinued(r)
  PROVE  IInv'
<1>1. PICK state \in {"FAILED", "UNCERTAIN"} :
        LET row == Downgraded(MyRow(r), state, IF state = "FAILED" THEN "rejected" ELSE "ambiguous")
        IN Write(r, row) /\ Read(r, row) /\ Owe(r, <<row.state>>, state)
  BY DEF NotContinued
<1> DEFINE error == IF state = "FAILED" THEN "rejected" ELSE "ambiguous"
           row == Downgraded(MyRow(r), state, error)
<1>2. /\ pc[r] = "inflight" /\ UNCHANGED <<child, events, del, branch, sent, executed, rejected, crashes>>
  BY DEF NotContinued, world
<1>3. MyRow(r) \in Rows \cup {NoRow} /\ MyRow(r).state # "SUCCEEDED"
  BY <1>2 DEF IInv, Request, Knows, Claims, TypeOK, MyRow
<1>4. row \in Rows /\ row.state = state
  BY <1>3, DowngradedType
<1>5. Write(r, row) /\ Read(r, row) /\ Owe(r, <<row.state>>, state)
  BY <1>1
<1> HIDE DEF row, error
<1> QED
  BY <1>2, <1>4, <1>5, EndStep

\* What Connect does is no step of a request.
LEMMA ExecuteInv ==
  ASSUME IInv, NEW r \in Requests, Execute(r)
  PROVE  IInv'
<1>1. /\ UNCHANGED <<child, receipt, events, del, pc, answer, branch, seen, todo, then, sent, crashes>>
      /\ executed[r] = None /\ r \in sent
  BY DEF Execute, stores, local
<1>2. /\ executed' \in [Requests -> Replies \cup {None}] /\ rejected' \subseteq sent
      /\ \A q \in Requests : executed[q] # None => executed'[q] = executed[q]
  <2>1. CASE \E v \in Replies : executed' = [executed EXCEPT ![r] = v] /\ UNCHANGED rejected
    BY <1>1, <2>1 DEF IInv, TypeOK
  <2>2. CASE rejected' = rejected \cup {r} /\ UNCHANGED executed
    BY <1>1, <2>2 DEF IInv, TypeOK
  <2> QED
    BY <2>1, <2>2 DEF Execute
<1>3. TypeOK'
  BY <1>1, <1>2, Zenon DEF IInv, TypeOK
<1>4. \A q \in Requests : Same(q)
  BY <1>1 DEF Same
<1>5. \A d \in Delegations : (Settled(d) => Settled(d)') /\ \A q \in SentFor(d) : q \in SentFor(d)'
  BY <1>1 DEF Settled, SentFor
<1>6. Mono
  <2>1. \A d \in Delegations, s \in Stages : Recorded(d, s) => Recorded(d, s)'
    BY <1>1 DEF Recorded
  <2> QED
    BY <1>1, <1>2, <1>5, <2>1 DEF Mono
<1>7. EventRows' /\ Children' /\ Claims'
  <2>1. EventRows /\ Children /\ Claims
    BY DEF IInv
  <2> QED
    BY <1>1, <2>1 DEF EventRows, Children, Claims, MyRow
<1>8. \A d \in Delegations : Succeeds(d)' /\ Ledger(d)'
  BY <1>1, <1>5, <1>6, SuccessKeeps, LedgerKeeps
<1> QED
  BY <1>3, <1>4, <1>6, <1>7, <1>8, OtherKeeps DEF IInv

LEMMA NextInv == IInv /\ [Next]_vars => IInv'
<1> SUFFICES ASSUME IInv, [Next]_vars PROVE IInv'
  OBVIOUS
<1>1. ASSUME NEW r \in Requests, Step(r) PROVE IInv'
  BY <1>1, BranchInv, JoinInv, FailInv, BeginInv, ValidateInv, AppendInv, AppendEndInv, ReplayInv,
     CompleteInv, ClaimInv, ContinuedInv, NotContinuedInv DEF Step
<1>2. CASE UNCHANGED vars
  <2>1. UNCHANGED <<child, receipt, events, del, pc, answer, branch, seen, todo, then, sent, executed, rejected, crashes>>
    BY <1>2 DEF vars, stores, local, world
  <2>2. TypeOK'
    BY <2>1, Zenon DEF IInv, TypeOK
  <2>3. \A q \in Requests : Same(q)
    BY <2>1 DEF Same
  <2>4. \A d \in Delegations : (Settled(d) => Settled(d)') /\ \A q \in SentFor(d) : q \in SentFor(d)'
    BY <2>1 DEF Settled, SentFor
  <2>5. Mono
    <3>1. \A d \in Delegations, s \in Stages : Recorded(d, s) => Recorded(d, s)'
      BY <2>1 DEF Recorded
    <3> QED
      BY <2>1, <2>4, <3>1 DEF Mono
  <2>6. EventRows' /\ Children' /\ Claims'
    <3>1. EventRows /\ Children /\ Claims
      BY DEF IInv
    <3> QED
      BY <2>1, <3>1 DEF EventRows, Children, Claims, MyRow
  <2>7. \A d \in Delegations : Succeeds(d)' /\ Ledger(d)'
    BY <2>1, <2>4, <2>5, SuccessKeeps, LedgerKeeps
  <2> QED
    BY <2>2, <2>3, <2>5, <2>6, <2>7, OtherKeeps DEF IInv
<1> QED
  BY <1>1, <1>2, AdmitInv, ExecuteInv, CrashInv DEF Next

-----------------------------------------------------------------------------
\* The inductive invariant always holds.
THEOREM DelegationInvariant == Spec => []IInv
BY InitInv, NextInv, PTL DEF Spec

\* The sender continues at most once for a delegation, and only with the
\* results of all its packets, as their receipts hold them.
THEOREM Continuation == Spec => []ContinuesOnWhole
<1>1. IInv => ContinuesOnWhole
  <2> SUFFICES ASSUME IInv PROVE ContinuesOnWhole
    OBVIOUS
  <2>1. ASSUME NEW r \in sent
        PROVE  Continues(del[r]) /\ \A p \in MyPlan(r) : child[p] \in Replies /\ branch[r][p] = child[p]
    <3>1. r \in Requests /\ Knows(r)
      BY DEF IInv, Request, TypeOK
    <3>2. Whole(r) /\ Continues(del[r]) /\ del[r] \in Delegations
      BY <3>1 DEF Knows
    <3>3. MyPlan(r) \subseteq Packets
      BY <3>2 DEF MyPlan
    <3> QED
      BY <3>1, <3>2, <3>3 DEF Whole, IInv, Children
  <2>2. TypeOK /\ \A q, r \in sent : del[q] = del[r] => q = r
    BY DEF IInv, Claims
  <2> QED
    BY <2>1, <2>2 DEF ContinuesOnWhole
<1> QED
  BY <1>1, DelegationInvariant, PTL

\* A success holds the children's results and the sender's one answer, and
\* whoever was told a success was told the receipt's.
THEOREM Successes == Spec => []SuccessIsTrue
<1>1. IInv => SuccessIsTrue
  BY DEF IInv, Succeeds, Request, Told, SuccessIsTrue
<1> QED
  BY <1>1, DelegationInvariant, PTL

\* The lifecycle events of the ledger follow the receipt, in their order.
THEOREM Events == Spec => []EventsBacked
<1>1. IInv => EventsBacked
  BY DEF IInv, Ledger, Recorded, Settled, EventsBacked
<1> QED
  BY <1>1, DelegationInvariant, PTL
=============================================================================
