---------------------------- MODULE EcxDelegation ----------------------------
(***************************************************************************)
(* Delegation between agents at the Hub: the round-trip and the fan-out    *)
(* routes of exchange-http.ts, EcxRoundTripStore and EcxFanoutStore.  A    *)
(* delegation executes its packets (one in a round trip, several at once   *)
(* in a fan-out), takes the results back under a receipt of its own and,   *)
(* unless its mode is full, lets the sender continue with one call of      *)
(* Connect.                                                                *)
(*                                                                         *)
(* Every SQLite statement is a step and may be the last of its process:    *)
(* two requests interleave as if they were served by two processes.  The   *)
(* execution of a packet is EcxExecution in brief: what it awaits, its     *)
(* claim and its receipt.                                                  *)
(***************************************************************************)
EXTENDS Naturals, Sequences, FiniteSetsExt

CONSTANTS Requests, Packets, Delegations,
          Plan,          \* the packets of a delegation, in their order
          Mode,          \* "full", "delta", or "fanout", which is a delta too
          Replies,       \* what a model may answer
          None,
          MaxCrashes     \* bound on requests whose process dies

IsFanout(d) == Mode[d] = "fanout"
Continues(d) == Mode[d] # "full"

ASSUME Plans ==
  /\ MaxCrashes \in Nat /\ Packets \subseteq Nat
  /\ Plan \in [Delegations -> SUBSET Packets]
  /\ Mode \in [Delegations -> {"full", "delta", "fanout"}]
  /\ \A d \in Delegations : IF IsFanout(d) THEN Plan[d] # {} ELSE \E p \in Packets : Plan[d] = {p}

\* What a round trip or fan-out response carries of its children and its end.
Results == [replies : UNION {[Plan[d] -> Replies] : d \in Delegations}, final : Replies]
States == {"STARTED", "SUCCEEDED", "FAILED", "UNCERTAIN"}
Errors == {"none", "pending", "ambiguous", "rejected", "policy", "child"}
Rows == [state : States, error : Errors, result : Results \cup {None}]
NoRow == [state |-> "absent", error |-> "none", result |-> None]

Stages == {"returned", "started", "SUCCEEDED", "FAILED", "UNCERTAIN"}
Answers == {"SUCCEEDED", "REPLAYED", "FAILED", "UNCERTAIN", "REFUSED", "CONFLICT", "HISTORY"}
Unfinished == {"idle", "running", "inflight"}     \* branches
Idle == {"unsent", "done", "lost"}
PCs == Idle \cup {"begin", "children", "validate", "append", "claim", "complete", "inflight", "replay"}

BranchStates == Unfinished \cup {"error", "uncertain"} \cup Replies
ChildStates == {"absent", "claimed", "FAILED", "UNCERTAIN"} \cup Replies

\* A reply is not a state, and None is nothing a model, a row or an event says.
ASSUME RepliesApart == Replies \cap (Unfinished \cup {"error", "uncertain", "absent", "claimed", "FAILED", "UNCERTAIN"}) = {}
ASSUME NoneIsNothing ==
  /\ None \notin Results \cup Replies \cup Delegations \cup Rows \cup {NoRow, <<>>}
  /\ \A d \in Delegations : None \notin [Plan[d] -> BranchStates] /\ None \notin [Plan[d] -> Replies]

VARIABLES
  child,      \* ecx_execution_receipts: a reply when SUCCEEDED
  receipt,    \* ecx_round_trip_receipts, ecx_fanout_receipts
  events,     \* the lifecycle events of a delegation, with what they copy
  del, pc, answer,
  branch,     \* executeRecipient, by request and packet
  seen,       \* the receipt as a request last read it
  todo, then, \* events to append, and where the request goes after them
  sent,       \* requests that dispatched the continuation
  executed, rejected,   \* what Connect did with it
  crashes

stores == <<child, receipt, events>>
local == <<branch, seen, todo, then>>
world == <<sent, executed, rejected, crashes>>
vars == <<stores, del, pc, answer, local, world>>

Init ==
  /\ child = [p \in Packets |-> "absent"]
  /\ receipt = [d \in Delegations |-> NoRow]
  /\ events = [d \in Delegations |-> [s \in Stages |-> None]]
  /\ del = [r \in Requests |-> None]
  /\ pc = [r \in Requests |-> "unsent"] /\ answer = [r \in Requests |-> "none"]
  /\ branch = [r \in Requests |-> [p \in Packets |-> "idle"]]
  /\ seen = [r \in Requests |-> NoRow]
  /\ todo = [r \in Requests |-> <<>>] /\ then = [r \in Requests |-> "none"]
  /\ sent = {} /\ executed = [r \in Requests |-> None] /\ rejected = {} /\ crashes = 0

-----------------------------------------------------------------------------
Goto(r, step) == pc' = [pc EXCEPT ![r] = step] /\ UNCHANGED answer
Finish(r, a) == pc' = [pc EXCEPT ![r] = "done"] /\ answer' = [answer EXCEPT ![r] = a]
Row(state, error, result) == [state |-> state, error |-> error, result |-> result]
MyPlan(r) == Plan[del[r]]
MyRow(r) == receipt[del[r]]
Write(r, row) == receipt' = [receipt EXCEPT ![del[r]] = row]
Read(r, row) == seen' = [seen EXCEPT ![r] = row]

\* Mutant: a late failure overwrites a success.
DowngradedAlways(row, state, error) == Row(state, error, row.result)

\* fail and noteUncertain: a success is not overwritten, anything else is.
Downgraded(row, state, error) ==
  IF row.state = "SUCCEEDED" THEN row ELSE Row(state, error, row.result)

MyReplies(r) == [p \in MyPlan(r) |-> branch[r][p]]

-----------------------------------------------------------------------------
\* The boundary of the history session, the binding and authority of the
\* sender.  A fan-out begins its receipt first, a round trip executes first.
Admit(r, d) ==
  /\ pc[r] = "unsent" /\ del' = [del EXCEPT ![r] = d]
  /\ \/ Goto(r, IF IsFanout(d) THEN "begin" ELSE "children")
     \/ Finish(r, "REFUSED")
  /\ UNCHANGED <<stores, local, world>>

Settle(r, p, outcome) == branch' = [branch EXCEPT ![r][p] = outcome]
Branches(r, p) ==
  pc[r] = "children" /\ p \in MyPlan(r) /\ UNCHANGED <<receipt, events, del, pc, answer, seen, todo, then, world>>

\* Admission and hydration, refused for a reason of their own, or complete.
\* Then the claim, or the answer of a receipt that is claimed already.
BranchAdmit(r, p) ==
  /\ Branches(r, p) /\ branch[r][p] = "idle"
  /\ Settle(r, p, "running") \/ Settle(r, p, "error")
  /\ UNCHANGED child

BranchClaim(r, p) ==
  /\ Branches(r, p) /\ branch[r][p] = "running"
  /\ \/ /\ child[p] = "absent"
        /\ child' = [child EXCEPT ![p] = "claimed"] /\ Settle(r, p, "inflight")
     \/ /\ child[p] # "absent" /\ UNCHANGED child
        /\ Settle(r, p, CASE child[p] \in {"claimed", "UNCERTAIN"} -> "uncertain"
                          [] child[p] = "FAILED" -> "error"
                          [] OTHER -> child[p])
     \/ Settle(r, p, "error") /\ UNCHANGED child     \* conflict, or the ledger refuses

\* Connect answers, refuses, or neither; the ledger may refuse the event.
BranchEnds(r, p) ==
  /\ Branches(r, p) /\ branch[r][p] = "inflight"
  /\ \E outcome \in Replies \cup {"FAILED", "UNCERTAIN"} :
       /\ child' = [child EXCEPT ![p] = outcome]
       /\ \/ Settle(r, p, CASE outcome = "FAILED" -> "error"
                            [] outcome = "UNCERTAIN" -> "uncertain"
                            [] OTHER -> outcome)
          \/ Settle(r, p, "error")

Joined(r) == pc[r] = "children" /\ \A p \in MyPlan(r) : branch[r][p] \notin Unfinished
\* Mutant: a child that failed is left out, and the others are handed back.
WholeEnough(r) == \E p \in MyPlan(r) : branch[r][p] \in Replies

Whole(r) == \A p \in MyPlan(r) : branch[r][p] \in Replies

\* All branches have settled, each with its result.
JoinChildren(r) ==
  /\ Joined(r) /\ Whole(r)
  /\ Goto(r, IF IsFanout(del[r]) THEN "validate" ELSE "begin")
  /\ UNCHANGED <<stores, del, local, world>>

\* The first error in the order of the packets is the answer, and in a fan-out
\* the end of its receipt.
FailChildren(r) ==
  /\ Joined(r) /\ ~Whole(r)
  /\ LET first == branch[r][Min({p \in MyPlan(r) : branch[r][p] \notin Replies})]
     IN /\ Finish(r, IF first = "uncertain" THEN "UNCERTAIN" ELSE "FAILED")
        /\ IF IsFanout(del[r])
             THEN Write(r, Downgraded(MyRow(r), IF first = "uncertain" THEN "UNCERTAIN" ELSE "FAILED", "child"))
             ELSE UNCHANGED receipt
  /\ UNCHANGED <<child, events, del, local, world>>

\* begin: insert, or compare the fingerprint, which names the binding's last
\* edit too; then replay what is not STARTED any more.
Begin(r) ==
  /\ pc[r] = "begin"
  /\ \/ /\ MyRow(r).state = "absent" /\ Write(r, Row("STARTED", "none", None))
        /\ Goto(r, IF IsFanout(del[r]) THEN "children" ELSE "validate") /\ UNCHANGED seen
     \/ /\ MyRow(r).state = "STARTED" /\ UNCHANGED <<receipt, seen>>
        /\ Goto(r, IF IsFanout(del[r]) THEN "children" ELSE "validate")
     \/ /\ MyRow(r).state \notin {"absent", "STARTED"} /\ UNCHANGED receipt
        /\ Read(r, MyRow(r)) /\ Goto(r, "replay")
     \/ MyRow(r).state # "absent" /\ Finish(r, "CONFLICT") /\ UNCHANGED <<receipt, seen>>
  /\ UNCHANGED <<child, events, del, branch, todo, then, world>>

Owe(r, stages, next) ==
  /\ todo' = [todo EXCEPT ![r] = stages] /\ then' = [then EXCEPT ![r] = next]
  /\ Goto(r, "append")

\* Size limits and, with an await, the eligibility of local sources for a
\* hosted sender.  A round trip fails its receipt on a refusal only, a fan-out
\* on any error.
Validate(r) ==
  /\ pc[r] = "validate"
  /\ \/ /\ Owe(r, IF Continues(del[r]) THEN <<"returned", "started">> ELSE <<"returned">>,
               IF Continues(del[r]) THEN "claim" ELSE "complete")
        /\ UNCHANGED receipt
     \/ /\ Write(r, Downgraded(MyRow(r), "FAILED", "policy")) /\ Finish(r, "REFUSED")
        /\ UNCHANGED <<todo, then>>
     \/ /\ ~IsFanout(del[r]) /\ Finish(r, "REFUSED") /\ UNCHANGED <<receipt, todo, then>>
  /\ UNCHANGED <<child, events, del, branch, seen, world>>

\* appendNext of the head of todo: a new id, or the same draft again.
Draft(r, stage) ==
  CASE stage = "started" -> <<>>
    [] stage = "returned" ->
         IF IsFanout(del[r]) /\ seen[r].result # None THEN seen[r].result.replies ELSE MyReplies(r)
    [] OTHER -> seen[r]

AppendNext(r) ==
  /\ pc[r] = "append" /\ todo[r] # <<>>
  /\ LET stage == Head(todo[r])
         known == events[del[r]][stage]
     IN \/ /\ known \in {None, Draft(r, stage)}
           /\ events' = [events EXCEPT ![del[r]][stage] = Draft(r, stage)]
           /\ todo' = [todo EXCEPT ![r] = Tail(@)] /\ UNCHANGED <<pc, answer>>
        \/ Finish(r, "HISTORY") /\ UNCHANGED <<events, todo>>
  /\ UNCHANGED <<child, receipt, del, branch, seen, then, world>>

AppendEnd(r) ==
  /\ pc[r] = "append" /\ todo[r] = <<>>
  /\ IF then[r] \in Answers THEN Finish(r, then[r]) ELSE Goto(r, then[r])
  /\ UNCHANGED <<stores, del, local, world>>

\* replayRoundTrip repairs the ledger whatever the state, but adds no outcome
\* while the continuation is in flight; replayFanout repairs a success only.
Pending(row) == row.state = "UNCERTAIN" /\ row.error = "pending"
\* Mutant: a retry records the outcome of a continuation in flight.
OwedAlways(d, row) ==
  CASE IsFanout(d) /\ row.state # "SUCCEEDED" -> <<>>
    [] ~Continues(d) -> <<"returned">>
    [] OTHER -> <<"returned", "started", row.state>>

Owed(d, row) ==
  CASE IsFanout(d) /\ row.state # "SUCCEEDED" -> <<>>
    [] ~Continues(d) -> <<"returned">>
    [] Continues(d) /\ ~IsFanout(d) /\ Pending(row) -> <<"returned", "started">>
    [] OTHER -> <<"returned", "started", row.state>>

Replay(r) ==
  /\ pc[r] = "replay"
  /\ Owe(r, Owed(del[r], seen[r]), IF seen[r].state = "SUCCEEDED" THEN "REPLAYED" ELSE seen[r].state)
  /\ UNCHANGED <<stores, del, branch, seen, world>>

\* A full result is handed back as it is.
Complete(r) ==
  /\ pc[r] = "complete"
  /\ \E p \in MyPlan(r) :
       LET row == Row("SUCCEEDED", "none", [replies |-> MyReplies(r), final |-> branch[r][p]])
       IN Write(r, row) /\ Read(r, row)
  /\ Finish(r, "SUCCEEDED")
  /\ UNCHANGED <<child, events, del, branch, todo, then, world>>

\* Mutant: the loser of the claim waits for the winner.
ClaimOrWait(r) ==
  /\ pc[r] = "claim" /\ MyRow(r).state = "STARTED"
  /\ Write(r, Row("UNCERTAIN", "pending", MyRow(r).result))
  /\ sent' = sent \cup {r} /\ Goto(r, "inflight")
  /\ UNCHANGED <<child, events, del, seen, branch, todo, then, executed, rejected, crashes>>

\* claimContinuation, and the dispatch of who moved STARTED to UNCERTAIN.
Claim(r) ==
  /\ pc[r] = "claim"
  /\ IF MyRow(r).state = "STARTED"
       THEN /\ Write(r, Row("UNCERTAIN", "pending", MyRow(r).result))
            /\ sent' = sent \cup {r} /\ Goto(r, "inflight") /\ UNCHANGED seen
       ELSE Read(r, MyRow(r)) /\ Goto(r, "replay") /\ UNCHANGED <<receipt, sent>>
  /\ UNCHANGED <<child, events, del, branch, todo, then, executed, rejected, crashes>>

\* The answer of Connect: succeed has no condition on the state.
Continued(r) ==
  /\ pc[r] = "inflight" /\ executed[r] # None
  /\ LET row == Row("SUCCEEDED", "none", [replies |-> MyReplies(r), final |-> executed[r]])
     IN Write(r, row) /\ Read(r, row)
  /\ Owe(r, <<"SUCCEEDED">>, "SUCCEEDED")
  /\ UNCHANGED <<child, events, del, branch, world>>

\* A 4xx is definitive; a timeout, a 5xx or an invalid body is ambiguous.
NotContinued(r) ==
  /\ pc[r] = "inflight"
  /\ \E state \in {"FAILED", "UNCERTAIN"} :
       /\ state = "FAILED" => r \in rejected
       /\ LET row == Downgraded(MyRow(r), state, IF state = "FAILED" THEN "rejected" ELSE "ambiguous")
          IN Write(r, row) /\ Read(r, row) /\ Owe(r, <<row.state>>, state)
  /\ UNCHANGED <<child, events, del, branch, world>>

-----------------------------------------------------------------------------
\* Connect runs the continuation, late or never, or refuses it.
Execute(r) ==
  /\ r \in sent \ rejected /\ executed[r] = None
  /\ \/ \E v \in Replies : executed' = [executed EXCEPT ![r] = v] /\ UNCHANGED rejected
     \/ rejected' = rejected \cup {r} /\ UNCHANGED executed
  /\ UNCHANGED <<stores, del, pc, answer, local, sent, crashes>>

Crash(r) ==
  /\ pc[r] \notin Idle /\ crashes < MaxCrashes /\ crashes' = crashes + 1 /\ Goto(r, "lost")
  /\ UNCHANGED <<stores, del, local, sent, executed, rejected>>

Branch(r) == \E p \in Packets : BranchAdmit(r, p) \/ BranchClaim(r, p) \/ BranchEnds(r, p)
Step(r) ==
  \/ Branch(r) \/ JoinChildren(r) \/ FailChildren(r) \/ Begin(r) \/ Validate(r)
  \/ AppendNext(r) \/ AppendEnd(r) \/ Replay(r) \/ Complete(r)
  \/ Claim(r) \/ Continued(r) \/ NotContinued(r)

Next == \E r \in Requests :
  \/ \E d \in Delegations : Admit(r, d)
  \/ Step(r) \/ Execute(r) \/ Crash(r)

\* Every await has a deadline; nothing is assumed of Connect.
Spec == Init /\ [][Next]_vars /\ \A r \in Requests : WF_vars(Step(r))

-----------------------------------------------------------------------------
TypeOK ==
  /\ child \in [Packets -> ChildStates]
  /\ receipt \in [Delegations -> Rows \cup {NoRow}]
  /\ DOMAIN events = Delegations
  /\ del \in [Requests -> Delegations \cup {None}]
  /\ pc \in [Requests -> PCs] /\ answer \in [Requests -> Answers \cup {"none"}]
  /\ branch \in [Requests -> [Packets -> BranchStates]]
  /\ seen \in [Requests -> Rows \cup {NoRow}]
  /\ todo \in [Requests -> Seq(Stages)]
  /\ then \in [Requests -> Answers \cup {"none", "claim", "complete"}]
  /\ sent \subseteq Requests /\ rejected \subseteq sent
  /\ executed \in [Requests -> Replies \cup {None}] /\ crashes \in Nat

SentFor(d) == {r \in sent : del[r] = d}

\* The sender continues at most once for a delegation, and only with the
\* results of all its packets, as their receipts hold them.
ContinuesOnWhole ==
  /\ TypeOK
  /\ \A r \in sent : Continues(del[r]) /\ \A p \in MyPlan(r) : child[p] \in Replies /\ branch[r][p] = child[p]
  /\ \A q, r \in sent : del[q] = del[r] => q = r

\* A receipt SUCCEEDED holds the children's results and the answer the
\* sender's one continuation got, or in full mode the child's own, and whoever
\* was told a success was told this one.
SuccessIsTrue ==
  /\ \A d \in Delegations : receipt[d].state = "SUCCEEDED" =>
       LET result == receipt[d].result IN
       /\ result.replies = [p \in Plan[d] |-> child[p]]
       /\ IF Continues(d) THEN \E r \in SentFor(d) : result.final = executed[r]
          ELSE \E p \in Plan[d] : result.final = child[p]
  /\ \A r \in Requests : answer[r] \in {"SUCCEEDED", "REPLAYED"} => seen[r] = MyRow(r)

\* The ledger: a success event is the receipt's success, an uncertain event is
\* not written while the continuation is in flight or was never dispatched,
\* and no outcome comes without the return and the start before it.
EventsBacked == \A d \in Delegations :
  /\ events[d]["SUCCEEDED"] # None => events[d]["SUCCEEDED"] = receipt[d]
  /\ events[d]["UNCERTAIN"] # None => \E r \in SentFor(d) : pc[r] # "inflight"
  /\ \A s \in {"SUCCEEDED", "FAILED", "UNCERTAIN"} : events[d][s] # None =>
       events[d]["returned"] # None /\ events[d]["started"] # None

\* A request is answered, whoever else works on its packets, or its process
\* has died.
RequestsAnswered == \A r \in Requests : pc[r] # "unsent" ~> pc[r] \in {"done", "lost"}

\* ecx-execution-b3-safe-checkpoint-2026-09-27.md: a definitive rejection of
\* the continuation becomes FAILED, an ambiguous failure UNCERTAIN.  A FAILED
\* receipt means that no continuation ran or may still run.
FailedIsDefinitive ==
  \A d \in Delegations : receipt[d].state = "FAILED" => SentFor(d) \subseteq rejected
=============================================================================
