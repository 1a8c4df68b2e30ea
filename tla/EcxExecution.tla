---------------------------- MODULE EcxExecution ----------------------------
(***************************************************************************)
(* Execution of an ECX packet by the Hub: executeRecipient of              *)
(* exchange-http.ts, the receipts of EcxExecutionStore and the lifecycle   *)
(* events it appends to the history ledger.                                *)
(*                                                                         *)
(* A request is one POST /v1/exchange/execute.  It awaits twice, during    *)
(* hydration and during the call of Connect; in between it is synchronous, *)
(* but every SQLite statement is a commit of its own, and a crash may fall *)
(* between two of them.  Several Hub processes may share the database.     *)
(*                                                                         *)
(* Timestamps are left out: each write of a receipt happens once, so its   *)
(* state and error determine the time an event copies from it.             *)
(***************************************************************************)
EXTENDS Naturals, FiniteSets

CONSTANTS Requests,      \* executions of the handler
          Packets,       \* packet ids
          Fingerprints,  \* what a packet's request and hydrated context hash to
          Procs,         \* Hub processes on one database
          Results,       \* what Connect may answer
          None,          \* an absent result or event
          MaxCrashes     \* bound on process crashes

ASSUME MaxCrashesIsNatural == MaxCrashes \in Nat

States == {"absent", "STARTED", "UNCERTAIN", "SUCCEEDED", "FAILED"}
Errors == {"none", "pending", "ambiguous", "rejected"}
Stages == {"started", "uncertain", "succeeded", "failed"}

Receipts == [state : States, error : Errors, result : Results \cup {None},
             fingerprint : Fingerprints \cup {None}]
NoReceipt == [state |-> "absent", error |-> "none", result |-> None, fingerprint |-> None]
\* What an event's payload takes from the receipt; id, times and ids follow.
Drafts == [error : Errors, result : Results \cup {None}]
Calls == [packet : Packets, proc : Procs]

ASSUME NoneIsNothing == None \notin Results \cup Fingerprints \cup Drafts \cup Calls

\* Steps inside a synchronous stretch: the process runs nothing else.
SyncSteps == {"begun", "started", "claimed", "retry", "retried", "outcome"}
Idle == {"unsent", "done", "lost"}
PCs == Idle \cup SyncSteps \cup {"hydrate", "inflight"}
Replies == {"none", "REFUSED", "CONFLICT", "HISTORY_ERROR", "HISTORY_CONFLICT",
            "SUCCEEDED", "REPLAYED", "FAILED", "UNCERTAIN"}

VARIABLES
  receipt,    \* ecx_execution_receipts, by packet
  history,    \* lifecycle events of a packet, by stage
  call,       \* packet and process of a request
  pc, reply,
  seen,       \* the receipt as the request last read it
  sent,       \* requests handed to Connect
  executed,   \* what the provider did for a request, None if nothing
  rejected,   \* requests Connect refused with a 4xx before any provider
  crashes

durable == <<receipt, history>>
world == <<sent, executed, rejected>>
vars == <<durable, call, pc, reply, seen, world, crashes>>

Init ==
  /\ receipt = [p \in Packets |-> NoReceipt]
  /\ history = [p \in Packets |-> [s \in Stages |-> None]]
  /\ call = [r \in Requests |-> None]
  /\ pc = [r \in Requests |-> "unsent"]
  /\ reply = [r \in Requests |-> "none"]
  /\ seen = [r \in Requests |-> NoReceipt]
  /\ sent = {} /\ rejected = {}
  /\ executed = [r \in Requests |-> None]
  /\ crashes = 0

-----------------------------------------------------------------------------
Packet(r) == call[r].packet
Proc(r) == call[r].proc
ProcFree(p) == \A q \in Requests : pc[q] \in SyncSteps => Proc(q) # p
Runs(r) == pc[r] \in SyncSteps \/ ProcFree(Proc(r))

Row(fingerprint, state, error, result) ==
  [fingerprint |-> fingerprint, state |-> state, error |-> error, result |-> result]

Goto(r, step) == pc' = [pc EXCEPT ![r] = step]
Finish(r, answer) == Goto(r, "done") /\ reply' = [reply EXCEPT ![r] = answer]

\* appendNext: a new id is appended, a known one must carry the same draft.
Draft(row) == [error |-> row.error, result |-> row.result]
CanAppend(p, stage, draft) == history[p][stage] \in {None, draft}
Append(p, stage, draft) ==
  CanAppend(p, stage, draft) /\ history' = [history EXCEPT ![p][stage] = draft]
StartedDraft == [error |-> "none", result |-> None]
StageOf(row) ==
  CASE row.state = "SUCCEEDED" -> "succeeded"
    [] row.state = "FAILED" -> "failed"
    [] OTHER -> "uncertain"

-----------------------------------------------------------------------------
\* Binding, capability overlap and authority, then the await of hydration.
Admit(r, p, proc) ==
  /\ pc[r] = "unsent" /\ ProcFree(proc)
  /\ \/ /\ call' = [call EXCEPT ![r] = [packet |-> p, proc |-> proc]]
        /\ Goto(r, "hydrate") /\ UNCHANGED reply
     \/ Finish(r, "REFUSED") /\ UNCHANGED call
  /\ UNCHANGED <<durable, seen, world, crashes>>

\* Hydration fails, or begin inserts the receipt or compares with the old one.
Hydrated(r, f) ==
  /\ pc[r] = "hydrate" /\ Runs(r)
  /\ LET row == receipt[Packet(r)] IN
     \/ Finish(r, "REFUSED") /\ UNCHANGED <<receipt, seen>>
     \/ /\ row.state = "absent"
        /\ receipt' = [receipt EXCEPT ![Packet(r)] = Row(f, "STARTED", "none", None)]
        /\ Goto(r, "begun") /\ UNCHANGED <<reply, seen>>
     \/ /\ row.state # "absent" /\ row.fingerprint # f
        /\ Finish(r, "CONFLICT") /\ UNCHANGED <<receipt, seen>>
     \/ /\ row.state # "absent" /\ row.fingerprint = f
        /\ seen' = [seen EXCEPT ![r] = row]
        /\ Goto(r, IF row.state = "STARTED" THEN "begun" ELSE "retry")
        /\ UNCHANGED <<receipt, reply>>
  /\ UNCHANGED <<history, call, world, crashes>>

\* appendExecutionStarted: after begin, and again first thing in a retry.
\* Mutant: a failing append of the started event is ignored.
AppendStartedBestEffort(r) ==
  /\ pc[r] \in {"begun", "retry"}
  /\ Append(Packet(r), "started", StartedDraft) \/ UNCHANGED history
  /\ Goto(r, IF pc[r] = "begun" THEN "started" ELSE "retried")
  /\ UNCHANGED <<receipt, call, reply, seen, world, crashes>>

AppendStarted(r) ==
  /\ pc[r] \in {"begun", "retry"}
  /\ \/ /\ Append(Packet(r), "started", StartedDraft)
        /\ Goto(r, IF pc[r] = "begun" THEN "started" ELSE "retried")
        /\ UNCHANGED reply
     \/ Finish(r, "HISTORY_ERROR") /\ UNCHANGED history
  /\ UNCHANGED <<receipt, call, seen, world, crashes>>

\* claimDispatch: only the process that moves STARTED to UNCERTAIN may dispatch.
\* Mutant: the update has no condition on the state.
ClaimUnconditionally(r) ==
  /\ pc[r] = "started"
  /\ receipt' = [receipt EXCEPT ![Packet(r)] =
                  Row(@.fingerprint, "UNCERTAIN", "pending", @.result)]
  /\ Goto(r, "claimed")
  /\ UNCHANGED <<history, call, reply, seen, world, crashes>>

\* Mutant: the loser of the race waits for the winner.
ClaimOrWait(r) ==
  /\ pc[r] = "started" /\ receipt[Packet(r)].state = "STARTED"
  /\ receipt' = [receipt EXCEPT ![Packet(r)] =
                  Row(@.fingerprint, "UNCERTAIN", "pending", @.result)]
  /\ Goto(r, "claimed")
  /\ UNCHANGED <<history, call, reply, seen, world, crashes>>

Claim(r) ==
  /\ pc[r] = "started"
  /\ LET row == receipt[Packet(r)] IN
     \/ /\ row.state = "STARTED"
        /\ receipt' = [receipt EXCEPT ![Packet(r)] =
                       Row(@.fingerprint, "UNCERTAIN", "pending", @.result)]
        /\ Goto(r, "claimed") /\ UNCHANGED seen
     \/ /\ row.state # "STARTED"
        /\ seen' = [seen EXCEPT ![r] = row]
        /\ Goto(r, "retry") /\ UNCHANGED receipt
  /\ UNCHANGED <<history, call, reply, world, crashes>>

Dispatch(r) ==
  /\ pc[r] = "claimed"
  /\ sent' = sent \cup {r}
  /\ Goto(r, "inflight")
  /\ UNCHANGED <<durable, call, reply, seen, executed, rejected, crashes>>

\* Connect answers in time: succeed, without a guard on the receipt's state.
Succeed(r) ==
  /\ pc[r] = "inflight" /\ Runs(r) /\ executed[r] # None
  /\ LET row == Row(receipt[Packet(r)].fingerprint, "SUCCEEDED", "none", executed[r])
     IN receipt' = [receipt EXCEPT ![Packet(r)] = row] /\ seen' = [seen EXCEPT ![r] = row]
  /\ Goto(r, "outcome")
  /\ UNCHANGED <<history, call, reply, world, crashes>>

\* A 4xx is definitive, anything else (timeout, 5xx, bad body) is ambiguous.
Settle(r, state, error) ==
  LET old == receipt[Packet(r)]
      row == IF old.state = "SUCCEEDED" THEN old ELSE Row(old.fingerprint, state, error, old.result)
  IN receipt' = [receipt EXCEPT ![Packet(r)] = row] /\ seen' = [seen EXCEPT ![r] = row]

\* Mutant: every error of Connect counts as definitive.
FailDefinitively(r) ==
  /\ pc[r] = "inflight" /\ Runs(r)
  /\ Settle(r, "FAILED", "rejected")
  /\ Goto(r, "outcome")
  /\ UNCHANGED <<history, call, reply, world, crashes>>

Fail(r) ==
  /\ pc[r] = "inflight" /\ Runs(r)
  /\ \/ r \in rejected /\ Settle(r, "FAILED", "rejected")
     \/ Settle(r, "UNCERTAIN", "ambiguous")
  /\ Goto(r, "outcome")
  /\ UNCHANGED <<history, call, reply, world, crashes>>

\* appendExecutionOutcome for the receipt as read, then the answer.
\* Mutant: the answer is sent although its event was not appended.
AppendOutcomeBestEffort(r) ==
  /\ pc[r] \in {"outcome", "retried"}
  /\ LET row == seen[r] IN
     /\ Append(Packet(r), StageOf(row), Draft(row)) \/ UNCHANGED history
     /\ Finish(r, IF row.state = "SUCCEEDED" /\ pc[r] = "retried"
                  THEN "REPLAYED" ELSE row.state)
  /\ UNCHANGED <<receipt, call, seen, world, crashes>>

AppendOutcome(r) ==
  /\ pc[r] \in {"outcome", "retried"}
  /\ LET row == seen[r] IN
     \/ /\ Append(Packet(r), StageOf(row), Draft(row))
        /\ Finish(r, IF row.state = "SUCCEEDED" /\ pc[r] = "retried"
                     THEN "REPLAYED" ELSE row.state)
     \/ /\ ~CanAppend(Packet(r), StageOf(row), Draft(row))
        /\ Finish(r, "HISTORY_CONFLICT") /\ UNCHANGED history
     \/ Finish(r, "HISTORY_ERROR") /\ UNCHANGED history
  /\ UNCHANGED <<receipt, call, seen, world, crashes>>

-----------------------------------------------------------------------------
\* Connect and the provider: late, never, or a refusal before any provider.
Execute(r) ==
  /\ r \in sent \ rejected /\ executed[r] = None
  /\ \/ \E v \in Results : executed' = [executed EXCEPT ![r] = v] /\ UNCHANGED rejected
     \/ rejected' = rejected \cup {r} /\ UNCHANGED executed
  /\ UNCHANGED <<durable, call, pc, reply, seen, sent, crashes>>

Crash(p) ==
  /\ crashes < MaxCrashes
  /\ LET dead == {r \in Requests : pc[r] \notin Idle /\ Proc(r) = p}
     IN dead # {} /\ pc' = [r \in Requests |-> IF r \in dead THEN "lost" ELSE pc[r]]
  /\ crashes' = crashes + 1
  /\ UNCHANGED <<durable, call, reply, seen, world>>

Step(r) ==
  \/ \E f \in Fingerprints : Hydrated(r, f)
  \/ AppendStarted(r) \/ Claim(r) \/ Dispatch(r)
  \/ Succeed(r) \/ Fail(r) \/ AppendOutcome(r)

Next ==
  \/ \E r \in Requests, p \in Packets, proc \in Procs : Admit(r, p, proc)
  \/ \E r \in Requests : Step(r) \/ Execute(r)
  \/ \E p \in Procs : Crash(p)

Spec == Init /\ [][Next]_vars

\* Hydration and httpJson have deadlines; nothing is assumed of the provider.
FairSpec == Spec /\ \A r \in Requests : WF_vars(Step(r))

-----------------------------------------------------------------------------
\* Every variable has its type, and a process is in one synchronous stretch.
TypeOK ==
  /\ receipt \in [Packets -> Receipts]
  /\ history \in [Packets -> [Stages -> Drafts \cup {None}]]
  /\ call \in [Requests -> Calls \cup {None}]
  /\ pc \in [Requests -> PCs]
  /\ reply \in [Requests -> Replies]
  /\ seen \in [Requests -> Receipts]
  /\ sent \subseteq Requests /\ rejected \subseteq Requests
  /\ executed \in [Requests -> Results \cup {None}]
  /\ crashes \in Nat
  /\ \A q, r \in Requests : pc[q] \in SyncSteps /\ pc[r] \in SyncSteps /\ Proc(q) = Proc(r) => q = r

SentFor(p) == {r \in sent : Packet(r) = p}

(***************************************************************************)
(* Batch B2: concurrent and retrying callers never cause a second provider *)
(* call of a packet, in one process or several, crashes included.          *)
(***************************************************************************)
AtMostOnceDispatch == \A p \in Packets : \A r1, r2 \in SentFor(p) : r1 = r2

(***************************************************************************)
(* A receipt tells the truth about the provider: SUCCEEDED carries the     *)
(* result the one dispatched request got, FAILED is written only for a     *)
(* packet no provider ever ran, and nothing is dispatched under a receipt  *)
(* that is absent or merely STARTED.                                       *)
(***************************************************************************)
ReceiptFaithful ==
  \A p \in Packets :
    /\ receipt[p].state = "SUCCEEDED" =>
         \E r \in SentFor(p) : receipt[p].result = executed[r] /\ executed[r] # None
    /\ receipt[p].state = "FAILED" => \A r \in SentFor(p) : executed[r] = None
    /\ receipt[p].state \in {"absent", "STARTED"} => SentFor(p) = {}

(***************************************************************************)
(* The ledger never claims more than the receipt: a succeeded or failed    *)
(* event agrees with the final receipt, however late a retry appends what  *)
(* it read before, and no outcome is recorded without its started event.   *)
(***************************************************************************)
HistoryBacked ==
  \A p \in Packets :
    /\ history[p]["succeeded"] # None =>
         receipt[p].state = "SUCCEEDED" /\ receipt[p].result = history[p]["succeeded"].result
    /\ history[p]["failed"] # None => receipt[p].state = "FAILED"
    /\ (\E s \in Stages \ {"started"} : history[p][s] # None) => history[p]["started"] # None

(***************************************************************************)
(* A caller that is told an outcome can find it in the ledger: both events *)
(* are there before the answer, also when an earlier attempt died between  *)
(* the receipt and the ledger and this one is the retry that repairs it.   *)
(***************************************************************************)
ToldIsRecorded ==
  \A r \in Requests : reply[r] \in {"SUCCEEDED", "REPLAYED", "FAILED", "UNCERTAIN"} =>
    /\ history[Packet(r)]["started"] # None
    /\ history[Packet(r)][StageOf(seen[r])] = Draft(seen[r])

(***************************************************************************)
(* Why: the request whose update moved STARTED to UNCERTAIN holds the only *)
(* claim on the packet.  While it lives nobody else writes the receipt,    *)
(* and when it dies the receipt stays UNCERTAIN for good.                  *)
(***************************************************************************)
Claims(p) == {r \in Requests : /\ call[r] # None /\ Packet(r) = p
                               /\ r \in sent \/ pc[r] = "claimed"}

CallsKnown ==
  \A r \in Requests : /\ pc[r] \notin Idle \/ r \in sent => call[r] # None
                      /\ r \in sent => pc[r] \in {"inflight", "outcome", "done", "lost"}
                      /\ pc[r] = "inflight" => r \in sent
                      /\ executed[r] # None => r \in sent \ rejected
                      /\ r \in rejected => r \in sent
SeenOutcome ==
  \A r \in Requests : pc[r] \in {"retry", "retried", "outcome"} =>
    /\ seen[r].state \in {"UNCERTAIN", "SUCCEEDED", "FAILED"}
    /\ seen[r].state # "UNCERTAIN" =>
         receipt[Packet(r)].state = seen[r].state /\ receipt[Packet(r)].result = seen[r].result
StartedRecorded ==
  /\ \A r \in Requests :
       /\ pc[r] \in {"begun", "started"} => receipt[Packet(r)].state # "absent"
       /\ pc[r] \in {"started", "claimed", "inflight", "retried", "outcome"} =>
            history[Packet(r)]["started"] # None
  /\ \A p \in Packets :
       receipt[p].state \notin {"absent", "STARTED"} => history[p]["started"] # None
ClaimsUnique == \A p \in Packets : \A r1, r2 \in Claims(p) : r1 = r2
ClaimsRecorded ==
  \A p \in Packets : Claims(p) # {} => receipt[p].state \notin {"absent", "STARTED"}
ClaimantPending ==
  \A r \in Requests : pc[r] \in {"claimed", "inflight"} =>
    receipt[Packet(r)].state = "UNCERTAIN" /\ receipt[Packet(r)].error = "pending"
ResultFaithful ==
  \A p \in Packets :
    /\ receipt[p].state = "SUCCEEDED" =>
         \E r \in Claims(p) : receipt[p].result = executed[r] /\ executed[r] # None
    /\ receipt[p].state # "SUCCEEDED" => receipt[p].result = None
    /\ receipt[p].state = "FAILED" => Claims(p) \cap sent \subseteq rejected

\* The inductive invariant behind AtMostOnceDispatch, ReceiptFaithful,
\* HistoryBacked and the refinement of EffectOnce.
ReceiptInv ==
  /\ TypeOK /\ CallsKnown /\ SeenOutcome /\ StartedRecorded
  /\ ClaimsUnique /\ ClaimsRecorded /\ ClaimantPending /\ ResultFaithful
  /\ HistoryBacked

\* The receipts implement the abstract at-most-once effect of a packet.
OutcomeOf(o) == o[2]
Performed(p) == {<<r, executed[r]>> : r \in {q \in SentFor(p) : executed[q] # None}}
PhaseOf(row) ==
  IF row.state \in {"absent", "STARTED"} THEN "absent"
  ELSE IF row.state = "SUCCEEDED" THEN "known"
  ELSE IF row.state = "UNCERTAIN" /\ row.error = "pending" THEN "claimed"
  ELSE "unknown"

Effect == INSTANCE EffectOnce WITH
  Keys <- Packets,
  Occurrences <- Requests \X Results,
  Outcome <- OutcomeOf,
  phase <- [p \in Packets |-> PhaseOf(receipt[p])],
  effects <- [p \in Packets |-> Performed(p)],
  recorded <- [p \in Packets |->
    IF receipt[p].result = None THEN {} ELSE {receipt[p].result}]

\* Every step of the handler, of its receipts and of the provider is a step
\* of EffectOnce or changes nothing it can see.
ImplementsEffectOnce == Effect!Spec

\* A request is always answered, unless its process dies: the loser of a
\* claim never waits for the winner or for the provider.
EveryRequestAnswered ==
  \A r \in Requests : pc[r] # "unsent" ~> pc[r] \in {"done", "lost"}

(***************************************************************************)
(* ecx-execution-b2-safe-checkpoint-2026-09-27.md: lifecycle event ids are *)
(* deterministic and "retries can repair missing provenance without        *)
(* duplicating events".  No request ends in a conflict with the events its *)
(* own packet's retries appended.                                          *)
(***************************************************************************)
NoHistoryConflict == \A r \in Requests : reply[r] # "HISTORY_CONFLICT"
=============================================================================
