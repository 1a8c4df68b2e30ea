--------------------------- MODULE McpInvocation ---------------------------
(***************************************************************************)
(* Outbound MCP tool calls: McpManager.callTool of Connect, the governance *)
(* calls it makes to the Hub, and the file store of invocations.           *)
(*                                                                         *)
(* A request is one execution of callTool.  It is split where the code     *)
(* awaits or where a crash would leave something behind; what lies between *)
(* is one step of the event loop.  A key stands for one (workspace,        *)
(* server, tool, arguments): invocationKey hashes exactly these, neither   *)
(* the operation nor the action class, and a request's argsDigest agrees   *)
(* with its key.  Several Connect processes may share the store's file.    *)
(***************************************************************************)
EXTENDS Naturals, FiniteSets

CONSTANTS Requests,          \* executions of callTool
          Keys,              \* idempotency keys
          Ops,               \* operation ids
          Procs,             \* Connect processes on one state directory
          Results,           \* what a remote tool may answer
          Excess,            \* whether callers' autonomy is over the ceiling
          None,              \* an absent row, result or lock holder
          MaxCrashes,        \* bound on process crashes
          MaxPolicyChanges   \* bound on edits of the tool policies

ASSUME ExcessIsBoolean == Excess \subseteq BOOLEAN
ASSUME OpsFinite == IsFiniteSet(Ops)
ASSUME BoundsAreNaturals == MaxCrashes \in Nat /\ MaxPolicyChanges \in Nat

\* GATED stands for every class alwaysRequiresApproval lists.
Classes == {"READ", "REVERSIBLE_WRITE", "GATED"}
Policies == Classes \cup {"DISABLED"}
Decisions == {"APPROVE", "REFUSE"}    \* REJECT and EDIT refuse alike

\* "lock" steps hold the store's lock file; nothing of the process runs meanwhile.
LockSteps == {"reserving", "reserved", "settling", "marking", "closing"}
Idle == {"unsent", "done", "lost"}
PCs == Idle \cup LockSteps \cup
       {"authorize", "lookup", "evaluate", "preflight", "connect", "reserve",
        "dispatch", "inflight", "settle", "mark"}

Calls == [key : Keys, op : Ops, proc : Procs, over : BOOLEAN, class : Classes]
Rows == [key : Keys, status : Decisions \cup {"PENDING"}, at : Nat]
ReplyKinds == {"DISABLED", "DENIED", "APPROVAL_REQUIRED", "UNAVAILABLE",
               "REMOTE_ERROR", "UNCERTAIN", "RESULT", "RETAINED", "DEDUP"}
Replies == [kind : ReplyKinds, result : Results \cup {None}]

ASSUME NoneIsNothing == None \notin Requests \cup Results \cup Calls

VARIABLES
  policy,         \* registry file: the class a key's tool is configured with
  call,           \* what callTool captured when it started
  pc, reply,      \* where a request is, and what its caller was told
  lock,           \* who created <store>.lock
  entry, saved,   \* the store's entry of a key, and its result
  approval,       \* Hub: the approval row of an operation
  sent,           \* requests handed to the remote server
  executed,       \* what the remote server did for a request
  crashes, policyChanges

store == <<lock, entry, saved>>
world == <<sent, executed>>
bounds == <<crashes, policyChanges>>
vars == <<policy, call, pc, reply, store, approval, world, bounds>>

Init ==
  /\ policy \in [Keys -> Policies]
  /\ call = [r \in Requests |-> None]
  /\ pc = [r \in Requests |-> "unsent"]
  /\ reply = [r \in Requests |-> None]
  /\ lock = None
  /\ entry = [k \in Keys |-> "absent"]
  /\ saved = [k \in Keys |-> None]
  /\ approval = [o \in Ops |-> None]
  /\ sent = {}
  /\ executed = [r \in Requests |-> None]
  /\ crashes = 0 /\ policyChanges = 0

-----------------------------------------------------------------------------
Key(r) == call[r].key
Keyed(r) == call[r].class # "READ"

\* A critical section is synchronous code: its process does nothing else.
ProcFree(p) ==
  lock # None /\ pc[lock] # "lost" => call[lock].proc # p
Runs(r) == lock = r \/ ProcFree(call[r].proc)

Goto(r, step) == pc' = [pc EXCEPT ![r] = step]

Answer(r, kind, result) ==
  reply' = [reply EXCEPT ![r] = [kind |-> kind, result |-> result]]

Finish(r, kind) == Goto(r, "done") /\ Answer(r, kind, None)

\* getApprovalByIdempotencyKey: the newest row that carries the key.
RowsOf(k) == {o \in Ops : approval[o] # None /\ approval[o].key = k}
IsLatest(o, k) ==
  o \in RowsOf(k) /\ \A p \in RowsOf(k) : approval[p].at <= approval[o].at

\* createApproval: an operation that has a row keeps it, whatever it asks now.
EnsureApproval(o, k) ==
  LET at == Cardinality({p \in Ops : approval[p] # None})
  IN approval' = [approval EXCEPT ![o] =
       IF @ # None THEN @ ELSE [key |-> k, status |-> "PENDING", at |-> at]]

-----------------------------------------------------------------------------
\* registry.get and the tool policy, read once for the whole call.
Start(r, k, o, p, over) ==
  /\ pc[r] = "unsent" /\ ProcFree(p)
  /\ IF policy[k] = "DISABLED"
       THEN Finish(r, "DISABLED") /\ UNCHANGED call
       ELSE /\ call' = [call EXCEPT ![r] = [key |-> k, op |-> o, proc |-> p,
                                            over |-> over, class |-> policy[k]]]
            /\ Goto(r, "authorize") /\ UNCHANGED reply
  /\ UNCHANGED <<policy, store, approval, world, bounds>>

\* POST /v1/authority/authorize, for the tool and for its credential.
Authorize(r) ==
  /\ pc[r] = "authorize" /\ Runs(r)
  /\ \/ Goto(r, IF Keyed(r) THEN "lookup" ELSE "evaluate") /\ UNCHANGED reply
     \/ Finish(r, "DENIED")
     \/ Finish(r, "UNAVAILABLE")
  /\ UNCHANGED <<policy, call, store, approval, world, bounds>>

\* Mutant: the row is looked up by operation, so its key is never compared.
LookupByOperation(r) ==
  /\ pc[r] = "lookup" /\ Runs(r)
  /\ LET row == approval[call[r].op]
     IN IF row = None THEN Goto(r, "evaluate") /\ UNCHANGED reply
        ELSE IF row.status = "APPROVE" THEN Goto(r, "preflight") /\ UNCHANGED reply
        ELSE Finish(r, "DENIED")
  /\ UNCHANGED <<policy, call, store, approval, world, bounds>>

\* GET /v1/approvals/by-idempotency-key: an approved row skips the evaluation.
Lookup(r) ==
  /\ pc[r] = "lookup" /\ Runs(r)
  /\ \/ RowsOf(Key(r)) = {} /\ Goto(r, "evaluate") /\ UNCHANGED reply
     \/ \E o \in Ops :
          /\ IsLatest(o, Key(r))
          /\ CASE approval[o].status = "APPROVE" -> Goto(r, "preflight") /\ UNCHANGED reply
               [] approval[o].status = "PENDING" -> Finish(r, "APPROVAL_REQUIRED")
               [] OTHER -> Finish(r, "DENIED")
     \/ Finish(r, "UNAVAILABLE")
  /\ UNCHANGED <<policy, call, store, approval, world, bounds>>

\* POST /v1/actions/evaluate.  The row is written even if the answer is lost.
Evaluate(r) ==
  /\ pc[r] = "evaluate" /\ Runs(r)
  /\ \/ call[r].over /\ Finish(r, "DENIED") /\ UNCHANGED approval
     \/ /\ ~call[r].over /\ call[r].class = "GATED"
        /\ EnsureApproval(call[r].op, Key(r))
        /\ Finish(r, "APPROVAL_REQUIRED") \/ Finish(r, "UNAVAILABLE")
     \/ /\ ~call[r].over /\ call[r].class # "GATED"
        /\ Goto(r, "preflight") /\ UNCHANGED <<reply, approval>>
     \/ Finish(r, "UNAVAILABLE") /\ UNCHANGED approval
  /\ UNCHANGED <<policy, call, store, world, bounds>>

\* assertPreflightSafe: a read without the lock, before any transport opens.
Preflight(r) ==
  /\ pc[r] = "preflight" /\ Runs(r)
  /\ IF Keyed(r) /\ entry[Key(r)] \in {"reserved", "uncertain"}
       THEN Finish(r, "UNCERTAIN")
       ELSE Goto(r, "connect") /\ UNCHANGED reply
  /\ UNCHANGED <<policy, call, store, approval, world, bounds>>

\* client() and listTools(): no side effect on the tool, but any may fail.
Connect(r) ==
  /\ pc[r] = "connect" /\ Runs(r)
  /\ \/ Goto(r, IF Keyed(r) THEN "reserve" ELSE "dispatch") /\ UNCHANGED reply
     \/ Finish(r, "UNAVAILABLE")
  /\ UNCHANGED <<policy, call, store, approval, world, bounds>>

-----------------------------------------------------------------------------
\* withLock: O_EXCL creation of the lock file, and no wait when it is there.
Take(r, step) == lock = None /\ lock' = r /\ Goto(r, step) /\ UNCHANGED reply

LockReserve(r) ==
  /\ pc[r] = "reserve" /\ Runs(r)
  /\ \/ Take(r, "reserving")
     \/ lock # None /\ Finish(r, "UNAVAILABLE") /\ UNCHANGED lock
  /\ UNCHANGED <<policy, call, entry, saved, approval, world, bounds>>

\* Mutant: an entry whose outcome is uncertain is reserved anew.
CommitReserveUncertain(r) ==
  /\ pc[r] = "reserving"
  /\ \/ /\ entry[Key(r)] \in {"absent", "uncertain"}
        /\ entry' = [entry EXCEPT ![Key(r)] = "reserved"]
        /\ Goto(r, "reserved") /\ UNCHANGED reply
     \/ /\ entry[Key(r)] \in {"reserved", "settled"}
        /\ Answer(r, "UNCERTAIN", None)
        /\ Goto(r, "closing") /\ UNCHANGED entry
  /\ UNCHANGED <<policy, call, lock, saved, approval, world, bounds>>

CommitReserve(r) ==
  /\ pc[r] = "reserving"
  /\ \/ /\ entry[Key(r)] = "absent"
        /\ entry' = [entry EXCEPT ![Key(r)] = "reserved"]
        /\ Goto(r, "reserved") /\ UNCHANGED reply
     \/ /\ entry[Key(r)] = "settled"
        /\ Answer(r, "DEDUP", saved[Key(r)])
        /\ Goto(r, "closing") /\ UNCHANGED entry
     \/ /\ entry[Key(r)] \in {"reserved", "uncertain"}
        /\ Answer(r, "UNCERTAIN", None)
        /\ Goto(r, "closing") /\ UNCHANGED entry
  /\ UNCHANGED <<policy, call, lock, saved, approval, world, bounds>>

Unlock(r) ==
  /\ pc[r] \in {"reserved", "closing"}
  /\ lock' = None
  /\ Goto(r, IF pc[r] = "reserved" THEN "dispatch" ELSE "done")
  /\ UNCHANGED <<policy, call, reply, entry, saved, approval, world, bounds>>

Dispatch(r) ==
  /\ pc[r] = "dispatch" /\ Runs(r)
  /\ sent' = sent \cup {r}
  /\ Goto(r, "inflight")
  /\ UNCHANGED <<policy, call, reply, store, approval, executed, bounds>>

\* The answer arrives in time.
Returned(r) ==
  /\ pc[r] = "inflight" /\ Runs(r) /\ executed[r] # None
  /\ IF Keyed(r)
       THEN Goto(r, "settle") /\ UNCHANGED reply
       ELSE Goto(r, "done") /\ Answer(r, "RESULT", executed[r])
  /\ UNCHANGED <<policy, call, store, approval, world, bounds>>

\* A timeout, a transport error, or a disconnect caused by a sibling's failure.
Failed(r) ==
  /\ pc[r] = "inflight" /\ Runs(r)
  /\ IF Keyed(r) THEN Goto(r, "mark") /\ UNCHANGED reply
                 ELSE Finish(r, "REMOTE_ERROR")
  /\ UNCHANGED <<policy, call, store, approval, world, bounds>>

LockSettle(r) ==
  /\ pc[r] = "settle" /\ Runs(r)
  /\ \/ Take(r, "settling")
     \/ /\ lock # None /\ UNCHANGED lock
        /\ Goto(r, "done") /\ Answer(r, "RETAINED", executed[r])
  /\ UNCHANGED <<policy, call, entry, saved, approval, world, bounds>>

CommitSettle(r) ==
  /\ pc[r] = "settling"
  /\ saved' = [saved EXCEPT ![Key(r)] = IF entry[Key(r)] = "settled" THEN @ ELSE executed[r]]
  /\ entry' = [entry EXCEPT ![Key(r)] = "settled"]
  /\ Goto(r, "closing") /\ Answer(r, "RESULT", executed[r])
  /\ UNCHANGED <<policy, call, lock, approval, world, bounds>>

\* An error of markUncertain is swallowed: the reservation itself stays.
LockMark(r) ==
  /\ pc[r] = "mark" /\ Runs(r)
  /\ \/ Take(r, "marking")
     \/ lock # None /\ Finish(r, "UNCERTAIN") /\ UNCHANGED lock
  /\ UNCHANGED <<policy, call, entry, saved, approval, world, bounds>>

\* Mutant: an ambiguous failure is reported like one before the dispatch.
CommitMarkUnavailable(r) ==
  /\ pc[r] = "marking"
  /\ entry' = [entry EXCEPT ![Key(r)] = IF @ = "reserved" THEN "uncertain" ELSE @]
  /\ Goto(r, "closing") /\ Answer(r, "UNAVAILABLE", None)
  /\ UNCHANGED <<policy, call, lock, saved, approval, world, bounds>>

CommitMark(r) ==
  /\ pc[r] = "marking"
  /\ entry' = [entry EXCEPT ![Key(r)] = IF @ = "reserved" THEN "uncertain" ELSE @]
  /\ Goto(r, "closing") /\ Answer(r, "UNCERTAIN", None)
  /\ UNCHANGED <<policy, call, lock, saved, approval, world, bounds>>

-----------------------------------------------------------------------------
\* The remote server, which answers late or never, and forgets nobody.
Execute(r) ==
  /\ r \in sent /\ executed[r] = None
  /\ \E v \in Results : executed' = [executed EXCEPT ![r] = v]
  /\ UNCHANGED <<policy, call, pc, reply, store, approval, sent, bounds>>

\* A process dies: its requests are lost, the lock file it held stays.
Crash(p) ==
  /\ crashes < MaxCrashes
  /\ LET dead == {r \in Requests : pc[r] \notin Idle /\ call[r].proc = p}
     IN /\ dead # {}
        /\ pc' = [r \in Requests |-> IF r \in dead THEN "lost" ELSE pc[r]]
        /\ reply' = [r \in Requests |-> IF r \in dead THEN None ELSE reply[r]]
  /\ crashes' = crashes + 1
  /\ UNCHANGED <<policy, call, store, approval, world, policyChanges>>

\* An operator removes a lock file nobody holds any more.
ClearLock ==
  /\ lock # None /\ pc[lock] = "lost"
  /\ lock' = None
  /\ UNCHANGED <<policy, call, pc, reply, entry, saved, approval, world, bounds>>

\* The registry routes, or mcp:manage in its own process.
SetToolPolicy(k, c) ==
  /\ policyChanges < MaxPolicyChanges /\ c # policy[k]
  /\ policy' = [policy EXCEPT ![k] = c]
  /\ policyChanges' = policyChanges + 1
  /\ UNCHANGED <<call, pc, reply, store, approval, world, crashes>>

\* POST /v1/approvals/:operationId/decide.
Decide(o, d) ==
  /\ approval[o] # None /\ approval[o].status = "PENDING"
  /\ approval' = [approval EXCEPT ![o].status = d]
  /\ UNCHANGED <<policy, call, pc, reply, store, world, bounds>>

-----------------------------------------------------------------------------
Step(r) ==
  \/ Authorize(r) \/ Lookup(r) \/ Evaluate(r) \/ Preflight(r) \/ Connect(r)
  \/ LockReserve(r) \/ CommitReserve(r) \/ Unlock(r) \/ Dispatch(r)
  \/ Returned(r) \/ Failed(r)
  \/ LockSettle(r) \/ CommitSettle(r) \/ LockMark(r) \/ CommitMark(r)

Next ==
  \/ \E r \in Requests, k \in Keys, o \in Ops, p \in Procs, over \in Excess :
       Start(r, k, o, p, over)
  \/ \E r \in Requests : Step(r) \/ Execute(r)
  \/ \E p \in Procs : Crash(p)
  \/ ClearLock
  \/ \E k \in Keys, c \in Policies : SetToolPolicy(k, c)
  \/ \E o \in Ops, d \in Decisions : Decide(o, d)

Spec == Init /\ [][Next]_vars

-----------------------------------------------------------------------------
\* Every variable has its type, and a critical section of the store runs only
\* while its own request holds the lock file.
TypeOK ==
  /\ policy \in [Keys -> Policies]
  /\ call \in [Requests -> Calls \cup {None}]
  /\ pc \in [Requests -> PCs]
  /\ reply \in [Requests -> Replies \cup {None}]
  /\ lock \in Requests \cup {None}
  /\ entry \in [Keys -> {"absent", "reserved", "uncertain", "settled"}]
  /\ saved \in [Keys -> Results \cup {None}]
  /\ approval \in [Ops -> Rows \cup {None}]
  /\ sent \subseteq Requests
  /\ executed \in [Requests -> Results \cup {None}]
  /\ crashes \in Nat /\ policyChanges \in Nat
  /\ \A r \in Requests : pc[r] \in LockSteps => lock = r

KeyedSent(k) == {r \in sent : Keyed(r) /\ Key(r) = k}

(***************************************************************************)
(* ADR-23 points 9-13: whatever concurrent requests, processes, crashes,   *)
(* lost answers, operator clean-ups and policy edits do, two executions of *)
(* callTool with the same key never both reach the remote server.          *)
(***************************************************************************)
AtMostOnceDispatch ==
  \A k \in Keys : \A r1, r2 \in KeyedSent(k) : r1 = r2

(***************************************************************************)
(* A caller can trust the error it gets: an answer that says the tool was  *)
(* not called means this request did not call it; a deduplicated result is *)
(* the one the only other call of that key really produced; an uncertain   *)
(* outcome is never reported for a key nobody has reserved.                *)
(***************************************************************************)
HonestReply ==
  \A r \in Requests : pc[r] = "done" =>
    /\ reply[r].kind \notin {"RESULT", "RETAINED", "UNCERTAIN", "REMOTE_ERROR"} => r \notin sent
    /\ reply[r].kind \in {"RESULT", "RETAINED"} => reply[r].result = executed[r]
    /\ reply[r].kind = "DEDUP" =>
         \E s \in KeyedSent(Key(r)) : s # r /\ executed[s] = reply[r].result
    /\ reply[r].kind = "UNCERTAIN" => entry[Key(r)] # "absent"

(***************************************************************************)
(* A gated tool is called only if a person approved a row that carries the *)
(* call's own key, however lookups, row creation and decisions interleave  *)
(* and whichever operation the row belongs to.                             *)
(***************************************************************************)
GatedDispatchApproved ==
  \A r \in sent : call[r].class = "GATED" =>
    \E o \in RowsOf(Key(r)) : approval[o].status = "APPROVE"

(***************************************************************************)
(* What the store says of a finished invocation is final: an uncertain     *)
(* outcome is never cleared or overwritten by a late answer or a later     *)
(* request, and a settled result is never replaced.                        *)
(***************************************************************************)
OutcomeFinal ==
  [][\A k \in Keys : entry[k] \in {"uncertain", "settled"} =>
       entry'[k] = entry[k] /\ saved'[k] = saved[k]]_vars

(***************************************************************************)
(* Why: a request holds a claim on its key from the moment its reservation *)
(* is written.  Claims are unique because the entry stops being absent in  *)
(* the same step, and stays that way when the claimant dies; while the     *)
(* claimant is alive nobody else touches the entry.                        *)
(***************************************************************************)
Holding == {"reserved", "dispatch"}
Called == {"inflight", "settle", "settling", "mark", "marking"}
Claims(k) ==
  {r \in Requests : /\ call[r] # None /\ Keyed(r) /\ Key(r) = k
                    /\ r \in sent \/ pc[r] \in Holding}

CallsKnown ==
  \A r \in Requests : /\ pc[r] \notin Idle \/ r \in sent => call[r] # None
                      /\ r \in sent => pc[r] \in Called \cup {"closing", "done", "lost"}
                      /\ pc[r] \in Called => r \in sent
                      /\ executed[r] # None => r \in sent
KeyedSteps ==
  \A r \in Requests :
    pc[r] \in {"reserve", "reserving", "reserved", "settle", "settling", "mark", "marking"}
      => Keyed(r)
ClaimsUnique == \A k \in Keys : \A r1, r2 \in Claims(k) : r1 = r2
ClaimsRecorded == \A k \in Keys : Claims(k) # {} => entry[k] # "absent"
ClaimantReserved ==
  \A r \in Requests : pc[r] \in Holding \cup Called /\ Keyed(r) => entry[Key(r)] = "reserved"
SettledFaithfully ==
  /\ \A r \in Requests : pc[r] \in {"settle", "settling"} => executed[r] # None
  /\ \A k \in Keys : IF entry[k] = "settled"
                       THEN \E r \in Claims(k) : executed[r] = saved[k] /\ saved[k] # None
                       ELSE saved[k] = None

\* The inductive invariant behind AtMostOnceDispatch and OutcomeFinal, and the
\* facts about reserve, settle and markUncertain they rest on.
StoreInv ==
  /\ TypeOK /\ CallsKnown /\ KeyedSteps
  /\ ClaimsUnique /\ ClaimsRecorded /\ ClaimantReserved /\ SettledFaithfully

\* The store implements the abstract at-most-once effect of a key.
OutcomeOf(o) == o[2]
Performed(k) == {<<r, executed[r]>> : r \in {s \in KeyedSent(k) : executed[s] # None}}
PhaseOf(k) ==
  CASE entry[k] = "absent" -> "absent"
    [] entry[k] = "reserved" -> "claimed"
    [] entry[k] = "uncertain" -> "unknown"
    [] entry[k] = "settled" -> "known"

Effect == INSTANCE EffectOnce WITH
  Occurrences <- Requests \X Results,
  Outcome <- OutcomeOf,
  phase <- [k \in Keys |-> PhaseOf(k)],
  effects <- [k \in Keys |-> Performed(k)],
  recorded <- [k \in Keys |-> IF saved[k] = None THEN {} ELSE {saved[k]}]

\* Every step of callTool, of the store and of the remote server is a step
\* of EffectOnce or changes nothing it can see.
ImplementsEffectOnce == Effect!Spec

(***************************************************************************)
(* policy-engine.test.ts: "plafon L3 absolut: ALWAYS_GATED pada L4 tetap   *)
(* DENY, bukan approval escape hatch".  An autonomy over the ceiling never *)
(* reaches the remote tool.                                                *)
(***************************************************************************)
CeilingAbsolute == \A r \in sent : ~call[r].over
=============================================================================
