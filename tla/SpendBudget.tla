----------------------------- MODULE SpendBudget -----------------------------
(***************************************************************************)
(* Connect's durable spend budget and its two callers: FileSpendBudget in  *)
(* spend-budget.ts (a JSON file replaced as a whole under an O_EXCL lock   *)
(* file), complete() in complete.ts (credential failover under one         *)
(* reservation) and callRoute() in multimodal.ts (one adapter call, result *)
(* parsed after settling).  Every call stands for a request in a Connect   *)
(* process of its own, so the file steps of two calls interleave and a     *)
(* crash takes one call down; the calls of one process interleave less.    *)
(***************************************************************************)
EXTENDS SpendAccounts

CONSTANTS Adapters,       \* the calls that go through the multimodal adapter
          Candidates,     \* credentials complete() may try in turn
          NoCall

ASSUME CallsAssumption == Adapters \subseteq Calls /\ NoCall \notin Calls
ASSUME CandidatesAssumption == Candidates \in Nat \ {0}

VARIABLES
  entries,    \* the ledger file
  lock,       \* who created the lock file, NoCall when there is none
  at,         \* a call's position in withSpendLock
  seen,       \* the snapshot it read there
  pc,         \* what the call does next
  tries,      \* provider requests it has sent
  owed,       \* the cost its provider stated
  doubtful,   \* one of its requests failed and may have been billed
  told        \* what settle reported to it

vars == <<entries, lock, at, seen, pc, tries, owed, doubtful, told>>

LockedOps == {"reserve", "settle", "mark"}
PCs == LockedOps \cup {"dispatch", "inflight", "parse", "done", "crashed"}
Positions == {"out", "locked", "read", "returned", "thrown"}

TypeOK ==
  /\ entries \in [Calls -> Entries]
  /\ lock \in Calls \cup {NoCall}
  /\ at \in [Calls -> Positions]
  /\ seen \in [Calls -> [Calls -> Entries]]
  /\ pc \in [Calls -> PCs]
  /\ tries \in [Calls -> 0 .. Candidates]
  /\ owed \in [Calls -> Bills \cup {0}]
  /\ doubtful \in [Calls -> BOOLEAN]
  /\ told \in [Calls -> {"none", "settled", "retained"}]

Init ==
  /\ entries = NoEntries
  /\ lock = NoCall
  /\ at = [c \in Calls |-> "out"]
  /\ seen = [c \in Calls |-> NoEntries]
  /\ pc = [c \in Calls |-> "reserve"]
  /\ tries = [c \in Calls |-> 0]
  /\ owed = [c \in Calls |-> 0]
  /\ doubtful = [c \in Calls |-> FALSE]
  /\ told = [c \in Calls |-> "none"]

Goto(c, p) == pc' = [pc EXCEPT ![c] = p]
Is(c, p, q) == pc[c] = p /\ at[c] = q
Tell(c, t) == told' = [told EXCEPT ![c] = t]
AfterSettle(c) == IF c \in Adapters THEN "parse" ELSE "done"

-----------------------------------------------------------------------------
(* withSpendLock: create the lock file or fail, read the whole file, write *)
(* the whole file, remove the lock file.                                   *)

Acquire(c) ==
  /\ pc[c] \in LockedOps /\ at[c] = "out"
  /\ lock = NoCall
  /\ lock' = c
  /\ at' = [at EXCEPT ![c] = "locked"]
  /\ UNCHANGED <<entries, seen, pc, tries, owed, doubtful, told>>

Read(c) ==
  /\ pc[c] \in LockedOps /\ at[c] = "locked"
  /\ seen' = [seen EXCEPT ![c] = entries]
  /\ at' = [at EXCEPT ![c] = "read"]
  /\ UNCHANGED <<entries, lock, pc, tries, owed, doubtful, told>>

\* The operation has returned or thrown: its snapshot is dropped, the lock file remains.
Leave(c, how) ==
  /\ at' = [at EXCEPT ![c] = how]
  /\ seen' = [seen EXCEPT ![c] = NoEntries]

-----------------------------------------------------------------------------
(* The three operations, under the lock.                                   *)

WriteReserve(c, r, d) ==
  /\ Is(c, "reserve", "read")
  /\ Fits(seen[c], r, d)
  /\ entries' = Reserved(seen[c], c, r, d)
  /\ Leave(c, "returned")
  /\ UNCHANGED <<lock, pc, tries, owed, doubtful, told>>

Exceeded(c, r, d) ==
  /\ Is(c, "reserve", "read")
  /\ ~ Fits(seen[c], r, d)
  /\ Leave(c, "thrown")
  /\ UNCHANGED <<entries, lock, pc, tries, owed, doubtful, told>>

\* No caller settles a reservation twice, so prior is never settled here.
WriteSettle(c) ==
  /\ Is(c, "settle", "read")
  /\ seen[c][c].status \in {"reserved", "uncertain"}
  /\ entries' = Settled(seen[c], c, owed[c])
  /\ Leave(c, "returned")
  /\ UNCHANGED <<lock, pc, tries, owed, doubtful, told>>

\* Mutant: a settled entry is marked as well.
WriteMarkAlways(c) ==
  /\ Is(c, "mark", "read")
  /\ entries' = IF seen[c][c].status # "none" THEN Marked(seen[c], c) ELSE entries
  /\ Leave(c, "returned")
  /\ UNCHANGED <<lock, pc, tries, owed, doubtful, told>>

\* Mutant: a failed call gives its reservation back.
WriteMarkFrees(c) ==
  /\ Is(c, "mark", "read")
  /\ entries' = [seen[c] EXCEPT ![c] = Blank]
  /\ Leave(c, "returned")
  /\ UNCHANGED <<lock, pc, tries, owed, doubtful, told>>

WriteMark(c) ==
  /\ Is(c, "mark", "read")
  /\ entries' = IF seen[c][c].status = "reserved" THEN Marked(seen[c], c) ELSE entries
  /\ Leave(c, "returned")
  /\ UNCHANGED <<lock, pc, tries, owed, doubtful, told>>

\* The file cannot be read, does not parse or cannot be replaced; or it was
\* replaced, and the chmod behind the rename throws.
StoreFails(c) ==
  /\ pc[c] \in LockedOps /\ at[c] \in {"locked", "read", "returned"}
  /\ Leave(c, "thrown")
  /\ UNCHANGED <<entries, lock, pc, tries, owed, doubtful, told>>

-----------------------------------------------------------------------------
(* What the caller does next.  When its operation throws, reserve is       *)
(* answered 503 before anything was sent, settle leaves the reservation    *)
(* and says so, mark is swallowed.                                         *)

AfterError(c) == IF pc[c] = "settle" THEN AfterSettle(c) ELSE "done"
AfterReturn(c) == IF pc[c] = "reserve" THEN "dispatch" ELSE AfterError(c)

\* Mutant: the answer always says "settled".
TellNoError(c) == IF pc[c] = "settle" THEN Tell(c, "settled") ELSE UNCHANGED told

TellError(c) == IF pc[c] = "settle" THEN Tell(c, "retained") ELSE UNCHANGED told
TellReturn(c) == IF pc[c] = "settle" THEN Tell(c, "settled") ELSE UNCHANGED told

Release(c) ==
  /\ at[c] \in {"returned", "thrown"} /\ pc[c] # "crashed"
  /\ lock' = NoCall
  /\ at' = [at EXCEPT ![c] = "out"]
  /\ IF at[c] = "returned" THEN Goto(c, AfterReturn(c)) /\ TellReturn(c)
     ELSE Goto(c, AfterError(c)) /\ TellError(c)
  /\ UNCHANGED <<entries, seen, tries, owed, doubtful>>

\* The close or the unlink in the finally block throws, whatever the operation
\* did: the lock file stays.
ReleaseFails(c) ==
  /\ at[c] \in {"returned", "thrown"} /\ pc[c] # "crashed"
  /\ at' = [at EXCEPT ![c] = "out"]
  /\ Goto(c, AfterError(c))
  /\ TellError(c)
  /\ UNCHANGED <<entries, lock, seen, tries, owed, doubtful>>

\* Mutant: an operation after the dispatch waits for the lock.
BusyWaits(c) ==
  /\ pc[c] = "reserve" /\ at[c] = "out"
  /\ Goto(c, "done")
  /\ UNCHANGED <<entries, lock, at, seen, tries, owed, doubtful, told>>

\* EEXIST: somebody's lock file is there, alive or not.  Any other error of the
\* open, which throws as well, needs no lock file.
Busy(c) ==
  /\ pc[c] \in LockedOps /\ at[c] = "out"
  /\ Goto(c, AfterError(c))
  /\ TellError(c)
  /\ UNCHANGED <<entries, lock, at, seen, tries, owed, doubtful>>

-----------------------------------------------------------------------------
(* complete() and callRoute().                                             *)

\* An exact cache hit of complete() never reaches the budget.
CacheHit(c) ==
  /\ Is(c, "reserve", "out") /\ c \notin Adapters
  /\ Goto(c, "done")
  /\ UNCHANGED <<entries, lock, at, seen, tries, owed, doubtful, told>>

Dispatch(c) ==
  /\ Is(c, "dispatch", "out")
  /\ tries' = [tries EXCEPT ![c] = @ + 1]
  /\ Goto(c, "inflight")
  /\ UNCHANGED <<entries, lock, at, seen, owed, doubtful, told>>

\* A result, or (complete only) an error response that states what it billed.
ProviderBills(c, b) ==
  /\ Is(c, "inflight", "out")
  /\ owed' = [owed EXCEPT ![c] = b]
  /\ Goto(c, "settle")
  /\ UNCHANGED <<entries, lock, at, seen, tries, doubtful, told>>

\* A rejected credential: the next one is tried under the same reservation.
NextCredential(c) ==
  /\ Is(c, "inflight", "out") /\ c \notin Adapters
  /\ tries[c] < Candidates
  /\ Goto(c, "dispatch")
  /\ UNCHANGED <<entries, lock, at, seen, tries, owed, doubtful, told>>

\* The same after "unreachable", which is any failure of fetch, also one that
\* came after the request was sent.
FailOver(c) ==
  /\ Is(c, "inflight", "out") /\ c \notin Adapters
  /\ tries[c] < Candidates
  /\ doubtful' = [doubtful EXCEPT ![c] = TRUE]
  /\ Goto(c, "dispatch")
  /\ UNCHANGED <<entries, lock, at, seen, tries, owed, told>>

\* Any other failure, a failure of the last credential, or the caller is gone.
ProviderFails(c) ==
  /\ Is(c, "inflight", "out")
  /\ doubtful' = [doubtful EXCEPT ![c] = TRUE]
  /\ Goto(c, "mark")
  /\ UNCHANGED <<entries, lock, at, seen, tries, owed, told>>

\* The adapter's output is parsed after it was settled; a reject marks it.
ParseOutput(c) ==
  /\ Is(c, "parse", "out")
  /\ \E p \in {"done", "mark"} : Goto(c, p)
  /\ UNCHANGED <<entries, lock, at, seen, tries, owed, doubtful, told>>

-----------------------------------------------------------------------------
(* The environment: a process dies, an operator clears a lock file left.   *)

Crash(c) ==
  /\ pc[c] # "crashed" /\ ~ Is(c, "done", "out")
  /\ Goto(c, "crashed")
  /\ UNCHANGED <<entries, lock, at, seen, tries, owed, doubtful, told>>

ClearLock ==
  /\ lock # NoCall /\ (pc[lock] = "crashed" \/ at[lock] = "out")
  /\ lock' = NoCall
  /\ UNCHANGED <<entries, at, seen, pc, tries, owed, doubtful, told>>

Step(c) ==
  \/ Acquire(c) \/ Read(c) \/ Release(c) \/ ReleaseFails(c)
  \/ \E r \in Reserves, d \in Days : WriteReserve(c, r, d) \/ Exceeded(c, r, d)
  \/ WriteSettle(c) \/ WriteMark(c)
  \/ Busy(c) \/ StoreFails(c)
  \/ CacheHit(c) \/ Dispatch(c)
  \/ \E b \in Bills : ProviderBills(c, b)
  \/ NextCredential(c) \/ FailOver(c) \/ ProviderFails(c)
  \/ ParseOutput(c)

Next == (\E c \in Calls : Step(c) \/ Crash(c)) \/ ClearLock

Spec == Init /\ [][Next]_vars

\* A live call runs on and its provider answers or fails; nobody has to crash
\* and no operator has to come.
FairSpec == Spec /\ \A c \in Calls : WF_vars(Step(c))
-----------------------------------------------------------------------------
\* What a reservation was admitted for and still claims: its cost beyond the
\* reservation is an overrun, known only after it was admitted.
Claim(e) == IF e.status = "settled" /\ e.actual < e.reserved THEN e.actual ELSE e.reserved
Claims(group) == MapThenSumSet(LAMBDA c : Claim(entries[c]), group)

\* No interleaving of reserve calls admits more than the day's or the month's
\* limit: apart from overruns of settled calls the ledger stays within both
\* (reserve's comparison at spend-budget.ts:257-278 with a fresh snapshot).
AdmittedWithinLimits ==
  \A d \in Days : /\ Within(DailyUsd, Claims(OfDay(entries, d)))
                  /\ Within(MonthlyUsd, Claims(OfMonth(entries, d)))

\* A request that reached a provider is in the ledger, whoever wrote or died
\* since, and counts its reservation until the provider stated a cost
\* (ADR-21: a crash or an ambiguous failure frees no budget).
DispatchedIsCounted ==
  \A c \in Calls : tries[c] > 0 =>
    \/ entries[c].status \in {"reserved", "uncertain"} /\ entries[c].reserved > 0
    \/ entries[c].status = "settled" /\ entries[c].actual = owed[c]

\* The settlement field of an answer: "settled" means that exactly the cost the
\* provider stated is on disk; "reservation-retained" that the request is
\* counted, with its reservation or, when the write came through before the
\* error, with that cost (complete.ts:444-459, spend-budget.ts:199, 223-224).
TruthfulSettlement ==
  \A c \in Calls :
    LET e == entries[c]
        paid == e.status = "settled" /\ e.actual = owed[c] IN
      /\ told[c] = "settled" => paid
      /\ told[c] = "retained" => paid \/ e.status \in {"reserved", "uncertain"}

\* What "reservation-retained" says (complete.ts:450).
RetainedIsTrue == \A c \in Calls : told[c] = "retained" => entries[c].status # "settled"

\* Whoever is inside the critical section holds the lock and works on the file
\* as it is (withSpendLock, spend-budget.ts:202-226).
LockInv ==
  \A c \in Calls :
    /\ at[c] # "out" /\ pc[c] # "crashed" => lock = c
    /\ at[c] = "read" /\ pc[c] # "crashed" => seen[c] = entries

\* A call that may have been billed for a failed request keeps its reservation
\* counted (docs/spend-budget-operations.md:21).
AmbiguityRetained ==
  \A c \in Calls : doubtful[c] => entries[c].status # "settled"

\* The file, its lock and its crashes implement the atomic ledger of ADR-21.
Ledger == INSTANCE SpendLedger WITH ledger <- entries
ImplementsSpendLedger == Ledger!Spec

\* Every hosted call ends, also beside a lock file nobody will remove: the
\* lock is never waited for (SpendBudgetBusyError).
EveryCallEnds == \A c \in Calls : <>(pc[c] = "crashed" \/ Is(c, "done", "out"))
=============================================================================
