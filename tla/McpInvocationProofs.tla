------------------------ MODULE McpInvocationProofs ------------------------
(***************************************************************************)
(* For every set of requests, keys, operations and processes, any number   *)
(* of crashes and policy edits: at most one call of a key reaches the      *)
(* remote server, and what the store says of it is final.                  *)
(***************************************************************************)
EXTENDS McpInvocation, FiniteSetTheorems, TLAPS

USE DEF Idle, LockSteps, Holding, Called

\* What the definitions that name a step and an answer do to their variables.
LEMMA GotoType ==
  ASSUME TypeOK, NEW r \in Requests, NEW step \in PCs, Goto(r, step)
  PROVE  pc' \in [Requests -> PCs]
  BY DEF TypeOK, Goto

LEMMA AnswerType ==
  ASSUME TypeOK, NEW r \in Requests, NEW kind \in ReplyKinds,
         NEW result \in Results \cup {None}, Answer(r, kind, result)
  PROVE  reply' \in [Requests -> Replies \cup {None}]
  BY DEF TypeOK, Answer, Replies

LEMMA InitInv == Init => StoreInv
<1> SUFFICES ASSUME Init PROVE StoreInv
  OBVIOUS
<1> USE DEF Init
<1>1. TypeOK
  BY BoundsAreNaturals DEF TypeOK, PCs
<1>2. \A k \in Keys : Claims(k) = {}
  BY DEF Claims
<1> QED
  BY <1>1, <1>2 DEF StoreInv, CallsKnown, KeyedSteps, ClaimsUnique,
     ClaimsRecorded, ClaimantReserved, SettledFaithfully

-----------------------------------------------------------------------------
\* The part of the invariant that is not about types.
Core == /\ CallsKnown /\ KeyedSteps
        /\ ClaimsUnique /\ ClaimsRecorded /\ ClaimantReserved /\ SettledFaithfully

KeyedOnly == {"reserve", "reserving", "reserved", "settle", "settling", "mark", "marking"}

\* Moving requests between steps keeps Core as long as nobody acquires a
\* claim, starts a remote call or settles without an answer.
LEMMA MovesKeepCore ==
  ASSUME TypeOK, Core, pc' \in [Requests -> PCs],
         UNCHANGED <<call, entry, saved, world>>,
         \A q \in Requests : pc'[q] # pc[q] =>
           /\ q \in sent => pc'[q] \in Called \cup {"closing", "done", "lost"}
           /\ pc'[q] \notin Idle => call[q] # None
           /\ pc'[q] \in Holding => pc[q] \in Holding \/ ~Keyed(q)
           /\ pc'[q] \in Called => pc[q] \in Called
           /\ pc'[q] \in KeyedOnly => Keyed(q)
           /\ pc'[q] \in {"settle", "settling"} => executed[q] # None
  PROVE  Core'
<1> USE DEF world, Keyed, Key
<1>1. \A k \in Keys : Claims(k)' \subseteq Claims(k)
  BY DEF Claims
<1>2. \A k \in Keys : \A q \in Claims(k) : q \in sent => q \in Claims(k)'
  BY DEF Claims
<1>3. CallsKnown' /\ KeyedSteps' /\ ClaimantReserved'
  BY DEF Core, CallsKnown, KeyedSteps, KeyedOnly, ClaimantReserved
<1>4. ClaimsUnique' /\ ClaimsRecorded'
  BY <1>1 DEF Core, ClaimsUnique, ClaimsRecorded
<1>5. SettledFaithfully'
  <2>1. \A r \in Requests : pc'[r] \in {"settle", "settling"} => executed'[r] # None
    BY DEF Core, SettledFaithfully
  <2>2. ASSUME NEW k \in Keys, entry[k] = "settled"
        PROVE  \E r \in Claims(k)' : executed[r] = saved[k] /\ saved[k] # None
    <3>1. PICK r \in Claims(k) : executed[r] = saved[k] /\ saved[k] # None
      BY <2>2 DEF Core, SettledFaithfully
    <3>2. r \in sent
      BY <3>1 DEF Core, CallsKnown, Claims
    <3> QED
      BY <1>2, <3>1, <3>2
  <2>3. ASSUME NEW k \in Keys, entry[k] # "settled" PROVE saved[k] = None
    BY <2>3 DEF Core, SettledFaithfully
  <2> QED
    BY <2>1, <2>2, <2>3 DEF SettledFaithfully
<1> QED
  BY <1>3, <1>4, <1>5 DEF Core

-----------------------------------------------------------------------------
\* Who may stand in a critical section, before and after the lock changes hands.
LEMMA TakeType ==
  ASSUME TypeOK, NEW r \in Requests, NEW step \in PCs, pc[r] \notin LockSteps,
         Take(r, step)
  PROVE  /\ pc' \in [Requests -> PCs]
         /\ lock' \in Requests
         /\ \A q \in Requests : pc'[q] \in LockSteps => lock' = q
  BY NoneIsNothing DEF TypeOK, Take, Goto

LEMMA FinishType ==
  ASSUME TypeOK, NEW r \in Requests, NEW kind \in ReplyKinds, Finish(r, kind)
  PROVE  /\ pc' = [pc EXCEPT ![r] = "done"]
         /\ pc' \in [Requests -> PCs]
         /\ reply' \in [Requests -> Replies \cup {None}]
  BY AnswerType DEF Finish, TypeOK, Goto, PCs

\* Type correctness, one step per action.
LEMMA StepType ==
  ASSUME TypeOK, CallsKnown, NEW r \in Requests, Step(r)
  PROVE  TypeOK'
<1> USE DEF store, world, bounds
<1>1. CASE Authorize(r) \/ Preflight(r) \/ Connect(r)
  <2>1. \/ \E step \in {"lookup", "evaluate", "connect", "reserve", "dispatch"} :
             Goto(r, step) /\ UNCHANGED reply
        \/ \E kind \in {"DENIED", "UNAVAILABLE", "UNCERTAIN"} : Finish(r, kind)
    BY <1>1 DEF Authorize, Preflight, Connect
  <2>2. UNCHANGED <<policy, call, store, approval, world, bounds>>
    BY <1>1 DEF Authorize, Preflight, Connect
  <2>3. pc' \in [Requests -> PCs] /\ reply' \in [Requests -> Replies \cup {None}]
    BY <2>1, FinishType, GotoType DEF TypeOK, PCs, ReplyKinds
  <2>4. \A q \in Requests : pc'[q] \in LockSteps => pc[q] \in LockSteps
    BY <2>1 DEF TypeOK, Finish, Goto
  <2> QED
    BY <2>2, <2>3, <2>4 DEF TypeOK
<1>2. CASE Lookup(r)
  <2>1. \/ \E step \in {"evaluate", "preflight"} : Goto(r, step) /\ UNCHANGED reply
        \/ \E kind \in {"DENIED", "UNAVAILABLE", "APPROVAL_REQUIRED"} : Finish(r, kind)
    BY <1>2 DEF Lookup
  <2>2. UNCHANGED <<policy, call, store, approval, world, bounds>>
    BY <1>2 DEF Lookup
  <2>3. pc' \in [Requests -> PCs] /\ reply' \in [Requests -> Replies \cup {None}]
    BY <2>1, FinishType, GotoType DEF TypeOK, PCs, ReplyKinds
  <2>4. \A q \in Requests : pc'[q] \in LockSteps => pc[q] \in LockSteps
    BY <2>1 DEF TypeOK, Finish, Goto
  <2> QED
    BY <2>2, <2>3, <2>4 DEF TypeOK
<1>3. CASE Evaluate(r)
  <2>1. \/ Goto(r, "preflight") /\ UNCHANGED reply
        \/ \E kind \in {"DENIED", "UNAVAILABLE", "APPROVAL_REQUIRED"} : Finish(r, kind)
    BY <1>3 DEF Evaluate
  <2>2. UNCHANGED <<policy, call, store, world, bounds>>
    BY <1>3 DEF Evaluate
  <2>3. pc' \in [Requests -> PCs] /\ reply' \in [Requests -> Replies \cup {None}]
    BY <2>1, FinishType, GotoType DEF TypeOK, PCs, ReplyKinds
  <2>4. \A q \in Requests : pc'[q] \in LockSteps => pc[q] \in LockSteps
    BY <2>1 DEF TypeOK, Finish, Goto
  <2>5. call[r] \in Calls
    BY <1>3 DEF Evaluate, TypeOK, CallsKnown
  <2>6. ASSUME EnsureApproval(call[r].op, Key(r))
        PROVE  approval' \in [Ops -> Rows \cup {None}]
    <3> DEFINE at == Cardinality({p \in Ops : approval[p] # None})
    <3>1. at \in Nat
      BY OpsFinite, FS_Subset, FS_CardinalityType, SMT
    <3>2. [key |-> Key(r), status |-> "PENDING", at |-> at] \in Rows
      BY <2>5, <3>1 DEF Rows, Calls, Key
    <3> QED
      BY <2>5, <2>6, <3>2 DEF EnsureApproval, TypeOK, Calls
  <2>7. approval' \in [Ops -> Rows \cup {None}]
    BY <1>3, <2>6 DEF Evaluate, TypeOK
  <2> QED
    BY <2>2, <2>3, <2>4, <2>7 DEF TypeOK
<1>4. CASE LockReserve(r) \/ LockSettle(r) \/ LockMark(r)
  <2>1. \/ \E step \in {"reserving", "settling", "marking"} : Take(r, step)
        \/ \E kind \in {"UNAVAILABLE", "UNCERTAIN"} : Finish(r, kind) /\ UNCHANGED lock
        \/ Goto(r, "done") /\ Answer(r, "RETAINED", executed[r]) /\ UNCHANGED lock
    BY <1>4 DEF LockReserve, LockSettle, LockMark
  <2>2. pc[r] \notin LockSteps
    BY <1>4 DEF LockReserve, LockSettle, LockMark
  <2>3. UNCHANGED <<policy, call, entry, saved, approval, world, bounds>>
    BY <1>4 DEF LockReserve, LockSettle, LockMark
  <2>4. CASE \E step \in {"reserving", "settling", "marking"} : Take(r, step)
    <3>1. reply' = reply
      BY <2>4 DEF Take
    <3> QED
      BY <2>2, <2>3, <2>4, <3>1, TakeType DEF TypeOK, PCs
  <2>5. CASE \E kind \in {"UNAVAILABLE", "UNCERTAIN"} : Finish(r, kind) /\ UNCHANGED lock
    BY <2>3, <2>5, FinishType DEF TypeOK, ReplyKinds
  <2>6. CASE Goto(r, "done") /\ Answer(r, "RETAINED", executed[r]) /\ UNCHANGED lock
    <3>1. reply' \in [Requests -> Replies \cup {None}]
      BY <2>6, AnswerType DEF TypeOK, ReplyKinds
    <3> QED
      BY <2>3, <2>6, <3>1 DEF TypeOK, Goto, PCs
  <2> QED
    BY <2>1, <2>4, <2>5, <2>6
<1>5. CASE CommitReserve(r)
  <2>1. pc' \in [Requests -> PCs] /\ \A q \in Requests : pc'[q] \in LockSteps => lock = q
    BY <1>5 DEF CommitReserve, Goto, TypeOK, PCs
  <2>2. Key(r) \in Keys
    BY <1>5 DEF CommitReserve, TypeOK, CallsKnown, Calls, Key
  <2>3. reply' \in [Requests -> Replies \cup {None}]
    BY <1>5, <2>2, AnswerType DEF CommitReserve, TypeOK, ReplyKinds
  <2> QED
    BY <1>5, <2>1, <2>2, <2>3 DEF CommitReserve, TypeOK
<1>6. CASE Unlock(r)
  BY <1>6 DEF Unlock, Goto, TypeOK, PCs
<1>7. CASE Dispatch(r)
  BY <1>7 DEF Dispatch, Goto, TypeOK, PCs
<1>8. CASE Returned(r) \/ Failed(r)
  <2>1. reply' \in [Requests -> Replies \cup {None}]
    BY <1>8, AnswerType DEF Returned, Failed, Finish, TypeOK, ReplyKinds
  <2> QED
    BY <1>8, <2>1 DEF Returned, Failed, Finish, Goto, TypeOK, PCs
<1>9. CASE CommitSettle(r) \/ CommitMark(r)
  <2>1. reply' \in [Requests -> Replies \cup {None}]
    BY <1>9, AnswerType DEF CommitSettle, CommitMark, TypeOK, ReplyKinds
  <2>2. pc' \in [Requests -> PCs] /\ \A q \in Requests : pc'[q] \in LockSteps => lock = q
    BY <1>9 DEF CommitSettle, CommitMark, Goto, TypeOK, PCs
  <2> QED
    BY <1>9, <2>1, <2>2 DEF CommitSettle, CommitMark, TypeOK
<1> QED
  BY <1>1, <1>2, <1>3, <1>4, <1>5, <1>6, <1>7, <1>8, <1>9 DEF Step

\* Steps that no request takes: callers, the remote server, crashes, people.
Outside ==
  \/ \E r \in Requests, k \in Keys, o \in Ops, p \in Procs, over \in Excess :
       Start(r, k, o, p, over)
  \/ \E r \in Requests : Execute(r)
  \/ \E p \in Procs : Crash(p)
  \/ ClearLock
  \/ \E k \in Keys, c \in Policies : SetToolPolicy(k, c)
  \/ \E o \in Ops, d \in Decisions : Decide(o, d)

LEMMA OutsideType ==
  ASSUME TypeOK, CallsKnown, Outside
  PROVE  TypeOK'
<1> USE DEF store, world, bounds
<1>1. ASSUME NEW r \in Requests, NEW k \in Keys, NEW o \in Ops, NEW p \in Procs,
             NEW over \in Excess, Start(r, k, o, p, over)
      PROVE  TypeOK'
  <2>1. CASE policy[k] = "DISABLED"
    <3>1. Finish(r, "DISABLED")
      BY <1>1, <2>1 DEF Start
    <3> QED
      BY <1>1, <2>1, <3>1, FinishType DEF Start, TypeOK, ReplyKinds
  <2>2. CASE policy[k] # "DISABLED"
    <3>1. policy[k] \in Classes
      BY <2>2 DEF TypeOK, Policies
    <3>2. call' \in [Requests -> Calls \cup {None}]
      BY <1>1, <2>2, <3>1, ExcessIsBoolean DEF Start, TypeOK, Calls
    <3> QED
      BY <1>1, <2>2, <3>2 DEF Start, Goto, TypeOK, PCs
  <2> QED
    BY <2>1, <2>2
<1>2. ASSUME NEW r \in Requests, Execute(r) PROVE TypeOK'
  BY <1>2 DEF Execute, TypeOK
<1>3. ASSUME NEW p \in Procs, Crash(p) PROVE TypeOK'
  BY <1>3 DEF Crash, TypeOK, PCs
<1>4. CASE ClearLock
  BY <1>4 DEF ClearLock, TypeOK
<1>5. ASSUME NEW k \in Keys, NEW c \in Policies, SetToolPolicy(k, c) PROVE TypeOK'
  BY <1>5 DEF SetToolPolicy, TypeOK
<1>6. ASSUME NEW o \in Ops, NEW d \in Decisions, Decide(o, d) PROVE TypeOK'
  <2>1. approval[o] \in Rows
    BY <1>6 DEF Decide, TypeOK
  <2>2. [approval[o] EXCEPT !.status = d] \in Rows
    BY <2>1 DEF Rows
  <2> QED
    BY <1>6, <2>2 DEF Decide, TypeOK
<1> QED
  BY <1>1, <1>2, <1>3, <1>4, <1>5, <1>6 DEF Outside

-----------------------------------------------------------------------------
\* A claim is acquired only when the key has none.
LEMMA ReserveKeepsCore ==
  ASSUME StoreInv, NEW r \in Requests, CommitReserve(r), entry[Key(r)] = "absent"
  PROVE  Core'
<1> USE DEF store, world, Keyed, Key
<1> PICK k \in Keys : k = Key(r)
  BY DEF StoreInv, CommitReserve, CallsKnown, TypeOK, Calls
<1>1. /\ pc[r] = "reserving" /\ Keyed(r) /\ call[r] # None
      /\ pc' = [pc EXCEPT ![r] = "reserved"]
      /\ entry' = [entry EXCEPT ![k] = "reserved"]
      /\ UNCHANGED <<call, saved, world>>
  BY DEF StoreInv, CommitReserve, Goto, CallsKnown, KeyedSteps, TypeOK, Calls
<1>2. pc \in [Requests -> PCs] /\ entry \in [Keys -> {"absent", "reserved", "uncertain", "settled"}]
  BY DEF StoreInv, TypeOK
<1>3. Claims(k) = {}
  BY <1>1 DEF StoreInv, ClaimsRecorded
<1>4. Claims(k)' = {r}
  BY <1>1, <1>2, <1>3 DEF Claims
<1>5. \A l \in Keys : l # k => Claims(l)' = Claims(l)
  BY <1>1, <1>2 DEF Claims
<1>6. CallsKnown' /\ KeyedSteps'
  BY <1>1, <1>2 DEF StoreInv, CallsKnown, KeyedSteps
<1>7. ClaimsUnique'
  BY <1>4, <1>5 DEF StoreInv, ClaimsUnique
<1>8. ClaimsRecorded'
  BY <1>1, <1>2, <1>4, <1>5 DEF StoreInv, ClaimsRecorded
<1>9. ClaimantReserved'
  <2> SUFFICES ASSUME NEW q \in Requests, pc'[q] \in Holding \cup Called, Keyed(q)'
               PROVE  entry'[Key(q)'] = "reserved"
    BY DEF ClaimantReserved
  <2>1. CASE q = r
    BY <1>1, <1>2, <2>1
  <2>2. CASE q # r
    BY <1>1, <1>2, <2>2 DEF StoreInv, ClaimantReserved
  <2> QED
    BY <2>1, <2>2
<1>10. SettledFaithfully'
  <2>1. \A q \in Requests : pc'[q] \in {"settle", "settling"} => executed'[q] # None
    BY <1>1, <1>2 DEF StoreInv, SettledFaithfully
  <2>2. saved'[k] = None /\ entry'[k] = "reserved"
    BY <1>1, <1>2 DEF StoreInv, SettledFaithfully
  <2>3. ASSUME NEW l \in Keys, l # k
        PROVE  entry'[l] = entry[l] /\ saved'[l] = saved[l] /\ Claims(l)' = Claims(l)
    BY <1>1, <1>2, <1>5, <2>3
  <2>4. \A l \in Keys : IF entry[l] = "settled"
                          THEN \E q \in Claims(l) : executed[q] = saved[l] /\ saved[l] # None
                          ELSE saved[l] = None
    BY DEF StoreInv, SettledFaithfully
  <2>5. \A l \in Keys : IF entry'[l] = "settled"
                          THEN \E q \in Claims(l)' : executed'[q] = saved'[l] /\ saved'[l] # None
                          ELSE saved'[l] = None
    BY <1>1, <2>2, <2>3, <2>4
  <2> QED
    BY <2>1, <2>5 DEF SettledFaithfully
<1> QED
  BY <1>6, <1>7, <1>8, <1>9, <1>10 DEF Core

\* Dispatching turns a claim held before the call into one held after it.
LEMMA DispatchKeepsCore ==
  ASSUME StoreInv, NEW r \in Requests, Dispatch(r)
  PROVE  Core'
<1> USE DEF store, world, Keyed, Key
<1>1. /\ pc[r] = "dispatch" /\ call[r] # None
      /\ pc' = [pc EXCEPT ![r] = "inflight"]
      /\ sent' = sent \cup {r}
      /\ UNCHANGED <<call, entry, saved, executed>>
  BY DEF StoreInv, Dispatch, Goto, CallsKnown
<1>2. pc \in [Requests -> PCs]
  BY DEF StoreInv, TypeOK
<1>3. \A k \in Keys : Claims(k)' = Claims(k)
  BY <1>1, <1>2 DEF Claims
<1>4. CallsKnown' /\ KeyedSteps' /\ ClaimantReserved'
  BY <1>1, <1>2 DEF StoreInv, CallsKnown, KeyedSteps, ClaimantReserved
<1>5. ClaimsUnique' /\ ClaimsRecorded'
  BY <1>1, <1>3 DEF StoreInv, ClaimsUnique, ClaimsRecorded
<1>6. SettledFaithfully'
  BY <1>1, <1>2, <1>3 DEF StoreInv, SettledFaithfully
<1> QED
  BY <1>4, <1>5, <1>6 DEF Core

\* Recording an outcome: the recorder is the key's only claimant.
LEMMA RecordKeepsCore ==
  ASSUME StoreInv, NEW r \in Requests, CommitSettle(r) \/ CommitMark(r)
  PROVE  Core'
<1> USE DEF store, world, Keyed, Key
<1> PICK k \in Keys : k = Key(r)
  BY DEF StoreInv, CommitSettle, CommitMark, CallsKnown, TypeOK, Calls
<1>1. /\ pc[r] \in {"settling", "marking"} /\ Keyed(r) /\ call[r] # None
      /\ r \in sent /\ entry[k] = "reserved"
      /\ pc' = [pc EXCEPT ![r] = "closing"]
      /\ UNCHANGED <<call, world>>
  BY DEF StoreInv, CommitSettle, CommitMark, Goto, CallsKnown, KeyedSteps,
     ClaimantReserved, TypeOK, Calls
<1>2. /\ pc \in [Requests -> PCs]
      /\ entry \in [Keys -> {"absent", "reserved", "uncertain", "settled"}]
      /\ saved \in [Keys -> Results \cup {None}]
  BY DEF StoreInv, TypeOK
<1>3. \/ /\ entry' = [entry EXCEPT ![k] = "settled"]
         /\ saved' = [saved EXCEPT ![k] = executed[r]] /\ executed[r] # None
      \/ entry' = [entry EXCEPT ![k] = "uncertain"] /\ saved' = saved
  BY <1>1 DEF CommitSettle, CommitMark, StoreInv, SettledFaithfully
<1>4. \A l \in Keys : Claims(l)' = Claims(l)
  BY <1>1, <1>2 DEF Claims
<1>5. r \in Claims(k) /\ \A q \in Claims(k) : q = r
  BY <1>1 DEF Claims, StoreInv, ClaimsUnique
<1>6. CallsKnown' /\ KeyedSteps'
  BY <1>1, <1>2 DEF StoreInv, CallsKnown, KeyedSteps
<1>7. ClaimsUnique' /\ ClaimsRecorded'
  BY <1>1, <1>2, <1>3, <1>4 DEF StoreInv, ClaimsUnique, ClaimsRecorded
<1>8. ClaimantReserved'
  <2> SUFFICES ASSUME NEW q \in Requests, pc'[q] \in Holding \cup Called, Keyed(q)
               PROVE  entry'[Key(q)] = "reserved"
    BY <1>1 DEF ClaimantReserved
  <2>1. q # r /\ pc[q] = pc'[q]
    BY <1>1, <1>2
  <2>2. call[q] # None /\ Key(q) \in Keys /\ (q \in sent \/ pc[q] \in Holding)
    BY <2>1 DEF StoreInv, CallsKnown, TypeOK, Calls
  <2>3. Key(q) # k
    BY <1>5, <2>1, <2>2 DEF Claims
  <2> QED
    BY <1>2, <1>3, <2>1, <2>2, <2>3 DEF StoreInv, ClaimantReserved
<1>9. SettledFaithfully'
  <2>1. \A q \in Requests : pc'[q] \in {"settle", "settling"} => executed'[q] # None
    BY <1>1, <1>2 DEF StoreInv, SettledFaithfully
  <2>2. \A l \in Keys : IF entry[l] = "settled"
                          THEN \E q \in Claims(l) : executed[q] = saved[l] /\ saved[l] # None
                          ELSE saved[l] = None
    BY DEF StoreInv, SettledFaithfully
  <2>3. \A l \in Keys : IF entry'[l] = "settled"
                          THEN \E q \in Claims(l)' : executed'[q] = saved'[l] /\ saved'[l] # None
                          ELSE saved'[l] = None
    BY <1>1, <1>2, <1>3, <1>4, <1>5, <2>2
  <2> QED
    BY <2>1, <2>3 DEF SettledFaithfully
<1> QED
  BY <1>6, <1>7, <1>8, <1>9 DEF Core

LEMMA StartKeepsCore ==
  ASSUME StoreInv, NEW r \in Requests, NEW k \in Keys, NEW o \in Ops, NEW p \in Procs,
         NEW over \in Excess, Start(r, k, o, p, over)
  PROVE  Core'
<1> USE DEF store, world, Keyed, Key
<1>1. /\ pc[r] = "unsent" /\ r \notin sent /\ executed[r] = None
      /\ UNCHANGED <<entry, saved, sent, executed>>
      /\ \/ pc' = [pc EXCEPT ![r] = "done"] /\ UNCHANGED call
         \/ /\ pc' = [pc EXCEPT ![r] = "authorize"]
            /\ \E c \in Calls : call' = [call EXCEPT ![r] = c]
  <2>1. CASE policy[k] = "DISABLED"
    BY <2>1 DEF Start, Finish, Goto, StoreInv, CallsKnown
  <2>2. CASE policy[k] # "DISABLED"
    <3>1. [key |-> k, op |-> o, proc |-> p, over |-> over, class |-> policy[k]] \in Calls
      BY <2>2, ExcessIsBoolean DEF StoreInv, TypeOK, Policies, Calls
    <3> QED
      BY <2>2, <3>1 DEF Start, Goto, StoreInv, CallsKnown
  <2> QED
    BY <2>1, <2>2
<1>2. pc \in [Requests -> PCs] /\ call \in [Requests -> Calls \cup {None}]
  BY DEF StoreInv, TypeOK
<1>3. \A l \in Keys : Claims(l)' = Claims(l)
  BY <1>1, <1>2 DEF Claims
<1>4. CallsKnown' /\ KeyedSteps' /\ ClaimantReserved'
  BY <1>1, <1>2, NoneIsNothing DEF StoreInv, CallsKnown, KeyedSteps, ClaimantReserved
<1>5. ClaimsUnique' /\ ClaimsRecorded'
  BY <1>1, <1>3 DEF StoreInv, ClaimsUnique, ClaimsRecorded
<1>6. SettledFaithfully'
  BY <1>1, <1>2, <1>3 DEF StoreInv, SettledFaithfully
<1> QED
  BY <1>4, <1>5, <1>6 DEF Core

\* A late execution cannot contradict what was settled: settling had its answer.
LEMMA ExecuteKeepsCore ==
  ASSUME StoreInv, NEW r \in Requests, Execute(r)
  PROVE  Core'
<1> USE DEF store, world, Keyed, Key
<1>1. /\ r \in sent /\ executed[r] = None
      /\ UNCHANGED <<call, pc, entry, saved, sent>>
      /\ \E v \in Results : executed' = [executed EXCEPT ![r] = v]
  BY DEF Execute
<1>2. executed \in [Requests -> Results \cup {None}]
  BY DEF StoreInv, TypeOK
<1>3. \A l \in Keys : Claims(l)' = Claims(l)
  BY <1>1 DEF Claims
<1>4. CallsKnown' /\ KeyedSteps' /\ ClaimantReserved'
  BY <1>1, <1>2, NoneIsNothing DEF StoreInv, CallsKnown, KeyedSteps, ClaimantReserved
<1>5. ClaimsUnique' /\ ClaimsRecorded'
  BY <1>1, <1>3 DEF StoreInv, ClaimsUnique, ClaimsRecorded
<1>6. SettledFaithfully'
  <2>1. \A q \in Requests : q # r => executed'[q] = executed[q]
    BY <1>1, <1>2
  <2>2. \A q \in Requests : pc'[q] \in {"settle", "settling"} => executed'[q] # None
    BY <1>1, <2>1 DEF StoreInv, SettledFaithfully
  <2>3. \A l \in Keys : \A q \in Claims(l) : saved[l] # None /\ executed[q] = saved[l] => q # r
    BY <1>1
  <2>4. \A l \in Keys : IF entry[l] = "settled"
                          THEN \E q \in Claims(l) : executed[q] = saved[l] /\ saved[l] # None
                          ELSE saved[l] = None
    BY DEF StoreInv, SettledFaithfully
  <2>5. \A l \in Keys : Claims(l) \subseteq Requests
    BY DEF Claims
  <2>6. \A l \in Keys : IF entry'[l] = "settled"
                          THEN \E q \in Claims(l)' : executed'[q] = saved'[l] /\ saved'[l] # None
                          ELSE saved'[l] = None
    BY <1>1, <1>3, <2>1, <2>3, <2>4, <2>5
  <2> QED
    BY <2>2, <2>6 DEF SettledFaithfully
<1> QED
  BY <1>4, <1>5, <1>6 DEF Core

-----------------------------------------------------------------------------
LEMMA StepKeepsCore ==
  ASSUME StoreInv, TypeOK', NEW r \in Requests, Step(r)
  PROVE  Core'
<1> USE DEF store, world
<1>1. TypeOK /\ Core /\ pc' \in [Requests -> PCs] /\ pc \in [Requests -> PCs]
  BY DEF StoreInv, Core, TypeOK
<1>2. CASE CommitReserve(r) /\ entry[Key(r)] = "absent"
  BY <1>2, ReserveKeepsCore
<1>3. CASE Dispatch(r)
  BY <1>3, DispatchKeepsCore
<1>4. CASE CommitSettle(r) \/ CommitMark(r)
  BY <1>4, RecordKeepsCore
<1>5. CASE \/ Authorize(r) \/ Lookup(r) \/ Evaluate(r) \/ Preflight(r) \/ Connect(r)
  <2>1. /\ pc[r] \in {"authorize", "lookup", "evaluate", "preflight", "connect"}
        /\ call[r] # None /\ r \notin sent
    BY <1>5 DEF Authorize, Lookup, Evaluate, Preflight, Connect, StoreInv, CallsKnown
  <2>2. UNCHANGED <<call, entry, saved, world>>
    BY <1>5 DEF Authorize, Lookup, Evaluate, Preflight, Connect
  <2>3. \/ \E step \in {"lookup", "evaluate", "preflight", "connect", "done"} :
             pc' = [pc EXCEPT ![r] = step]
        \/ Keyed(r) /\ pc' = [pc EXCEPT ![r] = "reserve"]
        \/ ~Keyed(r) /\ pc' = [pc EXCEPT ![r] = "dispatch"]
    BY <1>5 DEF Authorize, Lookup, Evaluate, Preflight, Connect, Goto, Finish
  <2> QED
    BY <1>1, <2>1, <2>2, <2>3, MovesKeepCore DEF KeyedOnly
<1>6. CASE \/ LockReserve(r) \/ LockSettle(r) \/ LockMark(r) \/ Unlock(r)
           \/ CommitReserve(r) /\ entry[Key(r)] # "absent"
  <2>1. /\ call[r] # None /\ UNCHANGED <<call, entry, saved, world>>
        /\ pc[r] \in KeyedOnly \/ pc[r] = "closing"
    BY <1>6 DEF LockReserve, LockSettle, LockMark, Unlock, CommitReserve,
       StoreInv, CallsKnown, KeyedOnly
  <2>2. \/ pc[r] = "reserve" /\ pc' = [pc EXCEPT ![r] = "reserving"]
        \/ pc[r] = "settle" /\ pc' = [pc EXCEPT ![r] = "settling"]
        \/ pc[r] = "mark" /\ pc' = [pc EXCEPT ![r] = "marking"]
        \/ pc[r] = "reserved" /\ pc' = [pc EXCEPT ![r] = "dispatch"]
        \/ \E step \in {"closing", "done"} : pc' = [pc EXCEPT ![r] = step]
    BY <1>6 DEF LockReserve, LockSettle, LockMark, Unlock, CommitReserve, Take, Goto, Finish
  <2>3. /\ pc[r] \in KeyedOnly => Keyed(r)
        /\ pc[r] = "settle" => executed[r] # None
        /\ r \in sent => pc[r] \notin {"reserve", "reserving", "reserved"}
    BY <1>1 DEF Core, CallsKnown, KeyedSteps, KeyedOnly, SettledFaithfully
  <2> QED
    BY <1>1, <2>1, <2>2, <2>3, MovesKeepCore DEF KeyedOnly
<1>7. CASE Returned(r) \/ Failed(r)
  <2>1. pc[r] = "inflight" /\ call[r] # None /\ UNCHANGED <<call, entry, saved, world>>
    BY <1>7 DEF Returned, Failed, StoreInv, CallsKnown
  <2>2. \/ Keyed(r) /\ executed[r] # None /\ pc' = [pc EXCEPT ![r] = "settle"]
        \/ Keyed(r) /\ pc' = [pc EXCEPT ![r] = "mark"]
        \/ pc' = [pc EXCEPT ![r] = "done"]
    BY <1>7 DEF Returned, Failed, Goto, Finish
  <2> QED
    BY <1>1, <2>1, <2>2, MovesKeepCore DEF KeyedOnly
<1> QED
  BY <1>2, <1>3, <1>4, <1>5, <1>6, <1>7 DEF Step

LEMMA OutsideKeepsCore ==
  ASSUME StoreInv, TypeOK', Outside
  PROVE  Core'
<1> USE DEF store, world
<1>1. TypeOK /\ Core /\ pc' \in [Requests -> PCs]
  BY DEF StoreInv, Core, TypeOK
<1>2. ASSUME NEW p \in Procs, Crash(p) PROVE Core'
  <2>1. \A q \in Requests : pc'[q] # pc[q] => pc'[q] = "lost"
    BY <1>2 DEF Crash
  <2>2. UNCHANGED <<call, entry, saved, world>>
    BY <1>2 DEF Crash
  <2> QED
    BY <1>1, <2>1, <2>2, MovesKeepCore DEF KeyedOnly
<1>3. CASE \/ ClearLock
           \/ \E k \in Keys, c \in Policies : SetToolPolicy(k, c)
           \/ \E o \in Ops, d \in Decisions : Decide(o, d)
  <2>1. UNCHANGED <<pc, call, entry, saved, world>>
    BY <1>3 DEF ClearLock, SetToolPolicy, Decide
  <2> QED
    BY <1>1, <2>1, MovesKeepCore
<1> QED
  BY <1>2, <1>3, StartKeepsCore, ExecuteKeepsCore DEF Outside

LEMMA NextInv == StoreInv /\ [Next]_vars => StoreInv'
<1> SUFFICES ASSUME StoreInv, [Next]_vars PROVE StoreInv'
  OBVIOUS
<1>1. TypeOK /\ CallsKnown
  BY DEF StoreInv
<1>2. ASSUME NEW r \in Requests, Step(r) PROVE StoreInv'
  BY <1>1, <1>2, StepType, StepKeepsCore DEF StoreInv, Core
<1>3. CASE Outside
  BY <1>1, <1>3, OutsideType, OutsideKeepsCore DEF StoreInv, Core
<1>4. CASE UNCHANGED vars
  BY <1>4 DEF vars, store, world, bounds, StoreInv, TypeOK, CallsKnown, KeyedSteps, Claims,
     ClaimsUnique, ClaimsRecorded, ClaimantReserved, SettledFaithfully, Keyed, Key
<1> QED
  BY <1>2, <1>3, <1>4 DEF Next, Outside

(***************************************************************************)
(* The store's invariant: claims on a key are unique and recorded, and a   *)
(* settled entry holds the answer its claimant got.                        *)
(***************************************************************************)
THEOREM StoreInvariant == Spec => []StoreInv
  BY InitInv, NextInv, PTL DEF Spec

\* Type correctness of callTool, its governance and its store.
THEOREM TypeCorrect == Spec => []TypeOK
<1>1. StoreInv => TypeOK
  BY DEF StoreInv
<1> QED
  BY <1>1, StoreInvariant, PTL

(***************************************************************************)
(* ADR-23: two executions of callTool with one key never both reach the    *)
(* remote server.                                                          *)
(***************************************************************************)
THEOREM AtMostOnce == Spec => []AtMostOnceDispatch
<1>1. StoreInv => AtMostOnceDispatch
  BY DEF StoreInv, TypeOK, CallsKnown, ClaimsUnique, Claims, AtMostOnceDispatch, KeyedSent
<1> QED
  BY <1>1, StoreInvariant, PTL

(***************************************************************************)
(* An uncertain or settled entry is never changed again, because whoever   *)
(* settles or marks a key is its claimant and found it reserved.           *)
(***************************************************************************)
THEOREM Final == Spec => OutcomeFinal
<1> DEFINE Kept(k) == entry[k] \in {"uncertain", "settled"} =>
                        entry'[k] = entry[k] /\ saved'[k] = saved[k]
<1>1. ASSUME StoreInv, [Next]_vars, NEW k \in Keys PROVE Kept(k)
  <2> USE DEF store, world
  <2>1. ASSUME UNCHANGED <<entry, saved>> PROVE Kept(k)
    BY <2>1
  <2>2. ASSUME NEW r \in Requests, CommitReserve(r) PROVE Kept(k)
    BY <1>1, <2>2 DEF CommitReserve, StoreInv, TypeOK
  <2>3. ASSUME NEW r \in Requests, CommitSettle(r) \/ CommitMark(r) PROVE Kept(k)
    <3>1. entry[Key(r)] = "reserved"
      BY <1>1, <2>3 DEF CommitSettle, CommitMark, StoreInv, KeyedSteps, ClaimantReserved
    <3> QED
      BY <1>1, <2>3, <3>1 DEF CommitSettle, CommitMark, StoreInv, TypeOK
  <2>4. CASE UNCHANGED vars
    BY <2>1, <2>4 DEF vars
  <2>5. ASSUME NEW r \in Requests, Step(r) PROVE Kept(k)
    BY <2>1, <2>2, <2>3, <2>5 DEF Step, Authorize, Lookup, Evaluate, Preflight, Connect,
       LockReserve, Unlock, Dispatch, Returned, Failed, LockSettle, LockMark
  <2>6. CASE Outside
    BY <2>1, <2>6 DEF Outside, Start, Execute, Crash, ClearLock, SetToolPolicy, Decide
  <2> QED
    BY <1>1, <2>4, <2>5, <2>6 DEF Next, Outside
<1>2. StoreInv /\ [Next]_vars => [\A k \in Keys : Kept(k)]_vars
  BY <1>1
<1> QED
  BY <1>2, StoreInvariant, PTL DEF Spec, OutcomeFinal

-----------------------------------------------------------------------------
\* What EffectOnce sees of a state: nothing but these three functions.
LEMMA SameView ==
  ASSUME StoreInv, UNCHANGED <<entry, saved>>, \A k \in Keys : Performed(k)' = Performed(k)
  PROVE  UNCHANGED Effect!vars
  BY DEF Effect!vars, PhaseOf

LEMMA MapInit == Init => Effect!Init
  BY DEF Init, Effect!Init, PhaseOf, Performed, KeyedSent

\* A key's claimant is the only request that may have performed its effect.
LEMMA PerformedOnce ==
  ASSUME StoreInv, NEW k \in Keys
  PROVE  /\ \A r \in KeyedSent(k) : r \in Claims(k)
         /\ entry[k] = "absent" => Performed(k) = {}
         /\ \A r \in KeyedSent(k) : executed[r] = None => Performed(k) = {}
<1>1. \A r \in KeyedSent(k) : r \in Claims(k)
  BY DEF StoreInv, TypeOK, CallsKnown, Claims, KeyedSent
<1>2. entry[k] = "absent" => Performed(k) = {}
  BY <1>1 DEF StoreInv, ClaimsRecorded, Performed
<1>3. ASSUME NEW r \in KeyedSent(k), executed[r] = None PROVE Performed(k) = {}
  BY <1>1, <1>3 DEF StoreInv, ClaimsUnique, Performed
<1> QED
  BY <1>1, <1>2, <1>3

LEMMA MapReserve ==
  ASSUME StoreInv, NEW r \in Requests, CommitReserve(r)
  PROVE  [Effect!Next]_(Effect!vars)
<1> USE DEF world, Keyed, Key
<1>1. \A k \in Keys : Performed(k)' = Performed(k)
  BY DEF CommitReserve, Performed, KeyedSent
<1>2. CASE entry[Key(r)] # "absent"
  <2>1. UNCHANGED <<entry, saved>>
    BY <1>2 DEF CommitReserve
  <2> QED
    BY <1>1, <2>1, SameView
<1>3. CASE entry[Key(r)] = "absent"
  <2> PICK k \in Keys : k = Key(r)
    BY DEF StoreInv, CommitReserve, CallsKnown, TypeOK, Calls
  <2>1. entry \in [Keys -> {"absent", "reserved", "uncertain", "settled"}]
    BY DEF StoreInv, TypeOK
  <2>2. entry' = [entry EXCEPT ![k] = "reserved"] /\ saved' = saved
    BY <1>3 DEF CommitReserve
  <2>3. Effect!Claim(k)
    BY <1>1, <1>3, <2>1, <2>2 DEF Effect!Claim, PhaseOf
  <2> QED
    BY <2>3 DEF Effect!Next
<1> QED
  BY <1>2, <1>3

LEMMA MapRecord ==
  ASSUME StoreInv, NEW r \in Requests, CommitSettle(r) \/ CommitMark(r)
  PROVE  [Effect!Next]_(Effect!vars)
<1> USE DEF world, Keyed, Key
<1> PICK k \in Keys : k = Key(r)
  BY DEF StoreInv, CommitSettle, CommitMark, CallsKnown, TypeOK, Calls
<1>1. /\ r \in KeyedSent(k) /\ entry[k] = "reserved"
      /\ entry \in [Keys -> {"absent", "reserved", "uncertain", "settled"}]
      /\ saved \in [Keys -> Results \cup {None}]
  BY DEF StoreInv, TypeOK, CommitSettle, CommitMark, CallsKnown, KeyedSteps,
     ClaimantReserved, KeyedSent
<1>2. \A l \in Keys : Performed(l)' = Performed(l)
  BY DEF CommitSettle, CommitMark, Performed, KeyedSent
<1>3. CASE CommitMark(r)
  <2>1. entry' = [entry EXCEPT ![k] = "uncertain"] /\ saved' = saved
    BY <1>1, <1>3 DEF CommitMark
  <2>2. Effect!GiveUp(k)
    BY <1>1, <1>2, <2>1 DEF Effect!GiveUp, PhaseOf
  <2> QED
    BY <2>2 DEF Effect!Next
<1>4. CASE CommitSettle(r)
  <2>1. /\ entry' = [entry EXCEPT ![k] = "settled"]
        /\ saved' = [saved EXCEPT ![k] = executed[r]]
        /\ executed[r] # None
    BY <1>1, <1>4 DEF CommitSettle, StoreInv, SettledFaithfully
  <2>2. Performed(k) = {<<r, executed[r]>>}
    BY <1>1, <2>1, PerformedOnce DEF Performed, StoreInv, ClaimsUnique
  <2>3. {OutcomeOf(o) : o \in Performed(k)} = {executed[r]}
    BY <2>2 DEF OutcomeOf
  <2>4. Effect!Record(k)
    <3>1. Effect!Record(k) <=>
            /\ PhaseOf(k) \in {"claimed", "unknown"} /\ Performed(k) # {}
            /\ [l \in Keys |-> PhaseOf(l)]' =
                 [[l \in Keys |-> PhaseOf(l)] EXCEPT ![k] = "known"]
            /\ [l \in Keys |-> IF saved[l] = None THEN {} ELSE {saved[l]}]' =
                 [[l \in Keys |-> IF saved[l] = None THEN {} ELSE {saved[l]}] EXCEPT
                    ![k] = {OutcomeOf(o) : o \in Performed(k)}]
            /\ UNCHANGED [l \in Keys |-> Performed(l)]
      BY DEF Effect!Record
    <3>2. PhaseOf(k) \in {"claimed", "unknown"} /\ Performed(k) # {}
      BY <1>1, <2>2 DEF PhaseOf
    <3>3. [l \in Keys |-> PhaseOf(l)]' = [[l \in Keys |-> PhaseOf(l)] EXCEPT ![k] = "known"]
      BY <1>1, <2>1 DEF PhaseOf
    <3>4. [l \in Keys |-> IF saved[l] = None THEN {} ELSE {saved[l]}]' =
            [[l \in Keys |-> IF saved[l] = None THEN {} ELSE {saved[l]}] EXCEPT
               ![k] = {OutcomeOf(o) : o \in Performed(k)}]
      BY <1>1, <2>1, <2>3
    <3> QED
      BY <1>2, <3>1, <3>2, <3>3, <3>4
  <2> QED
    BY <2>4 DEF Effect!Next
<1> QED
  BY <1>3, <1>4

LEMMA MapExecute ==
  ASSUME StoreInv, NEW r \in Requests, Execute(r)
  PROVE  [Effect!Next]_(Effect!vars)
<1> USE DEF store, Keyed, Key
<1>1. PICK v \in Results : executed' = [executed EXCEPT ![r] = v]
  BY DEF Execute
<1>2. /\ r \in sent /\ executed[r] = None /\ call[r] # None
      /\ UNCHANGED <<call, entry, saved, sent>>
      /\ executed \in [Requests -> Results \cup {None}]
      /\ sent \subseteq Requests
  BY DEF Execute, StoreInv, TypeOK, CallsKnown
<1>3. \A l \in Keys : KeyedSent(l)' = KeyedSent(l)
  BY <1>2 DEF KeyedSent
<1>4. \A l \in Keys : r \notin KeyedSent(l) => Performed(l)' = Performed(l)
  BY <1>1, <1>2, <1>3 DEF Performed, KeyedSent
<1>5. CASE ~Keyed(r)
  <2>1. \A l \in Keys : r \notin KeyedSent(l)
    BY <1>5 DEF KeyedSent
  <2> QED
    BY <1>2, <1>4, <2>1, SameView
<1>6. CASE Keyed(r)
  <2> PICK k \in Keys : k = Key(r)
    BY <1>2 DEF StoreInv, TypeOK, Calls
  <2>1. r \in KeyedSent(k) /\ \A l \in Keys : l # k => r \notin KeyedSent(l)
    BY <1>2, <1>6 DEF KeyedSent
  <2>2. Performed(k) = {} /\ r \in Claims(k) /\ \A q \in Claims(k) : q = r
    BY <1>2, <2>1, PerformedOnce DEF StoreInv, ClaimsUnique
  <2>3. Performed(k)' = {<<r, v>>}
    BY <1>1, <1>2, <1>3, <2>1, <2>2, PerformedOnce, NoneIsNothing DEF Performed
  <2>4. entry[k] # "absent" /\ entry[k] # "settled"
    BY <1>2, <2>2 DEF StoreInv, ClaimsRecorded, SettledFaithfully
  <2>5. PhaseOf(k) \in {"claimed", "unknown"}
    BY <2>4 DEF PhaseOf, StoreInv, TypeOK
  <2>6. Effect!Occur(k)
    <3>1. <<r, v>> \in Requests \X Results
      OBVIOUS
    <3>2. [l \in Keys |-> Performed(l)]' =
            [[l \in Keys |-> Performed(l)] EXCEPT ![k] = {<<r, v>>}]
      BY <1>4, <2>1, <2>3
    <3>3. UNCHANGED <<[l \in Keys |-> PhaseOf(l)],
                      [l \in Keys |-> IF saved[l] = None THEN {} ELSE {saved[l]}]>>
      BY <1>2 DEF PhaseOf
    <3> QED
      BY <2>2, <2>5, <3>1, <3>2, <3>3 DEF Effect!Occur
  <2> QED
    BY <2>6 DEF Effect!Next
<1> QED
  BY <1>5, <1>6

LEMMA MapNext ==
  ASSUME StoreInv, [Next]_vars
  PROVE  [Effect!Next]_(Effect!vars)
<1> USE DEF store, world, Keyed, Key
<1>1. ASSUME UNCHANGED <<call, entry, saved, sent, executed>>
      PROVE  [Effect!Next]_(Effect!vars)
  <2>1. \A k \in Keys : Performed(k)' = Performed(k)
    BY <1>1 DEF Performed, KeyedSent
  <2> QED
    BY <1>1, <2>1, SameView
<1>2. ASSUME NEW r \in Requests, Step(r) PROVE [Effect!Next]_(Effect!vars)
  <2>1. CASE Dispatch(r)
    <3>1. /\ executed[r] = None /\ UNCHANGED <<call, entry, saved, executed>>
          /\ sent' = sent \cup {r}
      BY <2>1 DEF Dispatch, StoreInv, TypeOK, CallsKnown
    <3>2. \A k \in Keys : Performed(k)' = Performed(k)
      BY <3>1 DEF Performed, KeyedSent
    <3> QED
      BY <3>1, <3>2, SameView
  <2> QED
    BY <1>1, <1>2, <2>1, MapReserve, MapRecord DEF Step, Authorize, Lookup, Evaluate,
       Preflight, Connect, LockReserve, Unlock, Returned, Failed, LockSettle, LockMark
<1>3. CASE Outside
  <2>1. ASSUME NEW r \in Requests, NEW k \in Keys, NEW o \in Ops, NEW p \in Procs,
               NEW over \in Excess, Start(r, k, o, p, over)
        PROVE  [Effect!Next]_(Effect!vars)
    <3>1. r \notin sent /\ UNCHANGED <<entry, saved, sent, executed>>
      BY <2>1 DEF Start, StoreInv, CallsKnown
    <3>2. \A q \in sent : call'[q] = call[q]
      BY <2>1, <3>1 DEF Start, StoreInv, TypeOK
    <3>3. \A l \in Keys : Performed(l)' = Performed(l)
      BY <3>1, <3>2 DEF Performed, KeyedSent
    <3> QED
      BY <3>1, <3>3, SameView
  <2> QED
    BY <1>1, <1>3, <2>1, MapExecute DEF Outside, Crash, ClearLock, SetToolPolicy, Decide
<1>4. CASE UNCHANGED vars
  BY <1>1, <1>4 DEF vars
<1> QED
  BY <1>2, <1>3, <1>4 DEF Next, Outside

(***************************************************************************)
(* callTool and its file store implement the at-most-once effect: every    *)
(* step of every process, of the remote server and of the operator is a    *)
(* step of EffectOnce or leaves its view unchanged.                        *)
(***************************************************************************)
THEOREM Refinement == Spec => ImplementsEffectOnce
  BY StoreInvariant, MapInit, MapNext, PTL DEF Spec, ImplementsEffectOnce, Effect!Spec

-----------------------------------------------------------------------------
\* What a caller was told, with what keeps it true afterwards.
Replied == {"closing", "done"}
AfterCall == {"RESULT", "RETAINED", "UNCERTAIN", "REMOTE_ERROR"}
Said(r) ==
  /\ reply[r].kind \notin AfterCall => r \notin sent
  /\ reply[r].kind \in {"RESULT", "RETAINED"} =>
       executed[r] # None /\ reply[r].result = executed[r]
  /\ reply[r].kind = "DEDUP" =>
       call[r] # None /\ \E s \in KeyedSent(Key(r)) : executed[s] # None /\ executed[s] = reply[r].result
  /\ reply[r].kind = "UNCERTAIN" => call[r] # None /\ entry[Key(r)] # "absent"

\* A gated request past its lookup found its key approved.
Admitted == {"preflight", "connect", "reserve", "reserving", "reserved", "dispatch"}
IsGated(r) == call[r] # None /\ call[r].class = "GATED" /\ (r \in sent \/ pc[r] \in Admitted)
ApprovedKey(k) == \E o \in RowsOf(k) : approval[o].status = "APPROVE"

ReplyInv ==
  \A r \in Requests : /\ pc[r] \in Replied => Said(r)
                      /\ IsGated(r) => ApprovedKey(Key(r))

\* No step takes back a call, an answer of the tool, a dispatch, an entry.
LEMMA Growing ==
  ASSUME StoreInv, [Next]_vars
  PROVE  /\ \A q \in Requests : pc[q] # "unsent" => call'[q] = call[q]
         /\ \A q \in Requests : executed[q] # None => executed'[q] = executed[q]
         /\ sent \subseteq sent' /\ \A q \in sent' : q \in sent \/ pc[q] = "dispatch"
         /\ \A k \in Keys : entry[k] # "absent" => entry'[k] # "absent"
<1> USE DEF store, world, bounds
<1> DEFINE Grown == /\ \A q \in Requests : pc[q] # "unsent" => call'[q] = call[q]
                    /\ \A q \in Requests : executed[q] # None => executed'[q] = executed[q]
                    /\ sent \subseteq sent' /\ \A q \in sent' : q \in sent \/ pc[q] = "dispatch"
                    /\ \A k \in Keys : entry[k] # "absent" => entry'[k] # "absent"
<1>1. TypeOK
  BY DEF StoreInv
<1>2. ASSUME UNCHANGED <<call, executed, sent, entry>> PROVE Grown
  BY <1>2
<1>3. ASSUME NEW r \in Requests, Step(r) PROVE Grown
  <2>1. CASE CommitReserve(r) \/ CommitSettle(r) \/ CommitMark(r)
    <3>1. UNCHANGED <<call, executed, sent>>
      BY <2>1 DEF CommitReserve, CommitSettle, CommitMark
    <3>2. \A k \in Keys : entry[k] # "absent" => entry'[k] # "absent"
      BY <1>1, <2>1 DEF CommitReserve, CommitSettle, CommitMark, TypeOK
    <3> QED
      BY <3>1, <3>2
  <2>2. CASE Dispatch(r)
    BY <2>2 DEF Dispatch
  <2> QED
    BY <1>2, <1>3, <2>1, <2>2 DEF Step, Authorize, Lookup, Evaluate, Preflight, Connect,
       LockReserve, Unlock, Returned, Failed, LockSettle, LockMark
<1>4. ASSUME NEW r \in Requests, NEW k \in Keys, NEW o \in Ops, NEW p \in Procs,
             NEW over \in Excess, Start(r, k, o, p, over)
      PROVE  Grown
  <2>1. UNCHANGED <<executed, sent, entry>> /\ pc[r] = "unsent"
    BY <1>4 DEF Start
  <2>2. \A q \in Requests : q # r => call'[q] = call[q]
    BY <1>1, <1>4 DEF Start, TypeOK
  <2> QED
    BY <2>1, <2>2
<1>5. ASSUME NEW r \in Requests, Execute(r) PROVE Grown
  <2>1. UNCHANGED <<call, sent, entry>>
    BY <1>5 DEF Execute
  <2>2. \A q \in Requests : executed[q] # None => executed'[q] = executed[q]
    BY <1>1, <1>5 DEF Execute, TypeOK
  <2> QED
    BY <2>1, <2>2
<1>6. CASE UNCHANGED vars
  BY <1>2, <1>6 DEF vars
<1> QED
  BY <1>2, <1>3, <1>4, <1>5, <1>6 DEF Next, Crash, ClearLock, SetToolPolicy, Decide

\* An approved row stays: createApproval never replaces one, a decision is final.
LEMMA ApprovedStays ==
  ASSUME StoreInv, [Next]_vars, NEW k \in Keys, ApprovedKey(k)
  PROVE  ApprovedKey(k)'
<1> USE DEF store, world, bounds
<1>1. PICK o \in Ops : approval[o] # None /\ approval[o].key = k /\ approval[o].status = "APPROVE"
  BY DEF ApprovedKey, RowsOf
<1>2. approval \in [Ops -> Rows \cup {None}]
  BY DEF StoreInv, TypeOK
<1>3. approval'[o] = approval[o]
  <2>1. ASSUME NEW r \in Requests, Evaluate(r) PROVE approval'[o] = approval[o]
    BY <1>1, <1>2, <2>1 DEF Evaluate, EnsureApproval
  <2>2. ASSUME NEW p \in Ops, NEW d \in Decisions, Decide(p, d) PROVE approval'[o] = approval[o]
    BY <1>1, <1>2, <2>2 DEF Decide
  <2> QED
    BY <2>1, <2>2 DEF Next, vars, Step, Start, Authorize, Lookup, Preflight, Connect, LockReserve,
       CommitReserve, Unlock, Dispatch, Returned, Failed, LockSettle, CommitSettle, LockMark,
       CommitMark, Execute, Crash, ClearLock, SetToolPolicy
<1> QED
  BY <1>1, <1>3 DEF ApprovedKey, RowsOf

\* What was said stays true, whatever others do.
LEMMA SaidStays ==
  ASSUME StoreInv, [Next]_vars, NEW q \in Requests, pc[q] \in Replied, Said(q), reply'[q] = reply[q]
  PROVE  Said(q)'
<1> USE DEF Replied, Key, Keyed
<1>1. /\ q \notin sent => q \notin sent'
      /\ executed[q] # None => executed'[q] = executed[q]
      /\ call'[q] = call[q]
  BY Growing
<1>2. call[q] # None => Key(q) \in Keys
  BY DEF StoreInv, TypeOK, Calls
<1>3. call[q] # None /\ entry[Key(q)] # "absent" => entry'[Key(q)] # "absent"
  BY <1>2, Growing
<1>4. ASSUME NEW k \in Keys, NEW s \in KeyedSent(k), executed[s] # None
      PROVE  s \in KeyedSent(k)' /\ executed'[s] = executed[s]
  <2>1. s \in sent /\ s \in Requests /\ pc[s] # "unsent"
    BY DEF KeyedSent, StoreInv, TypeOK, CallsKnown
  <2> QED
    BY <1>4, <2>1, Growing DEF KeyedSent
<1>5. ASSUME reply[q].kind = "DEDUP"
      PROVE  call'[q] # None /\ \E s \in KeyedSent(Key(q))' : executed'[s] # None /\ executed'[s] = reply'[q].result
  <2>1. PICK s \in KeyedSent(Key(q)) : executed[s] # None /\ executed[s] = reply[q].result
    BY <1>5 DEF Said
  <2>2. call[q] # None
    BY <1>5 DEF Said
  <2> QED
    BY <1>1, <1>2, <1>4, <2>1, <2>2
<1> QED
  BY <1>1, <1>3, <1>5 DEF Said

\* Before the dispatch a request is told that nothing was sent.
LEMMA SaidEarly ==
  ASSUME StoreInv, NEW r \in Requests, UNCHANGED sent, pc[r] \notin Called \cup {"closing", "done", "lost"},
         NEW kind \in {"DENIED", "UNAVAILABLE", "APPROVAL_REQUIRED", "DISABLED"},
         reply'[r] = [kind |-> kind, result |-> None]
  PROVE  Said(r)'
<1>1. r \notin sent
  BY DEF StoreInv, CallsKnown
<1> QED
  BY <1>1 DEF Said, AfterCall

LEMMA SaidByStep ==
  ASSUME StoreInv, NEW r \in Requests, Step(r), pc[r] \notin Replied, pc'[r] \in Replied
  PROVE  Said(r)'
<1> USE DEF store, world, bounds, Replied, Key, Keyed
<1>1. /\ pc \in [Requests -> PCs] /\ reply \in [Requests -> Replies \cup {None}]
      /\ entry \in [Keys -> {"absent", "reserved", "uncertain", "settled"}]
  BY DEF StoreInv, TypeOK
<1>2. pc[r] \notin Idle => call[r] # None /\ call[r].key \in Keys
  BY DEF StoreInv, TypeOK, CallsKnown, Calls
<1>3. ASSUME NEW kind \in {"DENIED", "UNAVAILABLE", "APPROVAL_REQUIRED"}, Finish(r, kind),
             UNCHANGED sent, pc[r] \notin Called \cup {"closing", "done", "lost"}
      PROVE  Said(r)'
  <2>1. reply' = [reply EXCEPT ![r] = [kind |-> kind, result |-> None]]
    BY <1>3 DEF Finish, Answer
  <2>2. reply'[r] = [kind |-> kind, result |-> None]
    BY <1>1, <2>1
  <2> QED
    BY <1>3, <2>2, SaidEarly
<1>4. CASE Authorize(r)
  BY <1>1, <1>3, <1>4 DEF Authorize, Goto
<1>5. CASE Lookup(r)
  <2>1. UNCHANGED sent /\ pc[r] = "lookup"
    BY <1>5 DEF Lookup
  <2>2. \/ \E step \in {"evaluate", "preflight"} : pc' = [pc EXCEPT ![r] = step]
        \/ \E kind \in {"DENIED", "UNAVAILABLE", "APPROVAL_REQUIRED"} : Finish(r, kind)
    BY <1>5 DEF Lookup, Goto
  <2> QED
    BY <1>1, <1>3, <2>1, <2>2
<1>6. CASE Evaluate(r)
  <2>1. UNCHANGED sent /\ pc[r] = "evaluate"
    BY <1>6 DEF Evaluate
  <2>2. \/ pc' = [pc EXCEPT ![r] = "preflight"]
        \/ \E kind \in {"DENIED", "UNAVAILABLE", "APPROVAL_REQUIRED"} : Finish(r, kind)
    BY <1>6 DEF Evaluate, Goto
  <2> QED
    BY <1>1, <1>3, <2>1, <2>2
<1>7. ASSUME Answer(r, "UNCERTAIN", None), call[r] # None, UNCHANGED call,
             entry'[call[r].key] # "absent"
      PROVE  Said(r)'
  <2>1. reply'[r] = [kind |-> "UNCERTAIN", result |-> None]
    BY <1>1, <1>7 DEF Answer
  <2> QED
    BY <1>7, <2>1 DEF Said, AfterCall
<1>8. CASE Preflight(r)
  <2>1. Finish(r, "UNCERTAIN") /\ entry[call[r].key] \in {"reserved", "uncertain"} /\ UNCHANGED <<call, entry>>
    BY <1>1, <1>8 DEF Preflight, Goto
  <2> QED
    BY <1>2, <1>7, <1>8, <2>1 DEF Finish, Preflight
<1>9. CASE Connect(r)
  BY <1>1, <1>3, <1>9 DEF Connect, Goto
<1>10. CASE LockReserve(r)
  BY <1>1, <1>3, <1>10 DEF LockReserve, Take, Goto
<1>11. CASE CommitReserve(r)
  <2>1. pc[r] = "reserving" /\ call[r] # None /\ call[r].key \in Keys /\ UNCHANGED <<call, sent, executed>>
    BY <1>2, <1>11 DEF CommitReserve
  <2>2. \/ Answer(r, "DEDUP", saved[call[r].key]) /\ entry[call[r].key] = "settled"
        \/ Answer(r, "UNCERTAIN", None) /\ entry[call[r].key] \in {"reserved", "uncertain"} /\ UNCHANGED entry
    BY <1>1, <1>11 DEF CommitReserve, Goto
  <2>3. CASE Answer(r, "DEDUP", saved[call[r].key]) /\ entry[call[r].key] = "settled"
    <3>1. reply'[r] = [kind |-> "DEDUP", result |-> saved[call[r].key]]
      BY <1>1, <2>3 DEF Answer
    <3>2. PICK s \in Claims(call[r].key) : executed[s] = saved[call[r].key] /\ saved[call[r].key] # None
      BY <2>1, <2>3 DEF StoreInv, SettledFaithfully
    <3>3. s \in KeyedSent(call[r].key)
      BY <2>1, <3>2 DEF Claims, KeyedSent, StoreInv, CallsKnown
    <3>4. s \in KeyedSent(call[r].key)'
      BY <2>1, <3>3 DEF KeyedSent
    <3>5. r \notin sent
      BY <2>1 DEF StoreInv, CallsKnown
    <3> QED
      BY <2>1, <3>1, <3>2, <3>4, <3>5 DEF Said
  <2> QED
    BY <1>7, <2>1, <2>2, <2>3
<1>12. CASE Returned(r)
  <2>1. Answer(r, "RESULT", executed[r]) /\ executed[r] # None /\ UNCHANGED executed
    BY <1>1, <1>12 DEF Returned, Goto
  <2>2. reply'[r] = [kind |-> "RESULT", result |-> executed[r]]
    BY <1>1, <2>1 DEF Answer
  <2> QED
    BY <2>1, <2>2 DEF Said, AfterCall
<1>13. CASE Failed(r)
  <2>1. Finish(r, "REMOTE_ERROR")
    BY <1>1, <1>13 DEF Failed, Goto
  <2>2. reply'[r] = [kind |-> "REMOTE_ERROR", result |-> None]
    BY <1>1, <2>1 DEF Finish, Answer
  <2> QED
    BY <2>2 DEF Said, AfterCall
<1>14. CASE LockSettle(r) \/ CommitSettle(r)
  <2>1. \E kind \in {"RESULT", "RETAINED"} : Answer(r, kind, executed[r]) /\ UNCHANGED executed
    BY <1>1, <1>14 DEF LockSettle, CommitSettle, Take, Goto
  <2>2. executed[r] # None
    BY <1>14 DEF LockSettle, CommitSettle, StoreInv, SettledFaithfully
  <2>3. \E kind \in {"RESULT", "RETAINED"} : reply'[r] = [kind |-> kind, result |-> executed[r]]
    BY <1>1, <2>1 DEF Answer
  <2> QED
    BY <2>1, <2>2, <2>3 DEF Said, AfterCall
<1>15. CASE LockMark(r) \/ CommitMark(r)
  <2>1. Answer(r, "UNCERTAIN", None) /\ pc[r] \in {"mark", "marking"} /\ UNCHANGED call
    BY <1>1, <1>15 DEF LockMark, CommitMark, Take, Goto, Finish
  <2>2. call[r] # None /\ call[r].key \in Keys /\ entry[call[r].key] = "reserved"
    BY <1>2, <2>1 DEF StoreInv, KeyedSteps, ClaimantReserved
  <2>3. entry'[call[r].key] # "absent"
    BY <1>1, <1>15, <2>2 DEF LockMark, CommitMark
  <2> QED
    BY <1>7, <2>1, <2>2, <2>3
<1>16. CASE Unlock(r) \/ Dispatch(r)
  BY <1>1, <1>16 DEF Unlock, Dispatch, Goto
<1> QED
  BY <1>4, <1>5, <1>6, <1>8, <1>9, <1>10, <1>11, <1>12, <1>13, <1>14, <1>15, <1>16 DEF Step

\* A step of one request moves no other.
LEMMA StepMoves ==
  ASSUME NEW r \in Requests, Step(r), NEW q \in Requests, q # r,
         pc \in [Requests -> PCs], reply \in [Requests -> Replies \cup {None}]
  PROVE  pc'[q] = pc[q] /\ reply'[q] = reply[q] /\ (q \in sent' <=> q \in sent)
<1> USE DEF store, world, bounds
<1>1. CASE \/ Authorize(r) \/ Evaluate(r) \/ Preflight(r) \/ Connect(r) \/ LockReserve(r)
           \/ CommitReserve(r) \/ Unlock(r) \/ Dispatch(r)
  BY <1>1 DEF Authorize, Evaluate, Preflight, Connect, LockReserve, CommitReserve, Unlock, Dispatch,
     Goto, Finish, Answer, Take
<1>2. CASE \/ Returned(r) \/ Failed(r) \/ LockSettle(r) \/ CommitSettle(r) \/ LockMark(r) \/ CommitMark(r)
  BY <1>2 DEF Returned, Failed, LockSettle, CommitSettle, LockMark, CommitMark, Goto, Finish, Answer, Take
<1>3. CASE Lookup(r)
  <2>1. /\ UNCHANGED sent
        /\ \/ \E step \in {"evaluate", "preflight"} : Goto(r, step) /\ UNCHANGED reply
           \/ \E kind \in {"DENIED", "UNAVAILABLE", "APPROVAL_REQUIRED"} : Finish(r, kind)
    BY <1>3 DEF Lookup
  <2> QED
    BY <2>1 DEF Goto, Finish, Answer
<1> QED
  BY <1>1, <1>2, <1>3 DEF Step

\* Only a lookup that finds an approved row lets a gated request past the gate.
LEMMA GateByStep ==
  ASSUME StoreInv, NEW r \in Requests, Step(r), IsGated(r)', ~IsGated(r)
  PROVE  ApprovedKey(Key(r))'
<1> USE DEF store, world, bounds, Key, Keyed
<1>1. pc \in [Requests -> PCs] /\ UNCHANGED call
  BY DEF StoreInv, TypeOK, Step, Authorize, Lookup, Evaluate, Preflight, Connect, LockReserve,
     CommitReserve, Unlock, Dispatch, Returned, Failed, LockSettle, CommitSettle, LockMark, CommitMark
<1>2. call[r] # None /\ call[r].class = "GATED" /\ r \notin sent /\ pc[r] \notin Admitted
  BY <1>1 DEF IsGated
<1>3. r \in sent' \/ pc'[r] \in Admitted
  BY <1>1 DEF IsGated
<1>4. CASE Lookup(r)
  <2>1. pc'[r] # "evaluate" => \E o \in Ops : IsLatest(o, Key(r)) /\ approval[o].status = "APPROVE"
    <3>1. /\ UNCHANGED sent
          /\ \/ Goto(r, "evaluate") \/ Finish(r, "UNAVAILABLE")
             \/ \E o \in Ops :
                  /\ IsLatest(o, Key(r))
                  /\ \/ approval[o].status = "APPROVE"
                     \/ Finish(r, "APPROVAL_REQUIRED") \/ Finish(r, "DENIED")
      BY <1>4, Zenon DEF Lookup
    <3>2. /\ ~Finish(r, "UNAVAILABLE") /\ ~Finish(r, "APPROVAL_REQUIRED") /\ ~Finish(r, "DENIED")
          /\ ~Goto(r, "evaluate")
      BY <1>1, <1>2, <1>3, <3>1 DEF Finish, Goto, Admitted
    <3> QED
      BY <3>1, <3>2
  <2>2. pc'[r] # "evaluate"
    BY <1>2, <1>3, <1>4 DEF Lookup, Admitted
  <2>3. UNCHANGED approval
    BY <1>4 DEF Lookup
  <2> QED
    BY <1>1, <2>1, <2>2, <2>3 DEF IsLatest, ApprovedKey, RowsOf
<1>5. CASE Evaluate(r)
  BY <1>1, <1>2, <1>3, <1>5 DEF Evaluate, Finish, Goto, Admitted
<1>6. CASE Authorize(r)
  BY <1>1, <1>2, <1>3, <1>6 DEF Authorize, Finish, Goto, Admitted
<1>7. CASE Returned(r) \/ Failed(r) \/ LockSettle(r) \/ CommitSettle(r) \/ LockMark(r) \/ CommitMark(r)
  <2>1. pc[r] \in Called
    BY <1>7 DEF Returned, Failed, LockSettle, CommitSettle, LockMark, CommitMark
  <2> QED
    BY <1>2, <2>1 DEF StoreInv, CallsKnown
<1>8. CASE Unlock(r)
  BY <1>1, <1>2, <1>3, <1>8 DEF Unlock, Goto, Admitted
<1>9. CASE Preflight(r) \/ Connect(r) \/ LockReserve(r) \/ CommitReserve(r) \/ Dispatch(r)
  BY <1>2, <1>9 DEF Preflight, Connect, LockReserve, CommitReserve, Dispatch, Admitted
<1> QED
  BY <1>4, <1>5, <1>6, <1>7, <1>8, <1>9 DEF Step

LEMMA ReplyInit == Init => ReplyInv
  BY DEF Init, ReplyInv, Replied, IsGated

LEMMA ReplyNext == StoreInv /\ ReplyInv /\ [Next]_vars => ReplyInv'
<1> SUFFICES ASSUME StoreInv, ReplyInv, [Next]_vars, NEW q \in Requests
             PROVE  (pc[q] \in Replied => Said(q))' /\ (IsGated(q) => ApprovedKey(Key(q)))'
  BY DEF ReplyInv
<1> USE DEF store, world, bounds
<1>1. /\ pc \in [Requests -> PCs] /\ reply \in [Requests -> Replies \cup {None}]
      /\ call \in [Requests -> Calls \cup {None}] /\ sent \subseteq Requests
      /\ q \in sent => pc[q] # "unsent"
  BY DEF StoreInv, TypeOK, CallsKnown
<1>2. ASSUME pc'[q] = pc[q], reply'[q] = reply[q]
      PROVE  pc'[q] \in Replied => Said(q)'
  BY <1>2, SaidStays DEF ReplyInv
<1>3. ASSUME UNCHANGED sent, pc'[q] = pc[q] \/ pc'[q] \notin Admitted
      PROVE  IsGated(q)' => ApprovedKey(Key(q))'
  <2> SUFFICES ASSUME IsGated(q)' PROVE ApprovedKey(Key(q))'
    OBVIOUS
  <2>1. pc[q] # "unsent"
    BY <1>1, <1>3 DEF IsGated, Admitted
  <2>2. call'[q] = call[q]
    BY <2>1, Growing
  <2>3. IsGated(q)
    BY <1>3, <2>2 DEF IsGated
  <2>4. Key(q) \in Keys
    BY <1>1, <2>3 DEF IsGated, Key, Calls
  <2>5. ApprovedKey(Key(q)) /\ Key(q)' = Key(q)
    BY <2>2, <2>3 DEF ReplyInv, Key
  <2> QED
    BY <2>4, <2>5, ApprovedStays
<1>4. ASSUME NEW r \in Requests, Step(r)
      PROVE  (pc[q] \in Replied => Said(q))' /\ (IsGated(q) => ApprovedKey(Key(q)))'
  <2>1. UNCHANGED call
    BY <1>4 DEF Step, Authorize, Lookup, Evaluate, Preflight, Connect, LockReserve,
       CommitReserve, Unlock, Dispatch, Returned, Failed, LockSettle, CommitSettle, LockMark, CommitMark
  <2>2. CASE q # r
    <3>1. pc'[q] = pc[q]
      BY <1>1, <1>4, <2>2, StepMoves
    <3>2. reply'[q] = reply[q]
      BY <1>1, <1>4, <2>2, StepMoves
    <3>3. q \in sent' <=> q \in sent
      BY <1>1, <1>4, <2>2, StepMoves
    <3>4. IsGated(q)' => IsGated(q)
      BY <2>1, <3>1, <3>3 DEF IsGated
    <3>5. IsGated(q)' => Key(q) \in Keys /\ Key(q)' = Key(q)
      BY <1>1, <2>1, <3>4 DEF IsGated, Key, Calls
    <3> QED
      BY <1>2, <3>1, <3>2, <3>4, <3>5, ApprovedStays DEF ReplyInv
  <2>3. CASE q = r
    <3>1. pc[q] \in Replied /\ pc'[q] \in Replied => Said(q)'
      <4> SUFFICES ASSUME pc[q] \in Replied, pc'[q] \in Replied PROVE Said(q)'
        OBVIOUS
      <4>1. Unlock(r)
        BY <1>4, <2>3 DEF Replied, Step, Authorize, Lookup, Evaluate, Preflight, Connect, LockReserve,
           CommitReserve, Dispatch, Returned, Failed, LockSettle, CommitSettle, LockMark, CommitMark
      <4>2. reply'[q] = reply[q]
        BY <4>1 DEF Unlock
      <4> QED
        BY <4>2, SaidStays DEF ReplyInv
    <3>2. pc'[q] \in Replied => Said(q)'
      BY <1>4, <2>3, <3>1, SaidByStep
    <3>3. IsGated(q)' /\ IsGated(q) => ApprovedKey(Key(q))'
      <4>1. IsGated(q) => Key(q) \in Keys /\ Key(q)' = Key(q)
        BY <1>1, <2>1 DEF IsGated, Key, Calls
      <4> QED
        BY <4>1, ApprovedStays DEF ReplyInv
    <3> QED
      BY <1>4, <2>3, <3>2, <3>3, GateByStep
  <2> QED
    BY <2>2, <2>3
<1>5. ASSUME NEW r \in Requests, NEW k \in Keys, NEW o \in Ops, NEW p \in Procs,
             NEW over \in Excess, Start(r, k, o, p, over)
      PROVE  (pc[q] \in Replied => Said(q))' /\ (IsGated(q) => ApprovedKey(Key(q)))'
  <2>1. UNCHANGED sent /\ pc[r] = "unsent"
    BY <1>5 DEF Start
  <2>2. q # r => pc'[q] = pc[q] /\ reply'[q] = reply[q]
    BY <1>1, <1>5 DEF Start, Finish, Goto, Answer
  <2>3. q = r => pc'[q] \in {"done", "authorize"}
    BY <1>1, <1>5 DEF Start, Finish, Goto
  <2>4. ASSUME q = r, pc'[q] \in Replied PROVE Said(q)'
    <3>1. Finish(r, "DISABLED")
      BY <1>1, <1>5, <2>4 DEF Start, Goto, Replied
    <3>2. reply'[r] = [kind |-> "DISABLED", result |-> None]
      BY <1>1, <3>1 DEF Finish, Answer
    <3> QED
      BY <2>1, <2>4, <3>2, SaidEarly
  <2> QED
    BY <1>2, <1>3, <2>1, <2>2, <2>3, <2>4 DEF Admitted
<1>6. ASSUME NEW r \in Requests, Execute(r)
      PROVE  (pc[q] \in Replied => Said(q))' /\ (IsGated(q) => ApprovedKey(Key(q)))'
  BY <1>2, <1>3, <1>6 DEF Execute
<1>7. ASSUME NEW p \in Procs, Crash(p)
      PROVE  (pc[q] \in Replied => Said(q))' /\ (IsGated(q) => ApprovedKey(Key(q)))'
  <2>1. UNCHANGED sent
    BY <1>7 DEF Crash
  <2>2. pc'[q] = "lost" \/ (pc'[q] = pc[q] /\ reply'[q] = reply[q])
    BY <1>1, <1>7 DEF Crash
  <2> QED
    BY <1>2, <1>3, <2>1, <2>2 DEF Replied, Admitted
<1>8. ASSUME UNCHANGED <<pc, reply, sent>>
      PROVE  (pc[q] \in Replied => Said(q))' /\ (IsGated(q) => ApprovedKey(Key(q)))'
  BY <1>2, <1>3, <1>8
<1> QED
  BY <1>4, <1>5, <1>6, <1>7, <1>8 DEF Next, vars, ClearLock, SetToolPolicy, Decide

(***************************************************************************)
(* Callers are told the truth by callTool: what is said not to have run    *)
(* did not, a result is the tool's, and a deduplicated one that of the     *)
(* other call of the key.                                                  *)
(***************************************************************************)
THEOREM Honest == Spec => []HonestReply
<1>1. Spec => []ReplyInv
  BY StoreInvariant, ReplyInit, ReplyNext, PTL DEF Spec
<1>2. StoreInv /\ ReplyInv => HonestReply
  <2> SUFFICES ASSUME StoreInv, ReplyInv, NEW r \in Requests, pc[r] = "done"
               PROVE  /\ reply[r].kind \notin AfterCall => r \notin sent
                      /\ reply[r].kind \in {"RESULT", "RETAINED"} => reply[r].result = executed[r]
                      /\ reply[r].kind = "DEDUP" =>
                           \E s \in KeyedSent(Key(r)) : s # r /\ executed[s] = reply[r].result
                      /\ reply[r].kind = "UNCERTAIN" => entry[Key(r)] # "absent"
    BY DEF HonestReply, AfterCall
  <2>1. Said(r)
    BY DEF ReplyInv, Replied
  <2> QED
    BY <2>1 DEF Said, AfterCall, KeyedSent
<1> QED
  BY <1>1, <1>2, StoreInvariant, PTL

\* A gated tool is called only under an approved row of the call's own key.
THEOREM Gated == Spec => []GatedDispatchApproved
<1>1. Spec => []ReplyInv
  BY StoreInvariant, ReplyInit, ReplyNext, PTL DEF Spec
<1>2. StoreInv /\ ReplyInv => GatedDispatchApproved
  BY DEF StoreInv, TypeOK, CallsKnown, ReplyInv, IsGated, ApprovedKey, GatedDispatchApproved
<1> QED
  BY <1>1, <1>2, StoreInvariant, PTL

=============================================================================
