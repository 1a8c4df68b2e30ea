------------------------- MODULE EcxExecutionProofs -------------------------
(***************************************************************************)
(* For every set of requests, packets and Hub processes and any number of  *)
(* crashes: a packet is dispatched to Connect at most once, its receipt    *)
(* tells the truth about the provider, and the receipts implement          *)
(* EffectOnce.                                                             *)
(***************************************************************************)
EXTENDS EcxExecution, TLAPS

USE DEF Idle, SyncSteps

\* Types without the last conjunct of TypeOK, which is about scheduling.
Types ==
  /\ receipt \in [Packets -> Receipts]
  /\ history \in [Packets -> [Stages -> Drafts \cup {None}]]
  /\ call \in [Requests -> Calls \cup {None}]
  /\ pc \in [Requests -> PCs]
  /\ reply \in [Requests -> Replies]
  /\ seen \in [Requests -> Receipts]
  /\ sent \subseteq Requests /\ rejected \subseteq Requests
  /\ executed \in [Requests -> Results \cup {None}]
  /\ crashes \in Nat

OneStretch ==
  \A q, r \in Requests : pc[q] \in SyncSteps /\ pc[r] \in SyncSteps /\ Proc(q) = Proc(r) => q = r

LEMMA TypeParts == TypeOK <=> Types /\ OneStretch
  BY DEF TypeOK, Types, OneStretch

LEMMA InitInv == Init => ReceiptInv
<1> SUFFICES ASSUME Init PROVE ReceiptInv
  OBVIOUS
<1> USE DEF Init, NoReceipt
<1>1. TypeOK
  BY MaxCrashesIsNatural DEF TypeOK, Receipts, States, Errors, Stages, PCs, Replies
<1>2. \A p \in Packets : Claims(p) = {}
  BY DEF Claims
<1> QED
  BY <1>1, <1>2 DEF ReceiptInv, CallsKnown, SeenOutcome, StartedRecorded, ClaimsUnique,
     ClaimsRecorded, ClaimantPending, ResultFaithful, HistoryBacked, Stages

-----------------------------------------------------------------------------
\* Receipts, events and answers stay in their types.
LEMMA FinishType ==
  ASSUME Types, NEW r \in Requests, NEW answer \in Replies, Finish(r, answer)
  PROVE  /\ pc' = [pc EXCEPT ![r] = "done"]
         /\ pc' \in [Requests -> PCs]
         /\ reply' \in [Requests -> Replies]
  BY DEF Finish, Goto, Types, PCs

LEMMA AppendType ==
  ASSUME Types, NEW p \in Packets, NEW stage \in Stages, NEW draft \in Drafts,
         Append(p, stage, draft)
  PROVE  history' \in [Packets -> [Stages -> Drafts \cup {None}]]
  BY DEF Append, Types

LEMMA PacketType ==
  ASSUME Types
  PROVE  \A q \in Requests : call[q] # None => call[q] \in Calls /\ Packet(q) \in Packets
  BY DEF Types, Calls, Packet

LEMMA RowType ==
  /\ \A row \in Receipts :
       /\ Draft(row) \in Drafts /\ StageOf(row) \in Stages
       /\ row.state \in States /\ row.error \in Errors
       /\ row.result \in Results \cup {None} /\ row.fingerprint \in Fingerprints \cup {None}
  /\ \A f \in Fingerprints \cup {None}, s \in States, e \in Errors, v \in Results \cup {None} :
       Row(f, s, e, v) \in Receipts
  BY DEF Receipts, Draft, Drafts, StageOf, Stages, Row

LEMMA StepTypes ==
  ASSUME Types, CallsKnown, SeenOutcome, NEW r \in Requests, Step(r)
  PROVE  Types'
<1> USE DEF durable, world
<1>1. call[r] \in Calls /\ Packet(r) \in Packets
  BY DEF Step, Hydrated, AppendStarted, Claim, Dispatch, Succeed, Fail, AppendOutcome,
     Types, CallsKnown, Calls, Packet
<1>2. receipt[Packet(r)] \in Receipts /\ seen[r] \in Receipts
  BY <1>1 DEF Types
<1>3. ASSUME NEW f \in Fingerprints, Hydrated(r, f) PROVE Types'
  <2>1. pc' \in [Requests -> PCs] /\ reply' \in [Requests -> Replies]
    BY <1>3, FinishType DEF Hydrated, Goto, Types, PCs, Replies
  <2>2. receipt' \in [Packets -> Receipts]
    <3>1. Row(f, "STARTED", "none", None) \in Receipts
      BY RowType DEF States, Errors
    <3> QED
      BY <1>1, <1>3, <3>1 DEF Hydrated, Types
  <2>3. seen' \in [Requests -> Receipts]
    BY <1>2, <1>3 DEF Hydrated, Types
  <2> QED
    BY <1>3, <2>1, <2>2, <2>3 DEF Hydrated, Types
<1>4. CASE AppendStarted(r)
  <2>1. pc' \in [Requests -> PCs] /\ reply' \in [Requests -> Replies]
    BY <1>4, FinishType DEF AppendStarted, Goto, Types, PCs, Replies
  <2>2. StartedDraft \in Drafts /\ "started" \in Stages
    BY DEF StartedDraft, Drafts, Errors, Stages
  <2>3. history' \in [Packets -> [Stages -> Drafts \cup {None}]]
    BY <1>1, <1>4, <2>2, AppendType DEF AppendStarted, Types
  <2> QED
    BY <1>4, <2>1, <2>3 DEF AppendStarted, Types
<1>5. CASE Claim(r)
  <2>1. pc' \in [Requests -> PCs]
    BY <1>5 DEF Claim, Goto, Types, PCs
  <2>2. receipt' \in [Packets -> Receipts]
    <3>1. Row(receipt[Packet(r)].fingerprint, "UNCERTAIN", "pending",
              receipt[Packet(r)].result) \in Receipts
      BY <1>2, RowType DEF States, Errors
    <3> QED
      BY <1>1, <1>5, <3>1 DEF Claim, Types
  <2>3. seen' \in [Requests -> Receipts]
    BY <1>2, <1>5 DEF Claim, Types
  <2> QED
    BY <1>5, <2>1, <2>2, <2>3 DEF Claim, Types
<1>6. CASE Dispatch(r)
  BY <1>6 DEF Dispatch, Goto, Types, PCs
<1>7. CASE Succeed(r)
  <2>1. Row(receipt[Packet(r)].fingerprint, "SUCCEEDED", "none", executed[r]) \in Receipts
    BY <1>2, RowType DEF Types, States, Errors
  <2> QED
    BY <1>1, <1>7, <2>1 DEF Succeed, Goto, Types, PCs
<1>8. CASE Fail(r)
  <2>1. \E row \in Receipts : /\ receipt' = [receipt EXCEPT ![Packet(r)] = row]
                              /\ seen' = [seen EXCEPT ![r] = row]
    BY <1>2, <1>8, RowType DEF Fail, Settle, States, Errors
  <2> QED
    BY <1>1, <1>8, <2>1 DEF Fail, Goto, Types, PCs
<1>9. CASE AppendOutcome(r)
  <2>0. seen[r].state \in {"UNCERTAIN", "SUCCEEDED", "FAILED"}
    BY <1>9 DEF AppendOutcome, SeenOutcome
  <2>1. history' \in [Packets -> [Stages -> Drafts \cup {None}]]
    BY <1>1, <1>2, <1>9, RowType, AppendType DEF AppendOutcome, Types
  <2>2. pc' \in [Requests -> PCs]
    BY <1>9 DEF AppendOutcome, Finish, Goto, Types, PCs
  <2>3. reply' \in [Requests -> Replies]
    BY <1>9, <2>0 DEF AppendOutcome, Finish, Types, Replies
  <2> QED
    BY <1>9, <2>1, <2>2, <2>3 DEF AppendOutcome, Types
<1> QED
  BY <1>3, <1>4, <1>5, <1>6, <1>7, <1>8, <1>9 DEF Step

LEMMA StepStretch ==
  ASSUME Types, OneStretch, NEW r \in Requests, Step(r)
  PROVE  OneStretch'
<1>1. pc[r] \in SyncSteps \/ ProcFree(Proc(r))
  BY DEF Step, Hydrated, AppendStarted, Claim, Dispatch, Succeed, Fail, AppendOutcome, Runs
<1>2. call' = call /\ \E step \in PCs : pc' = [pc EXCEPT ![r] = step]
  BY DEF Step, Hydrated, AppendStarted, Claim, Dispatch, Succeed, Fail, AppendOutcome,
     Goto, Finish, PCs
<1> QED
  BY <1>1, <1>2 DEF OneStretch, ProcFree, Proc, Types

-----------------------------------------------------------------------------
\* The part of the invariant that is not about types.
Core ==
  /\ CallsKnown /\ SeenOutcome /\ StartedRecorded
  /\ ClaimsUnique /\ ClaimsRecorded /\ ClaimantPending /\ ResultFaithful
  /\ HistoryBacked

LEMMA InvParts == ReceiptInv <=> Types /\ OneStretch /\ Core
  BY TypeParts DEF ReceiptInv, Core

\* Steps that neither write a receipt or an event nor acquire a claim.
LEMMA MovesKeepCore ==
  ASSUME Types, Types', Core, UNCHANGED <<durable, call, world>>,
         \A q \in Requests : pc'[q] # pc[q] \/ seen'[q] # seen[q] =>
           /\ pc'[q] \notin Idle => call[q] # None
           /\ q \in sent => pc'[q] \in {"inflight", "outcome", "done", "lost"}
           /\ pc'[q] \notin {"begun", "started", "claimed", "inflight", "retried", "outcome"}
           /\ pc'[q] = "retry" =>
                /\ seen'[q] = receipt[Packet(q)]
                /\ receipt[Packet(q)].state \in {"UNCERTAIN", "SUCCEEDED", "FAILED"}
  PROVE  Core'
<1> USE DEF durable, world, Packet
<1>1. \A p \in Packets : /\ Claims(p)' \subseteq Claims(p) /\ Claims(p) \subseteq Requests
                         /\ \A q \in Claims(p) : q \in sent => q \in Claims(p)'
  BY DEF Claims, Types
<1>2. CallsKnown'
  BY DEF Core, CallsKnown
<1>3. SeenOutcome'
  BY DEF Core, SeenOutcome
<1>4. StartedRecorded'
  BY DEF Core, StartedRecorded
<1>5. ClaimsUnique' /\ ClaimsRecorded'
  BY <1>1 DEF Core, ClaimsUnique, ClaimsRecorded
<1>6. ClaimantPending'
  BY DEF Core, ClaimantPending
<1>7. ResultFaithful'
  BY <1>1 DEF Core, CallsKnown, ResultFaithful
<1>8. HistoryBacked'
  BY DEF Core, HistoryBacked
<1> QED
  BY <1>2, <1>3, <1>4, <1>5, <1>6, <1>7, <1>8 DEF Core

LEMMA HydratedKeepsCore ==
  ASSUME ReceiptInv, Types', NEW r \in Requests, NEW f \in Fingerprints, Hydrated(r, f)
  PROVE  Core'
<1> USE DEF durable, world, Packet
<1>1. Types /\ Core /\ pc[r] = "hydrate" /\ call[r] # None /\ r \notin sent
  BY InvParts DEF Hydrated, Core, CallsKnown
<1> PICK p \in Packets : p = Packet(r)
  BY <1>1 DEF Types, Calls
<1>2. receipt[p].state \in States
  BY <1>1, RowType DEF Types
<1>3. ASSUME UNCHANGED <<durable, call, world>>,
             \/ pc' = [pc EXCEPT ![r] = "done"] /\ UNCHANGED seen
             \/ /\ pc' = [pc EXCEPT ![r] = "retry"]
                /\ seen' = [seen EXCEPT ![r] = receipt[p]]
                /\ receipt[p].state \notin {"absent", "STARTED"}
      PROVE  Core'
  BY <1>1, <1>2, <1>3, MovesKeepCore DEF Types, States
<1>4. ASSUME pc' = [pc EXCEPT ![r] = "begun"],
             \/ /\ receipt[p].state = "absent" /\ UNCHANGED seen
                /\ receipt' = [receipt EXCEPT ![p] = Row(f, "STARTED", "none", None)]
             \/ /\ receipt[p].state = "STARTED" /\ UNCHANGED receipt
                /\ seen' = [seen EXCEPT ![r] = receipt[p]]
      PROVE  Core'
  <2>1. /\ UNCHANGED <<history, call, world>> /\ pc'[r] = "begun"
        /\ \A q \in Requests : q # r => seen'[q] = seen[q] /\ pc'[q] = pc[q]
    BY <1>1, <1>4 DEF Hydrated, Types
  <2>2. \A l \in Packets : \/ receipt'[l] = receipt[l]
                          \/ /\ receipt[l].state = "absent" /\ receipt'[l].state = "STARTED"
                             /\ receipt'[l].result = None
    BY <1>1, <1>4 DEF Types, Row
  <2>3. receipt'[p].state = "STARTED"
    BY <1>1, <1>4 DEF Types, Row
  <2>4. \A l \in Packets : Claims(l)' = Claims(l) /\ Claims(l) \subseteq Requests
    BY <1>1, <2>1 DEF Claims
  <2>5. CallsKnown'
    BY <1>1, <2>1 DEF Core, CallsKnown
  <2>6. SeenOutcome'
    <3>1. \A q \in Requests : pc'[q] \in {"retry", "retried", "outcome"} =>
            q # r /\ Packet(q) \in Packets
      BY <1>1, <2>1, PacketType DEF Core, CallsKnown
    <3> QED
      BY <1>1, <2>1, <2>2, <3>1 DEF Core, SeenOutcome
  <2>7. StartedRecorded'
    <3>1. \A q \in Requests : pc'[q] \notin Idle => Packet(q) \in Packets
      BY <1>1, <2>1, PacketType DEF Core, CallsKnown
    <3>2. \A q \in Requests : pc'[q] \in {"begun", "started"} =>
            receipt'[Packet(q)].state # "absent"
      BY <1>1, <2>1, <2>2, <2>3, <3>1 DEF Core, StartedRecorded
    <3>3. \A q \in Requests :
            pc'[q] \in {"started", "claimed", "inflight", "retried", "outcome"} =>
              history[Packet(q)]["started"] # None
      BY <1>1, <2>1 DEF Core, StartedRecorded
    <3> QED
      BY <1>1, <2>1, <2>2, <3>2, <3>3 DEF Core, StartedRecorded
  <2>8. ClaimsUnique' /\ ClaimsRecorded'
    BY <1>1, <2>1, <2>2, <2>4 DEF Core, ClaimsUnique, ClaimsRecorded
  <2>9. ClaimantPending'
    BY <1>1, <2>1, <2>2, SMTT(30) DEF Core, ClaimantPending, CallsKnown, Types, Calls
  <2>10. ResultFaithful'
    BY <1>1, <2>1, <2>2, <2>4 DEF Core, ResultFaithful
  <2>11. HistoryBacked'
    BY <1>1, <2>1, <2>2 DEF Core, HistoryBacked
  <2> QED
    BY <2>5, <2>6, <2>7, <2>8, <2>9, <2>10, <2>11 DEF Core
<1> QED
  BY <1>1, <1>3, <1>4 DEF Hydrated, Goto, Finish

\* What every step of a started request leaves alone.
LEMMA StepLocal ==
  ASSUME ReceiptInv, NEW r \in Requests,
         \/ AppendStarted(r) \/ Claim(r) \/ Dispatch(r) \/ Succeed(r)
         \/ Fail(r) \/ AppendOutcome(r)
  PROVE  /\ Types /\ Core /\ call[r] \in Calls /\ call[r] # None
         /\ UNCHANGED <<call, executed, rejected>>
         /\ \A q \in Requests : q # r => pc'[q] = pc[q] /\ seen'[q] = seen[q]
         /\ \A p \in Packets : p # Packet(r) => receipt'[p] = receipt[p] /\ history'[p] = history[p]
<1>1. Types /\ Core
  BY InvParts
<1>2. call[r] \in Calls /\ call[r] # None /\ Packet(r) \in Packets
  BY <1>1 DEF AppendStarted, Claim, Dispatch, Succeed, Fail, AppendOutcome, Types, Core,
     CallsKnown, Calls, Packet
<1>3. UNCHANGED <<call, executed, rejected>>
  BY DEF AppendStarted, Claim, Dispatch, Succeed, Fail, AppendOutcome, world
<1>4. \A q \in Requests : q # r => pc'[q] = pc[q] /\ seen'[q] = seen[q]
  BY <1>1 DEF AppendStarted, Claim, Dispatch, Succeed, Fail, AppendOutcome, Types,
     Goto, Finish, Settle
<1>5. \A p \in Packets : p # Packet(r) => receipt'[p] = receipt[p] /\ history'[p] = history[p]
  BY <1>1 DEF AppendStarted, Claim, Dispatch, Succeed, Fail, AppendOutcome, Types,
     Append, Settle, durable
<1> QED
  BY <1>1, <1>2, <1>3, <1>4, <1>5

\* The started event is appended, or the request ends without it.
LEMMA AppendStartedKeepsCore ==
  ASSUME ReceiptInv, Types', NEW r \in Requests, AppendStarted(r)
  PROVE  Core'
<1> USE StepLocal DEF Packet
<1>1. /\ Types /\ Core /\ call[r] # None /\ Packet(r) \in Packets
      /\ UNCHANGED <<receipt, call, seen, sent, executed, rejected>>
      /\ pc[r] \in {"begun", "retry"} /\ r \notin sent
      /\ \A q \in Requests : q # r => pc'[q] = pc[q]
      /\ pc'[r] \in {"started", "retried", "done"}
      /\ pc'[r] = "retried" => pc[r] = "retry"
      /\ pc'[r] = "started" => pc[r] = "begun"
  BY PacketType DEF AppendStarted, world, Goto, Finish, Core, CallsKnown, Types
<1>2. /\ pc'[r] # "done" => history'[Packet(r)]["started"] # None
      /\ \A l \in Packets : /\ history[l]["started"] # None => history'[l]["started"] # None
                            /\ \A s \in Stages \ {"started"} : history'[l][s] = history[l][s]
                            /\ history[l]["started"] # history'[l]["started"] =>
                                 history[l]["started"] = None
  <2>1. StartedDraft # None /\ "started" \in Stages
    BY NoneIsNothing DEF StartedDraft, Drafts, Errors, Stages
  <2>2. CASE UNCHANGED history /\ pc'[r] = "done"
    BY <2>2
  <2>3. CASE Append(Packet(r), "started", StartedDraft)
    <3>1. /\ history'[Packet(r)]["started"] = StartedDraft
          /\ \A l \in Packets, s \in Stages :
               l # Packet(r) \/ s # "started" => history'[l][s] = history[l][s]
      BY <1>1, <2>1, <2>3 DEF Append, Types
    <3>2. history[Packet(r)]["started"] \in {None, StartedDraft}
      BY <2>3 DEF Append, CanAppend
    <3> QED
      BY <2>1, <3>1, <3>2
  <2> QED
    BY <1>1, <2>2, <2>3 DEF AppendStarted, Finish, Goto, Types
<1>3. \A l \in Packets : Claims(l)' = Claims(l)
  BY <1>1 DEF Claims
<1>4. CallsKnown'
  BY <1>1 DEF Core, CallsKnown
<1>5. SeenOutcome'
  BY <1>1 DEF Core, SeenOutcome
<1>6. StartedRecorded'
  <2>1. \A q \in Requests : pc[q] \notin Idle => Packet(q) \in Packets
    BY <1>1, PacketType DEF Core, CallsKnown
  <2>2. \A q \in Requests : pc'[q] \in {"begun", "started"} => receipt[Packet(q)].state # "absent"
    BY <1>1 DEF Core, StartedRecorded
  <2>3. \A q \in Requests : pc'[q] \in {"started", "claimed", "inflight", "retried", "outcome"} =>
          history'[Packet(q)]["started"] # None
    BY <1>1, <1>2, <2>1 DEF Core, StartedRecorded
  <2> QED
    BY <1>1, <1>2, <2>2, <2>3 DEF Core, StartedRecorded
<1>7. ClaimsUnique' /\ ClaimsRecorded'
  BY <1>1, <1>3 DEF Core, ClaimsUnique, ClaimsRecorded
<1>8. ClaimantPending'
  BY <1>1 DEF Core, ClaimantPending
<1>9. ResultFaithful'
  BY <1>1, <1>3 DEF Core, ResultFaithful
<1>10. HistoryBacked'
  BY <1>1, <1>2 DEF Core, HistoryBacked, Stages
<1> QED
  BY <1>4, <1>5, <1>6, <1>7, <1>8, <1>9, <1>10 DEF Core

\* The winner of the claim becomes the only claimant, the loser only reads.
LEMMA ClaimKeepsCore ==
  ASSUME ReceiptInv, Types', NEW r \in Requests, Claim(r)
  PROVE  Core'
<1> USE DEF Packet
<1>1. /\ Types /\ Core /\ call[r] # None /\ pc[r] = "started" /\ r \notin sent
      /\ UNCHANGED <<history, call, sent, executed, rejected>>
  BY StepLocal DEF Claim, world, Core, CallsKnown
<1> PICK p \in Packets : p = Packet(r)
  BY <1>1, PacketType
<1>2. receipt[p].state \in States
  BY <1>1, RowType DEF Types
<1>3. receipt[p].state # "absent" /\ history[p]["started"] # None
  BY <1>1 DEF Core, StartedRecorded
<1>4. CASE receipt[p].state # "STARTED"
  BY <1>1, <1>2, <1>3, <1>4, MovesKeepCore DEF Claim, Goto, Types, States, durable, world
<1>5. CASE receipt[p].state = "STARTED"
  <2>1. /\ receipt'[p].state = "UNCERTAIN" /\ receipt'[p].error = "pending"
        /\ receipt'[p].result = receipt[p].result
        /\ \A l \in Packets : l # p => receipt'[l] = receipt[l]
        /\ UNCHANGED seen /\ pc'[r] = "claimed"
        /\ \A q \in Requests : q # r => pc'[q] = pc[q]
    BY <1>1, <1>5 DEF Claim, Goto, Types, Row
  <2>2. /\ Claims(p) = {} /\ Claims(p)' = {r}
        /\ \A l \in Packets : l # p => Claims(l)' = Claims(l)
    BY <1>1, <1>5, <2>1 DEF Claims, Core, ClaimsRecorded
  <2>3. receipt[p].result = None
    BY <1>1, <1>5 DEF Core, ResultFaithful
  <2>4. \A q \in Requests : pc[q] \notin Idle => Packet(q) \in Packets
    BY <1>1, PacketType DEF Core, CallsKnown
  <2>5. CallsKnown'
    BY <1>1, <2>1 DEF Core, CallsKnown
  <2>6. SeenOutcome'
    BY <1>1, <1>5, <2>1, <2>4 DEF Core, SeenOutcome
  <2>7. StartedRecorded'
    BY <1>1, <1>3, <2>1, <2>4 DEF Core, StartedRecorded
  <2>8. ClaimsUnique' /\ ClaimsRecorded'
    BY <1>1, <2>1, <2>2 DEF Core, ClaimsUnique, ClaimsRecorded
  <2>9. ClaimantPending'
    BY <1>1, <1>5, <2>1, <2>4 DEF Core, ClaimantPending
  <2>10. ResultFaithful'
    BY <1>1, <2>1, <2>2, <2>3 DEF Core, ResultFaithful
  <2>11. HistoryBacked'
    BY <1>1, <1>5, <2>1 DEF Core, HistoryBacked
  <2> QED
    BY <2>5, <2>6, <2>7, <2>8, <2>9, <2>10, <2>11 DEF Core
<1> QED
  BY <1>4, <1>5

LEMMA DispatchKeepsCore ==
  ASSUME ReceiptInv, Types', NEW r \in Requests, Dispatch(r)
  PROVE  Core'
<1> USE DEF Packet
<1>1. /\ Types /\ Core /\ call[r] # None /\ pc[r] = "claimed"
      /\ UNCHANGED <<receipt, history, call, seen, executed, rejected>>
      /\ sent' = sent \cup {r} /\ pc'[r] = "inflight"
      /\ \A q \in Requests : q # r => pc'[q] = pc[q]
  BY StepLocal DEF Dispatch, durable, Goto, Types
<1>2. \A l \in Packets : Claims(l)' = Claims(l)
  BY <1>1 DEF Claims
<1>3. CallsKnown'
  BY <1>1 DEF Core, CallsKnown
<1>4. SeenOutcome' /\ StartedRecorded' /\ ClaimantPending' /\ HistoryBacked'
  BY <1>1 DEF Core, SeenOutcome, StartedRecorded, ClaimantPending, HistoryBacked
<1>5. ClaimsUnique' /\ ClaimsRecorded'
  BY <1>1, <1>2 DEF Core, ClaimsUnique, ClaimsRecorded
<1>6. ResultFaithful'
  <2>1. receipt[Packet(r)].state = "UNCERTAIN"
    BY <1>1 DEF Core, ClaimantPending
  <2>2. \A l \in Packets : receipt[l].state = "FAILED" => r \notin Claims(l)
    BY <2>1 DEF Claims
  <2> QED
    BY <1>1, <1>2, <2>2 DEF Core, ResultFaithful
<1> QED
  BY <1>3, <1>4, <1>5, <1>6 DEF Core

\* The claimant writes the receipt it alone may write, and tells the truth.
LEMMA SettledKeepsCore ==
  ASSUME ReceiptInv, Types', NEW r \in Requests, NEW row \in Receipts,
         Succeed(r) \/ Fail(r),
         receipt' = [receipt EXCEPT ![Packet(r)] = row], seen' = [seen EXCEPT ![r] = row],
         row.state \in {"UNCERTAIN", "SUCCEEDED", "FAILED"},
         row.state = "SUCCEEDED" => row.result = executed[r] /\ executed[r] # None,
         row.state # "SUCCEEDED" => row.result = None,
         row.state = "FAILED" => r \in rejected
  PROVE  Core'
<1> USE DEF Packet
<1>1. /\ Types /\ Core /\ call[r] # None /\ pc[r] = "inflight" /\ pc'[r] = "outcome"
      /\ UNCHANGED <<history, call, sent, executed, rejected>> /\ r \in sent
      /\ \A q \in Requests : q # r => pc'[q] = pc[q] /\ seen'[q] = seen[q]
  BY StepLocal DEF Succeed, Fail, world, Goto, Types, Core, CallsKnown
<1> PICK p \in Packets : p = Packet(r)
  BY <1>1, PacketType
<1>2. /\ receipt'[p] = row /\ seen'[r] = row
      /\ \A l \in Packets : l # p => receipt'[l] = receipt[l]
  BY <1>1 DEF Types
<1>3. receipt[p].state = "UNCERTAIN" /\ history[p]["started"] # None
  BY <1>1 DEF Core, ClaimantPending, StartedRecorded
<1>4. \A l \in Packets : Claims(l)' = Claims(l)
  BY <1>1 DEF Claims
<1>5. Claims(p) = {r}
  BY <1>1 DEF Claims, Core, ClaimsUnique
<1>6. \A q \in Requests : pc'[q] \notin Idle => Packet(q) \in Packets
  BY <1>1, PacketType DEF Core, CallsKnown
<1>7. CallsKnown'
  BY <1>1 DEF Core, CallsKnown
<1>8. SeenOutcome'
  BY <1>1, <1>2, <1>3, <1>6 DEF Core, SeenOutcome
<1>9. StartedRecorded'
  BY <1>1, <1>2, <1>3, <1>6 DEF Core, StartedRecorded
<1>10. ClaimsUnique' /\ ClaimsRecorded'
  BY <1>1, <1>2, <1>4 DEF Core, ClaimsUnique, ClaimsRecorded
<1>11. ClaimantPending'
  <2>1. ASSUME NEW q \in Requests, pc'[q] \in {"claimed", "inflight"} PROVE Packet(q) # p
    BY <1>1, <1>5, <2>1 DEF Claims, Core, CallsKnown
  <2> QED
    BY <1>1, <1>2, <1>6, <2>1 DEF Core, ClaimantPending
<1>12. ResultFaithful'
  BY <1>1, <1>2, <1>4, <1>5 DEF Core, ResultFaithful
<1>13. HistoryBacked'
  BY <1>1, <1>2, <1>3 DEF Core, HistoryBacked
<1> QED
  BY <1>7, <1>8, <1>9, <1>10, <1>11, <1>12, <1>13 DEF Core

LEMMA SucceedKeepsCore ==
  ASSUME ReceiptInv, Types', NEW r \in Requests, Succeed(r)
  PROVE  Core'
<1> DEFINE row == Row(receipt[Packet(r)].fingerprint, "SUCCEEDED", "none", executed[r])
<1>1. Types /\ call[r] # None
  BY StepLocal
<1>2. receipt[Packet(r)] \in Receipts /\ executed[r] \in Results \cup {None}
  BY <1>1, PacketType DEF Types
<1>3. row \in Receipts
  BY <1>2, RowType DEF States, Errors
<1>4. row.state = "SUCCEEDED" /\ row.result = executed[r]
  BY DEF Row
<1>5. /\ receipt' = [receipt EXCEPT ![Packet(r)] = row] /\ seen' = [seen EXCEPT ![r] = row]
      /\ executed[r] # None
  BY DEF Succeed
<1> HIDE DEF row
<1> QED
  BY <1>3, <1>4, <1>5, SettledKeepsCore

LEMMA FailKeepsCore ==
  ASSUME ReceiptInv, Types', NEW r \in Requests, Fail(r)
  PROVE  Core'
<1> DEFINE old == receipt[Packet(r)]
           row(state, error) == Row(old.fingerprint, state, error, old.result)
<1>1. Types /\ Core /\ call[r] # None /\ pc[r] = "inflight"
  BY StepLocal DEF Fail
<1>2. old \in Receipts /\ old.state = "UNCERTAIN" /\ old.result = None
  BY <1>1, PacketType DEF Types, Core, ClaimantPending, ResultFaithful
<1>3. row("FAILED", "rejected") \in Receipts /\ row("UNCERTAIN", "ambiguous") \in Receipts
  BY <1>2, RowType DEF States, Errors
<1>4. /\ row("FAILED", "rejected").state = "FAILED"
      /\ row("FAILED", "rejected").result = None
      /\ row("UNCERTAIN", "ambiguous").state = "UNCERTAIN"
      /\ row("UNCERTAIN", "ambiguous").result = None
  BY <1>2 DEF Row
<1>5. \/ /\ receipt' = [receipt EXCEPT ![Packet(r)] = row("FAILED", "rejected")]
         /\ seen' = [seen EXCEPT ![r] = row("FAILED", "rejected")]
         /\ r \in rejected
      \/ /\ receipt' = [receipt EXCEPT ![Packet(r)] = row("UNCERTAIN", "ambiguous")]
         /\ seen' = [seen EXCEPT ![r] = row("UNCERTAIN", "ambiguous")]
  BY <1>2 DEF Fail, Settle
<1> HIDE DEF row
<1> QED
  BY <1>3, <1>4, <1>5, SettledKeepsCore

\* What is appended is what the receipt said when it was read; a receipt that
\* is final does not change, so what is appended is what the receipt says.
LEMMA AppendOutcomeKeepsCore ==
  ASSUME ReceiptInv, Types', NEW r \in Requests, AppendOutcome(r)
  PROVE  Core'
<1> USE DEF Packet
<1>1. /\ Types /\ Core /\ call[r] # None /\ pc[r] \in {"outcome", "retried"}
      /\ UNCHANGED <<receipt, call, seen, sent, executed, rejected>> /\ pc'[r] = "done"
      /\ \A q \in Requests : q # r => pc'[q] = pc[q]
  BY StepLocal DEF AppendOutcome, world, Finish, Goto, Types
<1> PICK p \in Packets : p = Packet(r)
  BY <1>1, PacketType
<1>2. /\ seen[r].state \in {"UNCERTAIN", "SUCCEEDED", "FAILED"}
      /\ seen[r].state # "UNCERTAIN" =>
           receipt[p].state = seen[r].state /\ receipt[p].result = seen[r].result
      /\ history[p]["started"] # None
  BY <1>1 DEF Core, SeenOutcome, StartedRecorded
<1>3. /\ \A l \in Packets, s \in Stages :
           history'[l][s] # history[l][s] =>
             l = p /\ s = StageOf(seen[r]) /\ history'[l][s] = Draft(seen[r])
      /\ \A l \in Packets : history'[l]["started"] = history[l]["started"]
  <2>1. StageOf(seen[r]) \in Stages \ {"started"}
    BY DEF StageOf, Stages
  <2>2. UNCHANGED history \/ Append(p, StageOf(seen[r]), Draft(seen[r]))
    BY <1>1 DEF AppendOutcome
  <2> QED
    BY <1>1, <2>1, <2>2 DEF Append, Types, Stages
<1>4. \A l \in Packets : Claims(l)' = Claims(l)
  BY <1>1 DEF Claims
<1>5. CallsKnown' /\ SeenOutcome' /\ ClaimantPending'
  BY <1>1 DEF Core, CallsKnown, SeenOutcome, ClaimantPending
<1>6. StartedRecorded'
  <2>1. \A q \in Requests : pc[q] \notin Idle => Packet(q) \in Packets
    BY <1>1, PacketType DEF Core, CallsKnown
  <2> QED
    BY <1>1, <1>3, <2>1 DEF Core, StartedRecorded
<1>7. ClaimsUnique' /\ ClaimsRecorded' /\ ResultFaithful'
  BY <1>1, <1>4 DEF Core, ClaimsUnique, ClaimsRecorded, ResultFaithful
<1>8. HistoryBacked'
  <2>1. ASSUME NEW l \in Packets, history'[l]["succeeded"] # None
        PROVE  receipt[l].state = "SUCCEEDED" /\ receipt[l].result = history'[l]["succeeded"].result
    BY <1>1, <1>2, <1>3, <2>1 DEF Core, HistoryBacked, StageOf, Draft, Stages
  <2>2. ASSUME NEW l \in Packets, history'[l]["failed"] # None
        PROVE  receipt[l].state = "FAILED"
    BY <1>1, <1>2, <1>3, <2>2 DEF Core, HistoryBacked, StageOf, Stages
  <2>3. ASSUME NEW l \in Packets, NEW s \in Stages \ {"started"}, history'[l][s] # None
        PROVE  history'[l]["started"] # None
    BY <1>1, <1>2, <1>3, <2>3 DEF Core, HistoryBacked
  <2> QED
    BY <1>1, <2>1, <2>2, <2>3 DEF HistoryBacked
<1> QED
  BY <1>5, <1>6, <1>7, <1>8 DEF Core

LEMMA AdmitKeepsInv ==
  ASSUME ReceiptInv, NEW r \in Requests, NEW p \in Packets, NEW proc \in Procs,
         Admit(r, p, proc)
  PROVE  Types' /\ OneStretch' /\ Core'
<1> USE DEF durable, world, Packet, Proc
<1>1. /\ Types /\ OneStretch /\ Core /\ pc[r] = "unsent" /\ r \notin sent
      /\ UNCHANGED <<receipt, history, seen, sent, executed, rejected, crashes>>
      /\ pc'[r] \in {"hydrate", "done"}
      /\ \A q \in Requests : q # r => pc'[q] = pc[q] /\ call'[q] = call[q]
  BY InvParts DEF Admit, Core, CallsKnown, Goto, Finish, Types
<1>2. /\ pc' \in [Requests -> PCs] /\ reply' \in [Requests -> Replies]
      /\ call' \in [Requests -> Calls \cup {None}]
      /\ pc'[r] = "hydrate" => call'[r] # None
  <2>1. [packet |-> p, proc |-> proc] \in Calls
    BY DEF Calls
  <2> QED
    BY <1>1, <2>1, NoneIsNothing, SMTT(30) DEF Admit, Goto, Finish, Types, PCs, Replies
<1>3. Types' /\ OneStretch'
  BY <1>1, <1>2 DEF Types, OneStretch
<1>4. \A l \in Packets : Claims(l)' = Claims(l)
  BY <1>1 DEF Claims
<1>5. CallsKnown' /\ SeenOutcome' /\ StartedRecorded' /\ ClaimantPending'
  BY <1>1, <1>2 DEF Core, CallsKnown, SeenOutcome, StartedRecorded, ClaimantPending
<1>6. ClaimsUnique' /\ ClaimsRecorded' /\ ResultFaithful' /\ HistoryBacked'
  BY <1>1, <1>4 DEF Core, ClaimsUnique, ClaimsRecorded, ResultFaithful, HistoryBacked
<1> QED
  BY <1>3, <1>5, <1>6 DEF Core

LEMMA ExecuteKeepsInv ==
  ASSUME ReceiptInv, NEW r \in Requests, Execute(r)
  PROVE  Types' /\ OneStretch' /\ Core'
<1> USE DEF durable, world, Packet, Proc
<1>1. /\ Types /\ OneStretch /\ Core
      /\ UNCHANGED <<receipt, history, call, pc, reply, seen, sent, crashes>>
      /\ r \in sent \ rejected /\ executed[r] = None
      /\ rejected \subseteq rejected' /\ rejected' \subseteq rejected \cup {r}
      /\ \A q \in Requests : q # r => executed'[q] = executed[q]
      /\ executed' \in [Requests -> Results \cup {None}]
      /\ rejected' = rejected \/ executed' = executed
  BY InvParts DEF Execute, Types
<1>2. Types' /\ OneStretch'
  BY <1>1 DEF Types, OneStretch
<1>3. \A l \in Packets : Claims(l)' = Claims(l)
  BY <1>1 DEF Claims
<1>4. CallsKnown'
  BY <1>1 DEF Core, CallsKnown
<1>5. SeenOutcome' /\ StartedRecorded' /\ ClaimantPending' /\ HistoryBacked'
  BY <1>1 DEF Core, SeenOutcome, StartedRecorded, ClaimantPending, HistoryBacked
<1>6. ClaimsUnique' /\ ClaimsRecorded'
  BY <1>1, <1>3 DEF Core, ClaimsUnique, ClaimsRecorded
<1>7. ResultFaithful'
  <2>1. \A l \in Packets : Claims(l) \subseteq Requests
    BY DEF Claims
  <2> QED
    BY <1>1, <1>3, <2>1 DEF Core, ResultFaithful
<1> QED
  BY <1>2, <1>4, <1>5, <1>6, <1>7 DEF Core

LEMMA CrashKeepsInv ==
  ASSUME ReceiptInv, NEW p \in Procs, Crash(p)
  PROVE  Types' /\ OneStretch' /\ Core'
<1>1. /\ Types /\ OneStretch /\ Core
      /\ UNCHANGED <<durable, call, world, seen, reply>> /\ crashes' \in Nat
      /\ pc' \in [Requests -> PCs]
      /\ \A q \in Requests : pc'[q] # pc[q] => pc'[q] = "lost" /\ pc[q] \notin Idle
  BY InvParts DEF Crash, durable, world, Types, PCs
<1>2. Types'
  BY <1>1 DEF Types, durable, world
<1>3. OneStretch'
  BY <1>1 DEF OneStretch, Proc
<1>4. Core'
  BY <1>1, <1>2, MovesKeepCore
<1> QED
  BY <1>2, <1>3, <1>4

LEMMA NextInv == ReceiptInv /\ [Next]_vars => ReceiptInv'
<1> SUFFICES ASSUME ReceiptInv, [Next]_vars PROVE ReceiptInv'
  OBVIOUS
<1>1. Types /\ OneStretch /\ CallsKnown /\ SeenOutcome
  BY InvParts DEF Core
<1>2. Types' /\ OneStretch' /\ Core' => ReceiptInv'
  BY InvParts, PTL
<1>3. ASSUME NEW r \in Requests, Step(r) PROVE ReceiptInv'
  <2>1. Types' /\ OneStretch'
    BY <1>1, <1>3, StepTypes, StepStretch
  <2>2. ASSUME NEW f \in Fingerprints, Hydrated(r, f) PROVE Core'
    BY <2>1, <2>2, HydratedKeepsCore
  <2> QED
    BY <1>2, <1>3, <2>1, <2>2, AppendStartedKeepsCore, ClaimKeepsCore, DispatchKeepsCore,
       SucceedKeepsCore, FailKeepsCore, AppendOutcomeKeepsCore DEF Step
<1>4. ASSUME NEW r \in Requests, NEW p \in Packets, NEW proc \in Procs, Admit(r, p, proc)
      PROVE  ReceiptInv'
  BY <1>2, <1>4, AdmitKeepsInv
<1>5. ASSUME NEW r \in Requests, Execute(r) PROVE ReceiptInv'
  BY <1>2, <1>5, ExecuteKeepsInv
<1>6. ASSUME NEW p \in Procs, Crash(p) PROVE ReceiptInv'
  BY <1>2, <1>6, CrashKeepsInv
<1>7. CASE UNCHANGED vars
  <2>1. Types' /\ OneStretch'
    BY <1>1, <1>7 DEF Types, OneStretch, Proc, vars, durable, world
  <2>2. Core'
    <3>1. Core
      BY InvParts
    <3> QED
      BY <1>1, <1>7, <2>1, <3>1, MovesKeepCore DEF vars, durable, world
  <2> QED
    BY <1>2, <2>1, <2>2
<1> QED
  BY <1>3, <1>4, <1>5, <1>6, <1>7 DEF Next

-----------------------------------------------------------------------------
\* The inductive invariant holds of every behaviour, whatever the number of
\* Hub processes, retries and crashes.
THEOREM ReceiptInvariant == Spec => []ReceiptInv
  BY InitInv, NextInv, PTL DEF Spec

\* Every variable keeps its type, and a process is in one synchronous stretch.
THEOREM TypeCorrect == Spec => []TypeOK
<1>1. ReceiptInv => TypeOK
  BY DEF ReceiptInv
<1> QED
  BY <1>1, ReceiptInvariant, PTL

\* Batch B2: no two requests for the same packet ever reach Connect.
THEOREM AtMostOnce == Spec => []AtMostOnceDispatch
<1>1. ReceiptInv => AtMostOnceDispatch
  BY DEF ReceiptInv, AtMostOnceDispatch, ClaimsUnique, Claims, SentFor, CallsKnown, TypeOK
<1> QED
  BY <1>1, ReceiptInvariant, PTL

\* SUCCEEDED carries what the provider did, FAILED means it did nothing, and
\* nothing is dispatched under a receipt that was not claimed.
THEOREM Faithful == Spec => []ReceiptFaithful
<1>1. ASSUME ReceiptInv PROVE ReceiptFaithful
  <2>1. \A p \in Packets : SentFor(p) = Claims(p) \cap sent
    BY <1>1 DEF ReceiptInv, TypeOK, CallsKnown, Claims, SentFor
  <2>2. \A r \in Requests : (executed[r] # None => r \in sent) /\ (r \in rejected => executed[r] = None)
    BY <1>1 DEF ReceiptInv, CallsKnown
  <2>3. \A p \in Packets : Claims(p) \subseteq Requests
    BY DEF Claims
  <2> QED
    BY <1>1, <2>1, <2>2, <2>3 DEF ReceiptInv, ReceiptFaithful, ResultFaithful, ClaimsRecorded
<1> QED
  BY <1>1, ReceiptInvariant, PTL

\* The ledger never says more about a packet than its receipt.
THEOREM Backed == Spec => []HistoryBacked
<1>1. ReceiptInv => HistoryBacked
  BY DEF ReceiptInv
<1> QED
  BY <1>1, ReceiptInvariant, PTL

-----------------------------------------------------------------------------
\* Whoever was told an outcome has ended, and finds it in the ledger.
Outcomes == {"SUCCEEDED", "REPLAYED", "FAILED", "UNCERTAIN"}
Recorded(r) ==
  /\ history[Packet(r)]["started"] # None
  /\ history[Packet(r)][StageOf(seen[r])] = Draft(seen[r])
ToldInv ==
  \A r \in Requests : reply[r] \in Outcomes => pc[r] = "done" /\ call[r] # None /\ Recorded(r)

\* appendNext never replaces an event, and a request that has ended is left alone.
LEMMA EventsStay ==
  ASSUME ReceiptInv, [Next]_vars
  PROVE  \A p \in Packets, s \in Stages : history[p][s] # None => history'[p][s] = history[p][s]
<1> USE DEF durable, world
<1>1. Types /\ SeenOutcome /\ CallsKnown
  BY InvParts DEF Core
<1>2. ASSUME NEW r \in Requests, AppendStarted(r)
      PROVE  \A p \in Packets, s \in Stages : history[p][s] # None => history'[p][s] = history[p][s]
  <2>1. UNCHANGED history \/ Append(Packet(r), "started", StartedDraft)
    BY <1>2 DEF AppendStarted
  <2>2. Packet(r) \in Packets
    BY <1>1, <1>2, PacketType DEF AppendStarted, CallsKnown
  <2> QED
    BY <1>1, <2>1, <2>2 DEF Append, CanAppend, Types
<1>3. ASSUME NEW r \in Requests, AppendOutcome(r)
      PROVE  \A p \in Packets, s \in Stages : history[p][s] # None => history'[p][s] = history[p][s]
  <2>1. UNCHANGED history \/ Append(Packet(r), StageOf(seen[r]), Draft(seen[r]))
    BY <1>3 DEF AppendOutcome
  <2>2. Packet(r) \in Packets
    BY <1>1, <1>3, PacketType DEF AppendOutcome, CallsKnown
  <2> QED
    BY <1>1, <2>1, <2>2 DEF Append, CanAppend, Types
<1>4. UNCHANGED history \/ \E r \in Requests : AppendStarted(r) \/ AppendOutcome(r)
  BY DEF Next, vars, Step, Admit, Hydrated, Claim, Dispatch, Succeed, Fail, Execute, Crash
<1> QED
  BY <1>2, <1>3, <1>4

LEMMA EndedStay ==
  ASSUME ReceiptInv, [Next]_vars, NEW q \in Requests, pc[q] = "done"
  PROVE  /\ pc'[q] = "done" /\ reply'[q] = reply[q] /\ seen'[q] = seen[q]
         /\ call'[q] = call[q]
<1> USE DEF durable, world
<1>1. Types
  BY InvParts
<1>2. ASSUME NEW r \in Requests, NEW f \in Fingerprints, Hydrated(r, f)
      PROVE  pc'[q] = "done" /\ reply'[q] = reply[q] /\ seen'[q] = seen[q] /\ call'[q] = call[q]
  BY <1>1, <1>2 DEF Hydrated, Goto, Finish, Types
<1>3. ASSUME NEW r \in Requests, AppendStarted(r) \/ Claim(r) \/ Dispatch(r) \/ AppendOutcome(r)
      PROVE  pc'[q] = "done" /\ reply'[q] = reply[q] /\ seen'[q] = seen[q] /\ call'[q] = call[q]
  BY <1>1, <1>3 DEF AppendStarted, Claim, Dispatch, AppendOutcome, Goto, Finish, Types
<1>4. ASSUME NEW r \in Requests, Succeed(r) \/ Fail(r)
      PROVE  pc'[q] = "done" /\ reply'[q] = reply[q] /\ seen'[q] = seen[q] /\ call'[q] = call[q]
  BY <1>1, <1>4 DEF Succeed, Fail, Settle, Goto, Types
<1>5. ASSUME NEW r \in Requests, NEW p \in Packets, NEW proc \in Procs, Admit(r, p, proc)
      PROVE  pc'[q] = "done" /\ reply'[q] = reply[q] /\ seen'[q] = seen[q] /\ call'[q] = call[q]
  BY <1>1, <1>5 DEF Admit, Goto, Finish, Types
<1>6. ASSUME NEW r \in Requests, Execute(r)
      PROVE  pc'[q] = "done" /\ reply'[q] = reply[q] /\ seen'[q] = seen[q] /\ call'[q] = call[q]
  BY <1>6 DEF Execute
<1>7. ASSUME NEW p \in Procs, Crash(p)
      PROVE  pc'[q] = "done" /\ reply'[q] = reply[q] /\ seen'[q] = seen[q] /\ call'[q] = call[q]
  BY <1>7 DEF Crash
<1>8. CASE UNCHANGED vars
  BY <1>8 DEF vars
<1> QED
  BY <1>2, <1>3, <1>4, <1>5, <1>6, <1>7, <1>8 DEF Next, Step

\* An outcome is told only in the step that finds or appends its event.
LEMMA ToldNow ==
  ASSUME ReceiptInv, [Next]_vars, NEW q \in Requests,
         reply[q] \notin Outcomes, reply'[q] \in Outcomes
  PROVE  AppendOutcome(q) /\ Append(Packet(q), StageOf(seen[q]), Draft(seen[q]))
<1> USE DEF durable, world
<1>1. Types
  BY InvParts
<1>2. ASSUME NEW r \in Requests, NEW f \in Fingerprints, Hydrated(r, f) PROVE FALSE
  BY <1>1, <1>2 DEF Hydrated, Finish, Types, Outcomes
<1>3. ASSUME NEW r \in Requests, AppendStarted(r) PROVE FALSE
  BY <1>1, <1>3 DEF AppendStarted, Finish, Types, Outcomes
<1>4. ASSUME NEW r \in Requests, NEW p \in Packets, NEW proc \in Procs, Admit(r, p, proc) PROVE FALSE
  BY <1>1, <1>4 DEF Admit, Finish, Types, Outcomes
<1>5. PICK r \in Requests : AppendOutcome(r)
  BY <1>2, <1>3, <1>4 DEF Next, vars, Step, Claim, Dispatch, Succeed, Fail, Execute, Crash
<1>6. r = q
  BY <1>1, <1>5 DEF AppendOutcome, Finish, Types
<1>7. \/ Append(Packet(q), StageOf(seen[q]), Draft(seen[q]))
      \/ Finish(q, "HISTORY_CONFLICT") \/ Finish(q, "HISTORY_ERROR")
  BY <1>5, <1>6 DEF AppendOutcome
<1> QED
  BY <1>1, <1>5, <1>6, <1>7 DEF Finish, Types, Outcomes

LEMMA ToldInit == Init => ToldInv
  BY DEF Init, ToldInv, Outcomes

LEMMA ToldNext == ReceiptInv /\ ToldInv /\ [Next]_vars => ToldInv'
<1> SUFFICES ASSUME ReceiptInv, ToldInv, [Next]_vars, NEW q \in Requests, reply'[q] \in Outcomes
             PROVE  pc'[q] = "done" /\ call'[q] # None /\ Recorded(q)'
  BY DEF ToldInv
<1>1. Types /\ Core
  BY InvParts
<1>2. CASE reply[q] \in Outcomes
  <2>1. pc[q] = "done" /\ call[q] # None /\ Recorded(q)
    BY <1>2 DEF ToldInv
  <2>2. /\ pc'[q] = "done" /\ seen'[q] = seen[q] /\ call'[q] = call[q]
    BY <2>1, EndedStay
  <2>3. Packet(q) \in Packets /\ seen[q] \in Receipts
    BY <1>1, <2>1, PacketType DEF Types
  <2>4. StageOf(seen[q]) \in Stages /\ "started" \in Stages /\ Draft(seen[q]) # None
    BY <2>3, RowType, NoneIsNothing DEF Stages
  <2> QED
    BY <2>1, <2>2, <2>3, <2>4, EventsStay DEF Recorded, Packet
<1>3. CASE reply[q] \notin Outcomes
  <2>1. AppendOutcome(q) /\ Append(Packet(q), StageOf(seen[q]), Draft(seen[q]))
    BY <1>3, ToldNow
  <2>2. /\ pc[q] \in {"outcome", "retried"} /\ pc'[q] = "done" /\ UNCHANGED <<call, seen>>
    BY <1>1, <2>1 DEF AppendOutcome, Finish, Goto, Types
  <2>3. call[q] # None /\ history[Packet(q)]["started"] # None
    BY <1>1, <2>2 DEF Core, CallsKnown, StartedRecorded
  <2>4. Packet(q) \in Packets /\ seen[q] \in Receipts
    BY <1>1, <2>3, PacketType DEF Types
  <2>5. StageOf(seen[q]) \in Stages /\ "started" \in Stages
    BY <2>4, RowType DEF Stages
  <2>6. history'[Packet(q)][StageOf(seen[q])] = Draft(seen[q])
    BY <1>1, <2>1, <2>4, <2>5 DEF Append, Types
  <2>7. history'[Packet(q)]["started"] # None
    BY <2>3, <2>4, <2>5, EventsStay
  <2> QED
    BY <2>2, <2>3, <2>6, <2>7 DEF Recorded, Packet
<1> QED
  BY <1>2, <1>3

\* A caller that is told an outcome finds both events in the ledger.
THEOREM Told == Spec => []ToldIsRecorded
<1>1. Spec => []ToldInv
  BY ReceiptInvariant, ToldInit, ToldNext, PTL DEF Spec
<1>2. ToldInv => ToldIsRecorded
  BY DEF ToldInv, ToldIsRecorded, Recorded, Outcomes
<1> QED
  BY <1>1, <1>2, PTL

-----------------------------------------------------------------------------
\* The refinement of EffectOnce: packets are keys, the phase and the recorded
\* outcome come from the receipt, the effects from what the provider did.
RecordedOf(row) == IF row.result = None THEN {} ELSE {row.result}

LEMMA SameView ==
  ASSUME UNCHANGED receipt, \A p \in Packets : Performed(p)' = Performed(p)
  PROVE  UNCHANGED Effect!vars
  BY DEF Effect!vars, PhaseOf

LEMMA MapInit == Init => Effect!Init
  BY DEF Init, Effect!Init, PhaseOf, Performed, SentFor, NoReceipt

\* A packet's claimant is the only request whose call a provider may have run.
LEMMA PerformedOnce ==
  ASSUME ReceiptInv, NEW p \in Packets
  PROVE  /\ SentFor(p) \subseteq Claims(p)
         /\ \A r \in SentFor(p) :
              Performed(p) = IF executed[r] = None THEN {} ELSE {<<r, executed[r]>>}
<1>1. SentFor(p) \subseteq Claims(p)
  BY DEF ReceiptInv, TypeOK, CallsKnown, Claims, SentFor
<1> QED
  BY <1>1 DEF ReceiptInv, ClaimsUnique, Performed

\* A step that writes only the receipt of p maps to a step on key p.
LEMMA MapReceipt ==
  ASSUME ReceiptInv, NEW p \in Packets, NEW row \in Receipts,
         receipt' = [receipt EXCEPT ![p] = row],
         \A l \in Packets : Performed(l)' = Performed(l),
         \/ /\ PhaseOf(row) = PhaseOf(receipt[p])
            /\ RecordedOf(row) = RecordedOf(receipt[p])
         \/ /\ PhaseOf(receipt[p]) = "absent" /\ PhaseOf(row) = "claimed"
            /\ RecordedOf(row) = RecordedOf(receipt[p])
         \/ /\ PhaseOf(receipt[p]) = "claimed" /\ PhaseOf(row) = "unknown"
            /\ RecordedOf(row) = RecordedOf(receipt[p])
         \/ /\ PhaseOf(receipt[p]) = "claimed" /\ PhaseOf(row) = "known"
            /\ Performed(p) # {} /\ RecordedOf(row) = {OutcomeOf(o) : o \in Performed(p)}
  PROVE  [Effect!Next]_(Effect!vars)
<1> DEFINE ph == [l \in Packets |-> PhaseOf(receipt[l])]
           ef == [l \in Packets |-> Performed(l)]
           rc == [l \in Packets |-> RecordedOf(receipt[l])]
<1>1. receipt \in [Packets -> Receipts]
  BY DEF ReceiptInv, TypeOK
<1>2. /\ ph' = [ph EXCEPT ![p] = PhaseOf(row)] /\ UNCHANGED ef
      /\ rc' = [rc EXCEPT ![p] = RecordedOf(row)]
      /\ ph[p] = PhaseOf(receipt[p]) /\ rc[p] = RecordedOf(receipt[p]) /\ ef[p] = Performed(p)
  BY <1>1 DEF PhaseOf, RecordedOf
<1>3. /\ Effect!vars = <<ph, ef, rc>>
      /\ Effect!Claim(p) <=> /\ ph[p] = "absent" /\ ph' = [ph EXCEPT ![p] = "claimed"]
                             /\ UNCHANGED <<ef, rc>>
      /\ Effect!GiveUp(p) <=> /\ ph[p] = "claimed" /\ ph' = [ph EXCEPT ![p] = "unknown"]
                              /\ UNCHANGED <<ef, rc>>
      /\ Effect!Record(p) <=>
           /\ ph[p] \in {"claimed", "unknown"} /\ ef[p] # {}
           /\ ph' = [ph EXCEPT ![p] = "known"]
           /\ rc' = [rc EXCEPT ![p] = {OutcomeOf(o) : o \in ef[p]}]
           /\ UNCHANGED ef
  BY DEF Effect!vars, Effect!Claim, Effect!GiveUp, Effect!Record, RecordedOf
<1>4. Effect!vars' = <<ph, ef, rc>>'
  BY DEF Effect!vars, RecordedOf
<1>5. ph = [l \in Packets |-> ph[l]] /\ rc = [l \in Packets |-> rc[l]]
  OBVIOUS
<1>6. \A q \in Packets : Effect!Claim(q) \/ Effect!GiveUp(q) \/ Effect!Record(q) => Effect!Next
  BY DEF Effect!Next
<1>7. /\ PhaseOf(row) = ph[p] => UNCHANGED ph
      /\ RecordedOf(row) = rc[p] => UNCHANGED rc
  <2> HIDE DEF ph, ef, rc
  <2> QED
    BY <1>2, <1>5
<1> HIDE DEF ph, ef, rc
<1> QED
  BY <1>2, <1>3, <1>4, <1>6, <1>7

\* A step of the handler leaves what providers did as it is, except that the
\* dispatch makes a request count that no provider has run yet.
LEMMA SamePerformed ==
  ASSUME ReceiptInv, UNCHANGED executed,
         \/ UNCHANGED <<call, sent>>
         \/ \E r \in Requests : Dispatch(r)
         \/ \E r \in Requests, p \in Packets, proc \in Procs : Admit(r, p, proc)
  PROVE  \A p \in Packets : Performed(p)' = Performed(p)
<1> USE DEF Performed, SentFor, Packet
<1>1. CASE UNCHANGED <<call, sent>>
  BY <1>1
<1>2. ASSUME NEW r \in Requests, Dispatch(r) PROVE \A p \in Packets : Performed(p)' = Performed(p)
  <2>1. executed[r] = None \/ r \in sent
    BY DEF ReceiptInv, CallsKnown
  <2>2. sent' = sent \cup {r} /\ UNCHANGED call
    BY <1>2 DEF Dispatch
  <2> QED
    BY <2>1, <2>2
<1>3. ASSUME NEW r \in Requests, NEW p \in Packets, NEW proc \in Procs, Admit(r, p, proc)
      PROVE  \A l \in Packets : Performed(l)' = Performed(l)
  <2>1. r \notin sent /\ sent \subseteq Requests
    BY <1>3 DEF Admit, ReceiptInv, CallsKnown, TypeOK
  <2>2. sent' = sent /\ \A q \in Requests : q # r => call'[q] = call[q]
    BY <1>3 DEF Admit, world, ReceiptInv, TypeOK
  <2> QED
    BY <2>1, <2>2
<1> QED
  BY <1>1, <1>2, <1>3

LEMMA MapExecute ==
  ASSUME ReceiptInv, NEW r \in Requests, Execute(r)
  PROVE  [Effect!Next]_(Effect!vars)
<1>1. /\ r \in sent /\ executed[r] = None /\ call[r] # None /\ r \notin rejected
      /\ UNCHANGED <<call, receipt, sent>> /\ sent \subseteq Requests
      /\ executed \in [Requests -> Results \cup {None}]
  BY DEF Execute, ReceiptInv, TypeOK, CallsKnown, durable
<1>2. CASE UNCHANGED executed
  BY <1>1, <1>2, SamePerformed, SameView
<1>3. ASSUME NEW v \in Results, executed' = [executed EXCEPT ![r] = v]
      PROVE  [Effect!Next]_(Effect!vars)
  <2> PICK p \in Packets : p = Packet(r)
    BY <1>1, PacketType DEF ReceiptInv, TypeOK, Types
  <2>1. \A l \in Packets : SentFor(l)' = SentFor(l)
    BY <1>1 DEF SentFor, Packet
  <2>2. r \in SentFor(p) /\ \A l \in Packets : l # p => r \notin SentFor(l)
    BY <1>1 DEF SentFor
  <2>3. \A l \in Packets : l # p => Performed(l)' = Performed(l)
    BY <1>1, <1>3, <2>1, <2>2 DEF Performed, SentFor
  <2>4. \A q \in SentFor(p) : q = r
    BY <2>2, PerformedOnce DEF ReceiptInv, ClaimsUnique
  <2>5. Performed(p) = {} /\ Performed(p)' = {<<r, v>>}
    BY <1>1, <1>3, <2>1, <2>2, <2>4, NoneIsNothing DEF Performed
  <2>6. PhaseOf(receipt[p]) \in {"claimed", "unknown"}
    <3>1. r \in Claims(p)
      BY <2>2, PerformedOnce
    <3>2. receipt[p].state \notin {"absent", "STARTED"}
      BY <3>1 DEF ReceiptInv, ClaimsRecorded
    <3>3. receipt[p].state # "SUCCEEDED"
      BY <1>1, <3>1 DEF ReceiptInv, ResultFaithful, ClaimsUnique
    <3> QED
      BY <3>2, <3>3 DEF PhaseOf
  <2>7. [l \in Packets |-> Performed(l)]' =
          [[l \in Packets |-> Performed(l)] EXCEPT ![p] = {<<r, v>>}]
    BY <2>3, <2>5
  <2>8. <<r, v>> \in Requests \X Results
    OBVIOUS
  <2>9. UNCHANGED <<[l \in Packets |-> PhaseOf(receipt[l])],
                    [l \in Packets |-> IF receipt[l].result = None THEN {} ELSE {receipt[l].result}]>>
    BY <1>1 DEF PhaseOf
  <2>10. Effect!Occur(p)
    BY <2>5, <2>6, <2>7, <2>8, <2>9 DEF Effect!Occur
  <2> QED
    BY <2>10 DEF Effect!Next
<1> QED
  BY <1>2, <1>3 DEF Execute

LEMMA MapStep ==
  ASSUME ReceiptInv, NEW r \in Requests, Step(r)
  PROVE  [Effect!Next]_(Effect!vars)
<1> USE DEF durable, world
<1>1. Types /\ CallsKnown /\ ClaimantPending /\ ResultFaithful
  BY InvParts DEF Core
<1>2. \A q \in Packets : Performed(q)' = Performed(q)
  BY SamePerformed DEF Step, Hydrated, AppendStarted, Claim, Succeed, Fail, AppendOutcome,
     Dispatch
<1>3. CASE UNCHANGED receipt
  BY <1>2, <1>3, SameView
<1>4. ASSUME receipt' # receipt PROVE call[r] # None
  BY <1>1, <1>4 DEF Step, Hydrated, AppendStarted, Claim, Succeed, Fail, AppendOutcome,
     Dispatch, CallsKnown
<1>5. ASSUME receipt' # receipt PROVE Packet(r) \in Packets /\ receipt[Packet(r)] \in Receipts
  BY <1>1, <1>4, <1>5, PacketType DEF Types
<1>6. ASSUME NEW f \in Fingerprints, Hydrated(r, f), receipt' # receipt
      PROVE  [Effect!Next]_(Effect!vars)
  <2> DEFINE row == Row(f, "STARTED", "none", None)
  <2>1. receipt[Packet(r)].state = "absent" /\ receipt' = [receipt EXCEPT ![Packet(r)] = row]
    BY <1>6 DEF Hydrated
  <2>2. row \in Receipts
    BY RowType DEF States, Errors
  <2>3. PhaseOf(row) = PhaseOf(receipt[Packet(r)])
    BY <2>1 DEF PhaseOf, Row
  <2>4. RecordedOf(row) = RecordedOf(receipt[Packet(r)])
    BY <1>1, <1>5, <1>6, <2>1 DEF RecordedOf, Row, ResultFaithful
  <2> HIDE DEF row
  <2> QED
    BY <1>2, <1>5, <1>6, <2>1, <2>2, <2>3, <2>4, MapReceipt
<1>7. ASSUME Claim(r), receipt' # receipt PROVE [Effect!Next]_(Effect!vars)
  <2> DEFINE old == receipt[Packet(r)]
             row == Row(old.fingerprint, "UNCERTAIN", "pending", old.result)
  <2>1. old.state = "STARTED" /\ receipt' = [receipt EXCEPT ![Packet(r)] = row]
    BY <1>7 DEF Claim
  <2>2. row \in Receipts
    BY <1>5, <1>7, RowType DEF States, Errors
  <2>3. PhaseOf(old) = "absent" /\ PhaseOf(row) = "claimed" /\ RecordedOf(row) = RecordedOf(old)
    BY <2>1 DEF PhaseOf, RecordedOf, Row
  <2> HIDE DEF row
  <2> QED
    BY <1>2, <1>5, <1>7, <2>1, <2>2, <2>3, MapReceipt
<1>8. ASSUME Succeed(r) PROVE [Effect!Next]_(Effect!vars)
  <2> DEFINE old == receipt[Packet(r)]
             row == Row(old.fingerprint, "SUCCEEDED", "none", executed[r])
  <2>1. /\ receipt' = [receipt EXCEPT ![Packet(r)] = row]
        /\ executed[r] # None /\ r \in sent /\ call[r] # None /\ pc[r] = "inflight"
    BY <1>1, <1>8 DEF Succeed, CallsKnown
  <2>2. Packet(r) \in Packets /\ old \in Receipts
    BY <1>1, <2>1, PacketType DEF Types
  <2>3. row \in Receipts
    BY <1>1, <2>2, RowType DEF Types, States, Errors
  <2>4. /\ PhaseOf(old) = "claimed" /\ PhaseOf(row) = "known"
        /\ RecordedOf(row) = {executed[r]}
    BY <1>1, <2>1 DEF PhaseOf, RecordedOf, Row, ClaimantPending
  <2>5. Performed(Packet(r)) = {<<r, executed[r]>>}
    BY <2>1, <2>2, PerformedOnce DEF SentFor
  <2>6. {OutcomeOf(o) : o \in Performed(Packet(r))} = {executed[r]}
    BY <2>5 DEF OutcomeOf
  <2> HIDE DEF row
  <2> QED
    BY <1>2, <2>1, <2>2, <2>3, <2>4, <2>5, <2>6, MapReceipt
<1>9. ASSUME Fail(r) PROVE [Effect!Next]_(Effect!vars)
  <2> DEFINE old == receipt[Packet(r)]
             row(state, error) == Row(old.fingerprint, state, error, old.result)
  <2>1. call[r] # None /\ pc[r] = "inflight"
    BY <1>1, <1>9 DEF Fail, CallsKnown
  <2>2. Packet(r) \in Packets /\ old \in Receipts
    BY <1>1, <2>1, PacketType DEF Types
  <2>3. old.state = "UNCERTAIN" /\ PhaseOf(old) = "claimed"
    BY <1>1, <2>1 DEF ClaimantPending, PhaseOf
  <2>4. row("FAILED", "rejected") \in Receipts /\ row("UNCERTAIN", "ambiguous") \in Receipts
    BY <2>2, RowType DEF States, Errors
  <2>5. /\ PhaseOf(row("FAILED", "rejected")) = "unknown"
        /\ PhaseOf(row("UNCERTAIN", "ambiguous")) = "unknown"
        /\ RecordedOf(row("FAILED", "rejected")) = RecordedOf(old)
        /\ RecordedOf(row("UNCERTAIN", "ambiguous")) = RecordedOf(old)
    BY DEF PhaseOf, RecordedOf, Row
  <2>6. \/ receipt' = [receipt EXCEPT ![Packet(r)] = row("FAILED", "rejected")]
        \/ receipt' = [receipt EXCEPT ![Packet(r)] = row("UNCERTAIN", "ambiguous")]
    BY <1>9, <2>3 DEF Fail, Settle
  <2> HIDE DEF row
  <2> QED
    BY <1>2, <2>2, <2>3, <2>4, <2>5, <2>6, MapReceipt
<1>10. AppendStarted(r) \/ Dispatch(r) \/ AppendOutcome(r) => UNCHANGED receipt
  BY DEF AppendStarted, Dispatch, AppendOutcome
<1> QED
  BY <1>3, <1>6, <1>7, <1>8, <1>9, <1>10 DEF Step

LEMMA MapNext ==
  ASSUME ReceiptInv, [Next]_vars
  PROVE  [Effect!Next]_(Effect!vars)
<1>1. ASSUME NEW r \in Requests, NEW p \in Packets, NEW proc \in Procs, Admit(r, p, proc)
      PROVE  [Effect!Next]_(Effect!vars)
  BY <1>1, SamePerformed, SameView DEF Admit, durable, world
<1>2. ASSUME NEW p \in Procs, Crash(p) PROVE [Effect!Next]_(Effect!vars)
  BY <1>2, SamePerformed, SameView DEF Crash, durable, world
<1>3. CASE UNCHANGED vars
  BY <1>3, SamePerformed, SameView DEF vars, durable, world
<1> QED
  BY <1>1, <1>2, <1>3, MapStep, MapExecute DEF Next

\* The receipts of the Hub implement the at-most-once effect of a packet.
THEOREM Refinement == Spec => ImplementsEffectOnce
<1>1. ReceiptInv /\ [Next]_vars => [Effect!Next]_(Effect!vars)
  BY MapNext
<1> QED
  BY <1>1, MapInit, ReceiptInvariant, PTL DEF Spec, ImplementsEffectOnce, Effect!Spec
=============================================================================
