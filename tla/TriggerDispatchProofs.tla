------------------------ MODULE TriggerDispatchProofs ------------------------
(***************************************************************************)
(* Proofs about TriggerDispatch, for any number of deliveries, keys,       *)
(* bodies, versions and edits.  The invariant ties a handler's step to the *)
(* receipt of its key and to the runs Temporal knows.                      *)
(***************************************************************************)
EXTENDS TriggerDispatch, TLAPS

\* Once an event handler may start a run, the receipt of its key is its own
\* reservation or an earlier one for the same body; what is started or answered
\* is known to Temporal, and an answer repeats the receipt.
Agrees(d) ==
  /\ req[d].pc \in {"starting", "unsure", "started"} /\ ~ IsManual(d) =>
       receipt[Key(d)] # None /\ receipt[Key(d)].body = req[d].body
  /\ req[d].pc = "started" => run[Key(d)] # None
  /\ req[d].pc = "answered" =>
       /\ receipt[Key(d)] # None
       /\ receipt[Key(d)].state = "STARTED"
       /\ req[d].said = receipt[Key(d)].version

Known(k) == receipt[k] # None => (receipt[k].state = "STARTED" => run[k] # None)

Reserved(k) ==
  k \notin ManualKeys /\ run[k] # None => receipt[k] # None /\ run[k].body = receipt[k].body

\* The inductive invariant.
IInv ==
  /\ TypeOK
  /\ \A d \in Deliveries : Agrees(d)
  /\ \A k \in Keys : Known(k) /\ Reserved(k)

USE KeysAssumption, BoundsAssumption, NoneAssumption
USE DEF Kinds, Versions, Receipts, Runs, Idle, Live, PCs, Requests, Key, IsManual, Kind

LEMMA InitInv == Init => IInv
<1> SUFFICES ASSUME Init PROVE IInv
  OBVIOUS
<1>1. TypeOK
  BY DEF Init, TypeOK
<1>2. \A d \in Deliveries : Agrees(d)
  BY DEF Init, Agrees
<1>3. \A k \in Keys : Known(k) /\ Reserved(k)
  BY DEF Init, Known, Reserved
<1> QED
  BY <1>1, <1>2, <1>3 DEF IInv

\* A handler that is past its first step has a key, a body and a version.
LEMMA BusyRequest ==
  ASSUME TypeOK, NEW d \in Deliveries, req[d].pc # "idle"
  PROVE  req[d] \in Requests /\ Key(d) \in Keys
  BY DEF TypeOK

\* The steps that change the handlers alone.
LEMMA BeginInv ==
  ASSUME IInv, NEW d \in Deliveries, NEW k \in Keys, NEW b \in Bodies, Begin(d, k, b)
  PROVE  IInv'
<1> USE DEF IInv
<1>1. TypeOK'
  BY DEF TypeOK, Begin
<1>2. ASSUME NEW e \in Deliveries PROVE Agrees(e)'
  <2>1. CASE e = d
    BY <2>1 DEF TypeOK, Agrees, Begin, Known
  <2>2. CASE e # d
    BY <2>2 DEF TypeOK, Agrees, Begin
  <2> QED
    BY <2>1, <2>2
<1>3. ASSUME NEW j \in Keys PROVE Known(j)' /\ Reserved(j)'
  BY DEF Known, Reserved, Begin
<1> QED
  BY <1>1, <1>2, <1>3

\* A handler that only moves on, to a step whose claim holds already.
LEMMA GotoInv ==
  ASSUME IInv, NEW d \in Deliveries, NEW p \in PCs, req[d].pc # "idle", Goto(d, p),
         UNCHANGED <<trigger, receipt, run, edits>>,
         p = "answered" => FALSE,
         p = "unsure" => ~ IsManual(d),
         p = "started" => run[Key(d)] # None,
         p \in {"starting", "unsure", "started"} /\ ~ IsManual(d) =>
           receipt[Key(d)] # None /\ receipt[Key(d)].body = req[d].body
  PROVE  IInv'
<1> USE DEF IInv, Goto
<1>1. req[d] \in Requests /\ Key(d) \in Keys
  BY BusyRequest
<1>2. TypeOK'
  BY <1>1 DEF TypeOK
<1>3. ASSUME NEW e \in Deliveries PROVE Agrees(e)'
  BY <1>1 DEF TypeOK, Agrees
<1>4. ASSUME NEW j \in Keys PROVE Known(j)' /\ Reserved(j)'
  BY DEF Known, Reserved
<1> QED
  BY <1>2, <1>3, <1>4

LEMMA ReserveInv ==
  ASSUME IInv, NEW d \in Deliveries, Reserve(d)
  PROVE  IInv'
<1> USE DEF IInv
<1> DEFINE k == Key(d)
           own == [state |-> "PENDING", body |-> req[d].body, version |-> req[d].version]
           row == IF receipt[k] = None THEN own ELSE receipt[k]
<1>1. /\ req[d] \in Requests /\ k \in Keys /\ k \notin ManualKeys /\ req[d].pc = "authorizing"
      /\ row \in Receipts /\ row # None /\ receipt' = [receipt EXCEPT ![k] = row]
      /\ UNCHANGED <<trigger, run, edits>>
  <2>1. req[d] \in Requests /\ k \in Keys
    BY BusyRequest DEF Reserve
  <2> QED
    BY <2>1 DEF Reserve, TypeOK
<1>2. \/ row.body # req[d].body /\ Goto(d, "conflict")
      \/ row.body = req[d].body /\ row.state = "STARTED" /\ Say(d, row.version)
      \/ row.body = req[d].body /\ row.state = "PENDING" /\ Goto(d, "starting")
  BY DEF Reserve
<1>3. \A j \in Keys : receipt[j] # None => receipt'[j] = receipt[j]
  BY <1>1 DEF TypeOK
<1>4. receipt'[k] = row
  BY <1>1 DEF TypeOK
<1> HIDE DEF row, k
<1>5. TypeOK'
  <2>1. receipt' \in [Keys -> Receipts \cup {None}] /\ req' \in [Deliveries -> Requests \cup {Idle}]
    BY <1>1, <1>2 DEF TypeOK, Goto, Say
  <2>2. \A j \in ManualKeys : receipt'[j] # None => receipt'[j].state = "STARTED"
    BY <1>1 DEF TypeOK
  <2>3. ASSUME NEW e \in Deliveries, req'[e].pc = "unsure" PROVE ~ IsManual(e)'
    BY <1>1, <1>2, <2>3 DEF TypeOK, Goto, Say
  <2> QED
    BY <1>1, <2>1, <2>2, <2>3 DEF TypeOK
<1>6. ASSUME NEW e \in Deliveries PROVE Agrees(e)'
  <2>1. CASE e = d
    <3>1. Key(e)' = k /\ req'[e].body = req[d].body
      BY <1>1, <1>2, <2>1 DEF TypeOK, Goto, Say, k
    <3>2. CASE row.body # req[d].body /\ Goto(d, "conflict")
      BY <1>1, <2>1, <3>2 DEF TypeOK, Goto, Agrees
    <3>3. CASE row.body = req[d].body /\ row.state = "STARTED" /\ Say(d, row.version)
      BY <1>1, <1>4, <2>1, <3>1, <3>3 DEF TypeOK, Say, Agrees
    <3>4. CASE row.body = req[d].body /\ row.state = "PENDING" /\ Goto(d, "starting")
      BY <1>1, <1>4, <2>1, <3>1, <3>4 DEF TypeOK, Goto, Agrees
    <3> QED
      BY <1>2, <3>2, <3>3, <3>4
  <2>2. CASE e # d
    <3>1. req'[e] = req[e]
      BY <1>2, <2>2 DEF TypeOK, Goto, Say
    <3>2. req[e].pc # "idle" => Key(e) \in Keys
      BY BusyRequest
    <3> QED
      BY <1>1, <1>3, <3>1, <3>2 DEF Agrees, TypeOK
  <2> QED
    BY <2>1, <2>2
<1>7. ASSUME NEW j \in Keys PROVE Known(j)' /\ Reserved(j)'
  <2>1. CASE j = k /\ receipt[j] = None
    <3>1. row.state = "PENDING" /\ run[j] = None
      BY <1>1, <2>1 DEF row, k, Reserved
    <3> QED
      BY <1>1, <1>4, <2>1, <3>1 DEF Known, Reserved
  <2>2. CASE receipt'[j] = receipt[j]
    BY <1>1, <2>2 DEF Known, Reserved
  <2> QED
    BY <1>1, <1>3, <2>1, <2>2 DEF TypeOK
<1> QED
  BY <1>5, <1>6, <1>7

\* Only a handler with a matching reservation starts an event, so the run it
\* puts in the place of a closed one carries the reserved body again.
LEMMA StartInv ==
  ASSUME IInv, NEW d \in Deliveries, Start(d)
  PROVE  IInv'
<1> USE DEF IInv
<1> DEFINE k == Key(d)
<1>1. req[d] \in Requests /\ k \in Keys /\ req[d].pc = "starting"
  BY BusyRequest DEF Start
<1>2. PICK r \in Runs : run' = [run EXCEPT ![k] = r] /\ r.body = req[d].body /\ r # None
  <2> DEFINE r == [count |-> IF run[k] = None THEN 1 ELSE run[k].count + 1, open |-> TRUE,
                   version |-> req[d].version, body |-> req[d].body]
  <2>1. (IF run[k] = None THEN 1 ELSE run[k].count + 1) \in Nat
    BY <1>1 DEF TypeOK
  <2>2. r \in Runs
    BY <1>1, <2>1
  <2> QED
    BY <2>2 DEF Start
<1>3. PICK p \in {"started", IF IsManual(d) THEN "failed" ELSE "unsure"} : Goto(d, p)
  BY DEF Start
<1>4. UNCHANGED <<trigger, receipt, edits>>
  BY DEF Start
<1>5. \A j \in Keys : run[j] # None => run'[j] # None
  BY <1>1, <1>2 DEF TypeOK
<1>6. run'[k] # None
  BY <1>1, <1>2 DEF TypeOK
<1> HIDE DEF k
<1>7. TypeOK'
  BY <1>1, <1>2, <1>3, <1>4 DEF TypeOK, Goto, k
<1>8. ASSUME NEW e \in Deliveries PROVE Agrees(e)'
  <2>1. CASE e = d
    BY <1>1, <1>3, <1>4, <1>6, <2>1 DEF TypeOK, Agrees, Goto, k
  <2>2. CASE e # d
    <3>1. req'[e] = req[e]
      BY <1>3, <2>2 DEF TypeOK, Goto
    <3>2. req[e].pc # "idle" => Key(e) \in Keys
      BY BusyRequest
    <3> QED
      BY <1>4, <1>5, <3>1, <3>2 DEF Agrees
  <2> QED
    BY <2>1, <2>2
<1>9. ASSUME NEW j \in Keys PROVE Known(j)' /\ Reserved(j)'
  <2>1. Known(j)'
    BY <1>4, <1>5 DEF Known
  <2>2. CASE j = k
    BY <1>1, <1>2, <1>4, <2>1, <2>2 DEF TypeOK, Reserved, Agrees, k
  <2>3. CASE j # k
    BY <1>1, <1>2, <1>4, <2>1, <2>3 DEF TypeOK, Reserved
  <2> QED
    BY <2>2, <2>3
<1> QED
  BY <1>7, <1>8, <1>9

\* A step that leaves the receipt of its key STARTED and says what is in it.
LEMMA SayInv ==
  ASSUME IInv, NEW d \in Deliveries, req[d].pc = "started", NEW row \in Receipts,
         row # None, row.state = "STARTED",
         receipt[Key(d)] # None => row.body = receipt[Key(d)].body /\ row.version = receipt[Key(d)].version,
         receipt[Key(d)] = None => IsManual(d),
         receipt' = [receipt EXCEPT ![Key(d)] = row], Say(d, row.version),
         UNCHANGED <<trigger, run, edits>>
  PROVE  IInv'
<1> USE DEF IInv
<1> DEFINE k == Key(d)
<1>1. req[d] \in Requests /\ k \in Keys /\ run[k] # None
  BY BusyRequest DEF Agrees
<1>2. receipt'[k] = row /\ \A j \in Keys : j # k => receipt'[j] = receipt[j]
  BY <1>1 DEF TypeOK
<1>3. TypeOK'
  BY <1>1 DEF TypeOK, Say
<1>4. ASSUME NEW e \in Deliveries PROVE Agrees(e)'
  <2>1. CASE e = d
    BY <1>1, <1>2, <2>1 DEF TypeOK, Say, Agrees
  <2>2. CASE e # d
    <3>1. req'[e] = req[e]
      BY <2>2 DEF TypeOK, Say
    <3>2. req[e].pc # "idle" => Key(e) \in Keys
      BY BusyRequest
    <3>3. CASE Key(e) = k
      BY <1>1, <1>2, <3>1, <3>3 DEF Agrees
    <3>4. CASE Key(e) # k
      BY <1>2, <3>1, <3>2, <3>4 DEF Agrees
    <3> QED
      BY <3>3, <3>4
  <2> QED
    BY <2>1, <2>2
<1>5. ASSUME NEW j \in Keys PROVE Known(j)' /\ Reserved(j)'
  <2>1. CASE j = k
    BY <1>1, <1>2, <2>1 DEF Known, Reserved
  <2>2. CASE j # k
    BY <1>2, <2>2 DEF Known, Reserved
  <2> QED
    BY <2>1, <2>2
<1> QED
  BY <1>3, <1>4, <1>5

LEMMA MarkStartedInv ==
  ASSUME IInv, NEW d \in Deliveries, MarkStarted(d)
  PROVE  IInv'
<1> DEFINE row == [receipt[Key(d)] EXCEPT !.state = "STARTED"]
<1>1. req[d].pc = "started" /\ ~ IsManual(d) /\ receipt[Key(d)] # None /\ Key(d) \in Keys
  BY BusyRequest DEF MarkStarted, IInv, Agrees
<1>2. receipt[Key(d)] \in Receipts
  BY <1>1 DEF IInv, TypeOK
<1>3. /\ row \in Receipts /\ row # None /\ row.state = "STARTED"
      /\ row.body = receipt[Key(d)].body /\ row.version = receipt[Key(d)].version
  BY <1>2
<1>4. receipt' = [receipt EXCEPT ![Key(d)] = row] /\ Say(d, row.version)
  BY <1>3 DEF MarkStarted
<1>5. UNCHANGED <<trigger, run, edits>>
  BY DEF MarkStarted
<1> HIDE DEF row
<1> QED
  BY <1>1, <1>3, <1>4, <1>5, SayInv

LEMMA RecordManualInv ==
  ASSUME IInv, NEW d \in Deliveries, RecordManual(d)
  PROVE  IInv'
<1> DEFINE own == [state |-> "STARTED", body |-> req[d].body, version |-> req[d].version]
           row == IF receipt[Key(d)] = None THEN own ELSE receipt[Key(d)]
<1>1. /\ req[d].pc = "started" /\ IsManual(d) /\ Key(d) \in Keys /\ req[d] \in Requests
  BY BusyRequest DEF RecordManual, IInv
<1>2. own \in Receipts
  BY <1>1
<1>3. row \in Receipts /\ row # None /\ row.state = "STARTED"
  BY <1>1, <1>2 DEF IInv, TypeOK
<1>4. receipt' = [receipt EXCEPT ![Key(d)] = row] /\ Say(d, row.version)
  BY DEF RecordManual
<1>5. UNCHANGED <<trigger, run, edits>>
  BY DEF RecordManual
<1>6. receipt[Key(d)] # None => row = receipt[Key(d)]
  OBVIOUS
<1> HIDE DEF row
<1> QED
  BY <1>1, <1>3, <1>4, <1>5, <1>6, SayInv

LEMMA RunClosesInv ==
  ASSUME IInv, NEW k \in Keys, RunCloses(k)
  PROVE  IInv'
<1> USE DEF IInv
<1>1. /\ run' = [run EXCEPT ![k].open = FALSE] /\ run[k] \in Runs
      /\ UNCHANGED <<trigger, receipt, req, edits>>
  BY DEF RunCloses, TypeOK
<1>2. \A j \in Keys : /\ run[j] # None <=> run'[j] # None
                      /\ run'[j] # None => run'[j].body = run[j].body
  BY <1>1 DEF TypeOK
<1>3. TypeOK'
  BY <1>1 DEF TypeOK
<1>4. ASSUME NEW e \in Deliveries PROVE Agrees(e)'
  BY <1>1, <1>2, BusyRequest DEF Agrees
<1>5. ASSUME NEW j \in Keys PROVE Known(j)' /\ Reserved(j)'
  BY <1>1, <1>2 DEF Known, Reserved
<1> QED
  BY <1>3, <1>4, <1>5

\* An edit reaches no handler that has read its trigger, and no receipt.
LEMMA EditInv ==
  ASSUME IInv, NEW kind \in Kinds, NEW on \in BOOLEAN, NEW v \in Versions, Edit(kind, on, v)
  PROVE  IInv'
<1> USE DEF IInv
<1>1. TypeOK'
  BY DEF TypeOK, Edit
<1>2. ASSUME NEW e \in Deliveries PROVE Agrees(e)'
  BY DEF Agrees, Edit
<1>3. ASSUME NEW j \in Keys PROVE Known(j)' /\ Reserved(j)'
  BY DEF Known, Reserved, Edit
<1> QED
  BY <1>1, <1>2, <1>3

LEMMA RestartInv ==
  ASSUME IInv, Restart
  PROVE  IInv'
<1> USE DEF IInv
<1>1. \A e \in Deliveries :
        IF req[e].pc \in Live THEN req'[e] = [req[e] EXCEPT !.pc = "dead"] ELSE req'[e] = req[e]
  BY DEF Restart
<1>2. TypeOK'
  BY <1>1 DEF TypeOK, Restart
<1>3. ASSUME NEW e \in Deliveries PROVE Agrees(e)'
  BY <1>1 DEF TypeOK, Agrees, Restart
<1>4. ASSUME NEW j \in Keys PROVE Known(j)' /\ Reserved(j)'
  BY DEF Known, Reserved, Restart
<1> QED
  BY <1>2, <1>3, <1>4

LEMMA StepInv ==
  ASSUME IInv, NEW d \in Deliveries, Step(d)
  PROVE  IInv'
<1>1. CASE \E k \in Keys, b \in Bodies : Begin(d, k, b)
  BY <1>1, BeginInv
<1>2. CASE Deny(d)
  BY <1>2, GotoInv DEF Deny
<1>3. CASE AuthorizedManual(d)
  BY <1>3, GotoInv DEF AuthorizedManual
<1>4. CASE Reserve(d)
  BY <1>4, ReserveInv
<1>5. CASE Start(d)
  BY <1>5, StartInv
<1>6. CASE StartFails(d)
  <2> DEFINE p == IF IsManual(d) THEN "failed" ELSE "unsure"
  <2>1. /\ req[d].pc = "starting" /\ Goto(d, p) /\ UNCHANGED <<trigger, receipt, run, edits>>
    BY <1>6 DEF StartFails
  <2>2. p \in PCs /\ p # "answered" /\ p # "started" /\ (p = "unsure" => ~ IsManual(d))
        /\ (p \in {"starting", "unsure", "started"} => p = "unsure")
    OBVIOUS
  <2>3. ~ IsManual(d) => receipt[Key(d)] # None /\ receipt[Key(d)].body = req[d].body
    BY <2>1 DEF IInv, Agrees
  <2> HIDE DEF p
  <2> QED
    BY <2>1, <2>2, <2>3, GotoInv
<1>7. CASE Describe(d)
  <2>1. req[d].pc = "unsure" /\ ~ IsManual(d) /\ UNCHANGED <<trigger, receipt, run, edits>>
    BY <1>7 DEF Describe, IInv, TypeOK
  <2>2. receipt[Key(d)] # None /\ receipt[Key(d)].body = req[d].body
    BY <2>1 DEF IInv, Agrees
  <2>3. \/ run[Key(d)] # None /\ Goto(d, "started")
        \/ Goto(d, "failed")
    BY <1>7 DEF Describe
  <2> QED
    BY <2>1, <2>2, <2>3, GotoInv
<1>8. CASE MarkStarted(d)
  BY <1>8, MarkStartedInv
<1>9. CASE RecordManual(d)
  BY <1>9, RecordManualInv
<1> QED
  BY <1>1, <1>2, <1>3, <1>4, <1>5, <1>6, <1>7, <1>8, <1>9 DEF Step

LEMMA NextInv == IInv /\ [Next]_vars => IInv'
<1> SUFFICES ASSUME IInv, [Next]_vars PROVE IInv'
  OBVIOUS
<1>1. CASE \E d \in Deliveries : Step(d)
  BY <1>1, StepInv
<1>2. CASE \E k \in Keys : RunCloses(k)
  BY <1>2, RunClosesInv
<1>3. CASE \E kind \in Kinds, e \in BOOLEAN, v \in Versions : Edit(kind, e, v)
  BY <1>3, EditInv
<1>4. CASE Restart
  BY <1>4, RestartInv
<1>5. CASE UNCHANGED vars
  BY <1>5 DEF vars, IInv, TypeOK, Agrees, Known, Reserved
<1> QED
  BY <1>1, <1>2, <1>3, <1>4, <1>5 DEF Next

\* The inductive invariant of dispatching: handlers, receipts and runs agree.
THEOREM DispatchInvariant == Spec => []IInv
  BY InitInv, NextInv, PTL DEF Spec

\* Types; a manual receipt is never pending.
THEOREM TypeCorrect == Spec => []TypeOK
<1>1. IInv => TypeOK
  BY DEF IInv
<1> QED
  BY <1>1, DispatchInvariant, PTL

\* What a receipt calls started, or an answer claims, is a run that exists,
\* whatever answers were lost and however often the service restarted.
THEOREM Started == Spec => []StartedIsRun
<1>1. IInv => StartedIsRun
  <2> SUFFICES ASSUME IInv PROVE StartedIsRun
    OBVIOUS
  <2>1. \A k \in Keys : receipt[k] # None => (receipt[k].state = "STARTED" => run[k] # None)
    BY DEF IInv, Known
  <2>2. ASSUME NEW d \in Deliveries, req[d].pc = "answered" PROVE run[Key(d)] # None
    BY <2>1, <2>2, BusyRequest DEF IInv, Agrees
  <2> QED
    BY <2>1, <2>2 DEF StartedIsRun
<1> QED
  BY <1>1, DispatchInvariant, PTL

\* A dedupe key only ever runs the event it was reserved for.
THEOREM ReservedRuns == Spec => []RunIsReserved
<1>1. IInv => RunIsReserved
  BY DEF IInv, Reserved, RunIsReserved
<1> QED
  BY <1>1, DispatchInvariant, PTL

\* All deliveries of a key are answered alike.
THEOREM SameAnswer == Spec => []DuplicatesAgree
<1>1. IInv => DuplicatesAgree
  BY DEF IInv, Agrees, DuplicatesAgree
<1> QED
  BY <1>1, DispatchInvariant, PTL

\* A receipt keeps its event and version; only its state moves, to STARTED.
THEOREM Final == Spec => ReceiptFinal
<1> DEFINE Keeps(k) == receipt[k] # None =>
       \/ receipt'[k] = receipt[k]
       \/ receipt'[k] = [receipt[k] EXCEPT !.state = "STARTED"]
           KeepsAll == \A k \in Keys : Keeps(k)
<1>1. IInv /\ [Next]_vars => [KeepsAll]_vars
  <2> SUFFICES ASSUME IInv, [Next]_vars, NEW k \in Keys PROVE Keeps(k)
    OBVIOUS
  <2>1. ASSUME NEW d \in Deliveries, Reserve(d) PROVE Keeps(k)
    BY <2>1 DEF Reserve, IInv, TypeOK
  <2>2. ASSUME NEW d \in Deliveries, MarkStarted(d) PROVE Keeps(k)
    BY <2>2 DEF MarkStarted, IInv, TypeOK
  <2>3. ASSUME NEW d \in Deliveries, RecordManual(d) PROVE Keeps(k)
    BY <2>3 DEF RecordManual, IInv, TypeOK
  <2>4. CASE UNCHANGED receipt
    BY <2>4
  <2>5. Next => \/ UNCHANGED receipt
                \/ \E d \in Deliveries : Reserve(d) \/ MarkStarted(d) \/ RecordManual(d)
    BY DEF Next, Step, Begin, Deny, AuthorizedManual, Start, StartFails, Describe,
           RunCloses, Edit, Restart
  <2> QED
    BY <2>1, <2>2, <2>3, <2>4, <2>5 DEF vars
<1> QED
  BY <1>1, DispatchInvariant, PTL DEF Spec, ReceiptFinal
=============================================================================
