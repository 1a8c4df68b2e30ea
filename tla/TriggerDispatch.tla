--------------------------- MODULE TriggerDispatch ---------------------------
(***************************************************************************)
(* How Flow turns one delivery into one run of a pinned graph version:     *)
(* POST /v1/triggers/:id/event and /v1/webhooks/:hookId (trigger-http.ts   *)
(* dispatchNormalizedEvent, with a receipt reserved before the start) and  *)
(* POST /v1/triggers/:id/fire (a receipt recorded after the start), over   *)
(* the receipt tables of trigger-repository.ts and Temporal.  A handler is *)
(* cut where it awaits: the Hub, the start, the describe.                  *)
(***************************************************************************)
EXTENDS Naturals, FiniteSets

CONSTANTS Deliveries,     \* HTTP requests, redeliveries included
          Keys,           \* dedupe keys of the event trigger, request ids of the manual one
          ManualKeys,
          Bodies,         \* digests of normalized events
          MaxVersion,     \* bound on graph versions a trigger is moved to
          MaxEdits,       \* bound on edits of the two triggers
          None

ASSUME KeysAssumption == ManualKeys \subseteq Keys
ASSUME BoundsAssumption == MaxVersion \in Nat \ {0} /\ MaxEdits \in Nat

VARIABLES
  trigger,    \* the rows of the manual and the event trigger
  receipt,    \* trigger_event_deliveries and trigger_manual_fires
  run,        \* Temporal: the executions of a key's workflow id
  req,        \* the handlers
  edits       \* edits so far

vars == <<trigger, receipt, run, req, edits>>

Kinds == {"manual", "event"}
Kind(k) == IF k \in ManualKeys THEN "manual" ELSE "event"
Versions == 1 .. MaxVersion

\* A row of trigger_manual_fires has neither a state nor a digest: here its state
\* is always STARTED and its body the one that was recorded, which no step reads.
Receipts == [state : {"PENDING", "STARTED"}, body : Bodies, version : Versions]
Runs == [count : Nat, open : BOOLEAN, version : Versions, body : Bodies]
Idle == [pc |-> "idle", key |-> None, body |-> None, version |-> None, said |-> None]
Live == {"authorizing", "starting", "unsure", "started"}
PCs == Live \cup {"answered", "refused", "conflict", "failed", "dead"}
Requests == [pc : PCs, key : Keys, body : Bodies, version : Versions,
             said : Versions \cup {None}]

Key(d) == req[d].key
IsManual(d) == Key(d) \in ManualKeys

ASSUME NoneAssumption ==
  None \notin Keys \cup Bodies \cup Versions \cup Receipts \cup Runs

\* Types; a manual fire is recorded only as started, and only the start of an
\* event is asked for again when its outcome is unknown.
TypeOK ==
  /\ trigger \in [Kinds -> [enabled : BOOLEAN, version : Versions]]
  /\ receipt \in [Keys -> Receipts \cup {None}]
  /\ run \in [Keys -> Runs \cup {None}]
  /\ req \in [Deliveries -> Requests \cup {Idle}]
  /\ \A k \in ManualKeys : receipt[k] # None => receipt[k].state = "STARTED"
  /\ \A d \in Deliveries : req[d].pc = "unsure" => ~ IsManual(d)
  /\ edits \in 0 .. MaxEdits

Init ==
  /\ trigger = [k \in Kinds |-> [enabled |-> TRUE, version |-> 1]]
  /\ receipt = [k \in Keys |-> None]
  /\ run = [k \in Keys |-> None]
  /\ req = [d \in Deliveries |-> Idle]
  /\ edits = 0

Goto(d, p) == req' = [req EXCEPT ![d].pc = p]
Say(d, v) == req' = [req EXCEPT ![d].pc = "answered", ![d].said = v]

-----------------------------------------------------------------------------
(* The handlers.                                                           *)

\* The trigger row is read, and with it the pinned version, before any await.
\* A manual fire that is on record is answered from the record.
Begin(d, k, b) ==
  /\ req[d] = Idle
  /\ LET row == trigger[Kind(k)]
         recorded == k \in ManualKeys /\ receipt[k] # None IN
     req' = [req EXCEPT ![d] =
               [pc |-> IF ~ row.enabled THEN "refused"
                       ELSE IF recorded THEN "answered" ELSE "authorizing",
                key |-> k, body |-> b, version |-> row.version,
                said |-> IF row.enabled /\ recorded THEN receipt[k].version ELSE None]]
  /\ UNCHANGED <<trigger, receipt, run, edits>>

\* Project, pinned graph version or Hub policy says no, or cannot be asked.
Deny(d) ==
  /\ req[d].pc = "authorizing"
  /\ Goto(d, "refused")
  /\ UNCHANGED <<trigger, receipt, run, edits>>

AuthorizedManual(d) ==
  /\ req[d].pc = "authorizing" /\ IsManual(d)
  /\ Goto(d, "starting")
  /\ UNCHANGED <<trigger, receipt, run, edits>>

\* Mutant: the digest of the reserved event is not compared.
ReserveAny(d) ==
  /\ req[d].pc = "authorizing" /\ ~ IsManual(d)
  /\ receipt' = IF receipt[Key(d)] # None THEN receipt
                ELSE [receipt EXCEPT ![Key(d)] =
                        [state |-> "PENDING", body |-> req[d].body, version |-> req[d].version]]
  /\ Goto(d, "starting")
  /\ UNCHANGED <<trigger, run, edits>>

\* INSERT OR IGNORE, then the row decides: another event under this key is a
\* conflict, a started one is answered, a pending one is started (again).
Reserve(d) ==
  /\ req[d].pc = "authorizing" /\ ~ IsManual(d)
  /\ LET k == Key(d)
         own == [state |-> "PENDING", body |-> req[d].body, version |-> req[d].version]
         row == IF receipt[k] = None THEN own ELSE receipt[k] IN
     /\ receipt' = [receipt EXCEPT ![k] = row]
     /\ \/ row.body # req[d].body /\ Goto(d, "conflict")
        \/ row.body = req[d].body /\ row.state = "STARTED" /\ Say(d, row.version)
        \/ row.body = req[d].body /\ row.state = "PENDING" /\ Goto(d, "starting")
  /\ UNCHANGED <<trigger, run, edits>>

\* Temporal accepts a start unless a run of the same workflow id is open.  The
\* answer may get lost.
Start(d) ==
  /\ req[d].pc = "starting"
  /\ LET k == Key(d) IN
     /\ run[k] # None => ~ run[k].open
     /\ run' = [run EXCEPT ![k] =
                  [count |-> IF run[k] = None THEN 1 ELSE run[k].count + 1, open |-> TRUE,
                   version |-> req[d].version, body |-> req[d].body]]
  /\ \E p \in {"started", IF IsManual(d) THEN "failed" ELSE "unsure"} : Goto(d, p)
  /\ UNCHANGED <<trigger, receipt, edits>>

\* The id is taken by an open run, or Temporal was not reached.
StartFails(d) ==
  /\ req[d].pc = "starting"
  /\ Goto(d, IF IsManual(d) THEN "failed" ELSE "unsure")
  /\ UNCHANGED <<trigger, receipt, run, edits>>

\* Mutant: a failed describe is taken for a started run.
DescribeOptimist(d) ==
  /\ req[d].pc = "unsure"
  /\ Goto(d, "started")
  /\ UNCHANGED <<trigger, receipt, run, edits>>

\* startGraphIdempotently: a run that exists, open or closed, counts as started.
Describe(d) ==
  /\ req[d].pc = "unsure"
  /\ \/ run[Key(d)] # None /\ Goto(d, "started")
     \/ Goto(d, "failed")
  /\ UNCHANGED <<trigger, receipt, run, edits>>

MarkStarted(d) ==
  /\ req[d].pc = "started" /\ ~ IsManual(d)
  /\ receipt' = [receipt EXCEPT ![Key(d)].state = "STARTED"]
  /\ Say(d, receipt[Key(d)].version)
  /\ UNCHANGED <<trigger, run, edits>>

\* Mutant: the answer is what this delivery asked for, not what is on record.
RecordManualOwn(d) ==
  /\ req[d].pc = "started" /\ IsManual(d)
  /\ LET k == Key(d)
         own == [state |-> "STARTED", body |-> req[d].body, version |-> req[d].version] IN
     /\ receipt' = [receipt EXCEPT ![k] = IF receipt[k] = None THEN own ELSE receipt[k]]
     /\ Say(d, req[d].version)
  /\ UNCHANGED <<trigger, run, edits>>

\* INSERT OR IGNORE, and the row that is there is the answer.
RecordManual(d) ==
  /\ req[d].pc = "started" /\ IsManual(d)
  /\ LET k == Key(d)
         own == [state |-> "STARTED", body |-> req[d].body, version |-> req[d].version]
         row == IF receipt[k] = None THEN own ELSE receipt[k] IN
     /\ receipt' = [receipt EXCEPT ![k] = row]
     /\ Say(d, row.version)
  /\ UNCHANGED <<trigger, run, edits>>

-----------------------------------------------------------------------------
(* Around them: a run ends, a trigger is edited, the service restarts.     *)

RunCloses(k) ==
  /\ run[k] # None /\ run[k].open
  /\ run' = [run EXCEPT ![k].open = FALSE]
  /\ UNCHANGED <<trigger, receipt, req, edits>>

\* The commit of PATCH, enable or disable on a trigger; a PATCH may pin any
\* version of the graph.
Edit(kind, enabled, v) ==
  /\ edits < MaxEdits
  /\ edits' = edits + 1
  /\ trigger' = [trigger EXCEPT ![kind] = [enabled |-> enabled, version |-> v]]
  /\ UNCHANGED <<receipt, run, req>>

Restart ==
  /\ \E d \in Deliveries : req[d].pc \in Live
  /\ req' = [d \in Deliveries |->
               IF req[d].pc \in Live THEN [req[d] EXCEPT !.pc = "dead"] ELSE req[d]]
  /\ UNCHANGED <<trigger, receipt, run, edits>>

Step(d) ==
  \/ \E k \in Keys, b \in Bodies : Begin(d, k, b)
  \/ Deny(d) \/ AuthorizedManual(d) \/ Reserve(d)
  \/ Start(d) \/ StartFails(d) \/ Describe(d)
  \/ MarkStarted(d) \/ RecordManual(d)

Next ==
  \/ \E d \in Deliveries : Step(d)
  \/ \E k \in Keys : RunCloses(k)
  \/ \E kind \in Kinds, e \in BOOLEAN, v \in Versions : Edit(kind, e, v)
  \/ Restart

Spec == Init /\ [][Next]_vars
-----------------------------------------------------------------------------
\* A receipt that says STARTED, and with it every answer, stands for a run that
\* Temporal knows, whatever got lost or died (trigger-http.ts:344-358, 634).
StartedIsRun ==
  /\ \A k \in Keys : receipt[k] # None => (receipt[k].state = "STARTED" => run[k] # None)
  /\ \A d \in Deliveries : req[d].pc = "answered" => run[Key(d)] # None

\* An event run carries the payload its key was reserved for: a delivery that
\* reuses a dedupe key for another event starts nothing
\* (docs/product-evolution-pe05-acceptance.md:102).
RunIsReserved ==
  \A k \in Keys \ ManualKeys : run[k] # None =>
    receipt[k] # None /\ run[k].body = receipt[k].body

\* Deliveries of one key are all told the same graph version
\* (docs/product-evolution-pe05-acceptance.md:101).
DuplicatesAgree ==
  \A d, e \in Deliveries :
    req[d].pc = "answered" /\ req[e].pc = "answered" /\ Key(d) = Key(e) =>
      req[d].said = req[e].said

\* A receipt is written once and then only becomes STARTED.
ReceiptFinal ==
  [][\A k \in Keys : receipt[k] # None =>
       \/ receipt'[k] = receipt[k]
       \/ receipt'[k] = [receipt[k] EXCEPT !.state = "STARTED"]]_vars

\* A delivery is run at most once, redeliveries and retries included: "first valid
\* delivery may dispatch exactly one pinned Flow execution"
\* (docs/product-evolution-pe05-acceptance.md:100), and for a manual fire "prevent
\* retry from creating a second logical dispatch" (pe03-acceptance.md:81).
OneRunPerKey == \A k \in Keys : run[k] # None => run[k].count = 1

\* Where a delivery led to one run, its answer names the graph version that runs:
\* "resolves to the same logical dispatch"
\* (docs/product-evolution-pe05-acceptance.md:101).
AnswerNamesRun ==
  \A d \in Deliveries :
    req[d].pc = "answered" /\ ~ IsManual(d) /\ run[Key(d)].count = 1 =>
      req[d].said = run[Key(d)].version
=============================================================================
