------------------------------ MODULE EventLog ------------------------------
(***************************************************************************)
(* What the Historical Ledger promises (ADR-18, the B6 checkpoint): one    *)
(* append-only sequence of events per session, in which every event id     *)
(* occurs once in the whole ledger and nothing is ever rewritten, and a    *)
(* session whose classification only becomes more restrictive.  No tables, *)
(* no archive, no sequence numbers and no hashes: those are the business   *)
(* of HistoryLedger, which implements this module.                         *)
(***************************************************************************)
EXTENDS Naturals, Sequences

CONSTANTS Sessions,
          Drafts,         \* what a caller asks to append
          IdOf(_),        \* its event id
          Classes,        \* scope, sensitivity and sync class of a session
          Narrows(_, _),  \* the second class is at least as restrictive
          None            \* the class of a session that does not exist

VARIABLES log, class

vars == <<log, class>>

Init == log = [s \in Sessions |-> <<>>] /\ class = [s \in Sessions |-> None]

IdsOf(drafts) == {IdOf(drafts[i]) : i \in DOMAIN drafts}
Used == UNION {IdsOf(log[s]) : s \in Sessions}

Create(s, c) ==
  /\ class[s] = None
  /\ class' = [class EXCEPT ![s] = c]
  /\ UNCHANGED log

Narrow(s, c) ==
  /\ class[s] # None /\ Narrows(class[s], c)
  /\ class' = [class EXCEPT ![s] = c]
  /\ UNCHANGED log

\* A batch is appended as a whole or not at all.
Extend(s, drafts) ==
  /\ class[s] # None
  /\ IdsOf(drafts) \cap Used = {}
  /\ \A i, j \in DOMAIN drafts : IdOf(drafts[i]) = IdOf(drafts[j]) => i = j
  /\ log' = [log EXCEPT ![s] = @ \o drafts]
  /\ UNCHANGED class

Next ==
  \E s \in Sessions :
    \/ \E c \in Classes : Create(s, c) \/ Narrow(s, c)
    \/ \E d \in Drafts : Extend(s, <<d>>)
    \/ \E d1, d2 \in Drafts : Extend(s, <<d1, d2>>)

Spec == Init /\ [][Next]_vars
=============================================================================
