----------------------------- MODULE SpendLedger -----------------------------
(***************************************************************************)
(* What the spend budget promises (ADR-21): one ledger in which a          *)
(* reservation is admitted against everything already committed, stays     *)
(* counted until its provider states a cost, and is settled once.  No      *)
(* files, no locks, no snapshots, no crashes: SpendBudget has those and    *)
(* implements this module.                                                 *)
(***************************************************************************)
EXTENDS Naturals

CONSTANTS Calls, Reserves, Bills, Days,
          Fits(_, _, _)   \* may this ledger admit an amount on a day

VARIABLE ledger

Init ==
  ledger = [c \in Calls |-> [status |-> "none", reserved |-> 0, actual |-> 0, day |-> 0]]

Reserve(c, r, d) ==
  /\ ledger[c].status = "none"
  /\ Fits(ledger, r, d)
  /\ ledger' = [ledger EXCEPT ![c] =
                  [status |-> "reserved", reserved |-> r, actual |-> 0, day |-> d]]

Settle(c, a) ==
  /\ ledger[c].status \in {"reserved", "uncertain"}
  /\ ledger' = [ledger EXCEPT ![c].status = "settled", ![c].actual = a]

MarkUncertain(c) ==
  /\ ledger[c].status = "reserved"
  /\ ledger' = [ledger EXCEPT ![c].status = "uncertain"]

Next ==
  \E c \in Calls :
    \/ \E r \in Reserves, d \in Days : Reserve(c, r, d)
    \/ \E a \in Bills : Settle(c, a)
    \/ MarkUncertain(c)

Spec == Init /\ [][Next]_ledger
=============================================================================
