---------------------------- MODULE SpendAccounts ----------------------------
(***************************************************************************)
(* The arithmetic of Connect's hosted spend budget (spend-budget.ts): what *)
(* an entry commits, what the day and the month of a request have          *)
(* committed, and whether one more reservation fits.  Amounts are whole    *)
(* micro-dollars, so the code's epsilon is not needed.                     *)
(***************************************************************************)
EXTENDS Integers, FiniteSets, FiniteSetsExt

CONSTANTS Calls,          \* hosted requests; each makes at most one reservation
          Reserves,       \* what an estimate may reserve
          Bills,          \* what a provider may bill
          Days,           \* UTC days of the requests
          DaysPerMonth,
          DailyUsd,       \* the limits; NoLimit when not configured
          MonthlyUsd,
          NoLimit

ASSUME CallsAreFinite == IsFiniteSet(Calls)
ASSUME AmountsAssumption == Reserves \subseteq Nat \ {0} /\ Bills \subseteq Nat
ASSUME PolicyAssumption ==
  /\ DailyUsd \in Nat \cup {NoLimit} /\ MonthlyUsd \in Nat \cup {NoLimit}
  /\ DailyUsd # NoLimit \/ MonthlyUsd # NoLimit
ASSUME DaysAssumption == Days \subseteq Nat /\ 0 \in Days /\ DaysPerMonth \in Nat \ {0}

Statuses == {"none", "reserved", "uncertain", "settled"}
Entry(status, r, a, d) == [status |-> status, reserved |-> r, actual |-> a, day |-> d]
Blank == Entry("none", 0, 0, 0)
Entries == [status : Statuses, reserved : Nat, actual : Nat, day : Days]
NoEntries == [c \in Calls |-> Blank]

\* Mutant: an uncertain call is taken for one that cost nothing.
CommittedConfirmed(e) ==
  IF e.status = "settled" THEN e.actual
  ELSE IF e.status = "uncertain" THEN 0 ELSE e.reserved

Committed(e) == IF e.status = "settled" THEN e.actual ELSE e.reserved
Month(d) == d \div DaysPerMonth
OfDay(book, d) == {c \in Calls : book[c].day = d}
OfMonth(book, d) == {c \in Calls : Month(book[c].day) = Month(d)}

CommittedOver(book, group) == MapThenSumSet(LAMBDA c : Committed(book[c]), group)

Within(limit, used) == limit # NoLimit => used <= limit

\* Mutant: the monthly limit is compared with the day.
FitsDay(book, r, d) ==
  /\ Within(DailyUsd, CommittedOver(book, OfDay(book, d)) + r)
  /\ Within(MonthlyUsd, CommittedOver(book, OfDay(book, d)) + r)

Fits(book, r, d) ==
  /\ Within(DailyUsd, CommittedOver(book, OfDay(book, d)) + r)
  /\ Within(MonthlyUsd, CommittedOver(book, OfMonth(book, d)) + r)

Reserved(book, c, r, d) == [book EXCEPT ![c] = Entry("reserved", r, 0, d)]
Settled(book, c, a) == [book EXCEPT ![c].status = "settled", ![c].actual = a]
Marked(book, c) == [book EXCEPT ![c].status = "uncertain"]
=============================================================================
