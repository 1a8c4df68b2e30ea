--------------------------- MODULE RightsRegister ---------------------------
(***************************************************************************)
(* What the Hub promises about authority: after the one founding migration *)
(* a right is widened only under a key that a human approved and whose     *)
(* result is not recorded yet; everything else only takes rights away.     *)
(***************************************************************************)
EXTENDS Naturals

CONSTANTS Keys, Subjects, Perms

VARIABLES approved,   \* keys of mutations a human approved
          settled,    \* keys whose result is recorded
          founded,    \* the baseline migration has run
          rights      \* rights[s][p]: how sensitive data s may use p for; 0: none

vars == <<approved, settled, founded, rights>>

Narrower(r, q) == \A s \in Subjects, p \in Perms : r[s][p] <= q[s][p]

Init == approved = {} /\ settled = {} /\ founded \in BOOLEAN /\ rights \in [Subjects -> [Perms -> {0}]]

Found == ~founded /\ founded' = TRUE /\ UNCHANGED <<approved, settled>>

Approve(k) == approved' = approved \cup {k} /\ UNCHANGED <<settled, founded, rights>>

\* Applying a mutation leaves its key open until the result is recorded.
Apply(k) == k \in approved \ settled /\ UNCHANGED <<approved, settled, founded>>

Settle(k) ==
  k \in approved /\ settled' = settled \cup {k} /\ UNCHANGED <<approved, founded, rights>>

Withdraw == Narrower(rights', rights) /\ UNCHANGED <<approved, settled, founded>>

Next == Found \/ Withdraw \/ \E k \in Keys : Approve(k) \/ Apply(k) \/ Settle(k)

Spec == Init /\ [][Next]_vars
=============================================================================
