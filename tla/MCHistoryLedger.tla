--------------------------- MODULE MCHistoryLedger ---------------------------
\* TLC instances of HistoryLedger.
EXTENDS HistoryLedger, TLC

Symmetry == Permutations(Sessions) \cup Permutations(EventIds) \cup
            Permutations(Bodies) \cup Permutations(Owners)
=============================================================================
