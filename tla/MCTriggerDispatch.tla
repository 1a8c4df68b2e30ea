-------------------------- MODULE MCTriggerDispatch --------------------------
\* TLC instances of TriggerDispatch.
EXTENDS TriggerDispatch, TLC

Symmetry == Permutations(Deliveries) \cup Permutations(Bodies)
=============================================================================
