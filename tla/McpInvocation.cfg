SPECIFICATION Spec
CONSTANTS
  Requests = {r1, r2}
  Keys = {k1, k2}
  Ops = {o1, o2}
  Procs = {p1, p2}
  Results = {v1, v2}
  Excess = {FALSE, TRUE}
  None = None
  MaxCrashes = 1
  MaxPolicyChanges = 1
SYMMETRY Symmetry
INVARIANTS
  HonestReply
  GatedDispatchApproved
PROPERTIES
  ImplementsEffectOnce
CHECK_DEADLOCK FALSE
