SPECIFICATION Spec
CONSTANTS
  Nodes = {n1}
  None = None
  MaxAttempts = 3
  MaxFailures = 1
  MaxCrashes = 1
INVARIANTS
  RepeatsOnlyUnrecorded
  SuccessIsProven
PROPERTIES
  ImplementsLease
  LeaseReleased
CHECK_DEADLOCK FALSE
