SPECIFICATION Spec
CONSTANTS
  Requests = {r1, r2}
  Packets = {1, 2, 3}
  Delegations = {"f", "full", "delta"}
  Plan <- AllPlan
  Mode <- AllMode
  Replies = {"v", "w"}
  None = None
  MaxCrashes = 1
INVARIANTS
  ContinuesOnWhole
  SuccessIsTrue
  EventsBacked
PROPERTIES
  RequestsAnswered
CHECK_DEADLOCK FALSE
