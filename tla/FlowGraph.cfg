SPECIFICATION GraphSpec
CONSTANTS
  Root = "root"
  Child = "child"
  Unset = Unset
  Plan <- MCPlan
  MaxParallel = 2
  MaxAttempts = 2
  MaxLost = 1
INVARIANTS
  OrderRespected
  GateRespected
  CompletedIsWhole
  WaitingIsDecidable
PROPERTIES
  RunEnds
CHECK_DEADLOCK FALSE
