SPECIFICATION Spec
CONSTANTS
  Deliveries = {d1, d2, d3}
  Keys = {m, k}
  ManualKeys = {m}
  Bodies = {b1, b2}
  MaxVersion = 2
  MaxEdits = 1
  None = None
SYMMETRY Symmetry
INVARIANTS
  StartedIsRun
  RunIsReserved
  DuplicatesAgree
CHECK_DEADLOCK FALSE
