SPECIFICATION LedgerSpec
CONSTANTS
  Sessions = {s1, s2}
  EventIds = {e1, e2, e3, e4}
  Bodies = {b1, b2}
  Owners = {o1, o2}
  TopRank = 1
  Absent = Absent
SYMMETRY Symmetry
INVARIANTS
  LedgerVerifies
  RetryDeduplicated
  ReadIsSlice
PROPERTIES
  ImplementsEventLog
CHECK_DEADLOCK FALSE
