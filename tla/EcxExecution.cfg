SPECIFICATION FairSpec
CONSTANTS
  Requests = {r1, r2}
  Packets = {p1, p2}
  Fingerprints = {f1, f2}
  Procs = {h1, h2}
  Results = {v1, v2}
  None = None
  MaxCrashes = 1
INVARIANTS
  ReceiptFaithful
  HistoryBacked
  ToldIsRecorded
PROPERTIES
  ImplementsEffectOnce
  EveryRequestAnswered
CHECK_DEADLOCK FALSE
