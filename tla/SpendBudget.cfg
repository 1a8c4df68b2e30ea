SPECIFICATION FairSpec
CONSTANTS
  Calls = {c1, m}
  Adapters = {m}
  Candidates = 2
  Reserves = {2}
  Bills = {1, 3}
  Days = {0, 1, 2}
  DaysPerMonth = 2
  DailyUsd = 2
  MonthlyUsd = 3
  NoLimit = NoLimit
  NoCall = NoCall
INVARIANTS
  AdmittedWithinLimits
  DispatchedIsCounted
  TruthfulSettlement
PROPERTIES
  ImplementsSpendLedger
  EveryCallEnds
CHECK_DEADLOCK FALSE
