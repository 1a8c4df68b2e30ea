SPECIFICATION MemorySpec
CONSTANTS
  Jobs = {j1, j2}
  Executions = {"o1"}
  Rollbacks = {"o2"}
  Episodes = {1}
  ProjectOf <- MCProjectOf
  Global = "global"
  Unassigned = "unassigned"
  Extractions <- MCExtractions
  Promotions <- MCPromotions
  Legacy <- NoLegacy
  ActionSets <- MCActionSets
  Times = {0, 1}
  None = None
  MaxFacts = 3
  MaxTurns = 2
SYMMETRY Interchangeable
INVARIANTS
  IntegrityKept
PROPERTIES
  NothingLost
CHECK_DEADLOCK FALSE
