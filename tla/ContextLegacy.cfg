SPECIFICATION MemorySpec
CONSTANTS
  Jobs = {j1, j2}
  Executions = {"o1"}
  Rollbacks = {"o2"}
  Episodes = {1, 2}
  ProjectOf <- LegacyProjectOf
  Global = "global"
  Unassigned = "unassigned"
  Extractions <- MCExtractions
  Promotions <- MCPromotions
  Legacy <- LegacyFacts
  ActionSets <- MCActionSets
  Times = {0, 1}
  None = None
  MaxFacts = 3
  MaxTurns = 2
SYMMETRY Interchangeable
INVARIANTS
  AmbiguousStaysUnassigned
CHECK_DEADLOCK FALSE
