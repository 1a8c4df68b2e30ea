SPECIFICATION Spec
CONSTANTS
  Triggers = {t1}
  Edits = {e1, e2}
  Contents = {"c", "d"}
  None = None
  MaxFailures = 1
  MaxCrashes = 1
  MaxOccurrences = 1
  MaxRevision = 3
INVARIANTS
  DefinitionScheduled
  SettledAgrees
PROPERTIES
  RestartRepairs
CHECK_DEADLOCK FALSE
