SPECIFICATION Spec
CONSTANTS
  Span = 1
  MaxBudget = 2
  Limit = 0
  FileErrors = {"write", "remove"}
  MaxRuns = 3
INVARIANTS ExtensionRestartsSchedule
CHECK_DEADLOCK FALSE
