SPECIFICATION PretrainingSpec
CONSTANTS
  Span = 2
  MaxBudget = 2
  Limit = 2
  FileErrors = {"remove"}
  MaxRuns = 3
  Inputs = {1, 2}
  Scarce = {2}
  MaxSessions = 3
INVARIANTS RunResumable SchedulesFit RetentionSafe
  PreparedIsWhole ReportConstructs
PROPERTY BoundDataKept
CHECK_DEADLOCK FALSE
