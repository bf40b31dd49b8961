CONSTANTS
  Ranks = {0, 1}
  MaxRequests = 2
  Plans <- MCPlans
  Steps = 1
  Limit = 1
  MaxFaults = 2
SPECIFICATION Spec
PROPERTY Reclaimed
CHECK_DEADLOCK FALSE
