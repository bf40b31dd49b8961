CONSTANTS
  Ranks = {0, 1}
  MaxRequests = 2
  Plans <- MCPlans
  Steps = 1
  Limit = 1
  MaxFaults = 1
SPECIFICATION Spec
INVARIANT CompletedIsOurs
PROPERTY CallEnds
CHECK_DEADLOCK FALSE
