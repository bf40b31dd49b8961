SPECIFICATION FairSpec
CONSTANTS
  Ranks = {0, 1}
  Primary = 0
  MaxStep = 2
  MaxRuns = 3
INVARIANTS LatestLoads SavesAgree RestoreTogether
PROPERTIES SaveEnds AtomicStore
CHECK_DEADLOCK FALSE
