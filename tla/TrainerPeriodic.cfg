SPECIFICATION FairSpec
CONSTANTS
  MaxSteps = 3
  SaveEvery = 2
  EvalEvery = 3
  HasEval = TRUE
  HasSaver = TRUE
  MaxRestarts = 1
INVARIANTS FailureIsTerminal StopAtBoundary CompletedRunIsSaved PeriodicSaveDone
PROPERTIES LegalTransitions NoSaveAfterFailure TrainLeavesCleanly TrainReturns
CHECK_DEADLOCK FALSE
