SPECIFICATION FairSpec
CONSTANTS
  Start = 1
  Stop = 5
  Capacity = 2
INVARIANTS SlotsConserved ReadAheadBounded
PROPERTIES OrderedDelivery NextReturns CloseReturns
CHECK_DEADLOCK FALSE
