SPECIFICATION TopKSpec
CONSTANTS
  K = 2
  Costs = {0, 1, 2}
  MaxOffers = 5
INVARIANTS
  KeepsSmallest
  WillInsertExact
PROPERTY RefusalIsFinal
CHECK_DEADLOCK FALSE
