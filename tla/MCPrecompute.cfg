SPECIFICATION FairSpec
CONSTANTS
  w1 = w1
  w2 = w2
  Workers <- MCWorkers
  NumStates = 3
INVARIANTS
  NoDataRace
  NoThreadLeft
  NoErrorLost
PROPERTIES
  Terminates
  RefinesAbs
CHECK_DEADLOCK FALSE
