SPECIFICATION ResultFileSpec
CONSTANTS
  m1 = m1
  m2 = m2
  large = large
  p = p
  q = q
  Torn = Torn
  Models <- MCModels
  NumStates <- MCNumStates
  Configs <- MCConfigs
  MaxStarts = 2
INVARIANTS
  OnlyBrokenThrows
  ResultsFit
CHECK_DEADLOCK FALSE
