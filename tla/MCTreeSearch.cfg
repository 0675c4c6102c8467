SPECIFICATION FairSpec
CONSTANTS
  u = u
  x = x
  a = a
  b = b
  Unk = Unk
  States <- MCStates
  Tokens <- MCTokens
  Models <- MCModels
  BranchFactor = 2
  BeamSize = 2
  TopKSize = 2
  LengthLimit = 3
INVARIANTS
  OnlyBeamSizeLoses
  ResultsPriced
  EnoughResults
PROPERTIES
  RefinesBeamSearch
  Terminates
CHECK_DEADLOCK FALSE
