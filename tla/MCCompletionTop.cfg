SPECIFICATION Spec
CONSTANTS
  u = u
  x = x
  a = a
  b = b
  lost = lost
  Unk = Unk
  States <- MCStates
  Tokens <- MCTokens
  Models <- MCModels
  Queries <- MCQueries
  Start = u
  BranchFactor = 1
  BeamSize = 2
  TopKSize = 2
  LengthLimit = 2
  MaxQueries = 2
INVARIANT AnswersAreTop
CHECK_DEADLOCK FALSE
