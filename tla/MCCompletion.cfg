SPECIFICATION FairSpec
CONSTANTS
  u = u
  x = x
  a = a
  b = b
  lost = lost
  Unk = Unk
  States <- MCStates
  Tokens <- MCTokens
  Models <- MCModels
  Queries <- MCQueries
  Start = u
  BranchFactor = 2
  BeamSize = 2
  TopKSize = 2
  LengthLimit = 2
  MaxQueries = 2
INVARIANTS
  AnswerPriced
  CacheHoldsOwn
  AnswersTopIfSorted
  ThrowsOnlyIfPoor
PROPERTY EveryCallEnds
CHECK_DEADLOCK FALSE
