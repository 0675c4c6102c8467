SPECIFICATION ArcsFairSpec
CONSTANTS
  u = u
  x = x
  xx = xx
  a = a
  b = b
  c = c
  Phi = Phi
  ModelStates <- MCStates
  Tokens <- MCTokens
  Models <- MCModels
  BranchFactor = 2
INVARIANTS
  KeepsCheapest
  EndNotReached
  FailsOnlyIfFew
PROPERTY ArcsTerminate
CHECK_DEADLOCK FALSE
