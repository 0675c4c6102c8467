SPECIFICATION Spec
CONSTANTS
  a = a
  b = b
  Chars <- MCChars
  Logs <- MCLogs
  K = 2
  MaxBuilds = 2
INVARIANTS
  CountsOfOwnState
  MostPopular
  NeverOutOfRange
CHECK_DEADLOCK FALSE
