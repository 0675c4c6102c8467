SPECIFICATION CandidatesFairSpec
CONSTANTS
  a = a
  b = b
  Chars <- MCChars
  Vocabs <- MCVocabs
  MaxRest = 4
INVARIANTS
  NothingMissed
  PrefixFree
  NoAssertionFails
PROPERTY Terminates
CHECK_DEADLOCK FALSE
