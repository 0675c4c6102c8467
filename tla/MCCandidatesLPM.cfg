SPECIFICATION CandidatesSpec
CONSTANTS
  a = a
  b = b
  Chars <- MCChars
  Vocabs <- MCVocabs
  MaxRest = 4
INVARIANT OnlyLPM
CHECK_DEADLOCK FALSE
