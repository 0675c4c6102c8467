SPECIFICATION Spec
CONSTANTS
  a = a
  o = o
  tab = tab
  Blank = Blank
  Space = Space
  Unk = Unk
  Typed <- MCTyped
  Blanks <- MCBlanks
  Chars <- MCChars
  Vocabs <- MCVocabs
  MaxText = 4
  MaxMore = 1
  MaxRest = 3
INVARIANTS
  ExitIsLPM
  WrittenIsLine
  SuggestionExtends
  LineReachable
  ThrowsOnlyIfBare
CHECK_DEADLOCK FALSE
