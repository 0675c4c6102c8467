SPECIFICATION Spec
CONSTANTS
  Keys = {1, 2}
  Values = {0, 1}
  MaxDepth = 2
  MaxLeafs = 3
INVARIANTS
  LeafsCounted
  FindsAllLeafs
  HandlesValid
PROPERTY RefinesLeafMap

