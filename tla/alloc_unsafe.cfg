SPECIFICATION Spec
CONSTANTS
  BlockCount = 4
  Lookahead = 3
  BlockSize = 6
  TraverseMayFail = TRUE
PROPERTIES EveryBlockIsFree
