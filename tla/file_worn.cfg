CONSTANTS
  Blocks = {b1, b2, b3}
  BlockSize = 3
  InlineMax = 2
  MaxSize = 3
  Lookahead = 2
  Cuts = {0, 1}
  FullElsewhere = FALSE
  Faults = {"erase", "copy", "flush"}
  MaxWrite = 3
  MaxOps = 3
  MaxBad = 1
PROPERTIES KeepsItsPromise CallsReturn
SPECIFICATION Spec
