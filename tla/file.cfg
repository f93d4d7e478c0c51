CONSTANTS
  Blocks = {b1, b2, b3, b4}
  BlockSize = 2
  InlineMax = 1
  MaxSize = 4
  Lookahead = 2
  Cuts = {1, 3}
  FullElsewhere = FALSE
  Faults = {"erase", "copy", "flush"}
  MaxWrite = 3
  MaxOps = 4
  MaxBad = 0
INVARIANTS TypeOK TraverseSeesAll NeverAsserts
PROPERTIES KeepsItsPromise
SPECIFICATION Spec
SYMMETRY Interchangeable
