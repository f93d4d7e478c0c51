CONSTANTS
  Blocks = {b1, b2, b3}
  BlockSize = 3
  InlineMax = 1
  MaxSize = 4
  Lookahead = 1
  Cuts = {1}
  FullElsewhere = TRUE
  Faults = {"erase", "copy", "flush", "prog", "read"}
  MaxWrite = 2
  MaxOps = 5
  MaxBad = 0
PROPERTIES OnlySyncStores
SPECIFICATION Spec
SYMMETRY Interchangeable
