SPECIFICATION Spec
CONSTANTS
  BlockCount = 5
  Lookahead = 3
  BlockSize = 6
  TraverseMayFail = TRUE
INVARIANTS TypeOK FlightIsBehind WindowIsFree LookedAtIsUsed
PROPERTIES HandsOutFreeBlocks NoSpaceIsReal AllocReturns
