SPECIFICATION Spec
CONSTANTS
  Blocks = {0,1,2,3,4,5,6,7,8,9}
  Names = {1,2,3}
  MaxOps = 5
  Modes <- MCTighter
PROPERTIES CallsAreAtomic
