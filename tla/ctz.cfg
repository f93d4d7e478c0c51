CONSTANTS
  BlockSize = 32
  Width = 4
  MaxIndex = 13
  MaxCopies = 1
SPECIFICATION Spec
INVARIANTS IndexAgrees PointersExist FindLands FindIsFast TraverseIsExact
