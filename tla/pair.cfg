SPECIFICATION Spec
CONSTANTS
  Blocks = {0, 1, 2, 3, 4}
  Revisions = 8
  Capacity = 2
  JunkRevs = {5}
  MaxOps = 2
  MaxBad = 1
  NoRoom = {"compact", "linked"}
INVARIANTS TypeOK AckedSurvives CacheIsCoherent RevisionsStayClose
PROPERTIES UpdatesAtomically CommitReturns
