SPECIFICATION Spec
CONSTANTS
  root = root
  sub = sub
  empty = empty
  f1 = f1
  f2 = f2
  dot = dot
  dotdot = dotdot
  Nobody = Nobody
  Root = root
  Dirs <- MCDirs
  Files <- MCFiles
  Dots <- MCDots
  Parent <- MCParent
  Content <- MCContent
  Stale <- MCStale
  Buf = 2
  Faults = {TRUE}
INVARIANT ExitStatusIsHonest
