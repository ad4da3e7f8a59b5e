SPECIFICATION MFairSpec
CONSTANTS
  Cpus = {c1}
  Callers = {p1}
  Cr3s = {a, b}
  Junk = {j}
  Size = 2
  FlagFirst = TRUE
  NULL = NULL
  NoOne = NoOne
  Stray = {0, 9}
  MaxKills = 1
INVARIANTS
  FallsOnlyAfterNoMem
  JunkOnce
  Overrun
PROPERTIES
  EventuallyVisited
  LockReleased
