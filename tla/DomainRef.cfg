SPECIFICATION FairSpec
CONSTANTS
  Users = {u1, u2}
  VtCallers = {v1, v2}
  Killer = k
  MaxLeaks = 2
INVARIANTS
  DestroyedDying
  UnlinkedOnce
  NotFreedInUse
  RefsCounted
PROPERTY
  ReclaimedUnlessKept
