SPECIFICATION FairSpec
CONSTANTS
  Users = {u1}
  VtCallers = {v1}
  Killer = k
  MaxLeaks = 2
PROPERTY
  Reclaimed
CHECK_DEADLOCK FALSE
