SPECIFICATION FairSpec
CONSTANTS
  Cpus = {0, 1, 2, 3}
  VtCpus = {0}
  Loops = 5
INVARIANTS
  StackAlive
  StampWritten
  Together
PROPERTY
  Completes
