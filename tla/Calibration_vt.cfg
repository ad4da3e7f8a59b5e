SPECIFICATION FairSpec
CONSTANTS
  Cpus = {0, 1, 2}
  VtCpus = {1}
  Loops = 5
PROPERTY
  Completes
CHECK_DEADLOCK FALSE
