SPECIFICATION Spec
CONSTANTS
  Cpus = {c1}
  Callers = {p1}
  Cr3s = {a, b}
  Junk = {j}
  Size = 2
  FlagFirst = TRUE
  NULL = NULL
  NoOne = NoOne
INVARIANT
  StopMeansStopped
