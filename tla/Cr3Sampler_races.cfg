SPECIFICATION Spec
CONSTANTS
  Cpus = {c1, c2}
  Callers = {p1, p2}
  Cr3s = {a, b}
  Junk = {}
  Size = 2
  FlagFirst = TRUE
  NULL = NULL
  NoOne = NoOne
SYMMETRY Interchangeable
INVARIANTS
  MutualExclusion
  FaultCause
  SizeNotStale
PROPERTY
  ActsAsQueue
