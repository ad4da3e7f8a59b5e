CONSTANTS
  Cpus = {c0, c1}
  Boot = c0
  Callbacks = {cb1}
  Blimit = 1
  QHiMark = 1
  QLowMark = 0
  MaxBatch = 2
  Interrupted = {c1}
  Nobody = Nobody
SPECIFICATION FairSpec
INVARIANTS BarrierFlushed Awaited
PROPERTIES Promise EventuallyInvoked
