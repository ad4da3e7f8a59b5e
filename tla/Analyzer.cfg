SPECIFICATION Spec
CONSTANTS
  Cr3s = {1, 2, 3}
  Kernel = 3
  Vas = {1}
  Frames = {1, 2}
  Slots = {1}
  Garbage = {7}
  MaxInterval = 2
  MaxList = 2
  MaxRound = 2
INVARIANTS
  FreshIsVisited
  KeptExactly
PROPERTIES
  CountedOnce
  CountedAll
