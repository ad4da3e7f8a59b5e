SPECIFICATION RSpec
CONSTANTS
  Ptes <- Entries
  Stack <- Garbage
  MaxFlips = 129
  NoRecord = NoRecord
INVARIANTS
  FrameRecorded
  ChangesCounted
  FrameRemembered
