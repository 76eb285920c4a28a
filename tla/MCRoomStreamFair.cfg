SPECIFICATION FairSpec
CONSTANTS
  MaxGenerations = 3
  MaxSeq = 2
  MaxAttach = 2
  Lossy = FALSE
  BufferSize = 1
  QueueLimit = 1
INVARIANTS NothingMissed RetiredIsSuperseded
PROPERTY CatchesUp
CHECK_DEADLOCK FALSE
