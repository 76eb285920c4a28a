SPECIFICATION Spec
CONSTANTS
  MaxGenerations = 2
  MaxSeq = 3
  MaxAttach = 2
  Lossy = TRUE
  BufferSize = 2
  QueueLimit = 2
INVARIANTS TypeOK GapFree
PROPERTY FeedSpec
CHECK_DEADLOCK FALSE
