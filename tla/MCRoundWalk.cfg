CONSTANTS
  NumThreads = 2
  DPL = 2
  CHUNK_LINES = 20
  MaxLines = 250
  Lengths <- MCLengths
SPECIFICATION WalkSpec
INVARIANTS
  BuffersFit
  ReadsInScratch
PROPERTIES
  WalkEnds
