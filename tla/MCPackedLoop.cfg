CONSTANTS
  NumThreads = 2
  DPL = 2
  CHUNK_LINES = 2
  LOG_MASK = 4
  FULL_MASK = 8
  StreamDigits = 2
  ONE_CCD_THREADS = 3
  ParThreshold = 3
  ParFullThreads = 4
  DigitSet = {0, 5, 9}
  StartDigits = 4
  FirstIterations = {1, 2, 3}
  RangeEnds = {2, 9}
  Start <- MCStart
  Ranges <- MCRanges
SPECIFICATION Spec
INVARIANTS
  InStepWithReference
  EndsLikeReference
  CleanWhileRunning
