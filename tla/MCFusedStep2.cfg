CONSTANTS
  NumThreads = 2
  DPL = 2
  CHUNK_LINES = 1
  DigitSet = {0, 3, 4, 5}
  StartDigits = {9, 12}
  Start <- MCStart
SPECIFICATION Spec
INVARIANTS
  FlagsExact
  RangesExact
  TwoStepsUnlessRepairedTwice
