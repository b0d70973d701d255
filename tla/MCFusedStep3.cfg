CONSTANTS
  NumThreads = 2
  DPL = 2
  CHUNK_LINES = 1
  DigitSet = {0, 3, 4, 5}
  StartDigits = {9, 10, 11}
  Start <- MCStart
SPECIFICATION Spec
INVARIANTS
  WrongDigitsFound
  FlagsExact
  RangesExact
  ThreeStepsUnlessRepairedTwice
