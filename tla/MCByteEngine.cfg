CONSTANTS
  NumThreads = 2
  DPL = 2
  CHUNK_LINES = 1
  MaxSteps = 2
  DigitSet = {3, 4, 5}
  StartDigits = {3, 10}
  Start <- MCStart
SPECIFICATION FairSpec
INVARIANTS
  OperandsOfOldNumber
  NoRace
PROPERTIES
  ImplementsReverseAdd
  CallsReturn
