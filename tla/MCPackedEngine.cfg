CONSTANTS
  NumThreads = 2
  DPL = 2
  CHUNK_LINES = 2
  MaxSteps = 2
  DigitSet = {3, 4, 5}
  StartDigits = {3, 10}
  Start <- MCStart
SPECIFICATION FairSpec
INVARIANTS
  CoordinatorAlone
  OneWriterPerLine
  SlotsFit
  ResolvedPrefixExact
  PaddingClean
PROPERTIES
  ImplementsReverseAdd
  CallsReturn
