CONSTANTS
  NumThreads = 1
  DPL = 2
  CHUNK_LINES = 1
  DigitSet = {0, 4, 5}
  StartDigits = {12}
  Start <- MCStart
SPECIFICATION Spec
INVARIANTS
  AgreesWithTwoSteps
