CONSTANTS
  LV_LEN = 2
  DPL = 4
  CHUNK_LINES = 1
  NumThreads = 1
  MaxStart = 5
  MaxDigits = 8
  Start <- MCStart
SPECIFICATION Spec
CONSTRAINT Bounded
INVARIANTS
  TypeOK
  CarryFreeIsPalindrome
  OperandIsReversal
  RestoresUnlessZeroLimb
  TornIsAnother
PROPERTIES
  SkippedPalindromeIsFollowed
  StepIsAddition
  KernelsStep
