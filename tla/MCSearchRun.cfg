CONSTANTS
  Seed = {"6", "96"}
  EndsWith <- MCEndsApart
  CarryFree <- MCCarryFree
  Interval = 2
  Stops = {3, 6, 7, 9}
  StartAts = {2, 4, 6}
  MaxLaunches = 3
SPECIFICATION Spec
CHECK_DEADLOCK FALSE
INVARIANTS
  RunsOnTrueNumbers
  FilesSound
  AnswersTrue
PROPERTIES
  AnswersAfterFiles
  RunEnds
