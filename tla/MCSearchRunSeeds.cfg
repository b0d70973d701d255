CONSTANTS
  Seed = {"6", "96"}
  EndsWith <- MCEndsAlike
  CarryFree <- MCCarryFree
  Interval = 2
  Stops = {9}
  StartAts = {}
  MaxLaunches = 2
SPECIFICATION Spec
CHECK_DEADLOCK FALSE
INVARIANTS
  RunKeepsItsSeed
