SPECIFICATION Spec
CONSTANTS
  Kinds = {"aisdk"}
  Requests = {r1, r2}
  MaxLaunches = 2
  MaxFaults = 0
  Moves = FALSE
  None = None
INVARIANT NothingLost
SYMMETRY RequestSymmetry
CHECK_DEADLOCK FALSE
