SPECIFICATION Spec
CONSTANTS
  Clients = {c1}
  Modes <- ModesPlain
  RingCap = 2
  MaxTurns = 1
  MaxSockets = 3
  MaxJobs = 2
  MaxBatches = 1
INVARIANT NothingMissed
CHECK_DEADLOCK FALSE
