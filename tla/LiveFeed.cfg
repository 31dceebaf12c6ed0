SPECIFICATION FairSpec
CONSTANTS
  Clients = {c1}
  Modes <- ModesPass
  RingCap = 2
  MaxTurns = 1
  MaxSockets = 2
  MaxJobs = 2
  MaxBatches = 1
INVARIANTS TypeOK TailHasItsSockets HolesAreSkips
CHECK_DEADLOCK FALSE
PROPERTIES FeedSpec ConnectedCatchesUp
