SPECIFICATION FairSpec
CONSTANTS
  l1 = l1
  l2 = l2
  l3 = l3
  Rows <- Pair
  Kind <- OneOverride
  Slots = {s1}
  Readers = {}
  MaxTime = 1
  OnComputer = FALSE
  Limit = 1
  ScheduleLimit = 1
  MaxAge = 1
  ScansFail = TRUE
  MaxRestarts = 1
INVARIANT TypeOK
PROPERTIES FastPassIsSafe ReservationsEnd
CHECK_DEADLOCK FALSE
