SPECIFICATION Spec
CONSTANTS
  q1 = q1
  q2 = q2
  q3 = q3
  Requests <- Two
  Kinds = {"message", "restart"}
  ConcurrentEdits = FALSE
  MaxCrashes = 0
PROPERTY RestartCarriesQueue
CHECK_DEADLOCK FALSE
