SPECIFICATION FairSpec
CONSTANTS
  q1 = q1
  q2 = q2
  q3 = q3
  Requests <- Two
  Kinds <- AllKinds
  ConcurrentEdits = FALSE
  MaxCrashes = 1
INVARIANTS TypeOK EditsAreOffered
PROPERTIES FailureKeepsPrimary AutomaticRotationDrains RequestsEnd
CHECK_DEADLOCK FALSE
