SPECIFICATION Spec
CONSTANTS
  Kinds = {"managed", "aisdk", "pi"}
  Requests = {r1, r2}
  MaxLaunches = 3
  MaxFaults = 1
  Moves = TRUE
  None = None
INVARIANTS TypeOK OneHarness AtMostOnce NothingSkipped StopsHitTheirHarness
PROPERTIES AcceptedIsAttended SentIsRead
\* Every request may be done and every harness gone.
CHECK_DEADLOCK FALSE
