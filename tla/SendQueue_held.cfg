SPECIFICATION FairSpec
CONSTANTS
  Ticks = {k1, k2}
  Pollers = {}
  CommandFile = TRUE
  KeepTerminal = 1
  MaxAttempts = 2
  MaxMsgs = 3
  MaxCrashes = 1
  MaxRetries = 0
  MaxEdits = 0
CHECK_DEADLOCK FALSE
INVARIANTS
  HandedOncePerBoot
  OneReleaseAtATime
PROPERTIES
  NotOnTheSameTurn
  HeldDrains
