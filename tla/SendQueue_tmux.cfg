SPECIFICATION WorkerSpec
CONSTANTS
  Ticks = {k1}
  Pollers = {p1}
  CommandFile = FALSE
  KeepTerminal = 1
  MaxAttempts = 2
  MaxMsgs = 2
  MaxCrashes = 1
  MaxRetries = 1
  MaxEdits = 1
CHECK_DEADLOCK FALSE
INVARIANTS
  TypeOK
  StoreMirrorsMemory
  NoResurrectedSend
  NoRedelivery
  OneDelivery
PROPERTY
  PendingSettles
