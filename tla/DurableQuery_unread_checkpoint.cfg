SPECIFICATION Spec
CONSTANTS
  Configs <- Streaming
  OutboxCapacity = 1
  SlowStop = FALSE
  ReadsFail = TRUE
  MaxLog = 3
  MaxFaults = 2
INVARIANTS
  CrashConsistent
CHECK_DEADLOCK FALSE
