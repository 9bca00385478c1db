SPECIFICATION Spec
CONSTANTS
  Configs <- Rebuilding
  OutboxCapacity = 1
  SlowStop = TRUE
  ReadsFail = FALSE
  MaxLog = 3
  MaxFaults = 2
INVARIANTS
  RamServesDisk
CHECK_DEADLOCK FALSE
