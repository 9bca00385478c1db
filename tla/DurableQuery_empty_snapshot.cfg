SPECIFICATION FairSpec
CONSTANTS
  Configs <- NoWal
  OutboxCapacity = 1
  SlowStop = FALSE
  ReadsFail = FALSE
  MaxLog = 1
  MaxFaults = 1
PROPERTIES
  Recovers
CHECK_DEADLOCK FALSE
