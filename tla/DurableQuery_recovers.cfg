SPECIFICATION FairSpec
CONSTANTS
  Configs <- Rebuilding
  OutboxCapacity = 1
  SlowStop = TRUE
  ReadsFail = TRUE
  MaxLog = 2
  MaxFaults = 2
PROPERTIES
  Recovers
CHECK_DEADLOCK FALSE
