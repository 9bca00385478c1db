SPECIFICATION Spec
CONSTANTS
  Configs <- Distinct
  OutboxCapacity = 2
  SlowStop = FALSE
  ReadsFail = FALSE
  MaxLog = 3
  MaxFaults = 3
INVARIANTS
  TypeOK
  CrashConsistent
  RamServesDisk
  UniqueEpoch
PROPERTIES
  RefinesLog
CHECK_DEADLOCK FALSE
