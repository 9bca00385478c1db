SPECIFICATION Spec
CONSTANTS
  Results = {"r"}
  Configs <- Config
  OutboxCapacity = 1
  ChannelCapacity = 2
  StopAnytime = FALSE
  ResetInPlace = FALSE
  RetryInPlace = FALSE
  ClockSteps = FALSE
  EarlyOverrun = FALSE
  MaxResults = 4
  MaxEpoch = 1
  MaxFaults = 2
INVARIANTS
  TypeOK
  AtLeastOnce
CHECK_DEADLOCK FALSE
