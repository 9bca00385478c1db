SPECIFICATION Spec
CONSTANTS
  Results = {"r"}
  Configs <- Refusing
  OutboxCapacity = 3
  ChannelCapacity = 2
  StopAnytime = FALSE
  ResetInPlace = FALSE
  RetryInPlace = TRUE
  ClockSteps = FALSE
  EarlyOverrun = FALSE
  MaxResults = 3
  MaxEpoch = 1
  MaxFaults = 2
INVARIANTS
  AtLeastOnce
CHECK_DEADLOCK FALSE
