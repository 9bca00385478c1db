SPECIFICATION Spec
CONSTANTS
  Results = {"r"}
  Configs <- Refusing
  OutboxCapacity = 2
  ChannelCapacity = 2
  StopAnytime = FALSE
  ResetInPlace = FALSE
  RetryInPlace = FALSE
  ClockSteps = TRUE
  EarlyOverrun = FALSE
  MaxResults = 3
  MaxEpoch = 1
  MaxFaults = 2
INVARIANTS
  AtLeastOnce
CHECK_DEADLOCK FALSE
