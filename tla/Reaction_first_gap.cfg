SPECIFICATION Spec
CONSTANTS
  Results = {"r"}
  Configs <- Overwriting
  OutboxCapacity = 1
  ChannelCapacity = 1
  StopAnytime = FALSE
  ResetInPlace = FALSE
  RetryInPlace = FALSE
  ClockSteps = FALSE
  EarlyOverrun = TRUE
  MaxResults = 2
  MaxEpoch = 1
  MaxFaults = 1
INVARIANTS
  AtLeastOnce
CHECK_DEADLOCK FALSE
