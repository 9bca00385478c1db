SPECIFICATION FairSpec
CONSTANTS
  Results = {"r"}
  Configs <- Unbuffered
  OutboxCapacity = 1
  ChannelCapacity = 2
  StopAnytime = FALSE
  ResetInPlace = TRUE
  RetryInPlace = FALSE
  ClockSteps = FALSE
  EarlyOverrun = FALSE
  MaxResults = 2
  MaxEpoch = 1
  MaxFaults = 1
PROPERTIES
  EveryResultArrives
CHECK_DEADLOCK FALSE
