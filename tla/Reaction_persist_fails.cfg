SPECIFICATION FairSpec
CONSTANTS
  Results = {"r"}
  Configs <- Unbuffered
  OutboxCapacity = 1
  ChannelCapacity = 2
  StopAnytime = FALSE
  ResetInPlace = FALSE
  RetryInPlace = FALSE
  ClockSteps = FALSE
  EarlyOverrun = FALSE
  MaxResults = 3
  MaxEpoch = 1
  MaxFaults = 2
PROPERTIES
  EveryResultArrives
CHECK_DEADLOCK FALSE
