SPECIFICATION FairSpec
CONSTANTS
  Results = {"r"}
  Configs <- Resetting
  OutboxCapacity = 1
  ChannelCapacity = 1
  StopAnytime = FALSE
  ResetInPlace = FALSE
  RetryInPlace = FALSE
  ClockSteps = FALSE
  EarlyOverrun = FALSE
  MaxResults = 3
  MaxEpoch = 1
  MaxFaults = 1
PROPERTIES
  EveryResultArrives
CHECK_DEADLOCK FALSE
