SPECIFICATION FairSpec
CONSTANTS
  c1 = c1
  c2 = c2
  Callers <- TwoCallers
  Races = {"stale_runtime"}
  MaxCalls = 4
  MaxInst = 3
  MaxFaults = 1
PROPERTY
  NotStuck
CHECK_DEADLOCK FALSE
