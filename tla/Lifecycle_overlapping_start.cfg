SPECIFICATION FairSpec
CONSTANTS
  c1 = c1
  c2 = c2
  Callers <- TwoCallers
  Races = {"overlapping_start"}
  MaxCalls = 4
  MaxInst = 3
  MaxFaults = 1
INVARIANT
  NoStrayTask
CHECK_DEADLOCK FALSE
