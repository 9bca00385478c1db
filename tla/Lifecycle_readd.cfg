SPECIFICATION FairSpec
CONSTANTS
  c1 = c1
  c2 = c2
  Callers <- TwoCallers
  Races = {"readd"}
  MaxCalls = 5
  MaxInst = 3
  MaxFaults = 1
INVARIANT
  GraphTellsTruth
CHECK_DEADLOCK FALSE
