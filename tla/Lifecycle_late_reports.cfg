SPECIFICATION FairSpec
CONSTANTS
  c1 = c1
  c2 = c2
  Callers <- TwoCallers
  Races = {"late_reports"}
  MaxCalls = 4
  MaxInst = 3
  MaxFaults = 1
INVARIANT
  GraphTellsTruth
CHECK_DEADLOCK FALSE
