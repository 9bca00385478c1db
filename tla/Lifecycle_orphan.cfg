SPECIFICATION FairSpec
CONSTANTS
  c1 = c1
  c2 = c2
  Callers <- TwoCallers
  Races = {"late_query"}
  MaxCalls = 4
  MaxInst = 3
  MaxFaults = 1
INVARIANT
  OrphanInError
CHECK_DEADLOCK FALSE
