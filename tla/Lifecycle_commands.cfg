SPECIFICATION FairSpec
CONSTANTS
  c1 = c1
  c2 = c2
  Callers <- TwoCallers
  Races = {}
  MaxCalls = 5
  MaxInst = 3
  MaxFaults = 2
INVARIANTS
  TypeOK
  GraphTellsTruth
  NoStrayTask
PROPERTY
  NotStuck
CHECK_DEADLOCK FALSE
