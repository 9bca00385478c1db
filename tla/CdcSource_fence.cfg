SPECIFICATION FairSpec
CONSTANTS
  q1 = q1
  q2 = q2
  Queries <- TwoQueries
  Txn <- Singles
  Races = {}
  MaxEach = 1
  MaxFaults = 1
PROPERTY
  FenceProtects
CHECK_DEADLOCK FALSE
