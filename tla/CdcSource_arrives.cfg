SPECIFICATION FairSpec
CONSTANTS
  q1 = q1
  q2 = q2
  Queries <- TwoQueries
  Txn <- OneTxn
  Races = {}
  MaxEach = 1
  MaxFaults = 1
PROPERTIES
  EventuallyApplied
CHECK_DEADLOCK FALSE
