SPECIFICATION Spec
CONSTANTS
  q1 = q1
  q2 = q2
  Queries <- TwoQueries
  Txn <- TwoTxns
  Races = {}
  MaxEach = 1
  MaxFaults = 2
SYMMETRY Interchangeable
INVARIANTS
  TypeOK
  ExactlyOnce
  SlotServes
CHECK_DEADLOCK FALSE
