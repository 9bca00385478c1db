SPECIFICATION Spec
CONSTANTS
  Producers = {1, 2}
  Blocking = {1, 2}
  Capacity = 1
  MaxSeq <- Twice
  MaxTime = 1
INVARIANTS
  NoLostWakeup
