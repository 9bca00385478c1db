SPECIFICATION FairSpec
CONSTANTS
  Producers = {1, 2, 3}
  Blocking = {1, 2}
  Capacity = 2
  MaxSeq <- BlockingTwice
  MaxTime = 1
INVARIANTS
  TypeOK
  ExactlyOnce
  SourceOrder
  NoLostWakeup
PROPERTIES
  Drained
