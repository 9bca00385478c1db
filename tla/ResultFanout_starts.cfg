SPECIFICATION FairSpec
CONSTANTS
  Reactions = {r1, r2}
  Snapshot = {r1}
  Capacity = 1
  Concurrent = FALSE
  MaxResults = 3
  MaxStarts = 2
INVARIANTS
  TypeOK
  NothingMissed
PROPERTIES
  StartsComplete
CHECK_DEADLOCK FALSE
