SPECIFICATION FairSpec
CONSTANTS
  Reactions = {r1, r2}
  Snapshot = {r1}
  Capacity = 1
  Concurrent = TRUE
  MaxResults = 3
  MaxStarts = 1
PROPERTIES
  StartsComplete
CHECK_DEADLOCK FALSE
