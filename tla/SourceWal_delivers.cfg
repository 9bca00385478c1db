SPECIFICATION FairSpec
CONSTANTS
  Queries = {1, 2}
  FromStart = {1}
  Policies = {"RejectIncoming"}
  MaxEvents = 2
  Races = {}
  MaxSeq = 2
  MaxEach = 1
  MaxFaults = 1
PROPERTIES
  EventuallyApplied
  FullDrains
CHECK_DEADLOCK FALSE
