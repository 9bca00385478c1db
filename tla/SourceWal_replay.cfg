SPECIFICATION Spec
CONSTANTS
  Queries = {1, 2}
  FromStart = {1}
  Policies <- BothPolicies
  MaxEvents = 2
  Races = {}
  MaxSeq = 3
  MaxEach = 1
  MaxFaults = 2
INVARIANTS
  TypeOK
  NoHole
  OnItsWay
  UnconfirmedKept
CHECK_DEADLOCK FALSE
