SPECIFICATION FairSpec
CONSTANTS
  e1 = e1
  e2 = e2
  Elements <- TwoElements
  Hold = 2
  At <- Times12
  Consumer = "core"
  Races = {}
  MaxTime = 5
  MaxChanges = 3
  MaxFaults = 1
INVARIANTS
  TypeOK
  ResultMatches
  NotEarly
PROPERTY
  EventuallyShown
CHECK_DEADLOCK FALSE
