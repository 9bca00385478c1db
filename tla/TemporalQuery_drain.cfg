SPECIFICATION FairSpec
CONSTANTS
  e1 = e1
  e2 = e2
  Elements <- TwoElements
  Hold = 2
  At <- Times12
  Consumer = "lib"
  Races = {}
  MaxTime = 4
  MaxChanges = 3
  MaxFaults = 0
INVARIANT
  NotEarly
CHECK_DEADLOCK FALSE
