SPECIFICATION FairSpec
CONSTANTS
  e1 = e1
  e2 = e2
  Elements <- TwoElements
  Hold = 2
  At <- Times12
  Consumer = "core"
  Races = {}
  MaxTime = 4
  MaxChanges = 3
  MaxFaults = 1
INVARIANT
  NoRowLost
CHECK_DEADLOCK FALSE
