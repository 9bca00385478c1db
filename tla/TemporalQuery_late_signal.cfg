SPECIFICATION FairSpec
CONSTANTS
  e1 = e1
  e2 = e2
  Elements <- TwoElements
  Hold = 2
  At <- Times12
  Consumer = "core"
  Races = {"late_signal"}
  MaxTime = 4
  MaxChanges = 3
  MaxFaults = 0
INVARIANT
  ResultMatches
CHECK_DEADLOCK FALSE
