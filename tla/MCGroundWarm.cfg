SPECIFICATION GroundFairSpec
CONSTANTS
  Process = {p1, p2}
  Airport = {a1}
  Job = {j1, j2}
  Lease = 1
  WarmInterval = 1
  None = none
  Manual <- SomeForced
  MaxManual = 1
  MaxFaults = 1
INVARIANT GroundInv
PROPERTIES SettledStays JobEnds WarmsAgain
