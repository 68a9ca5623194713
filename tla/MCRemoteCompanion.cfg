SPECIFICATION FairSpec
CONSTANTS
  Call = {c1, c2}
  Request = {r1, r2}
  Activation = {a1, a2}
  MaxSessions = 2
  MaxPending = 1
  MaxChanges = 1
  MaxFaults = 1
  MaxLapses = 1
  None = None
INVARIANT CompanionInv
PROPERTIES AnsweredByItsReceiver RevokedSessionEnds HostReturns
CHECK_DEADLOCK FALSE
