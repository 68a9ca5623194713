SPECIFICATION FairSpec
CONSTANTS
  Token = {t1}
  Request = {q1, q2}
  MaxAttempts = 2
  Retry = 2
  Interval = 2
  Window = 7
  Day = 2
  MaxFaults = 1
  MaxCrashes = 1
INVARIANT PlayInv
PROPERTIES EndedStaysEnded RecordFollowsGoogle AcknowledgedOrGivenUp SweepEndsIt
