SPECIFICATION FairSpec
CONSTANTS
  Worker = {w1, w2}
  Interval = 2
  MaxDelay = 2
  MaxRetries = 1
  MaxPages = 2
  Limit = 2
  Share = 1
  Threshold = 2
  Cooldown = 2
  RetryAfter = {3}
  MaxMoods = 2
INVARIANT TransportInv
PROPERTY ServedAgain
