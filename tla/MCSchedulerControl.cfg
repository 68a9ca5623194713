SPECIFICATION RetrySpec
CONSTANTS
  Caller = {c1, c2}
  Thread = {t1, t2}
  NoThread = none
  Join = 1
  Coalesce = 2
  Cooldown = 1
  MaxConfig = 3
  MaxFaults = 2
INVARIANT SchedulerInv
PROPERTIES StartedIsFresh OnlyACycleHoldsItUp Recovers
