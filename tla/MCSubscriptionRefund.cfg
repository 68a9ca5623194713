SPECIFICATION Spec
CONSTANTS
  Kind = {"updated", "checkout", "refunded"}
  Ttl = 1
  MaxEvents = 3
  MaxTime = 2
  MaxFaults = 0
  MaxCrashes = 0
INVARIANTS RefundHeard
CHECK_DEADLOCK FALSE
