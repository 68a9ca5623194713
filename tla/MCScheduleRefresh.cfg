SPECIFICATION Spec
CONSTANTS
  Process = {p1, p2}
  Slots = 1
  Lease = 2
  Interval = 2
  EnrichInterval = 2
  Coverage = 2
  Retention = 3
  RetryAfters <- NoDelay
  MaxGeneration = 2
SYMMETRY Symmetry
INVARIANT ScheduleInv
PROPERTIES RowsMoveForward LeaseLostToTheClockOnly ImplementsSnapshotFence
