SPECIFICATION FairSpec
CONSTANTS
  Process = {p1}
  Slots = 1
  Lease = 2
  Interval = 1
  EnrichInterval = 1
  Coverage = 2
  Retention = 3
  RetryAfters <- TwoDelays
  MaxGeneration = 3
PROPERTIES ColdLaneRefreshed ProviderBoardLossConfirmed
