SPECIFICATION FairSpec
CONSTANTS
  Message = {1}
  Worker = {w1, w2}
  Limit = 2
  Stale = 1
  MaxTries = 2
  Backoff <- Growing
  MaxConsents = 2
  MaxChanges = 1
  MaxFaults = 2
INVARIANT MailInv
PROPERTIES RevivedByRetryOrCarrier MailSettles
