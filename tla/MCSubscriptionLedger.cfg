SPECIFICATION FairSpec
CONSTANTS
  Kind = {"updated", "checkout", "checkout_unpaid", "checkout_failed", "invoice_paid",
          "invoice_failed", "refunded", "refunded_partly", "dispute_opened",
          "dispute_won", "dispute_lost"}
  Ttl = 1
  MaxEvents = 3
  MaxTime = 2
  MaxFaults = 1
  MaxCrashes = 1
INVARIANTS LedgerInv NoneLost
PROPERTIES LiftedByEvidence BuyerServed
CHECK_DEADLOCK FALSE
