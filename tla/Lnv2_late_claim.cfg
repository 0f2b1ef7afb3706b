\* One purchase, at most two invoices, a receive task that may lag the clock.
CONSTANTS
  MaxMints = 2
  LnExpiry = 1
  IndexRetention = 1
  LnLastTick = 3
  LnCrashes = 1
  MaxWatches = 2
SPECIFICATION LnSpec
CHECK_DEADLOCK FALSE
INVARIANT PaidIsNotStranded
