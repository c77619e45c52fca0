SPECIFICATION FairSpec
CONSTANTS
  Jobs = {j1}
  Ticker = ticker
  None = None
  MaxTime = 4
  LeaseTime = 1
  MissedGrace = 1
  MaxAttempts = 3
  Backoff <- MCBackoff
  MaxJobsPerTick = 1
  MaxFaults = 2
  RetryableFailures = TRUE
PROPERTIES
  OverdueLeavesQueue
  AttemptsEnd
