SPECIFICATION Spec
CONSTANTS
  Jobs = {j1, j2}
  Ticker = ticker
  None = None
  MaxTime = 2
  LeaseTime = 1
  MissedGrace = 1
  MaxAttempts = 2
  Backoff <- MCBackoff
  MaxJobsPerTick = 1
  MaxFaults = 1
  RetryableFailures = TRUE
INVARIANTS
  EditTakesEffect
