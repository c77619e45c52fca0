SPECIFICATION MessagingSpec
CONSTANTS
  Jobs = {j1, j2}
  Ticker = ticker
  None = None
  Budget = 1
  MaxTime = 0
  LeaseTime = 1
  MissedGrace = 1
  MaxAttempts = 1
  Backoff <- MCBackoff
  MaxJobsPerTick = 1
  MaxFaults = 0
  RetryableFailures = FALSE
SYMMETRY MCSymmetry
INVARIANTS
  NoFalseSuccess
