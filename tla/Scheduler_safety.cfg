SPECIFICATION Spec
CONSTANTS
  Jobs = {j1, j2}
  Ticker = ticker
  None = None
  MaxTime = 1
  LeaseTime = 1
  MissedGrace = 1
  MaxAttempts = 2
  Backoff <- MCBackoff
  MaxJobsPerTick = 1
  MaxFaults = 2
  RetryableFailures = TRUE
SYMMETRY MCSymmetry
INVARIANTS
  IInv
  AtMostOnceDelivery
  OneDispatchPerJob
  StateMatchesProvider
  ClaimNeverCollides
  AttemptAgreesWithJob
PROPERTIES
  ImplementsDelivery
  SettledIsFinal
  DeletesOnlySettled
