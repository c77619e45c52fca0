SPECIFICATION CampaignSpec
CONSTANTS
  c1 = c1
  f1 = f1
  Jobs = {c1}
  Campaigns = {c1}
  FollowUps = {}
  ParentOf <- MCNoParent
  Ticker = ticker
  None = None
  MaxTime = 2
  LeaseTime = 1
  MissedGrace = 1
  MaxAttempts = 1
  Backoff <- MCBackoff
  MaxJobsPerTick = 1
  MaxFaults = 0
  RetryableFailures = FALSE
INVARIANTS
  CancelledNeverSent
