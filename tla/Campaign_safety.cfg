SPECIFICATION CampaignSpec
CONSTANTS
  c1 = c1
  f1 = f1
  Jobs = {c1, f1}
  Campaigns = {c1}
  FollowUps = {f1}
  ParentOf <- MCParentOf
  Ticker = ticker
  None = None
  MaxTime = 2
  LeaseTime = 1
  MissedGrace = 1
  MaxAttempts = 1
  Backoff <- MCBackoff
  MaxJobsPerTick = 1
  MaxFaults = 1
  RetryableFailures = FALSE
INVARIANTS
  CInv
  SentCampaignWasSent
  SubmittedCampaignIsSent
  WithdrawnIsSafe
PROPERTIES
  CampaignsUseScheduler
  CancelledWithJobStays
\* writing the mark of a follow-up always throws; with MaxFaults spent its worker stops
CHECK_DEADLOCK FALSE
