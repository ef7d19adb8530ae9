SPECIFICATION FairSpec
CONSTANTS
  Workers = {w1, w2}
  Deliveries = {e1, e2}
  Reasons = {"insufficient_funds"}
  Handover = {"new"}
  MaxRetries = 2
  Gap = 2
  FirstDelays = {3}
  Backoff = 1
  StaleWindow = 1
  MaxTimeOuts = 0
  MaxLate = 0
  MaxCrashes = 1
  MaxCancels = 0
INVARIANTS
  OneClaimant
  CallsAreCounted
PROPERTIES
  JobsKeepTheirContract
  JobsEndOrAreOrphaned
  StaleJobsComeBack
CHECK_DEADLOCK FALSE
