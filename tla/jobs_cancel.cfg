SPECIFICATION Spec
CONSTANTS
  Workers = {w1, w2}
  Deliveries = {e1}
  Reasons = {"bank_technical_error", "mandate_revoked"}
  Handover = {"in_progress"}
  MaxRetries = 2
  Gap = 2
  FirstDelays = {3, 5}
  Backoff = 1
  StaleWindow = 1
  MaxTimeOuts = 1
  MaxLate = 1
  MaxCrashes = 0
  MaxCancels = 1
PROPERTIES
  QuietCancelHolds
CHECK_DEADLOCK FALSE
