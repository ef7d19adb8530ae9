SPECIFICATION Spec
CONSTANTS
  Reasons = {"insufficient_funds", "mandate_revoked"}
  MaxRetries = 3
  MaxFaults = 3
INVARIANTS
  OneFailureNeverChargesTwice
  EscalatedMeansUncharged
CHECK_DEADLOCK FALSE
