SPECIFICATION FairSpec
CONSTANTS
  MaxRetries = 3
  DunningStages = 3
  PolicyRetryCap = 3
  MaxDeliveries = 3
INVARIANTS
  TypeOK
  NoticePrecedesDebit
  DebitsNumberedFromOne
  ResolvedAtCommit
  AuditorFindsNothing
  AuditAgreesWithRow
PROPERTIES
  SettledStaysSettled
  ImplementsContract
  DeliveryEnds
CHECK_DEADLOCK FALSE
