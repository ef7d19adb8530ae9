SPECIFICATION Spec
CONSTANTS
  Cases = {1, 2, 3}
  Experiments = {broad, narrow}
  broad = broad
  narrow = narrow
  Cohort <- MCCohort
  Reason <- MCReason
  Category <- MCCategory
  Strategy <- MCStrategy
  Source <- MCSource
  Modes <- MCModes
  Arm <- MCArm
  Profiles <- MCProfiles
  MinSample = 2
  MinArm = 1
  Requests = {q1, q2}
  MaxRequests = 3
  MovesTo <- MCMovesTo
  MaxMoves = 3
  WebhookReasons <- MCWebhookReasons
INVARIANTS
  WinnersAreRecovered
PROPERTIES
  DimensionsAgree
  ChoicesRestOnEvidence
  CompletionMissesOnlyOverlaps
SYMMETRY MCSymmetry
CHECK_DEADLOCK FALSE
