SPECIFICATION Spec
CONSTANTS
  Accounts = {a1, a2}
  Emails = {e1, e2}
  Sessions = {s1, s2}
  Requests = {q1, q2}
  MaxRequests = 6
  MaxCodes = 3
  MaxAttempts = 2
INVARIANTS
  GuessesAreBounded
  SessionsHaveTheCurrentPassword
PROPERTIES
  VerifiedAccountsSurvive
SYMMETRY MCSymmetry
CHECK_DEADLOCK FALSE
