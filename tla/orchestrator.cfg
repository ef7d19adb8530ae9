SPECIFICATION Spec
CONSTANTS
  Cases = {pay, inv, cart, m1, m2}
  Kind <- MCKind
  Scenario <- MCScenario
  Reason <- MCReason
  Amount <- MCAmount
  Overdue <- MCOverdue
  Defaults <- MCDefaults
  Patches <- MCPatches
  Requests = {q1, q2}
  MaxRequests = 4
  MaxDay = 1
  MaxDeaths = 1
  pay = pay
  inv = inv
  cart = cart
  m1 = m1
  m2 = m2
INVARIANTS
  WaitingCasesCanBeAnswered
  GateHoldsFromBirth
  PaymentsReachTheCase
SYMMETRY MCSymmetry
CHECK_DEADLOCK FALSE
