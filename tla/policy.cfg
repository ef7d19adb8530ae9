SPECIFICATION Spec
CONSTANTS
  Recs = {r1, r2, r3}
  Keys = {k1, k2, k3}
  Key <- MCKey
  Category <- MCCategory
  Slot <- MCSlot
  Slots = {funds, expired}
  NoSlot = NoSlot
  Default = Default
  Scans = {s1}
  Approvals = {a1, a2, a3}
  Rollbacks = {b1, b2}
  MaxFailures = 1
  r1 = r1
  r2 = r2
  r3 = r3
  k1 = k1
  k2 = k2
  k3 = k3
  funds = funds
  expired = expired
  all = all
  food = food
INVARIANTS
  NoSilentChange
  NumbersAreUnique
PROPERTIES
  SecondPolicyNeedsAnOvertakenRollback
  AnswersAreInForce
SYMMETRY MCSymmetry
CHECK_DEADLOCK FALSE
