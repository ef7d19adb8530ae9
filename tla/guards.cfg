SPECIFICATION GSpec
CONSTANTS
  Threads = {t1, t2}
  MaxReq = 2
  Window = 2
  Tokens = {k1, k2}
  TTL = 2
  MaxWait = 1
  MaxClock = 5
INVARIANTS
  LimitIsExact
  TokensOpenOneStream
SYMMETRY MCSymmetry
CHECK_DEADLOCK FALSE
