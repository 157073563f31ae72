SPECIFICATION RequestsSpec
SYMMETRY Symmetry
CONSTANTS
  c1 = c1  c2 = c2  c3 = c3
  Callers = {c1, c2}
  Capacity = 2
  Window = 3
  MaxDelay = 1
  MaxAttempts = 2
  Backoff <- Delays
  RetryAfters = {0, 2}
  MaxTime = 6
  MaxGrants = 4
INVARIANTS
  RequestsTypeOK
  Spaced
  SleepBounded
  LateOnce
CHECK_DEADLOCK FALSE
