SPECIFICATION RateSpec
CONSTANTS
  NoSubject = NoSubject
  Thread = {t1, t2}
  Subject = {alice, bob}
  Window = 2
  Limit = 1
  Delay = 1
  MaxTime = 5
  MaxCalls = 6
CHECK_DEADLOCK FALSE
INVARIANTS
  BurstBound
  RefusedOnlyOverLimit
