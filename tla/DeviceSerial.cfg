SPECIFICATION Spec
CONSTANTS
  None = None
  Device = {d1, d2, d3}
  UserCode = {u1, u2}
  Subject = {alice, bob}
  Provider = TRUE
  ClientId = cookbook
  Capacity = 2
  Lifetime = 2
  MaxTime = 4
CHECK_DEADLOCK FALSE
INVARIANTS
  TypeOK
  TokenNeedsVerification
  RedeemedOnce
  CodesRemembered
SYMMETRY Symmetry
