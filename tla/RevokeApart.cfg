SPECIFICATION Spec
CONSTANTS
  j1 = j1
  j2 = j2
  j3 = j3
  None = None
  Thread = {t1, t2}
  Token = {j1, j2, j3}
  Exp <- Expiry
  Capacity = 2
  MaxTime = 4
  MaxFaults = 1
  MaxRestarts = 2
CONSTRAINT Apart
SYMMETRY Alike
CHECK_DEADLOCK FALSE
INVARIANTS
  TypeOK
  RevokedRejectedBeforeExpiry
  ListBounded
  ReloadFits
PROPERTY
  RestartRestores
