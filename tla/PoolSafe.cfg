SPECIFICATION Spec
CONSTANTS
  None = None
  Thread = {t1, t2}
  Sock = {s1, s2, s3, s4}
  Peer = {p1, p2}
  Requested = 2
  MaxEntries = 3
  IdleTimeout = 2
  StopQuiet = TRUE
  MaxTime = 3
INVARIANTS
  OneOwner
  PoolBounded
PROPERTIES
  NeverHandedOutStale
SYMMETRY Symmetry
