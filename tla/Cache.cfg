SPECIFICATION FairSpec
CONSTANTS
  NoKey = NoKey
  Worker = {w1, w2}
  CacheKey = {k1, k2}
  GraphKey = {g1}
  MaxPuts = 3
  MaxFaults = 1
  MaxCrashes = 1
CHECK_DEADLOCK FALSE
INVARIANTS
  NoUntrackedObject
  FreshIsServed
PROPERTIES
  OnlyExpiredEvicted
  ExpiredRowsGo
  ObjectsGo
