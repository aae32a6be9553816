SPECIFICATION FairSpec
CONSTANTS
  c1 = c1
  c2 = c2
  g1 = g1
  b1 = b1
  b2 = b2
  bad = bad
  bare = bare
  w1 = w1
  w2 = w2
  None = None
  Torn = Torn
  Group = {g1}
  Worker = {w1, w2}
  Coord = {c1, c2}
  Body = {b1, b2}
  GroupOf <- OneGroup
  Names <- NamesApart
  HasRegistryKey = FALSE
  Aging = TRUE
  GroupAdmin = FALSE
  BatchCap = 1
  MaxPuts = 2
  MaxFaults = 1
  MaxCrashes = 1
CHECK_DEADLOCK FALSE
INVARIANTS
  PublishedHasDescriptor
  AckedIsResolvable
PROPERTIES
  PendingSettles
