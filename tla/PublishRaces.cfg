SPECIFICATION Spec
CONSTANTS
  c1 = c1
  c2 = c2
  g1 = g1
  b1 = b1
  b2 = b2
  bad = bad
  bare = bare
  w1 = w1
  w2 = w2
  None = None
  Torn = Torn
  Group = {g1}
  Worker = {w1, w2}
  Coord = {c1, c2}
  Body = {b1, b2, bare, bad}
  GroupOf <- OneGroup
  Names <- NamesApart
  HasRegistryKey = TRUE
  Aging = TRUE
  GroupAdmin = TRUE
  BatchCap = 1
  MaxPuts = 2
  MaxFaults = 1
  MaxCrashes = 1
SYMMETRY WorkerSymmetry
CHECK_DEADLOCK FALSE
INVARIANTS
  TypeOK
  NoDanglingReferences
  RowProvenance
  AcceptedOnce
  AckedIsIntact
PROPERTIES
  CatalogSpec
