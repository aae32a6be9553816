SPECIFICATION AskSpec
CONSTANTS
  k1 = k1
  k2 = k2
  key = key
  sha256 = sha256
  dsha256 = dsha256
  blank = blank
  mixed = mixed
  com = com
  acme = acme
  lib = lib
  Junk = Junk
  Star = Star
  HeaderRoom = 3
  None = None
  Null = Null
  IntBits = 4
  Pk = {k1, k2}
  Cols <- Columns
  EndsWith <- ColumnSuffixes
  Val = {blank, mixed}
  Inside <- TextsInside
  Blank = blank
  Spliced = mixed
  MaxStmts = 3
  VersionText <- SomeVersions
  RangeText <- SomeRanges
  Candidate <- SomeCandidates
  GrantList <- DistinctGrants
  ExcludeList <- SomeExcludes
  Group <- SomeGroups
CHECK_DEADLOCK FALSE
INVARIANTS
  PrecedenceLaw
  RangeLaw
  GrantLaw
  KvAgrees
