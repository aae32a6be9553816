SPECIFICATION FairSpec
CONSTANTS
  c1 = c1
  c2 = c2
  east = east
  west = west
  south = south
  lib = lib
  com = com
  acme = acme
  other = other
  None = None
  Star = Star
  Registry = {east, west, south}
  Client = {c1, c2}
  Path = {lib}
  Descriptor = {lib}
  GroupOf <- GroupsOfPaths
  Question <- Questions
  GridEnabled = {east, west, south}
  HasKey = {east, west}
  PeerAuth = {west}
  Https = {west}
  TlsRoom = 2
  HeaderRoom = 3
  MaxHops = 3
  Workers = 1
  Window = 0
  Peers0 <- Tables
  Held0 <- Holdings
  Edit <- Edits
  MaxTime = 1
  MaxChanges = 1
  MaxAsks = 2
CHECK_DEADLOCK FALSE
INVARIANTS
  HolderFound
  AnswersAreTrue
  PeersVouch
PROPERTY
  EveryRequestAnswered
