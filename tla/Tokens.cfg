SPECIFICATION Spec
CONSTANTS
  alice = alice
  ops = ops
  dev = dev
  p1 = p1
  p2 = p2
  com = com
  acme = acme
  None = None
  Star = Star
  HeaderRoom = 3
  Request = {r1}
  Subject = {alice}
  Team = {ops, dev}
  Password = {p1, p2}
  KeyId = {k1}
  GroupId <- Groups
  GroupRow <- Groups
  PolicyText <- SomePolicies
  LdapUser <- Directory
  OidcSubject = {alice}
  MaxPayload = 3
  TeamMax = 1
  KeyMax = 2
  MaxAdmin = 3
  MaxTokens = 1
CHECK_DEADLOCK FALSE
INVARIANTS
  GroupsAreEarned
  ClaimsFollowPolicies
  KeysFollowGrants
PROPERTY
  KeyStaysRevoked
