SPECIFICATION FairSpec
CONSTANTS
  a = a
  b = b
  l1 = l1
  l2 = l2
  Clients = {a, b}
  LocalClients = {a}
  Window = 1
  Limit = 2
  MaxKeys = 1
  MaxFailed = 2
  Lock = 2
  Logins = {l1, l2}
INVARIANTS FailuresBounded
PROPERTIES OnlyTimeUnblocks BlockEnds
