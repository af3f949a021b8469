SPECIFICATION MCSpec
CONSTANTS
  Admin = Admin
  bob = bob
  sub = sub
  h1 = h1
  h2 = h2
  f1 = f1
  f2 = f2
  f3 = f3
  b1 = b1
  b2 = b2
  c1 = c1
  c2 = c2
  None = None
  Absent = Absent
  LocalNames = {Admin, bob}
  Subjects = {sub}
  Requests = {h1, h2}
  MaxId = 3
  MaxVersion = 1
  MaxTokens = 2
  Flows = {f1, f2, f3}
  Browsers = {b1, b2}
  Handlers = {c1, c2}
  TTL = 2
  MaxFlows = 2
  Interval = 1
SYMMETRY RequestSymmetry
INVARIANTS LocalAdminRemains ValidIsCurrent LoginsAreOwn
PROPERTIES RevokedForGood FreshFlowsWait
