SPECIFICATION Spec
CONSTANTS
  Admin = Admin
  bob = bob
  sub = sub
  h1 = h1
  h2 = h2
  None = None
  LocalNames = {Admin}
  Subjects = {}
  Requests = {h1}
  MaxId = 2
  MaxVersion = 1
  MaxTokens = 2
INVARIANTS BootstrapIsRotated
