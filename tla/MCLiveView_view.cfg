SPECIFICATION FairSpec
CONSTANTS
  e1 = e1
  e2 = e2
  i1 = i1
  i2 = i2
  Envs = {e1, e2}
  Effects = {i1, i2}
  MaxAge = 1
  MaxQueue = 1
  None = None
INVARIANTS OneSocket
PROPERTIES ViewsArrive
