SPECIFICATION Spec
CONSTANTS
  e1 = e1
  e2 = e2
  i1 = i1
  i2 = i2
  Envs = {e1, e2}
  Effects = {i1, i2}
  MaxAge = 2
  MaxQueue = 2
  None = None
PROPERTIES SeedNeverRollsBack
