SPECIFICATION FairSpec
CONSTANTS
  c1 = c1
  e1 = e1
  e2 = e2
  None = None
  Clients = {c1}
  Envs = {e1, e2}
  BufLen = 1
  DropLimit = 2
  MaxVersion = 1
INVARIANTS LatestOffered
PROPERTIES BroadcastEnds ClosedCleansUp 
