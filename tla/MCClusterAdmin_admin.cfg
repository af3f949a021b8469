SPECIFICATION FairSpec
CONSTANTS
  i1 = i1
  n1 = n1
  n2 = n2
  k1 = k1
  k2 = k2
  h1 = h1
  h2 = h2
  None = None
  Ids = {i1}
  Configs <- MCConfigs
  Files <- MCFiles
  Requests = {h1, h2}
  Slots = 2
INVARIANTS OnlyTrackedRuns StoredIsWatched 
PROPERTIES DeletedFallsSilent KeepsBook
