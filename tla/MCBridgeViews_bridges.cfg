SPECIFICATION FairSpec
CONSTANTS
  b1 = b1
  b2 = b2
  p1 = p1
  p2 = p2
  i1 = i1
  i2 = i2
  n1 = n1
  n2 = n2
  h1 = h1
  hs2 = hs2
  s1 = s1
  s2 = s2
  Nil = Nil
  Failed = Failed
  Loopback = Loopback
  ServerHost <- MCServerHost
  Ports <- MCPorts
  Serves <- MCServes
  PushName <- MCPushName
  Id <- MCId
  Configs <- MCConfigs
  Conns <- MCConns
  Pushers = {b1}
  MaxPanics = 1
INVARIANTS FleetMergeSound 
PROPERTIES ListingCatchesUp
