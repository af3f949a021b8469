SPECIFICATION FairSpec
CONSTANTS
  s1 = s1
  b1 = b1
  Servers = {s1}
  Bridges = {}
  SYSCollection = TRUE
  HasSubscriber = TRUE
  DiscoveryEnabled = FALSE
  Grace = 2
  TTL <- MCTTL
  MaxPanics = 0
INVARIANTS SysNeverBlank
PROPERTIES GraceHonoured SysResumes OutageFallsBack
