SPECIFICATION FairSpec
CONSTANTS
  s1 = s1
  b1 = b1
  Servers = {s1}
  Bridges = {b1}
  SYSCollection = FALSE
  HasSubscriber = TRUE
  DiscoveryEnabled = TRUE
  Grace = 1
  TTL <- MCTTL
  MaxPanics = 1
INVARIANTS SlowTierFresh
PROPERTIES FleetShown CancelStops
