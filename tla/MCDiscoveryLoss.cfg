SPECIFICATION Spec
CONSTANTS
  a = a
  b = b
  Peer = {a, b}
  HostOf <- OneHost
  Hears <- Lan
  Bootstrap <- NoBootstrap
  NoEntry = NoEntry
  Interval = 1
  Transit = 0
  Ttl = 3
  MaxPort = 2
  MaxLosses = 1
INVARIANTS
  ListingIsFresh
  RebuiltInTime
