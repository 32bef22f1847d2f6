SPECIFICATION Spec
CONSTANTS
  a = a
  b = b
  Peer = {a, b}
  HostOf <- OwnHost
  Hears <- NoBroadcast
  Bootstrap <- BothWays
  NoEntry = NoEntry
  Interval = 2
  Transit = 1
  Ttl = 3
  MaxPort = 2
  MaxLosses = 0
INVARIANTS
  TypeOK
  ListingIsFresh
  RebuiltInTime
  NoBeaconLoop
