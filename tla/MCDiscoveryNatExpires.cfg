SPECIFICATION FairSpec
CONSTANTS
  a = a
  b = b
  Peer = {a, b}
  HostOf <- OwnHost
  Hears <- NoBroadcast
  Bootstrap <- NatToPublic
  NoEntry = NoEntry
  Interval = 2
  Transit = 1
  Ttl = 3
  MaxPort = 1
  MaxLosses = 0
PROPERTIES
  CanDelegateAgain
