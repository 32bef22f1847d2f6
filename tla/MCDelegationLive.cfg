SPECIFICATION FairSpec
CONSTANTS
  Job = {j1, j2}
  Peer = {a, b}
  NoJob = NoJob
  NoPeer = NoPeer
  OpeningBalance = 1
  MaxCrashes = 1
PROPERTIES
  DelegationEnds
  ServingEnds
  KeepsContract
CHECK_DEADLOCK FALSE
