SPECIFICATION Spec
CONSTANTS
  Job = {j1}
  Peer = {a, b}
  NoJob = NoJob
  NoPeer = NoPeer
  OpeningBalance = 1
  MaxCrashes = 1
INVARIANTS
  EscrowIsInFlight
CHECK_DEADLOCK FALSE
