SPECIFICATION Spec
CONSTANTS
  Job = {j1}
  Peer = {a, b}
  NoJob = NoJob
  NoPeer = NoPeer
  OpeningBalance = 1
  MaxCrashes = 0
INVARIANTS
  BooksBalance
CHECK_DEADLOCK FALSE
