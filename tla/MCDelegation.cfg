SPECIFICATION Spec
CONSTANTS
  Job = {j1, j2}
  Peer = {a, b, c}
  NoJob = NoJob
  NoPeer = NoPeer
  OpeningBalance = 1
  MaxCrashes = 2
SYMMETRY Symmetry
INVARIANTS
  TypeOK
  NoOverdraft
  EscrowMatchesDelegation
  PaidIsEarned
  EarnedIsAgreed
  ExecutionIsBacked
CHECK_DEADLOCK FALSE
