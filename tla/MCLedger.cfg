SPECIFICATION Spec
CONSTANTS
  Job = {j1, j2}
  Peer = {w}
  NoJob = NoJob
  Torn = Torn
  OpeningBalance = 1
  MaxRecords = 7
SYMMETRY JobSymmetry
INVARIANTS
  TypeOK
  SpendableNonNegative
  EscrowBacked
  ReturnedIsDurable
PROPERTIES
  AppendOnly
  ImplementsEscrowAccount
