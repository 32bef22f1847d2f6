SPECIFICATION Spec
CONSTANTS
  Proc = {p1, p2, p3}
  NoProc = NoProc
  MaxRecords = 3
  MaxKills = 1
CONSTRAINT Short
SYMMETRY Symmetry
INVARIANTS
  TypeOK
  IdentityIsShared
  StartFailsForCause
  RuntimeIsTrue
  AloneIsReachable
  LostOnlyByOverlap
  RefusalIsKept
CHECK_DEADLOCK FALSE
