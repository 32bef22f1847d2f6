SPECIFICATION Spec
CONSTANTS
  Cli <- MCCli
  Confs <- MCConfs
  Limits = {0, 1, 2}
  ConnectWait = 2
  OfferWait = 3
  Grace = 3
  ServeWait = 6
  Base = 6
  WorkerLimit = 1
  Transit = 1
  Overhead = 1
  Pieces = 2
  MaxClock = 25
INVARIANTS
  TypeOK
  InTime
  AnswerInTime
  HeldBriefly
  ChildIsBounded
  SandboxIsRemoved
  PaidIsExecuted
PROPERTIES
  ImplementsDelegation
