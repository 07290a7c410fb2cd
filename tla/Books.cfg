SPECIFICATION Spec
CONSTANTS
  MaxCalls = 3
  Nodes <- MCNodes
  Ops <- MCOps
  Databases <- MCDatabases
  Threshold = 1
  Target = 1
  Volume24h = 3
  MaxFaults = 1
CHECK_DEADLOCK FALSE
INVARIANTS
  TypeOK
  ExactUnlessStale
  NothingInvented
  ActivationJustified
  ForkIsTheOnlyBreak
  LinksFollowTheClock
PROPERTIES
  ActiveUnlessFirstAccess
  RejectedLedgerFrozen
  CallsEnd
