CONSTANTS
  a1 = a1
  a2 = a2
  a3 = a3
  p1 = p1
  p2 = p2
  Accruals = {a1, a2}
  Finalizers = {f1, f2}
  Savers = {}
  Nodes = {1, 2}
  Processes = {p1, p2}
  Confirmed = {p1}
  Fee <- MCFee
  Parts <- MCParts
  Overlap = TRUE
  MaxFaults = 1
SPECIFICATION FairSpec
CHECK_DEADLOCK FALSE
INVARIANTS
  TypeOK
  OnlyConfirmedPaid
  ReceiptsBooked
  AuditTrail
  NoFeeInvented
PROPERTIES
  CallsEnd
