CONSTANTS
  a1 = a1
  a2 = a2
  a3 = a3
  p1 = p1
  p2 = p2
  Accruals = {a1, a2, a3}
  Finalizers = {f1, f2}
  Savers = {s1}
  Nodes = {1, 2}
  Processes = {p1, p2}
  Confirmed = {p1}
  Fee <- MCFee
  Parts <- MCParts
  Overlap = FALSE
  MaxFaults = 0
SPECIFICATION FairSpec
CHECK_DEADLOCK FALSE
INVARIANTS
  FairShares
  SettledOnce
  ReceiptsBooked
PROPERTIES
  FinalizationCloses
