CONSTANTS
  a1 = a1
  a2 = a2
  a3 = a3
  p1 = p1
  p2 = p2
  Accruals = {a1}
  Finalizers = {f1, f2}
  Savers = {}
  Nodes = {1, 2}
  Processes = {p1, p2}
  Confirmed = {p1}
  Fee <- MCFee
  Parts <- MCParts
  Overlap = FALSE
  MaxFaults = 1
SPECIFICATION Spec
CHECK_DEADLOCK FALSE
INVARIANTS
  PaidWithinFees
