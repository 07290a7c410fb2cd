CONSTANTS
  Appenders = {a1, a2}
  EventTypes = {e1, e2}
  Payloads = {p1, p2}
  MaxHeight = 3
  Overlap = FALSE
SPECIFICATION Spec
CHECK_DEADLOCK FALSE
INVARIANT ChainIntact
PROPERTIES
  AppendOnly
  ImplementsLog
