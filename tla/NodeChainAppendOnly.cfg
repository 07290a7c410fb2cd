CONSTANTS
  Appenders = {a1, a2}
  EventTypes = {e1}
  Payloads = {p1, p2}
  MaxHeight = 2
  Overlap = TRUE
SPECIFICATION Spec
CHECK_DEADLOCK FALSE
PROPERTY AppendOnly
