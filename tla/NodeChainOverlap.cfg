CONSTANTS
  Appenders = {a1, a2, a3}
  EventTypes = {e1}
  Payloads = {p1, p2}
  MaxHeight = 3
  Overlap = TRUE
SPECIFICATION Spec
SYMMETRY Symmetry
CHECK_DEADLOCK FALSE
INVARIANTS
  TypeOK
  NoGaps
PROPERTY SettledImmutable
