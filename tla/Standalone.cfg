SPECIFICATION Spec
CONSTANTS
  Accounts = {a1, a2}
  References = {r1, r2, r3}
  MaxUint = 3
  Processes = {p1, p2}
  CoreNodes = {n1, n2}
  Amounts = {800, 1600}
  Threshold = 999
  MaxVolume = 4800
  Files <- MCFiles
  OutDir = "reports/"
  MaxScans = 2
CHECK_DEADLOCK FALSE
INVARIANTS
  ContractSupplyByReference
  CoreShareReachesNodes
  GuardVerdictOfFiles
