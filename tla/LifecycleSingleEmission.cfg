CONSTANTS
  r1 = r1
  r2 = r2
  p1 = p1
  p2 = p2
  n1 = n1
  n2 = n2
  n3 = n3
  Runs = {r1, r2}
  Processes = {p1, p2}
  Epochs = {1, 2}
  Nodes = {n1, n2, n3}
  DefaultNodes <- MCDefaultNodes
  Scenarios <- MCScenarios
  Watched = {"emission.minted"}
SPECIFICATION Spec
CHECK_DEADLOCK FALSE
INVARIANT SingleEmission
