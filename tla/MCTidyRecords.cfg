SPECIFICATION Spec
CONSTANTS
  f = f
  g = g
  k1 = k1
  k2 = k2
  k3 = k3
  b1 = b1
  b2 = b2
  Branches = {b1, b2}
  Main = main
  Files = {f, g}
  Contents = {"old", "x", "y"}
  Commits = {k1, k2, k3}
  BranchOf <- MCBranchOf
  Changes <- MCChanges
  Calls = {p1, p2}
  MaxFaults = 3
  None = None
INVARIANT TidyRecordsTellTheTruth
CHECK_DEADLOCK FALSE
