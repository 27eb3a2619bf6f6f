SPECIFICATION FairSpec
CONSTANTS
  Agents = {a1}
  MaxFiles = 1
  Calls = {c1}
  Capacity = 2
  Loads = {l1, l2}
  MaxFaults = 1
  None = None
INVARIANTS
  AsksAfterEveryChange
PROPERTY FallbackConverges
CHECK_DEADLOCK FALSE
