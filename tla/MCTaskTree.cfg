SPECIFICATION Spec
CONSTANTS
  n1 = n1
  n2 = n2
  Leaves <- MCLeaves
  Diffs <- MCDiffs
  Text <- MCText
  Base <- MCBase
  Coders = {c1, c2, c3}
  MaxFaults = 2
  None = None
INVARIANTS
  CompleteHasDiff
  MergesTheComplete
  MergeIsIntended
CHECK_DEADLOCK FALSE
