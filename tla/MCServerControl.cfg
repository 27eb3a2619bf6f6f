SPECIFICATION FairSpec
CONSTANTS
  Shells = {b1}
  MaxFailures = 1
  Children = {c1, c2}
  Tries = 1
  None = None
INVARIANTS
  StartingHasProcess
PROPERTIES
  ShowsRunning
  StartableAgain
