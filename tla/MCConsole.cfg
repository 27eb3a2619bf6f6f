SPECIFICATION ConsoleFairSpec
CONSTANTS
  Calls = {c1, c2}
  Outages = {"silent", "refused", "broken"}
  MaxCommands = 2
INVARIANTS
  EntriesTellTheTruth
  OutputFollowsInput
PROPERTY InputComesBack
CHECK_DEADLOCK FALSE
