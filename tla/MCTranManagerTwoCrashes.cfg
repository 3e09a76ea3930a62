SPECIFICATION Spec
CONSTANTS
  MaxId = 2
  MaxWrites = 1
  MaxTables = 3
  MaxCrashes = 2
  TestFail = FALSE
  Isolations = {"buffered"}
INVARIANT
  NoCommitLost
CHECK_DEADLOCK FALSE
