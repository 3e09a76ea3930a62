SPECIFICATION Spec
CONSTANTS
  MaxId = 2
  MaxWrites = 2
  MaxTables = 3
  MaxCrashes = 1
  TestFail = TRUE
  Isolations = {"RU", "buffered"}
INVARIANTS
  TypeOK
  CheckpointIsSafe
  NoCommitLost
  FlushedMarkerIsRecorded
  LogAboveWalCheckpoint
PROPERTY
  CheckpointNeverRetreats
CHECK_DEADLOCK FALSE
