SPECIFICATION ReadSpec
CONSTANTS
  Keys = {k1}
  Blocks = {b1}
  NoBlock = NoBlock
  Absent = Absent
  Capacity = 1
  K = 2
  MaxRequests = 1
  MaxUses = 1
  Kinds = {"level"}
  Snapshots = {0}
  SstKeys = {1, 2, 3, 4}
  ScanKeys = {1, 2}
  FewKeys = {1, 2}
  Ids = {1, 2}
  MaxBlocks = 3
  MaxSsts = 2
  Tables = {0, 1}
  Levels = 4
  Value = Value
  Deleted = Deleted
  NullIt = NullIt
  Unused = Unused
INVARIANT
  DeletedKeysSkipped
CHECK_DEADLOCK FALSE
