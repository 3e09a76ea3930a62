SPECIFICATION ReadSpec
CONSTANTS
  Keys = {k1, k2, k3}
  Blocks = {b1, b2}
  NoBlock = NoBlock
  Absent = Absent
  Capacity = 2
  K = 3
  MaxRequests = 4
  MaxUses = 7
  Kinds = {"cache", "sst", "search", "heap", "merge", "level"}
  Snapshots = {0, 1, 2}
  SstKeys = {1, 2, 3, 4}
  ScanKeys = {1, 2}
  FewKeys = {1, 2, 3}
  Ids = {1, 2}
  MaxBlocks = 3
  MaxSsts = 2
  Tables = {0, 1}
  Levels = 4
  Value = Value
  Deleted = Deleted
  NullIt = NullIt
  Unused = Unused
INVARIANTS
  ListsMatchMap
  ScansDeliverOnlyWanted
  ScansComplete
  SearchFindsAll
  OrderedWithMarkersLast
  LiveKeysVisited
PROPERTY
  ImplementsLRUK
CHECK_DEADLOCK FALSE
