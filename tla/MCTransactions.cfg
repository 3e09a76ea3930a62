SPECIFICATION Spec
CONSTANTS
  Keys = {k1, k2}
  Values = {v}
  Deleted = Deleted
  None = None
  Mixes <- SomeMixes
  MaxId = 3
  MaxWrites = 1
INVARIANTS
  OnlyCommittedStored
  VersionsInIdOrder
  AbortRestores
PROPERTY
  RepeatableReads
SYMMETRY KeySymmetry
CHECK_DEADLOCK FALSE
