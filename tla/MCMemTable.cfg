SPECIFICATION Spec
CONSTANTS
  t1 = t1
  t2 = t2
  t3 = t3
  Threads = {t1, t2, t3}
  Items = {i1, i2, i3}
  Workloads <- Mixed
  Word = 16
INVARIANTS
  AckedKept
  ReadersMissNothing
  FrozenBytesCovered
PROPERTY
  FlushAllEnds
CHECK_DEADLOCK FALSE
