SPECIFICATION Spec
CONSTANTS
  t1 = t1
  t2 = t2
  t3 = t3
  Threads = {t1, t2, t3}
  Items = {i1, i2}
  Workloads <- PutAndFlush
  Word = 16
INVARIANT
  UsedTablesAlive
CHECK_DEADLOCK FALSE
