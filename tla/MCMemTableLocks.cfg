SPECIFICATION Spec
CONSTANTS
  t1 = t1
  t2 = t2
  t3 = t3
  Threads = {t1, t2, t3}
  Items = {i1, i2}
  Workloads <- CommitAndFlushAll
  Word = 16
INVARIANT
  NoDeadlock
CHECK_DEADLOCK FALSE
