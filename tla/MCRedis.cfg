SPECIFICATION MCSpec
CONSTANTS
  x = x
  y = y
  f1 = f1
  f2 = f2
  v = v
  w = w
  m1 = m1
  m2 = m2
  a = a
  b = b
  c1 = c1
  c2 = c2
  None = None
  Fields = {f1, f2}
  Elems = {a, b}
  Separator = Separator
  MaxLen = 3
  MaxScore = 1
  MaxValue = 1
  Kinds = {"string", "list", "hash", "set", "zset"}
  Clients = {t1, t2}
  Commands <- AllKinds
  Ttls = {0}
  MaxTime = 2
  Connections = {c1, c2}
  Requests <- Pipelined
  Split = {c2}
INVARIANTS
  FieldListMatchesFields
  SizeMatchesMembers
  KeysComeInPairs
  RangesAreExact
  AnsweredInOrder
  ExecutedInOrder
PROPERTY
  ServerAnswers
CHECK_DEADLOCK FALSE
