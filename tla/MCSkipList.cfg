SPECIFICATION Spec
CONSTANTS
  Keys = {1, 2}
  Values = {0, 3}
  TrancIds = {1, 2}
  MaxLevel = 2
  MaxNodes = 3
  SizeModulus = 16
  Null = Null
INVARIANTS
  LevelsNested
  BackwardInvertsForward
  LatestFound
PROPERTY
  ImplementsVersionTable
