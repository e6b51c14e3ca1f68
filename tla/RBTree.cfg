SPECIFICATION Spec
CONSTANTS
  Nodes = {n1, n2, n3, n4, n5, n6}
  Sentinel = Sentinel
  NULL = NULL
  HalfRange = 2
  MaxDelay = 1
  MaxLate = 0
SYMMETRY Symmetry
INVARIANTS
  TypeOK
  Linked
  Ordered
  NoTwoReds
  EvenPaths
  Walk
PROPERTIES
  LoopsClimb
  KeepsTimers
