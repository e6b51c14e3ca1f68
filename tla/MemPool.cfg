SPECIFICATION Spec
CONSTANTS
  Limit = 48
  Sizes = {8, 48, 49}
  Chunks = {1, 2}
  MaxBlocks = 10
  MaxGrants = 10
CHECK_DEADLOCK FALSE
INVARIANTS
  PoolInv
  Inside
  Apart
  LargeKept
  GivenUp
