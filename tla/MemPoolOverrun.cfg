SPECIFICATION Spec
CONSTANTS
  Limit = 40
  Sizes = {8, 40, 41}
  Chunks = {1, 2}
  MaxBlocks = 3
  MaxGrants = 4
CHECK_DEADLOCK FALSE
INVARIANT Inside
