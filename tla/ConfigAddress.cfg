SPECIFICATION Spec
CONSTANTS
  Inputs <- MCInputs
  Writable <- MCWritable
  Readable <- MCReadable
  BuffSize = 21
CHECK_DEADLOCK FALSE
INVARIANTS
  StartsOnWellFormed
