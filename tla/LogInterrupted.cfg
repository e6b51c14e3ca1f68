SPECIFICATION Spec
CONSTANTS
  MaxFd = 4
  MaxRotations = 1
INVARIANT LineInItsLog
