SPECIFICATION FairSpec
CONSTANTS
  MaxFd = 4
  MaxRotations = 2
INVARIANTS
  LogsOpen
  OnePerLog
  NoLineToClient
  RotationComplete
  LogInv
PROPERTIES
  RotationTakes
