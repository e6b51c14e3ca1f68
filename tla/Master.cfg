SPECIFICATION FairSpec
CONSTANTS
  Starts = 2
  Requests = 2
  Configured = 2
  MaxWorkers = 3
  OneAtATime = TRUE
  Faults = {"listen", "daemon", "pidfile", "fork", "loop", "kill"}
CHECK_DEADLOCK FALSE
INVARIANTS
  MasterInv
  Reachable
  WaitsForAll
  ServeAlone
PROPERTIES
  ExitCompletes
