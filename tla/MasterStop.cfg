SPECIFICATION Spec
CONSTANTS
  Starts = 1
  Requests = 1
  Configured = 2
  MaxWorkers = 3
  OneAtATime = TRUE
  Faults = {}
CHECK_DEADLOCK FALSE
INVARIANT StopsALoop
