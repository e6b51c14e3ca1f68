SPECIFICATION Spec
CONSTANTS
  s1 = s1
  s2 = s2
  t1 = t1
  t2 = t2
  t3 = t3
  Listen = Listen
  NULL = NULL
  Slots <- TwoSlots
  Timers <- ThreeTimers
  MaxEpollTimeout = 2
  TimersPerRound = 1
  Faults <- AllFaults
  ReadTimeout = 2
  SendTimeout = 1
  Limit = 2
  Head = 1
  Backlog = 1
  Clients = 3
SYMMETRY Symmetry
INVARIANTS
  Registration
  NoStaleEvent
  TimerOwnership
  Deadlined
  NoLostEdge
  OversleepBounded
  NoLeakAtExit
  PoolBounded
  IndInv
PROPERTY KeepsPromise
