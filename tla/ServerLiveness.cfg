SPECIFICATION FairSpec
CONSTANTS
  s1 = s1
  s2 = s2
  t1 = t1
  t2 = t2
  t3 = t3
  Listen = Listen
  NULL = NULL
  Slots <- TwoSlots
  Timers <- TwoTimers
  MaxEpollTimeout = 1
  TimersPerRound = 1
  Faults <- OtherFaults
  ReadTimeout = 1
  SendTimeout = 1
  Limit = 2
  Head = 1
  Backlog = 2
  Clients = 2
INVARIANT ListenDrained
PROPERTIES
  NeverStuck
  StopObeyed
  BacklogServed
  ClientHeard
