CONSTANTS
  NumServers = 1
  NumCores = 1
  Memory = 1
  c1 = c1
  c2 = c2
  c3 = c3
  c4 = c4
  Client = {c1, c2}
  NoClient = NoClient
  EnergyAware = TRUE
  Scheduling = 1
  Requests <- SmallRequests
  MaxRequests = 2
SPECIFICATION Spec
INVARIANTS QueueAwaitsAFinish
CHECK_DEADLOCK FALSE
