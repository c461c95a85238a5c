CONSTANTS
  NumServers = 2
  NumCores = 2
  Memory = 2
  c1 = c1
  c2 = c2
  c3 = c3
  c4 = c4
  Client = {c1, c2, c3}
  NoClient = NoClient
  EnergyAware = FALSE
  Scheduling = 1
  Requests <- MixedRequests
  MaxRequests = 2
SPECIFICATION FairSpec
INVARIANTS NoSimError
PROPERTIES FifoOrder EveryJobFinishes
CHECK_DEADLOCK FALSE
