CONSTANTS
  NumServers = 2
  NumCores = 2
  Memory = 4
  c1 = c1
  c2 = c2
  c3 = c3
  c4 = c4
  Client = {c1, c2, c3}
  NoClient = NoClient
  EnergyAware = TRUE
  Scheduling = 2
  Requests <- MixedRequests
  MaxRequests = 2
SPECIFICATION Spec
INVARIANTS TypeOK JobsTracked ResourcesAccounted
PROPERTIES ImplementsService
CHECK_DEADLOCK FALSE
