CONSTANTS
  NumServers = 2
  NumCores = 2
  Memory = 4
  c1 = c1
  c2 = c2
  c3 = c3
  c4 = c4
  Client = {c1, c2, c3, c4}
  NoClient = NoClient
  EnergyAware = TRUE
  Scheduling = 3
  Requests <- BackfillRequests
  MaxRequests = 1
SPECIFICATION FairSpec
PROPERTIES PlacedJobsFinish
CHECK_DEADLOCK FALSE
