SPECIFICATION MCSpec
CONSTANTS
    c1 = c1
    c2 = c2
    FedClient = {c1, c2}
    MaxNodes = 2
    JobRequests = 2
    SlowTimers = TRUE
    NumRMS = 2
    RmsServers = 2
    NumServers = 3
    NumCores = 3
    Memory = 3
    Client = {}
    NoClient = NoClient
    ServerKinds <- AllKinds
    SearchRequests <- QRequests
    MaxCandidates = 2
    WakeUp = 3
    Margin = 1
    CoresOfServer = 4
    NumRAMsticks = 2
    RAMstickSize = 2
    JobKinds <- MCJobKinds
    SleepModes = {1, 2}
    MaxPUE = 1
INVARIANTS
    JobsFollowed
    BackfillAgrees
    
PROPERTIES
    
    AllJobsFinish
CHECK_DEADLOCK FALSE
