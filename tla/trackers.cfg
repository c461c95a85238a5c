SPECIFICATION FairSpec
CONSTANTS
    p1 = p1
    p2 = p2
    seed = seed
    sub = sub
    tr = tr
    Terminals = {p1, p2}
    Seeders = {seed}
    SubTracker = sub
    Tracker = tr
    Configs <- TrackingConfigs
    MaxLate = 0
    ConnectGiveUp = 2
    MaxNumEmptyTrackerResponses = 1
INVARIANTS
    RepliesEnd
    
PROPERTIES
    LivingPeersStay
    
    GonePeersForgotten
CHECK_DEADLOCK FALSE
