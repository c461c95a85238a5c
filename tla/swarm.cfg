SPECIFICATION FairSpec
CONSTANTS
    r1 = r1
    r2 = r2
    Remote = {r1, r2}
    NumPieces = 2
    NumBlocks = 2
    RequestQueueDepth = 2
    RarestListSize = 1
    Swarms <- MCSwarms
    MaxChokes = 1
    SlowChoking = TRUE
INVARIANTS
    RequestsTracked
    NoThreadIdles
    NothingSentTwice
    PiecesAnnounced

    
CHECK_DEADLOCK FALSE
