SPECIFICATION FairSpec
CONSTANTS
    c1 = c1
    c2 = c2
    Client = {c1, c2}
    Restartable = {c1}
    FileSize <- Sizes
    Percent <- Percents
    PacedSets <- PacedChoices
    InitAdv = 1
    MinAdv = 2
    ThreshYO = 2
    ThreshGY = 2
    ScheduleRestart = TRUE
    Chunk = 2
    BytesToSend = 2
    LearningEnabled = TRUE
    BurstMode = TRUE
    ChangeChunksize = TRUE
    InitialPolicy = TRUE
    MaxRestarts = 1
    MaxUsers = 10
    Mss = 1
    IdleCoversPlay = TRUE
INVARIANTS
    OneTimerPlays
    BufferStateKnown

    
CHECK_DEADLOCK FALSE
