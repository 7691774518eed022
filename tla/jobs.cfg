SPECIFICATION FairSession
CONSTANTS
    SAMPLES_PER_BLOCK = 2
    BlockSize <- MCBlockSize
    MaxIndices = 1
    FourSeconds = 3
    Silence = "silence"
    InitialTocs <- AudioOrData
    NewPieces = {}
    MaxBlocks = 20
    MaxAudioEdits = 4
    Workers = {w1, w2}
    NoTask = NoTask
    Selections <- OneOrTwo
    MaxJobs = 2
    UserEdits = 1
    ShortScan = 2
    Vanishing = TRUE
    Loading <- LoadedOrNot
    PlayBursts = 1
    Plays = 1
    Manners <- Patient
INVARIANTS
    SessionTypeOK
    CompletedAfterConversion
    EditLockFollowsQueue
    InsertedInPlace
PROPERTIES
    InOrder
    ScannedJobsComplete
CHECK_DEADLOCK FALSE
