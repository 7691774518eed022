SPECIFICATION FairSpec
CONSTANTS
    NTracks = 4
    TrackStart <- MCTrackStart
    TrackType <- MCTrackType
    SubChanType <- MCSubChanType
    BufferSize = 3
    MinNofBuffers = 3
    FifoBuffers = 10
    BlocksPerWrite = 2
    StartLba = 7
    FirstTrackNo = 4
    ReadTest = FALSE
    EncodeAll = TRUE
    Threads = FALSE
    Ordered = TRUE
    OtherChild = TRUE
PROPERTIES
    BurnSessionAnswers
