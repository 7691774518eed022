SPECIFICATION Spec
CONSTANTS
    NTracks = 4
    TrackStart <- MCTrackStart
    TrackType <- MCTrackType
    SubChanType <- MCSubChanType
    BufferSize = 3
    MinNofBuffers = 5
    FifoBuffers = 1
    BlocksPerWrite = 2
    StartLba = 7
    FirstTrackNo = 0
    ReadTest = TRUE
    EncodeAll = FALSE
    Threads = TRUE
    Ordered = TRUE
    OtherChild = FALSE
INVARIANTS
    SuccessIsComplete
