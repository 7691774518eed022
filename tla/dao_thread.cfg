SPECIFICATION FairSpec
CONSTANTS
    NTracks = 4
    TrackStart <- MCTrackStart
    TrackType <- MCTrackType
    SubChanType <- MCSubChanType
    BufferSize = 3
    MinNofBuffers = 3
    FifoBuffers = 1
    BlocksPerWrite = 2
    StartLba = 7
    FirstTrackNo = 4
    ReadTest = FALSE
    EncodeAll = FALSE
    Threads = TRUE
    Ordered = TRUE
    OtherChild = FALSE
INVARIANTS
    TypeOK
    RingIsSafe
    DiscIsImage
    NoSessionLeftOpen
    ReaderGoneBeforeRelease
    FullBeforeLeadIn
    AnnouncedTrackIsWritten
PROPERTIES
    BurnSessionAnswers
