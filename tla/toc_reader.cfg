SPECIFICATION FairSpec
CONSTANTS
    SAMPLES_PER_BLOCK = 2
    BlockSize <- MCBlockSize
    MaxIndices = 1
    FourSeconds = 3
    Silence = "silence"
    Discs <- MCDiscs
    SAMPLE_LEN = 2
    SubChannelSize = 1
    FileLength <- Whole
    Lengths = {1, 2, 3, 5}
    Faulty = TRUE
INVARIANTS
    PositionsAgree
PROPERTIES
    StreamAnswers
