SPECIFICATION Spec
CONSTANTS
    SAMPLES_PER_BLOCK = 2
    BlockSize <- MCBlockSize
    MaxIndices = 2
    FourSeconds = 4
    Silence = "silence"
    InitialTocs <- FourFiles
    NewPieces = {}
    MaxBlocks = 14
    MaxAudioEdits = 1
INVARIANTS
    ScrapHoldsCut
CHECK_DEADLOCK FALSE
