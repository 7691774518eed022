SPECIFICATION AudioSpec
CONSTANTS
    SAMPLES_PER_BLOCK = 2
    BlockSize <- MCBlockSize
    MaxIndices = 2
    FourSeconds = 4
    Silence = "silence"
    InitialTocs <- AudioTocs
    NewPieces <- SilentPiece
    MaxBlocks = 7
    MaxAudioEdits = 2
INVARIANTS
    MarksOrdered
    CutIsExact
    CutKeepsMarksNear
PROPERTIES
    PasteIsExact
CHECK_DEADLOCK FALSE
