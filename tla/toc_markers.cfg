SPECIFICATION Spec
CONSTANTS
    SAMPLES_PER_BLOCK = 2
    BlockSize <- MCBlockSize
    MaxIndices = 2
    FourSeconds = 4
    Silence = "silence"
    InitialTocs <- MarkerTocs
    NewPieces = {}
    MaxBlocks = 14
    MaxAudioEdits = 0
INVARIANTS
    TracksLastFourSeconds
    NoAssertionFails
PROPERTIES
    MarkersMoveNoAudio
    MovedMarkerIsThere
CHECK_DEADLOCK FALSE
