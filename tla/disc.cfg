SPECIFICATION FairSpec
CONSTANTS
    Tocs <- MCTocs
    TwoSeconds = 2
    LeadInLength = 18
    LeadOutLength = 7
    CodePeriod = 8
    IsrcPhase = 4
    Blink = 4
    Readers <- MCReaders
    Burst = 3
    Overlap = 2
    TaoAdjust = 1
    ScratchLength = 2
    MaxFaults = 1
INVARIANTS
    LayoutIsWritten
    CodesGiveWay
    CopyIsDisc
    TocIsDisc
    MarksAreReal
PROPERTIES
    ReadingEnds
