SPECIFICATION FairSpec
CONSTANTS
    Media <- MCMedia
    CacheBlocks = 3
    Pregap = 2
    MaxSwaps = 1
    BlocksPerWrite = 2
    LeadInBlocks = 2
    Length = 5
    Jobs <- MCJobs
    BufferBlocks = 3
    PipeBlocks = 2
INVARIANTS
    TypeOK
    SuccessIsComplete
    FailureHasReason
    LeavesNothingBehind
    SimulationBurnsNothing
PROPERTIES
    CommandEnds
    SessionIsImage
    MediumStays
