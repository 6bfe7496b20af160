SPECIFICATION Spec
CONSTANTS
    Jobs <- MCJobs
    Hash <- MCHash
    TokenOf <- MCTokenOf
    KeyBytes <- MCKeyBytes
    BigKeys <- MCBigKeys
    NumReducers = 2
    RecordBytes = 3
    GroupBytes = 7
    MapMaxBytes = 17
    FrameBytes = 1
    ChunkOverhead = 1
    GroupOverhead = 1
    MaxOpen = 1
    SamplesPerMap = 1
    GlobalSamples = 2
    PartRecords = 1
    MaxParts = 2
    MaxRecords = 4
    MaxJoinRecords = 3
    MaxSaveRecords = 3
INVARIANTS
    ResultExact
    FailureJustified
    SpillBounded
    SaveSound
