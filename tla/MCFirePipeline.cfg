\* Bytes are few: a limit of three, chunks of one or two, and declared lengths
\* that are missing, small and too large.  CHECK_DEADLOCK: an answered request
\* is over.
SPECIFICATION PipelineSpec
CONSTANTS
    MaxBytes = 3
    ChunkSize = 2
    MaxRows = 4
    SourceRows <- MCSourceRows
    Payloads <- MCPayloads
    DeclaredLengths <- MCDeclaredLengths
    Bounds <- Inside
    FiveDecimals = 4
    CleanText <- MCCleanText
    Aliases = {"h"}
    EarliestTime = 0
    LatestTime = 2
    HighFrp = 500
    ReprOrder <- MCReprOrder
    Detections <- MCDetections
    Near <- MCNear
    TimeLimit = 1
    BufferOffsets <- Buffer
INVARIANTS
    PipelineTypeOK
    MemoryBounded
    KeptAreLeast
    FrameIsClean
    FoundAreComponents
    IdsIdentify
    SteadyIsStable
    EnvelopesEnclose
PROPERTY RequestEnds
CHECK_DEADLOCK FALSE
