SPECIFICATION FairSpec
CONSTANTS
    o1 = o1
    Others <- MCOthers
    MaxChunks = 2
    MaxActiveRequests = 1
    SoftLimit = 1
    Intervals = {"zero", "positive", "negative"}
CHECK_DEADLOCK FALSE
INVARIANTS
    EachChunkOnce
    BufferIsDue
PROPERTIES
    UnloadSends
    DeliversAsPromised
    ChunksLeave
