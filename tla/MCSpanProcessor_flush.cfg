SPECIFICATION FairSpec
CONSTANTS
    MaxSpans = 4
    MaxTraces = 2
    FlushMinSpans = 2
    RemotePriorities <- MCRemoteSilent
    TagSets <- MCNoTags
    RateSources = {"default"}
    TraceRules = FALSE
    SpanRules = FALSE
INVARIANTS
    NoSpanLost
    NoSpanTwice
    NothingStranded
    TagsReported
PROPERTIES
    EndedIsErased
    ReportsAsPromised
