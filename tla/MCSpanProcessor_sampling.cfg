SPECIFICATION Spec
CONSTANTS
    MaxSpans = 2
    MaxTraces = 1
    FlushMinSpans = 1
    RemotePriorities <- MCRemoteAny
    TagSets <- MCAnyTags
    RateSources = {"default", "agent"}
    TraceRules = TRUE
    SpanRules = TRUE
INVARIANTS
    OneDecision
    DecisionMakerIfKept
    SingledOnlyIfRejected
