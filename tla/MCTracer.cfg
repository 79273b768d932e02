SPECIFICATION MCSpec
CONSTANTS
    p1 = p1
    p2 = p2
    l1 = l1
    l2 = l2
    Plugins <- MCPlugins
    Logs <- MCLogs
    MaxEntries = 1
    MaxStarts = 3
    MaxMessages = 3
    MaxPublished = 2
    LogCollection = TRUE
    UserTags <- MCUserTags
    Failures = {"e1", "e2", "other"}
    MaxCalls = 2
    MaxDones = 2
    MaxTags = 1
    OtelSpans = {1, 2}
    MaxDepth = 2
    OtelProcessors = {"p1"}
    InjectStyles <- MCInject
    ExtractStyles <- MCExtract
    Origins = {"none", "synthetics"}
    Foreign <- MCForeign
    MaxHops = 3
    MaxIds = 4
    StatSpans <- MCStatSpans
    MaxIntervals = 3
    GlobalBuffer = TRUE
    Edges = {"produce", "consume"}
    Direction <- MCDirection
    Received = {"remote"}
    BucketSize = 2
    MaxTime = 2
    MaxPoints = 3
    Versions = {"0.4", "0.5"}
    Traces <- MCTraces
    SizeOf <- MCSizeOf
    Cut <- MCCut
    Inherited = {"constructor"}
    Limit = 400
    MaxLength = 3
SYMMETRY MCSymmetry
CHECK_DEADLOCK FALSE
INVARIANTS
    TelemetryAddsUp
    ErrorsReported
    ProcessorsPaired
    PropagationKept
    StatisticsCounted
    PayloadDecodes
PROPERTIES
    SilentWhenStopped
