SPECIFICATION MCSpec
CONSTANTS
    Storages = {"native", "polyfill"}
    FlushOnFinish = {TRUE, FALSE}
    MaxSpans = 3
    MaxEvents = 2
    MaxAwaits = 2
    MaxFlushes = 2
    LogConfigs <- MCLogConfigs
    CallerStores = {"none", "span"}
    MaxMessages = 3
    MaxNested = 2
    Requests = {"request"}
    PluginConfigs <- MCPluginConfigs
    Statuses = {200, 500}
    MaxMiddleware = 2
    MaxEnds = 2
    ipHeaderList <- MCIpHeaders
    IpConfigs <- MCIpConfigs
    HeaderValues <- MCHeaderValues
    Queries <- MCQueries
    Obfuscators = {"regex"}
    Preflights <- MCPreflights
    TracingHeaders = {"x-datadog-trace-id"}
CHECK_DEADLOCK FALSE
INVARIANTS
    ContextsKept
    MiddlewareEndsFirst
    RequestTagsKept
