# dd-trace-deno in TLA+

TLA+ modules of the tracer in `src/packages/dd-trace/src` (paths below are
relative to that directory), TLC configurations that check them on small
instances, and TLAPS proofs of the properties that matter most.

The code is a port of a Node.js tracer to Deno. It is single-threaded
JavaScript: a function runs to its end or to its next `await`, so an action of
the models is one such turn, and the interleavings are those of the turns:
calls made by concurrent requests of the application, timers, answers of the
agent. There are next to no unit tests in the repository (only
`external-logger/test/index.spec.ts`), which makes the order of events the
part of the code nobody has tried.

## The system

| Part | State | Operations | Talks to |
|---|---|---|---|
| Tracer, spans (`opentracing/*.ts`) | per trace, shared by reference among its spans: `started`, `finished`, `tags`, `_sampling`, `isRecording`; per span: tags, duration, parent | `startSpan`, `setTag`, `addTags`, `finish`, `inject`, `extract` | priority sampler on every tag and inject; span processor on every finish |
| Span processor (`span_processor.ts`) | `_killAll` | `process`, `killAll` | samplers, `format.ts`, span statistics, exporter |
| Priority sampler (`priority_sampler.ts`), span sampler | rates of the agent, rules, rate limiter | `sample`, `update` | the agent writer updates the rates |
| Agent exporter and writers (`exporters/**`, `encode/0.4.ts`) | buffer and its count, timer | `export`, `flush`, timer, `beforeunload` | the request limiter |
| Request limiter (`exporters/common/request.ts`) | `activeRequests`, shared by everything in the process that talks to the agent | `request`, retry, callback | `fetch` |
| CI visibility exporters (`ci-visibility/**`) | promises for the agent's abilities and for the upload of git data, uncoded traces, skippable suites | `export`, `getSkippableSuites`, `getItrConfiguration`, `sendGitMetadata`, `flush` | request limiter, git |
| Remote configuration (`appsec/remote_config/*.ts`) | poll timer, products with a listener, capabilities, client state | `on`, `off`, `poll`, `parseConfig`, `dispatch` | agent, rule manager |
| Application security (`appsec/*.ts`, `appsec/sdk/*.ts`) | on or off, rules, blocking parameters | `enable`, `disable`, `setUser`, `trackEvent`, `passportTrackEvent`, `block` | remote configuration, root spans, WAF (external) |
| IAST (`appsec/iast/**`) | request quota, operation quota per request, reported hashes, metrics, log collector | request start and end, `hasQuota`, `addVulnerability`, `sendVulnerabilities` | telemetry, spans |
| Telemetry (`telemetry/*.ts`) | application and host data, interval, sent integrations and dependencies, metrics | `start`, `stop`, `updateIntegrations`, flush of metrics | request limiter |
| Data streams (`datastreams/*.ts`), span statistics (`span_stats.ts`) | buckets by time | record, timer | their writers |
| Metrics (`dogstatsd.ts`, `runtime_metrics.ts`, `histogram.ts`) | buffer, queue | `gauge`, `increment`, `flush` | HTTP proxy, UDP |
| External logger (`external-logger/src/index.ts`) | queue | `log`, `flush`, timer | log intake |
| Plugins (`plugin_manager.ts`, `plugins/*.ts`) | loaded classes, instances, configurations | `loadPlugin`, `configurePlugin`, `configure`, `destroy` | diagnostics channels |
| Async context (`datadog-core/src/storage`, `scope.ts`) | store of the current execution | `run`, `enterWith`, `bind`, `activate` | everything that asks for the active span |
| Propagation (`opentracing/propagation/*.ts`) | none (tracestate is a shared object) | inject and extract of the header styles | tracer |
| Shimmer (`datadog-shimmer`) | wrapped properties | `wrap`, `massWrap`, `unwrap` | plugins |
| Logging (`log/*.ts`) | level, logger, subscriptions | `toggle`, `reset`, `use`, `debug` .. `error` | all; the application's logger |
| Proxy (`proxy.ts`, `config.ts`) | initialized or not, the noop or the real tracer | `init`, `use` and the tracer's interface | starts all the others |
| Calls (`tracer.ts`, `scope.ts`) | the active span | `trace`, `wrap`, `activate`, `bind` | spans, async context |
| OpenTelemetry bridge (`opentelemetry/*.ts`) | contexts, span processors | `startSpan`, `startActiveSpan`, `with`, `end`, `setStatus` | tracer, spans |
| Web requests (`plugins/util/web.ts`, `ip_extractor.ts`) | a context per request: span, middleware, route, finished or not | `instrument`, `enterRoute`, `wrapMiddleware`, `finishAll`, `wrapWriteHead` | spans; called by web integrations, of which the repository has none |

`PROJECT.json` lists every component with its files and what is left out of
it, and under `hazards` what is hard to test, each at the line where it bites.

### What makes each part correct

- **Spans and processor.** Every finished span is reported exactly once or its
  trace was filtered; nothing unfinished is reported; a trace is decided once,
  and all that is sent about it agrees; the tags of a trace reach the agent;
  no finished span stays in memory.
- **Limiter.** The counter equals the number of pending fetches, so that the
  limit is neither exceeded nor reached for ever.
- **Exporter.** A chunk is in exactly one place; what is buffered is due, and
  never more than the soft limit; a chunk arrives at most twice, and never after
  it was dropped.
- **Remote configuration.** At most one poll loop; what is announced is what
  application security can be told.
- **Application security.** Once the SDK has reported a login, the root span
  names the user the application named last, and none that was collected
  automatically.
- **Start.** Each subsystem starts once, in the order of `init`, whatever the
  application calls meanwhile; a plugin ends as it was last configured.
- **Requests of the application.** Their spans finish from the inside out, with
  the response, once; code that is not traced leaves the active span as it was.
- **Propagation.** A trace keeps its id, its decision and its maker on its way
  through services of different styles.
- **Encoders.** A payload decodes to the traces it was made of.
- **IAST.** The quotas of concurrent requests come back to what they were; what
  was detected is reported once.
- **Telemetry, data streams, statistics.** What was counted is sent once,
  whenever an interval cuts it.
- **Metrics.** An increment is delivered once or lost, whichever way it takes.
- **Errors.** A failure that a traced call had before it finished is in its
  report.
- **Redaction.** No report of IAST shows what a rule calls sensitive.

## Modules

| Module | Models |
|---|---|
| `SpanProcessor` | tracer, spans, samplers, span processor |
| `TraceReporting` | what the reporting of spans promises; `SpanProcessor` is checked to implement it |
| `SpanProcessorProofs` | theorems about `SpanProcessor` |
| `Requests` | the request limiter |
| `RequestsProofs` | theorems about `Requests` |
| `AgentExporter` | exporter, writer and buffer, composed with an instance of `Requests` |
| `LossyDelivery` | what the exporter promises of a chunk; proved to be implemented |
| `AgentExporterProofs` | theorems about `AgentExporter`, and the refinement |
| `ExternalLogger` | the queue of logs, its flushes and their callbacks |
| `Telemetry` | start, stop, heartbeat and unload of telemetry, the list of integrations, and the collector of the library's logs |
| `Iast` | request slots, operation quotas, the cache of reported vulnerabilities, the scopes of metrics |
| `AsyncContext` | the store of the running job: scopes, awaits, and what `request` does to it |
| `Redaction` | the evidence of a vulnerability, its sources and sensitive ranges |
| `AppSec` | enabling application security, the poll loop of the remote configuration, the SDK and passport |
| `Startup` | configuration precedence, `init` with its awaits, the plugin manager and the log plugin |
| `Metrics` | the DogStatsD clients over HTTP and UDP, custom and runtime metrics |
| `Encoder` | the buffers and string tables of the encoders 0.4 and 0.5 |
| `SpanStats` | groups of finished spans, cut by an interval |
| `DataStreams` | checkpoints of a pathway, their buckets and their interval |
| `Varint` | the variable length numbers of data streams |
| `Propagation` | headers of five styles, the log's among them, over several services |
| `OpenTelemetry` | spans, contexts and span processors of the OpenTelemetry interface |
| `TracedCalls` | `trace`, `wrap`, `activate` and `bind`: when a span finishes and which error it reports |
| `WebRequests` | the context of an application's request, its middleware and its ends |
| `RequestTags` | the client's address, the query and the preflight headers of a request |
| `Logging` | the channels, the writer and the application's logger in its noop store |
| `Delivery` | `Requests`, `ExternalLogger` and `Metrics` side by side |
| `Security` | `Startup`, `Iast`, `Redaction` and `AppSec` side by side |
| `Application` | `AsyncContext`, `Logging`, `WebRequests` and `RequestTags` side by side |
| `Tracer` | `Telemetry`, `TracedCalls`, `OpenTelemetry`, `Propagation`, `SpanStats`, `DataStreams` and `Encoder` side by side |
| `DeliveryProofs`, `SecurityProofs`, `ApplicationProofs`, `TracerProofs` | theorems about the parts of these four |
| `Loops` | lemmas about loops, which four of the proof modules use |
| `MCDelivery`, `MCSecurity`, `MCApplication`, `MCTracer` | the values with which TLC checks these four |
| other `MC*` | the instances of one module that TLC checks |

### SpanProcessor

Spans are numbered in the order they start; `home` says to which trace object
a span belongs. `started`, `finished`, `decision`, `recording` are the fields
of that object. `started` is a set because the code only pushes to the array
and filters it: the array is the set in increasing order and `started[0]` its
minimum. The decision has three parts: priority, mechanism (`_sampling`) and
the decision maker tag (`_dd.p.dm`). `chunks` and `carriers` record what has
left the process; `counted` what the statistics have seen.

One action is one call of the application (`StartRoot`, `StartChild`,
`StartFromRemote`, `Extract`, `AddTags`, `FilterOut`, `InjectSpan`,
`InjectRemote`, `Finish`, `KillAll`) or an answer of the agent
(`UpdateRates`). `Finish` contains the whole of `process`: sampling, the
single-span rules, formatting, export, erasing. Under the kill switch the loop
that follows finishes further spans; these are steps of their own, during
which `Idle` keeps every other action away, because the code does not yield.

Two things the code has and the model leaves out: `trace.record`, which
`span_processor.ts:59` reads and nothing in the repository writes, and a
negative mechanism that `tracestate` can carry into the decision.

### Requests

`phase` says how far a request has come: `first` and `second` while its fetch
is pending, `retry` while the timer of the second attempt is set, `body` while
the response is read, then how it ended. `mute` is a request whose body could
not be read: `onResponse` is not awaited, and no callback is ever called. The
agent may receive an attempt after the process has given it up, so `received`
grows independently. A callback may make another request; when the second
attempt fails it does so before the slot of that attempt has been given back
(`GiveUp`), which is the only place where the order matters.

### AgentExporter

`Export` is `AgentExporter.export` with all it calls: `append`, `encode`,
which may flush when the buffer is over its limit, and the second flush or
the timer. `Flush` is `Writer.flush`: at the limit of active requests the
buffer is discarded. Requests of other parts of the process (telemetry,
remote configuration) share the limiter; they are `Others`. `Unload` is
`beforeunload`: the event loop has nothing left to do, so no request is
pending, the last flush is made, and the process ends; what it sent may still
arrive. `interval` is the configured flush interval, of which only the sign
matters: with zero every export flushes, with a positive one a timer is set, and
with a negative one neither happens, so that only the limit and the end of the
process flush. In the run the soft limit is 1 of 2 chunks: the flush inside
`encode` meets a free and a full limiter.

### ExternalLogger

`queue` is the buffer, `flushes` the requests made of it, each with the
callback of the flush that made it. `log` flushes when the queue is over its
limit, an interval and `shutdown` flush it too, and the application may.
`flush` empties the queue before anything can fail, so that a payload that
cannot be encoded is lost, and so is one whose fetch fails: the properties
count these with the ones that were sent. A callback that throws inside the
`then` handler is called again by the `catch` handler (`LogsAccounted`).

### Telemetry

The two channels, `datadog:telemetry:start` and `:stop`, are subscribed to by
`Iast`'s log module when IAST is enabled, which `proxy.ts` does after it has
started telemetry. `Start`, `Stop`, `UpdateIntegrations`, `Heartbeat`,
`Unload` and the log calls are the actions. `start` does not ask whether
telemetry already runs: a second start sets a heartbeat, and an interval of logs,
next to the first ones, and `stop` clears only what was set last. `overlaps`
counts such starts; what they leave behind goes on to beat
(`HeartbeatsCounted`), and an interval left behind may drain the collector
where `stop` has taken the configuration away (`LogsAddUp`). `proxy.ts` itself
starts telemetry once. Dynamic configuration
(`updateConfig`) and the interval of the metrics are left out.

### Iast

An event on the channel of a sink takes a token before its location is known:
if the location is excluded, what the event found is dropped afterwards
(`Analyze` with no vulnerability). The cookies of one header share an event and
its token and may have several weaknesses, and the analysers of missing headers
take no token at all: they hear of the end of the request, before it is
delivered (`headers` in `RequestEnd`). `QuotaKept` is therefore about events.

The end of a request is published on a channel, and its handler looks for the
context of the request in the store it runs in and then in the web context. No
publisher is in the repository, so an end may come any number of times, in the
request's own store or where there is no store. An end without a store leaves
the emptied context in the store; one that follows in that store finds it and
gives the slot back a second time (there is a TODO in `iast-context.ts`).
`SlotsAddUp` says that this is the only order in which that happens, and that no
slot leaks in any.

Left out: eviction from the cache of hashes at 1000 entries, deduplication
switched off, `iast.disable`, which nothing calls.

### AsyncContext

`stack` holds the store of the running job. With the native storage, which is
external, a job finds the store it captured; the polyfill of
`async_local_storage.ts` is one stack of frames that promise hooks push and
pop (`Begun`, `Ended`) and `enterWith` only pushes (`Entered`). `eager` says
whether `finish` makes a request at once, as it does with a flush interval of
0 or a full buffer, or only the timer does. `expected` is not in the code: the
span that the scopes of the source text make the active one.

### Startup

`profile` is what the options and the environment say; `Switches` makes of it
what `config.ts` makes. `init` runs to its first `await` in one step and goes
on in others (`CallInit`, `StartService`), so that a second `init`, a `use` and a
log record come in between. `_initialized` is set before the first await:
without that, two calls of `init` start everything twice. Of what may throw,
`StartService` has the tracer, after whose failure nothing else is started; the
failures of the DogStatsD client and of the profiler are caught each for itself
(`proxy.ts:36-48`, `73-79`) and change neither the order nor what follows. Left
out: the other options, which `config.ts` merges in the same way, and the noop
classes.

### Redaction

An evidence is a text of `N` positions, each with a character of its own, so
that every part of a report shows where it is from. The two loops of
`toRedactedJson` are one action per turn (`TaintedTurn`, `SensitiveTurn`,
`PlainTurn`), and `RedactSource` keeps the source's context as the code does.
`EvidenceScrubbed` says that the parts in clear show every position that is not
secret and no other, in the order of the text, and that a source with a secret
loses its value. The run takes every pair of ranges of four positions. What analysers and
regular expressions find is an input. `EvidenceScrubbed` excludes sources that
do not contain the text they taint (`kept`): for them the placeholder may be
shorter than what it stands for, and the code then shows the rest.

### AppSec

The start of application security and what it announces; the scheduler, whose
timer is set again by the answer of a poll; the SDK's and passport's tags on
root spans. `named` is not in the code: the user the application named last.
The scheduler never stops in this port, since a client that listens at all keeps
`APM_TRACING`; the answer of a poll only sets or clears `hasError`: see
*Not modelled*.

### Metrics

Two clients: the application's, with a queue that an interval flushes, and
the runtime's, which captures a registry and flushes in the same turn. A batch
goes over HTTP. If the proxy refuses it with a status, it goes over UDP, after a
lookup unless the host is an address, and after a 404 all later ones do at once.
If the fetch fails twice, is discarded at the limit of requests or answers with
a body that cannot be read, the batch is given up. Over UDP each message is a
datagram of its own, and one that fails ends its batch.

An increment is followed from the call to where it ends: delivered when the proxy
has accepted its batch or its datagram was sent (`reports`), or `lost`. `lost` is
not in the code. What is in a batch is a set, since no property asks for the order
of messages. A fetch that timed out may have arrived all the same; that
the agent then gets a batch twice is the matter of `Requests!received`, and not
counted here.

### Encoder

A payload is a sequence of items in the order they are written. `stringMap`
says where a string is in `stringBytes`; version 0.4 copies the bytes, 0.5 sends
the place. Both chunks and the map are reset together; the mutant that forgets
the map shows what would happen otherwise. `in` also finds what every object
inherits, so that a string such as `constructor` is not written
(`Inherited`): the payload is damaged then, and `PayloadDecodes` leaves such
strings out.

### SpanStats, DataStreams, Varint

`SpanStats` groups by key; the bucket's time is `NaN` in the code, as
`format.ts` makes no `startTime`, and there is one bucket between two
intervals. With `GlobalBuffer = FALSE` the first interval with statistics ends
the process, since the encoder uses a `Buffer` it does not import. In
`DataStreams` a checkpoint has a parent of the other direction
(`Sibling`), and the pathway's hash comes from a cache that takes two parents
for one (`TextOf`). `Varint` is `encoding.ts`.

### Propagation

A trace goes from service to service (`Inject`, `Extract`); each has its set of
styles to inject and its list to extract, and a proxy may drop or damage a
style in between (`Lose`, `Damage`). `story` is not in the code: it is what has happened to the
trace. Ids are numbers, a trace id has a lower and an upper half.

An injection decides a trace only if it has started a span in this service
(`rooted`, `priority_sampler.ts:60`): a context that was extracted undecided
and is injected as it is stays so. In the style of logs a service that read an
id of 128 bits, and logs them, writes the tag before the 32 digits it holds;
48 digits are read as a decimal number, and the reader joins another trace
(`Misspells`). `TraceSurvives` allows that and nothing else.

### OpenTelemetry

A scope has the span that is active in the tracer, or none. Statuses, attributes
and what else a context holds are left out: no processor can tell them apart. A
processor that is added while a span is open hears of its end and never of its
start, which `ProcessorsPaired` allows. The Datadog span below may be finished
without the bridge, by the program that finds it active through the tracer's
scope (`FinishActive`) or by the loop of the span processor after `killAll`
(`KilledWith`; no file under `src/` calls it). `Span.end` then finds a duration
and returns: no processor ever hears of that end.

### TracedCalls

`callStack` holds the calls whose functions run. A call ends by a return, an exception
that passes through every function between, its callback, or a promise. The
tags are a sequence, because their order decides which error message
`format.ts` reports. `trace` itself adds only `Error`s, while `activate`
sets the tag to whatever was thrown. `Failures` are Errors with a message and
one value (`other`) that is no Error; a program that throws a falsy value, which
`format.ts` takes for no error at all, is outside of it.

### WebRequests, RequestTags

The calls of an integration (`Instrument`, `EnterRoute`, middleware) and the
ends of a response, which the application may repeat. `RequestTags` has the
searches of `ip_extractor.ts` over headers whose chunks are public, private or
junk, at the three times the code looks: the start, `appsec`, and the end,
when the socket may be gone.

### Logging

A message runs the application's logger inside `withNoop`, and a logger may
log. `withNoop` has no `finally`: a logger that throws leaves its caller in
the noop store, which `LoggerUntraced` therefore allows after an exception.

### The modules side by side

`Delivery`, `Security`, `Application` and `Tracer` extend several modules each.
These have no variables in common, and their product would be of no interest: a
variable `part`, chosen initially, says which one a behaviour is about, while
the others keep an initial state. Fairness is stated of each part's actions
conjoined with `part`. A property such as `ContextsKept` joins the invariants of
the parts under the name of what they have in common, and each of them is
stated and explained in its module. The `MC` modules of these four add the
values of the constants, and restrict the initial states of the parts that do
not run.

## Runs

All runs deadlock-free unless the process may legitimately stop: the exporter
after `Unload`, the limiter when every request of the bound has been made.

| Run | Shows | Bounds |
|---|---|---|
| `span_flush` | nothing is lost, repeated or stranded by partial flushes; tags of a trace are reported; the refinement of `TraceReporting`; what ended leaves the trace, if the application goes on finishing spans | 4 spans in 2 traces with a threshold of 2: two partial flushes of one trace, interleaved with another, an ended span that waits below the threshold, local or remote, in every order of finishing, with filters and the kill switch |
| `span_sampling` | one decision per trace, decision makers, single-span marks | 2 spans of one trace with a threshold of 1, every carrier, every set of manual tags, rules and agent rates |
| `exporter` | where a chunk is; what is due; end of the process; the refinement of `LossyDelivery`; chunks leave | 2 chunks over a soft limit of 1, one foreign request, limit 1 of requests, flush intervals of each sign |
| `delivery` | `Requests`: the counter, and ends of requests; `ExternalLogger`: a log is in one place, a callback is called once, logs leave; `Metrics`: an increment is in one place, span gauges, every count ends | 3 requests, limit 2: a full house, a discard, a retry that is discarded; 3 logs, limit 2, one that cannot be encoded; an increment of each kind, a span, 2 batches of each client under way |
| `security` | `Startup`: each subsystem once, in order; the log plugin. `Iast`: slots, quotas, reports, metrics. `Redaction`: nothing sensitive in clear. `AppSec`: one chain of polls, what is announced, the user of a login | 7 profiles, 2 calls of `init`, 2 uses, 2 records; 3 requests, 2 slots, 2 vulnerabilities, 1 token per request, an end published twice, each in its store or where there is none; every pair of ranges of 4 positions, then a second evidence; 5 configurations, 3 polls, 3 calls |
| `application` | `AsyncContext`: the active span, handlers of requests; `Logging`: loggers are untraced; `WebRequests`: order of finishing; `RequestTags`: address and preflight | 3 spans, 2 events, 2 awaits, 2 flushes, either storage; 3 messages, nested once; 2 middlewares, 2 ends; 3 headers of 6 values |
| `tracer` | `Telemetry`: timers, lists and logs over a restart; `TracedCalls`: errors; `OpenTelemetry`: processors; `Propagation`; `SpanStats` and `DataStreams`: counts; `Encoder`: payloads | 3 starts, also while it runs, 2 plugins, 2 kinds of log; 2 calls, 2 callbacks, 1 user tag; 2 spans, 1 processor; 3 hops, 4 ids, 3 sets of styles and foreign carriers; 4 spans of 2 groups, 3 intervals; 3 checkpoints over 2 buckets; 3 traces with shared strings |
| `logger_told` (violation) | a failed fetch is told as a success | as in `delivery` |
| `telemetry_init` (violation) | the log module misses the start | 1 start |
| `context_finish` (violation) | a request made by `finish` leaves the noop store to its caller | as in `application`, native storage |
| `varint` (violation) | 64 is encoded to a byte that decodes to 0 | -70 .. 70 |
| `traced_promise` (violation) | the span of a function with a callback and a promise stays open | as in `tracer` |

The bounds are enough because the code compares only two lengths with each
other and with one threshold: with a threshold of 2, a trace of 4 spans has
a partial flush, a second one, and a final one; and a limiter of one slot
meets every combination of a full and a free slot. In the other modules what
can go wrong takes two of a thing: two calls of `init`, two parents of a
checkpoint, two ends of a response, two intervals and a span between them, a
string that occurs in two payloads; the bounds allow for two and, where a third
interferes with both, for three. Four positions
have every way for two ranges to lie. The requests and the vulnerabilities of IAST
are interchangeable, and so are the plugins and the log entries of telemetry:
`security` and `tracer` use that as a symmetry, and check no liveness.

### Disagreements found

Five runs end in a violation on purpose; `PROJECT.json` quotes the sentence
each of them contradicts.

- `logger_told`: when the fetch of a flush fails, the `catch` handler calls
  the callback without the error; the test of the package expects the error.
- `telemetry_init`: `proxy.ts` starts telemetry before it enables IAST, whose
  log module learns its configuration from the event of that start. With log
  collection on, it never gets it and drops every log.
- `context_finish`: `request` enters the noop store and leaves it only in its
  continuation. Its caller goes on meanwhile, with no active span.
- `varint`: `encodeUvarint64` takes a rest of exactly 0x80 for its last group
  and loses the bit; 64 decodes to 0.
- `traced_promise`: `trace` decides by the number of parameters who finishes a
  span, so that a promise returned by a function with a callback is ignored.

The polyfill of the storage leaks, too: a frame that `enterWith` pushes is
never popped, and a later, unrelated job starts in it. `ActiveIsExpected` fails
with `Storages = {"polyfill"}`; since runtimes that have
`AsyncLocalStorage.enterWith` do not use the polyfill, there is no run for it,
and `ContextsKept` states the active span of the native storage only.

### Fairness

`SpanProcessor!FairSpec` assumes that the application goes on finishing spans
while some are open, whichever it likes: without that, spans rightly stay in
memory, and with it an ended span that waits below the threshold leaves its trace
when the others have ended. `Requests!Fairness` assumes that a
fetch or the reading of a body ends, which `AbortSignal.timeout` enforces, and
that the timer of a retry fires; nothing is assumed of the agent. The exporter
adds that its timer fires; with a negative interval there is none, and `ChunksLeave`
says nothing. `ExternalLogger!LoggerFairSpec` assumes that its interval
fires and that a fetch settles. `Metrics!MetricsFairSpec` assumes that both intervals
fire and that each batch goes on: its HTTP request, its lookup and its next datagram
end, which their callbacks in `dogstatsd.ts` rely on. A response whose body is
never read settles no promise, and its batch counts as given up. `Delivery`
states the last three for its parts.

## Proofs

TLAPS proves, for every number of spans, traces, chunks and requests and every
limit, from the named assumptions on the constants (`BoundAssumption`,
`FlushMinAssumption`, `InputAssumption`, `RequestsAssumption`, ...):

- `SpanProcessorProofs`: type correctness, `NoSpanLost`, `NoSpanTwice`,
  `NothingStranded`, `OneDecision`, `DecisionMakerIfKept`,
  `SingledOnlyIfRejected`, `TagsReported`, and that
  `SpanProcessor` implements `TraceReporting`. The inductive invariant says
  in addition which trace each span in an array belongs to, that `finished` is
  the part of `started` that has ended, that what is exported is neither
  started nor waiting, and that a trace that has told anybody its priority has
  one. Without the second fact the two lengths `process` compares say nothing
  of the sets, and `NothingStranded` would not be inductive. The refinement
  rests on the same facts: what a flush takes out of `started` is what had ended
  and waited, so that it is in no chunk yet. `TagsReported` needs that a set of
  numbers has a least one (`Loops!MinIs`, from the well-foundedness of the naturals).
- `RequestsProofs`: type correctness, `SlotsAreFetches`,
  `AnsweredWasReceived`.
- `AgentExporterProofs`: type correctness, `EachChunkOnce`, `BufferIsDue`,
  `RatesAreAnswered`, `UnloadSends`, and that `AgentExporter` implements
  `LossyDelivery`. The limiter's theorems are used through an instance of
  `RequestsProofs`; the invariant relates a payload to the request named after
  one of its chunks.
- `SecurityProofs`. Of `Startup` and `AppSec`: `StartsInOrder`,
  `RecordsMeetTracer`, `LogPluginReady`, `RemoteConfigKept` (which joins
  `OnePollChain` and `WafAnnounced`) and `UserIsNamed`. The first needs that
  at most one call of `init` is under way and that the counts of starts are,
  while it is, exactly what it wants of the places before its own; the second
  that a subscribed plugin is an enabled one, that enabling needs the
  configured manager, and that this comes after the tracer, which the same
  switch wants; the third that the manager remembers the last `use`, and that
  the plugin follows it from the moment the manager is configured. For the
  fourth, a client with listeners keeps `APM_TRACING`, so that no withdrawal of
  the WAF stops it between a poll and its answer. For the last, the user tags of a
  root span are at most one, and after a login that the SDK reported they are the
  application's.
  Of `Iast`: type correctness, `SlotsAddUp`, `QuotaKept`, `ReportedOnce`,
  `NothingDropped`. The invariant adds who refers to a context: the web context
  exactly while it is live, the store at least as long, and longer only when the
  ends so far came without a store. What is given back too often is then one slot
  for each request with such an end before one in its store (`ReleasedAnew`), and
  without that `SlotsAddUp` would not be inductive.
  `IastAddsUp` adds the metrics: only live requests hold counts, so that the
  end of a request moves its counts in one step.
  Of `Redaction`: `EvidenceScrubbed`. The invariant (`RedactionInv`) says, of
  every turn of the two loops, that a position from there on is sensitive exactly
  if it is in a sensitive range that is left or in what a range that began earlier
  has left to the tainted range that comes next (`Covered`); that only the source
  of that range has such a rest, and no more than one (`Carried`); that a tainted
  range which is gone with a secret in it has its source redacted
  (`SecretsFound`); and that the parts so far show what was not secret
  (`ToldSoFar`). It also needs that between two evidences no source is redacted
  and still has its value (`NoneLeft`): a later evidence with a source that an
  earlier one has redacted would otherwise add it to nobody's list. Below it, a
  run of the text stands for its positions (`IsRun`), and the parts that
  `writeRedactedValuePart` makes of a text which its source has are what the
  contexts leave of it (`PartsTold`): each placeholder is then as long as what
  it stands for, which is what fails where the source does not have the text.
- `ApplicationProofs`, of `AsyncContext`, `Logging`, `WebRequests` and
  `RequestTags`: `ContextsKept`, `LoggerUntraced`, `MiddlewareEndsFirst`,
  `RequestTagsKept`. `ContextsKept` needs
  what every job that waits will find: that each captured store belongs to the
  span the source text expects there (`Labelled`), for the jobs, for the scopes
  entered and for the promises alike, and that a promise settled by the tracer's
  own request settles untraced. For `MiddlewareEndsFirst`, an open middleware
  span is one its request's context still holds, and the root span is open from
  the instrumentation to the first end. For `RequestTagsKept`, what the loop of
  `extractIp` holds after a number of headers is the first address of these by
  its kind; as the request's headers stay, whatever was found at any of the three
  looks is right at all of them.
- `DeliveryProofs`, of `ExternalLogger` and `Metrics`: `LogsAccounted` and
  `CountsAccounted`. The first adds how often a flush has called its callback at
  each stage of its promise; the second sums, of one increment, the registry, the
  queue, the slots of the batches, what was delivered and what was lost, each of
  which a step changes by at most one, and needs for the gauges that no
  span starts before `init` has decided on the clients.
- `TracerProofs`, of `Telemetry`, `TracedCalls`, `OpenTelemetry`, `Propagation`,
  `SpanStats`, `DataStreams` and `Encoder`: `TelemetryAddsUp`,
  `SilentWhenStopped`, `ErrorsReported`, `ProcessorsPaired`, `PropagationKept`,
  `PayloadDecodes`, and `StatisticsCounted`, which is stated of the composition
  `Tracer`. Telemetry needs that all but what overlapping starts have left is off while it is
  stopped, that the intervals of logs are no more than these and the running one,
  and that the closing messages and the listener together are no more than the starts.
  `ProcessorsPaired` needs that the processors a span was started with stay
  registered, and that nobody hears of a span before its start, of its end
  before it ends, or of an end below the bridge at all. Propagation relates each carrier, style by style, to what a
  service of this tracer or of another wrote, however a proxy has damaged it, and
  what a service holds to the trace's story; a style that carries half of the
  trace id says nothing of the other half. `SpanStats` needs that every report
  has a number below the next one, so that its units are new; `DataStreams` that
  the pathway says where it last turned and that its starts lie in order.
  For `ErrorsReported`, the error tags of a span are what it was told so far
  (the last error told as a message, an exception under `error`), and the
  formatting of tags is followed tag by tag: what a turn of the loop makes of
  `error.message` depends on the tags after it only if these are error tags.
  For `PayloadDecodes`, the string table and its map are inverse to each other
  on what was written, so that the items of a value decode to it, and an
  encoder only appends: what is decoded of an earlier part stays so.

Where modules stand side by side, the theorem `PartsAreKept` of the proof module
says that the composition keeps what each part keeps alone: a step of the
composition is a step of one part and leaves the variables of the others alone
(`PartsAreTheirs`, `WebIsAPart`, `TagsAreAPart`). It is what the runs `delivery`, `security`,
`application` and `tracer` check on their instances.

What a loop computes is proved without induction over data. Loops are recursive
functions on `0 .. n` here; that such a function exists and satisfies its
equation (`LoopExists`), and that an invariant of its turns holds at its end, are
proved with the set of the numbers up to which it does: a set that has 0, and with
each number below `n` the next, is `0 .. n` (`CountingUp`). The three lemmas are
in `Loops`. The attempts at these proofs corrected three
definitions: `StringIn` had two cases that overlap, between which TLA+ leaves the
choice open; the texts that `TracedCalls` takes for false depend on their type;
and a tag named `error.message` counts as set by the program.

Sums are counted as sets of units: what a report says under a key is the set of
pairs of that report and a number up to it (`CountedUnits`, `LiveIncreases`,
`SentEntries`). Their cardinalities add up by the theorems on finite sets, where
a fold over the reports would need induction.

The theorems about `AppSec`, `WebRequests` and `OpenTelemetry` need no assumption
on the constants. The others use the one their module names: that inputs are of
their types (`UsesAssumption`, `LoggerAssumption`, `TelemetryAssumption`,
`StatsAssumption`, `HeadersAssumption`, `TracesAssumption`, `CallsAssumption`,
`ReportsAssumption`, which has in addition that the ranges of an evidence are in
order and do not overlap, ...),
that sets to be counted are finite, and that a constant
which the code compares is not confused with another (`StreamsAssumption`: a tag
is not a received hash; `PropagationAssumption`: what other services send is a
carrier of the style it claims).

Only model-checked: the liveness properties (they need fairness and
`ENABLED`), and the number encoding of `Varint`, a recursion over numbers.

## Not modelled

Some of the code cannot be reached in this port, and a model of it would have
no reachable inputs to check:

- `appsec/remote_config/manager.ts:308` decodes with
  `TextEncoder.encode(...).toString()`, a list of numbers, which `JSON.parse`
  refuses, so that no configuration is ever applied; `poll` sends `""`, because
  the replacer at line 150 returns the key. What remains is the poll loop and
  `has_error`. The rule manager gets rules from the local configuration only,
  and `Config.configure` is called by nobody else.
- `plugins/index.ts` is commented out, so that only the log plugin exists, and
  nothing publishes on the channels of the others or calls `web.ts`.
- The CI visibility writers call the constructor of their base class without
  the encoder it needs and so throw; only the path over the plain agent writer,
  taken when the agent has no event platform proxy, works.
- The rule manager's merging of remote rules, and the WAF, are behind that
  decoding.

Left out although it runs, because it is a function of its input with no state
to go wrong: the copying of configuration options (`config.ts`) other than
those `Startup` has, the types of `interfaces.ts`, the tables of service names,
the reading of CI variables (`plugins/util/ci.ts`), analysers and their
patterns, MessagePack's bytes, the histograms' sketches, the patching of
functions (`datadog-shimmer`), output such as the start-up log, and the token
bucket of `rate_limiter.ts`, whose refusal the samplers' models take as
possible. Out of reach of the checker are wall-clock times and floating point
numbers: rates and durations are chosen from small sets.

A few things the code does and a property therefore has to exclude are named
where the property is stated: `Inherited` strings in `Encoder`, sources that do
not contain their text in `Redaction`, a throwing logger in `Logging`, headers
passed to `writeHead` in `RequestTags`, a missing global `Buffer` in
`SpanStats`.
