------------------------------- MODULE Metrics -------------------------------
(***************************************************************************)
(* dogstatsd.ts and runtime_metrics.ts: what the process counts, and how   *)
(* it reaches the agent, over the agent's HTTP proxy or over UDP.          *)
(*                                                                         *)
(* There are two clients.  The application writes to "custom", which an    *)
(* interval set by proxy.ts flushes.  The tracer counts in a registry that *)
(* the interval of runtime_metrics.ts drains into "runtime" and flushes in *)
(* the same turn, so that only the custom client has a queue in between.   *)
(*                                                                         *)
(* A batch is what its messages report, a set of increments: in which      *)
(* order they go, and which of them share a message, no property asks, and *)
(* gauges report none.                                                     *)
(***************************************************************************)
EXTENDS Integers, FiniteSets

CONSTANTS
    Custom,      \* bound: increments made by the application
    Counted,     \* bound: increments of monotonic counters, in the registry
    Rejections,  \* bound: unhandled rejections
    Spans,       \* bound: the spans the tracer creates
    MaxBatches,  \* bound: batches of a client under way at a time
    HostIsIP     \* whether dogstatsd.hostname needs no lookup

ASSUME MetricsAssumption == IsFiniteSet(Spans) /\ MaxBatches \in Nat

Clients == {"custom", "runtime"}
Slots == 1..MaxBatches
Increments == Custom \cup Counted \cup Rejections

VARIABLES
    init,      \* how far proxy.ts has come: "new", "custom", "runtime", "tracing"
    client,    \* the clients that exist
    proxied,   \* the clients whose _httpOptions are set
    made,      \* the increments the program has made
    reports,   \* increment -> in how many messages that were delivered it is:
               \*   in a batch the proxy accepted, or in a datagram sent
    lost,      \* the increments nobody took, or whose message was given up
    counters,  \* runtime_metrics.ts: the increments in counters
    gauges,    \* runtime_metrics.ts: the gauges of span.ts
    customQueue, \* the increments in the _queue of the custom client
    batches,   \* client -> slot -> the batch under way there, with what is left of it
    span       \* span -> "none", "open", "finished", "dropped" or "collected"

metricsVars ==
    <<init, client, proxied, made, reports, lost, counters, gauges, customQueue, batches, span>>

Gauges == {"open", "unfinished", "finished"}
Free == [via |-> "none", left |-> {}]

MetricsInit ==
    /\ init = "new"
    /\ client = {}
    /\ proxied = {}
    /\ made = {}
    /\ counters = {}
    /\ gauges = [g \in Gauges |-> 0]
    /\ customQueue = {}
    /\ reports = [n \in Increments |-> 0]
    /\ lost = {}
    /\ batches = [c \in Clients |-> [b \in Slots |-> Free]]
    /\ span = [s \in Spans |-> "none"]

-----------------------------------------------------------------------------
(* The clients.                                                            *)

\* Where _sendUdp begins: a host name is looked up first.
Udp == IF HostIsIP THEN "udp" ELSE "lookup"

\* flush with the messages of these increments, or of gauges, in the queue: one
\* batch, over HTTP while the options are set.
Flushed(c, increments) ==
    \E b \in Slots :
        /\ batches[c][b] = Free
        /\ \A a \in 1..(b - 1) : batches[c][a] # Free
        /\ batches' = [batches EXCEPT ![c][b] =
              [via |-> IF c \in proxied THEN "http" ELSE Udp, left |-> increments]]

Moved(c, b, via) == batches' = [batches EXCEPT ![c][b].via = via]

Delivered(increments) ==
    reports' = [n \in Increments |-> reports[n] + IF n \in increments THEN 1 ELSE 0]

BatchEnds(c, b) == batches' = [batches EXCEPT ![c][b] = Free]

\* A batch is given up with what it still holds.
GivenUp(c, b) ==
    /\ BatchEnds(c, b)
    /\ lost' = lost \cup batches[c][b].left
    /\ UNCHANGED reports

Accepted(c, b) ==
    /\ BatchEnds(c, b)
    /\ Delivered(batches[c][b].left)
    /\ UNCHANGED <<lost, proxied, customQueue>>

\* A variant of Refused: what was refused waits for the next flush as well.
RefusedRequeued(c, b) ==
    \E status \in {404, 500} :
        /\ Moved(c, b, Udp)
        /\ proxied' = IF status = 404 THEN proxied \ {c} ELSE proxied
        /\ customQueue' = customQueue \cup batches[c][b].left
        /\ UNCHANGED <<reports, lost>>

\* A variant of Refused: nobody sends by UDP what HTTP has refused.
RefusedForgotten(c, b) ==
    \E status \in {404, 500} :
        /\ Moved(c, b, "none")
        /\ proxied' = IF status = 404 THEN proxied \ {c} ELSE proxied
        /\ UNCHANGED <<reports, lost, customQueue>>

\* After an error with a status UDP is tried, and after a 404 nothing else ever
\* after.
Refused(c, b) ==
    \E status \in {404, 500} :
        /\ Moved(c, b, Udp)
        /\ proxied' = IF status = 404 THEN proxied \ {c} ELSE proxied
        /\ UNCHANGED <<reports, lost, customQueue>>

\* The request of a batch ends, in success or with a status; or the fetch fails
\* twice or is discarded at the limit of requests; or its answer's body is
\* lost, and the promise never settles.
HttpEnds(c, b) ==
    /\ batches[c][b].via = "http"
    /\ \/ Accepted(c, b)
       \/ Refused(c, b)
       \/ GivenUp(c, b) /\ UNCHANGED <<proxied, customQueue>>
    /\ UNCHANGED <<init, client, made, counters, gauges, span>>

LookupEnds(c, b) ==
    /\ batches[c][b].via = "lookup"
    /\ \/ Moved(c, b, "udp") /\ UNCHANGED <<reports, lost>>
       \/ GivenUp(c, b)
    /\ UNCHANGED <<init, client, proxied, made, counters, gauges, customQueue, span>>

\* A turn of _sendUdpFromQueue: the message of some increments is sent, and
\* after the last one the batch is done; or its send is rejected, which ends
\* the loop.
UdpSends(c, b) ==
    /\ batches[c][b].via = "udp"
    /\ \/ \E increments \in SUBSET batches[c][b].left :
             /\ increments # {} \/ batches[c][b].left = {}
             /\ IF increments = batches[c][b].left
                THEN BatchEnds(c, b)
                ELSE batches' = [batches EXCEPT ![c][b].left = @ \ increments]
             /\ Delivered(increments)
             /\ UNCHANGED lost
       \/ GivenUp(c, b)
    /\ UNCHANGED <<init, client, proxied, made, counters, gauges, customQueue, span>>

-----------------------------------------------------------------------------
(* init of proxy.ts, as far as it decides who counts.                      *)

\* The agent's URL is known, by configuration or by default.
StartCustom ==
    /\ init = "new"
    /\ init' = "custom"
    /\ client' = {"custom"}
    /\ proxied' = {"custom"}
    /\ UNCHANGED <<made, reports, lost, counters, gauges, customQueue, batches, span>>

\* runtimeMetrics.start, if the configuration asks for it, with a client of
\* its own: what the registry was told before was ignored.
StartRuntime ==
    /\ init = "custom"
    /\ init' = "runtime"
    /\ \/ client' = client \cup {"runtime"} /\ proxied' = proxied \cup {"runtime"}
       \/ UNCHANGED <<client, proxied>>
    /\ UNCHANGED <<made, reports, lost, counters, gauges, customQueue, batches, span>>

StartTracing ==
    /\ init = "runtime"
    /\ init' = "tracing"
    /\ UNCHANGED <<client, proxied, made, reports, lost, counters, gauges, customQueue, batches, span>>

-----------------------------------------------------------------------------
(* What is counted.                                                        *)

\* Without a client an increment is lost at once.
TakenBy(n, c) == lost' = IF c \in client THEN lost ELSE lost \cup {n}

\* CustomMetrics.
CustomIncrement(n) ==
    /\ n \in Custom \ made
    /\ made' = made \cup {n}
    /\ customQueue' = IF "custom" \in client THEN customQueue \cup {n} ELSE customQueue
    /\ TakenBy(n, "custom")
    /\ UNCHANGED <<init, client, proxied, reports, counters, gauges, batches, span>>

\* increment(name, true) of the writer and of inject and extract.
Increment(n) ==
    /\ init = "tracing"
    /\ n \in Counted \ made
    /\ made' = made \cup {n}
    /\ counters' = IF "runtime" \in client THEN counters \cup {n} ELSE counters
    /\ TakenBy(n, "runtime")
    /\ UNCHANGED <<init, client, proxied, reports, gauges, customQueue, batches, span>>

\* updateCount without monotonic: the counts are gauges that nothing resets.
Updated(change) ==
    IF "runtime" \in client THEN [g \in Gauges |-> gauges[g] + change[g]] ELSE gauges

StartSpan(s) ==
    /\ init = "tracing"
    /\ span[s] = "none"
    /\ span' = [span EXCEPT ![s] = "open"]
    /\ gauges' = Updated([open |-> 1, unfinished |-> 1, finished |-> 0])
    /\ UNCHANGED <<init, client, proxied, made, reports, lost, counters, customQueue, batches>>

\* finish of a span that has no duration yet.
FinishSpan(s) ==
    /\ span[s] = "open"
    /\ span' = [span EXCEPT ![s] = "finished"]
    /\ gauges' = Updated([open |-> -1, unfinished |-> -1, finished |-> 1])
    /\ UNCHANGED <<init, client, proxied, made, reports, lost, counters, customQueue, batches>>

\* A span is collected as garbage: the registry it was last registered with
\* takes it off its gauge; that it was open stays counted.
Collect(s) ==
    /\ span[s] \in {"open", "finished"}
    /\ span' = [span EXCEPT ![s] = IF @ = "open" THEN "dropped" ELSE "collected"]
    /\ gauges' = IF span[s] = "open"
                 THEN Updated([open |-> 0, unfinished |-> -1, finished |-> 0])
                 ELSE Updated([open |-> 0, unfinished |-> 0, finished |-> -1])
    /\ UNCHANGED <<init, client, proxied, made, reports, lost, counters, customQueue, batches>>

-----------------------------------------------------------------------------
(* The intervals.                                                          *)

Flush ==
    /\ customQueue # {}
    /\ Flushed("custom", customQueue)
    /\ customQueue' = {}
    /\ UNCHANGED <<init, client, proxied, made, reports, lost, counters, gauges, span>>

\* captureCommonMetrics, captureCpuUsage, captureHeapSpace and flush: the
\* gauges, which are always there, and the counters, which are emptied.
Interval ==
    /\ "runtime" \in client
    /\ Flushed("runtime", counters)
    /\ counters' = {}
    /\ UNCHANGED <<init, client, proxied, made, reports, lost, gauges, customQueue, span>>

\* captureUnhandledRejections, which does not go through the registry.
Rejection(n) ==
    /\ "runtime" \in client
    /\ n \in Rejections \ made
    /\ made' = made \cup {n}
    /\ Flushed("runtime", {n})
    /\ UNCHANGED <<init, client, proxied, reports, lost, counters, gauges, customQueue, span>>

-----------------------------------------------------------------------------
Sending(c, b) == HttpEnds(c, b) \/ LookupEnds(c, b) \/ UdpSends(c, b)

MetricsNext ==
    \/ StartCustom \/ StartRuntime \/ StartTracing
    \/ \E n \in Increments : CustomIncrement(n) \/ Increment(n) \/ Rejection(n)
    \/ \E s \in Spans : StartSpan(s) \/ FinishSpan(s) \/ Collect(s)
    \/ Flush \/ Interval
    \/ \E c \in Clients, b \in Slots : Sending(c, b)

MetricsSpec == MetricsInit /\ [][MetricsNext]_metricsVars

\* The intervals fire; a fetch ends within its timeouts, and the system's lookup
\* and its send of a datagram end.
MetricsFairness ==
    /\ WF_metricsVars(Flush) /\ WF_metricsVars(Interval)
    /\ \A c \in Clients, b \in Slots : WF_metricsVars(Sending(c, b))

MetricsFairSpec == MetricsSpec /\ MetricsFairness

-----------------------------------------------------------------------------
(* Properties.                                                             *)

\* An increment that was made is in one place: the registry, the queue of the
\* custom client, one batch under way, one message that was delivered, or it is
\* lost; and one that was not is nowhere.  The intervals, the rejections, a
\* fallback from HTTP to UDP after the next flush and a datagram that fails in
\* the middle of a batch move it, and neither drop nor repeat it
\* (runtime_metrics.ts captureCounters, dogstatsd.ts flush, _sendHttp).
CountsOnce ==
    LET Once(b) == IF b THEN 1 ELSE 0
    IN  \A n \in Increments :
            Once(n \in counters) + Once(n \in customQueue) + Once(n \in lost) + reports[n]
              + Cardinality({s \in Clients \X Slots : n \in batches[s[1]][s[2]].left})
            = Once(n \in made)

\* The gauges of span.ts are the numbers of spans in each state, as proxy.ts
\* starts the metrics before it creates the tracer.  A span that is collected
\* without having finished stays open.
SpanGauges ==
    LET Number(states) == Cardinality({s \in Spans : span[s] \in states})
    IN "runtime" \in client =>
         /\ gauges["open"] = Number({"open", "dropped"})
         /\ gauges["unfinished"] = Number({"open"})
         /\ gauges["finished"] = Number({"finished"})

\* An increment is in one place, and the gauges of spans are their numbers
\* (runtime_metrics.ts, dogstatsd.ts).
CountsAccounted == CountsOnce /\ SpanGauges

\* What is counted ends, delivered or lost: the batches before it do not keep
\* it for ever, whatever the lookup and the sockets do, and a batch that HTTP
\* has refused goes on to UDP (dogstatsd.ts _sendHttp).
CountsEnd ==
    \A n \in Increments : n \in made ~> reports[n] > 0 \/ n \in lost
=============================================================================
