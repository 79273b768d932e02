--------------------------- MODULE ExternalLogger ---------------------------
(***************************************************************************)
(* The external logger: logs queue up, a flush turns the queue into one    *)
(* request, and the flush's callback hears of the outcome.                 *)
(*                                                                         *)
(* Logs are numbered in the order they are enqueued, flushes in the order  *)
(* they are called.  A call of a callback is "ok" or "error", what it was  *)
(* told.  A callback that throws inside the then-handler is called again   *)
(* by the catch-handler; one that throws anywhere else ends the process.   *)
(***************************************************************************)
EXTENDS Integers, Sequences, SequencesExt

CONSTANTS
    MaxLogs,     \* bound: logs enqueued in a behaviour
    MaxFlushes,  \* bound: flushes the application calls for itself
    Limit,       \* limit, 1000 in the code
    Unencodable, \* the logs JSON.stringify throws on
    Enabled      \* an API key was given

ASSUME LoggerAssumption ==
    MaxLogs \in Nat /\ MaxFlushes \in Nat /\ Limit \in Nat \ {0} /\ Enabled \in BOOLEAN

VARIABLES
    enqueued,  \* how many logs have been enqueued
    queue,     \* the logs waiting for a flush
    flushes,   \* every flush so far: its logs, whether its callback is one of
               \* the application, where its request is, whether its fetch
               \* failed, what the callback was told and whether that threw
    asked,     \* how many flushes the application has called
    timer,     \* the interval is running
    up         \* the process runs

loggerVars == <<enqueued, queue, flushes, asked, timer, up>>

LoggerInit ==
    /\ enqueued = 0
    /\ queue = <<>>
    /\ flushes = <<>>
    /\ asked = 0
    /\ timer = TRUE
    /\ up = TRUE

-----------------------------------------------------------------------------
\* The flush of `logs`: the callback of an empty one and of one that cannot be
\* encoded is a microtask, any other waits for its fetch.
Started(logs, own) ==
    [logs |-> logs, own |-> own,
     stage |-> CASE logs = <<>> -> "tellOk"
                 [] \E i \in DOMAIN logs : logs[i] \in Unencodable -> "tellError"
                 [] OTHER -> "fetching",
     failed |-> FALSE, calls |-> <<>>]

\* enqueue: a full queue is flushed first.
Enqueue ==
    /\ up /\ enqueued < MaxLogs
    /\ enqueued' = enqueued + 1
    /\ IF Len(queue) >= Limit
       THEN flushes' = Append(flushes, Started(queue, FALSE)) /\ queue' = <<enqueued'>>
       ELSE UNCHANGED flushes /\ queue' = Append(queue, enqueued')
    /\ UNCHANGED <<asked, timer, up>>

\* log: only with an API key.
Log == Enabled /\ Enqueue

\* A variant of TakeQueue: the newest log stays behind, queued again.
TakeQueueTwice(own) ==
    /\ flushes' = Append(flushes, Started(queue, own))
    /\ queue' = IF queue = <<>> THEN queue ELSE <<Last(queue)>>

\* flush: the queue is swapped for an empty one.
TakeQueue(own) ==
    /\ flushes' = Append(flushes, Started(queue, own))
    /\ queue' = <<>>

\* flush, called by the application.
ManualFlush ==
    /\ up /\ asked < MaxFlushes
    /\ asked' = asked + 1
    /\ TakeQueue(TRUE)
    /\ UNCHANGED <<enqueued, timer, up>>

\* The interval; with an empty queue nothing comes of it.
IntervalFlush ==
    /\ up /\ timer /\ queue # <<>>
    /\ TakeQueue(FALSE)
    /\ UNCHANGED <<enqueued, asked, timer, up>>

\* shutdown: the interval is cleared, then a last flush.
Shutdown ==
    /\ up /\ timer
    /\ timer' = FALSE
    /\ TakeQueue(FALSE)
    /\ UNCHANGED <<enqueued, asked, up>>

-----------------------------------------------------------------------------
\* The callback of flush f is told `word`; if it throws, `next` is where the
\* exception leads, and out of the last handler it is the end of the process.
Tell(f, word, throws, next) ==
    /\ throws => flushes[f].own
    /\ flushes' = [flushes EXCEPT
         ![f].calls = Append(@, [word |-> word, threw |-> throws]),
         ![f].stage = IF throws /\ next # "end" THEN next ELSE "done"]
    /\ up' = ~(throws /\ next = "end")
    /\ UNCHANGED <<enqueued, queue, asked, timer>>

\* The microtask of an empty or an unencodable flush.
Microtask(f, throws) ==
    /\ up
    /\ \/ flushes[f].stage = "tellOk" /\ Tell(f, "ok", throws, "end")
       \/ flushes[f].stage = "tellError" /\ Tell(f, "error", throws, "end")

\* The intake takes the logs.
Accept(f, throws) ==
    /\ up /\ flushes[f].stage = "fetching"
    /\ Tell(f, "ok", throws, "catch")

\* The intake answers with a status of 400 or more.
Reject(f, throws) ==
    /\ up /\ flushes[f].stage = "fetching"
    /\ Tell(f, "error", throws, "catch")

\* The fetch fails, or its timeout aborts it.
FetchFails(f) ==
    /\ up /\ flushes[f].stage = "fetching"
    /\ flushes' = [flushes EXCEPT ![f].stage = "catch", ![f].failed = TRUE]
    /\ UNCHANGED <<enqueued, queue, asked, timer, up>>

\* A variant of Catch: the handler logs the error and calls nobody.
CatchSilently(f, throws) ==
    /\ up /\ flushes[f].stage = "catch"
    /\ flushes' = [flushes EXCEPT ![f].stage = "done"]
    /\ UNCHANGED <<enqueued, queue, asked, timer, up>>

\* The catch-handler, which serves a failed fetch and a callback that threw.
Catch(f, throws) ==
    /\ up /\ flushes[f].stage = "catch"
    /\ Tell(f, "ok", throws, "end")

Settle(f) ==
    \/ FetchFails(f)
    \/ \E throws \in BOOLEAN :
         Microtask(f, throws) \/ Accept(f, throws) \/ Reject(f, throws) \/ Catch(f, throws)

LoggerNext ==
    \/ Log \/ Enqueue
    \/ ManualFlush \/ IntervalFlush \/ Shutdown
    \/ \E f \in DOMAIN flushes : Settle(f)

LoggerSpec == LoggerInit /\ [][LoggerNext]_loggerVars

\* Intervals fire, microtasks run, and a fetch settles: AbortSignal.timeout
\* ends one that the network does not.
LoggerFairSpec ==
    /\ LoggerSpec
    /\ WF_loggerVars(IntervalFlush)
    /\ \A f \in 1..(MaxLogs + MaxFlushes + 1) :
         WF_loggerVars(f \in DOMAIN flushes /\ Settle(f))

-----------------------------------------------------------------------------
(***************************************************************************)
(* Properties.                                                             *)
(***************************************************************************)
Stages == {"tellOk", "tellError", "fetching", "catch", "done"}

\* The queue never outgrows its limit, and so no request does: enqueue
\* flushes before it pushes.
LoggerTypeOK ==
    /\ enqueued \in 0..MaxLogs
    /\ queue \in UNION {[1..n -> 1..MaxLogs] : n \in 0..Limit}
    /\ \A f \in DOMAIN flushes :
         /\ flushes[f].logs \in UNION {[1..n -> 1..MaxLogs] : n \in 0..Limit}
         /\ flushes[f].stage \in Stages
         /\ flushes[f].calls \in Seq([word : {"ok", "error"}, threw : BOOLEAN])
         /\ flushes[f].own \in BOOLEAN /\ flushes[f].failed \in BOOLEAN
    /\ asked \in 0..MaxFlushes
    /\ timer \in BOOLEAN /\ up \in BOOLEAN

\* The places of logs: in the flushes, in their order, and last in the queue.
Batches == Append([f \in DOMAIN flushes |-> flushes[f].logs], queue)
Places == UNION {{b} \X DOMAIN Batches[b] : b \in DOMAIN Batches}
LogAt(place) == Batches[place[1]][place[2]]
Earlier(p, q) == p[1] < q[1] \/ (p[1] = q[1] /\ p[2] < q[2])

\* Every log is in exactly one flush or in the queue, in the order they came:
\* whoever flushes, and however late the answers, no log is lost before its
\* request and none is sent twice.
EveryLogOnce ==
    /\ \A l \in 1..enqueued : \E p \in Places : LogAt(p) = l
    /\ \A p \in Places : LogAt(p) \in 1..enqueued
    /\ \A p, q \in Places : Earlier(p, q) => LogAt(p) < LogAt(q)

\* The callback of a flush is called a second time only by the catch-handler,
\* after its first call threw, and never a third time.
OneCallUnlessThrown ==
    \A f \in DOMAIN flushes :
        LET calls == flushes[f].calls
        IN  Len(calls) <= 2 /\ (Len(calls) = 2 => calls[1].threw)

\* A log is in one place, and a flush calls back once unless it has thrown
\* (enqueue, flush and their catches).
LogsAccounted == LoggerTypeOK /\ EveryLogOnce /\ OneCallUnlessThrown

\* A log that is enqueued while the interval runs leaves the queue: the
\* interval, a full queue or the flush of shutdown takes it.
LogsLeave ==
    \A l \in 1..MaxLogs :
        (timer /\ Contains(queue, l)) ~> (~Contains(queue, l) \/ ~up)

\* The callback of every flush is called, unless the process ends.
CallbacksCalled ==
    \A f \in 1..(MaxLogs + MaxFlushes + 1) :
        (f \in DOMAIN flushes) ~> (~up \/ (f \in DOMAIN flushes /\ flushes[f].calls # <<>>))

\* A log leaves the queue, and the callback of its flush is called (the
\* interval, flush and shutdown).
LogsEnd == LogsLeave /\ CallbacksCalled

\* What the test "tracer logger should handle simulated network error" says:
\* the callback of a flush whose request failed is told of an error.
FailureIsTold ==
    \A f \in DOMAIN flushes :
        flushes[f].failed /\ flushes[f].calls # <<>> => flushes[f].calls[1].word = "error"
=============================================================================
