---------------------------- MODULE AsyncContext ----------------------------
(***************************************************************************)
(* The asynchronous context of a program that traces itself: which span is *)
(* active where, and the "noop" store the tracer's own requests run in.    *)
(*                                                                         *)
(* JavaScript runs one job at a time: a callback of a timer or of an       *)
(* event, or the continuation of a promise.  Where the runtime's           *)
(* AsyncLocalStorage has enterWith it is used ("native", external to the   *)
(* code), and otherwise the polyfill, one stack of frames for the whole    *)
(* process that only promise hooks push to and pop from.                   *)
(*                                                                         *)
(* A store is its span and its noop flag; undefined is EmptyStore.  A span *)
(* is its number, 0 is none.  `expected` is not in the code: it is the     *)
(* span that the scopes of the source text make the active one.            *)
(***************************************************************************)
EXTENDS Integers, Sequences, SequencesExt

CONSTANTS
    Storages,      \* the storages to consider: "native", "polyfill"
    FlushOnFinish, \* whether finish may flush: the values to consider
    MaxSpans,      \* bound: spans started in a behaviour
    MaxEvents,     \* bound: events the application handles
    MaxAwaits,     \* bound: continuations of the application
    MaxFlushes     \* bound: requests of the exporter

ASSUME AsyncContextAssumption ==
    /\ Storages \subseteq {"native", "polyfill"} /\ FlushOnFinish \subseteq BOOLEAN
    /\ MaxSpans \in Nat /\ MaxEvents \in Nat /\ MaxAwaits \in Nat /\ MaxFlushes \in Nat

VARIABLES
    storage,  \* the runtime's storage
    eager,    \* finish may flush: flushInterval is 0, or the buffer is full
    stack,    \* asyncContextStack; with the native storage at most the
              \* context of the running job
    running,  \* the application's job that runs, "none" or its kind
    acts,     \* the activations it is inside: the store each will restore
              \* and what was expected outside of it
    expected, \* the span that should be active
    pending,  \* the jobs that wait to run
    spans,    \* how many spans have been started
    events,   \* how many events have been handled
    awaits,   \* how many continuations the application has made
    flushes,  \* how many requests the exporter has made
    handled   \* the stores that handlers of responses and errors ran in

counters == <<spans, events, awaits, flushes>>
setting == <<storage, eager>>  \* which no step changes
vars == <<setting, stack, running, acts, expected, pending, counters, handled>>

Stores == [span : 0..MaxSpans, noop : BOOLEAN]
EmptyStore == [span |-> 0, noop |-> FALSE]
NoopStore == [span |-> 0, noop |-> TRUE]
Kinds == {"promise", "timer"}

\* A job: which hooks it runs under, the context it captured, and whether it
\* goes on with the application, a flush, a request that has settled (whose
\* `saved` store it will enter), or a retry.
Job(kind, role, ctx, exp, saved, tries, id) ==
    [kind |-> kind, role |-> role, ctx |-> ctx, expected |-> exp, saved |-> saved,
     tries |-> tries, id |-> id]

Init ==
    /\ storage \in Storages /\ eager \in FlushOnFinish
    /\ stack = <<>>
    /\ running = "none" /\ acts = <<>> /\ expected = 0
    /\ pending = {}
    /\ spans = 0 /\ events = 0 /\ awaits = 0 /\ flushes = 0
    /\ handled = {}

-----------------------------------------------------------------------------
(***************************************************************************)
(* The storage.                                                            *)
(***************************************************************************)
\* AsyncContextFrame.current and getStore, of the stack s.
CurrentOf(s) == IF s = <<>> THEN EmptyStore ELSE Last(s)
Current == CurrentOf(stack)

\* enterWith: the polyfill pushes a frame.
Entered(s, next) == IF storage = "polyfill" THEN Append(s, next) ELSE <<next>>

\* The promise hook before, which pushes the frame of the promise; a timer has
\* no hook.  The native storage restores what the job captured.
Begun(s, kind, ctx) ==
    IF storage = "native" THEN <<ctx>> ELSE IF kind = "promise" THEN Append(s, ctx) ELSE s

\* The promise hook after, which pops one frame.
Ended(s, kind) ==
    IF storage = "native" THEN <<>> ELSE IF kind = "promise" /\ s # <<>> THEN Front(s) ELSE s

-----------------------------------------------------------------------------
(***************************************************************************)
(* makeRequest.                                                            *)
(***************************************************************************)
\* The context of fetch and of what follows it.
RequestStore(s) == Entered(s, NoopStore)

\* makeRequest up to its await, called with the stack s: it leaves its caller
\* in the noop store, and its continuation restores the caller's.
Requested(s, tries) ==
    Job("promise", "settle", CurrentOf(RequestStore(s)), 0, CurrentOf(s), tries, flushes')

\* A job of the tracer itself that makes a request: the exporter's flush
\* timer, or a retry.
RunRequest(job) ==
    /\ running = "none"
    /\ job \in pending /\ job.role \in {"flush", "retry"}
    /\ job.role = "flush" => flushes < MaxFlushes
    /\ flushes' = IF job.role = "flush" THEN flushes + 1 ELSE flushes
    /\ LET begun == Begun(stack, job.kind, job.ctx)
       IN  /\ pending' = (pending \ {job}) \cup {Requested(begun, job.tries)}
           /\ stack' = Ended(RequestStore(begun), job.kind)
    /\ UNCHANGED <<setting, running, acts, expected, spans, events, awaits, handled>>

\* The rest of makeRequest, after fetch: the response's handler or the error's
\* runs, an error the first time sets the timer of a retry, and then the store
\* of the caller is entered, in a job that ends with it.
Settle(job, ok) ==
    /\ running = "none"
    /\ job \in pending /\ job.role = "settle"
    /\ LET begun == Begun(stack, job.kind, job.ctx)
       IN  /\ handled' = handled \cup {CurrentOf(begun)}
           /\ pending' = (pending \ {job}) \cup
                IF ok \/ job.tries > 0 THEN {}
                ELSE {Job("timer", "retry", CurrentOf(begun), 0, EmptyStore, 1, job.id)}
           /\ stack' = Ended(Entered(begun, job.saved), job.kind)
    /\ UNCHANGED <<setting, running, acts, expected, counters>>

-----------------------------------------------------------------------------
(***************************************************************************)
(* The application.                                                        *)
(***************************************************************************)
\* An event, of which the application's handler is told; nothing is active.
Event(kind) ==
    /\ running = "none" /\ events < MaxEvents
    /\ events' = events + 1
    /\ running' = kind /\ expected' = 0
    /\ stack' = Begun(stack, kind, EmptyStore)
    /\ UNCHANGED <<setting, acts, pending, spans, awaits, flushes, handled>>

\* A function of the application goes on after an await.
Resume(job) ==
    /\ running = "none"
    /\ job \in pending /\ job.role = "app"
    /\ pending' = pending \ {job}
    /\ running' = job.kind /\ expected' = job.expected
    /\ stack' = Begun(stack, job.kind, job.ctx)
    /\ UNCHANGED <<setting, acts, counters, handled>>

\* The job ends.
EndJob ==
    /\ running # "none" /\ acts = <<>>
    /\ running' = "none"
    /\ stack' = Ended(stack, running)
    /\ UNCHANGED <<setting, acts, expected, pending, counters, handled>>

\* trace, up to the call of the function: a span is started, and activated with
\* the store it was started in.
Trace ==
    /\ running # "none" /\ spans < MaxSpans
    /\ spans' = spans + 1
    /\ acts' = Append(acts, [old |-> Current, expected |-> expected])
    /\ expected' = spans'
    /\ stack' = Entered(stack, [Current EXCEPT !.span = spans'])
    /\ UNCHANGED <<setting, running, pending, events, awaits, flushes, handled>>

\* A variant of Deactivated: the store is not restored.
DeactivatedNot == stack

\* The finally of activate.
Deactivated == Entered(stack, Last(acts).old)

\* The function has returned a promise, so that its span is still open; it
\* finishes in a continuation of the tracer, in which nothing else runs.
ReturnPromise ==
    /\ acts # <<>>
    /\ stack' = Deactivated
    /\ expected' = Last(acts).expected
    /\ acts' = Front(acts)
    /\ UNCHANGED <<setting, running, pending, counters, handled>>

\* The function has returned, and its span finishes: what it exports waits for
\* the flush timer, which is set in the caller's context.
Return ==
    /\ acts # <<>>
    /\ stack' = Deactivated
    /\ expected' = Last(acts).expected
    /\ acts' = Front(acts)
    /\ pending' = pending \cup
         IF flushes = MaxFlushes \/ \E job \in pending : job.role = "flush" THEN {}
         ELSE {Job("timer", "flush", CurrentOf(Deactivated), 0, EmptyStore, 0, flushes + 1)}
    /\ UNCHANGED <<setting, running, counters, handled>>

\* The same where finish flushes: the request is made in the caller's job.
ReturnAndFlush ==
    /\ eager /\ acts # <<>> /\ flushes < MaxFlushes
    /\ flushes' = flushes + 1
    /\ pending' = pending \cup {Requested(Deactivated, 0)}
    /\ stack' = RequestStore(Deactivated)
    /\ expected' = Last(acts).expected
    /\ acts' = Front(acts)
    /\ UNCHANGED <<setting, running, spans, events, awaits, handled>>

\* An async function is called and awaits: its continuation captures the
\* context, and the caller goes on.
Await ==
    /\ running # "none" /\ awaits < MaxAwaits
    /\ awaits' = awaits + 1
    /\ pending' = pending \cup {Job("promise", "app", Current, expected, EmptyStore, 0, awaits')}
    /\ UNCHANGED <<setting, stack, running, acts, expected, spans, events, flushes, handled>>

Next ==
    \/ \E kind \in Kinds : Event(kind)
    \/ \E job \in pending :
         \/ Resume(job) \/ RunRequest(job)
         \/ \E ok \in BOOLEAN : Settle(job, ok)
    \/ EndJob \/ Trace \/ ReturnPromise \/ Return \/ ReturnAndFlush \/ Await

Spec == Init /\ [][Next]_vars

-----------------------------------------------------------------------------
(***************************************************************************)
(* Properties.                                                             *)
(***************************************************************************)
\* Every variable has its type.
TypeOK ==
    /\ storage \in Storages /\ eager \in FlushOnFinish
    /\ stack \in Seq(Stores)
    /\ running \in Kinds \cup {"none"}
    /\ acts \in Seq([old : Stores, expected : 0..MaxSpans])
    /\ expected \in 0..MaxSpans
    /\ pending \subseteq [kind : Kinds, role : {"app", "flush", "settle", "retry"},
                          ctx : Stores, expected : 0..MaxSpans, saved : Stores,
                          tries : 0..1, id : 0..(MaxAwaits + MaxFlushes)]
    /\ spans \in 0..MaxSpans /\ events \in 0..MaxEvents
    /\ awaits \in 0..MaxAwaits /\ flushes \in 0..MaxFlushes
    /\ handled \subseteq Stores

\* While the application runs, scope().active() is the span of the innermost
\* function that trace has activated a span in, or none: not one of another
\* job, and not none because the tracer has made a request.
ActiveIsExpected == running # "none" => Current.span = expected

\* So it is where the runtime's storage is used and the exporter flushes from
\* its timer only: scopes restore what they found, awaits keep what they saw,
\* and the requests of the timer and of retries leave nothing behind.
ActiveIfTimed == storage = "native" /\ ~eager => ActiveIsExpected

\* The handlers of the tracer's own requests run in a noop store, those of a
\* retry included, so that what they call is not traced.
HandlersUntraced == \A ranIn \in handled : ranIn.noop
=============================================================================
