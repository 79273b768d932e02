----------------------------- MODULE Propagation -----------------------------
(***************************************************************************)
(* opentracing/propagation/*.ts and id.ts: a trace that hops from service  *)
(* to service in headers of several styles at once.  Each service writes   *)
(* and reads the styles it is configured for, and a proxy in between may   *)
(* drop the headers of a style or damage them.                             *)
(*                                                                         *)
(* An id of 64 bits is a number; a trace id of 128 bits has a high half,   *)
(* which an extracted context may hold in its buffer (wide) and the trace  *)
(* in its tag _dd.p.tid.                                                   *)
(***************************************************************************)
EXTENDS Integers, Sequences, FiniteSets

CONSTANTS
    InjectStyles,  \* the sets of styles services inject
    ExtractStyles, \* the lists of styles services extract
    Origins,       \* what may have caused a trace, "none" for nothing special
    Foreign,       \* carriers of services that are not instrumented by this code
    MaxHops,       \* bound: services
    MaxIds         \* bound: span ids

NONE == -9
Zero == 0 \* the high half of a trace id of 64 bits written in 32 digits

\* _extract128BitTraceId.
Tid(high) == IF high \in {NONE, Zero} THEN NONE ELSE high

\* TraceState: the entry of dd, and the other members in their order.
TraceStates ==
    [dd : [s : Int, origin : Origins, tid : Int, dm : Int], others : Seq(STRING)]

\* The headers that may be read of a style.
TextMapStyles == {"datadog", "b3multi", "b3 single header", "tracecontext"}
Headers(style) ==
    CASE style = "datadog" ->
            [lo : Int \ {NONE}, span : Int, priority : Int, origin : Origins, tid : Int, dm : Int]
      [] style \in {"b3multi", "b3 single header"} ->
            [high : Int, lo : Int, span : Int, sampled : Int, debug : BOOLEAN]
      [] style = "tracecontext" ->
            {h \in [high : Int, lo : Int \ {NONE}, span : Int, flags : {0, 1}, state : TraceStates] :
                h.state.dd.tid \in {NONE, Tid(h.high)}}
      [] style = "log" -> [lo : Int \ {NONE}, span : Int, high : Int]

ASSUME PropagationAssumption ==
    /\ \A styles \in InjectStyles : styles \subseteq TextMapStyles \/ styles = {"log"}
    /\ \A f \in Foreign :
          /\ DOMAIN f \subseteq TextMapStyles \cup {"log"}
          /\ \A style \in DOMAIN f : f[style] \in Headers(style)
    /\ "none" \in Origins
    /\ MaxHops \in Nat /\ MaxIds \in Nat

VARIABLES
    hop,     \* the service the trace is in
    ids,     \* the ids drawn so far
    context, \* the active span context of the service, or NoContext
    carrier, \* style -> what its headers say
    story    \* what is true of the trace: its ids, whether it is kept, and
             \* whether a log record was written that misreads

propagationVars == <<hop, ids, context, carrier, story>>

NoContext == [none |-> TRUE]
Throws == [throws |-> TRUE]
Damaged == [damaged |-> TRUE]
NoState == [dd |-> [s |-> NONE, origin |-> "none", tid |-> NONE, dm |-> NONE], others |-> <<>>]

Kept(priority) == priority \geq 1
Sampled(priority) == IF Kept(priority) THEN 1 ELSE 0

\* DatadogSpanContext.  A context is rooted once its trace has started a span in
\* this service.
Context(lo, high, wide, span, priority) ==
    [lo |-> lo, high |-> high, wide |-> wide, span |-> span, parent |-> NONE, rooted |-> FALSE,
     priority |-> priority, mechanism |-> NONE, origin |-> "none", tid |-> NONE,
     dm |-> NONE, state |-> NoState]

-----------------------------------------------------------------------------
(* Injection.                                                              *)

\* _injectDatadog.  The tags are left out when their header is disabled or
\* would be too long.
DatadogHeaders(c, fits) ==
    [lo |-> c.lo, span |-> c.span, priority |-> c.priority, origin |-> c.origin,
     tid |-> IF fits THEN c.tid ELSE NONE, dm |-> IF fits THEN c.dm ELSE NONE]

\* _getB3TraceId and the trace id of toTraceparent: the tag before an id of 64
\* bits, the digits of the buffer else.
HighDigits(c) == CASE c.wide -> c.high [] ~c.wide /\ c.tid # NONE -> c.tid [] OTHER -> NONE

\* _injectB3MultipleHeaders: the flag says more than a kept trace.
B3MultiHeaders(c) ==
    [high |-> HighDigits(c), lo |-> c.lo, span |-> c.span, sampled |-> Sampled(c.priority),
     debug |-> c.priority > 1]

\* _injectB3SingleHeader.
B3SingleHeader(c) ==
    [high |-> HighDigits(c), lo |-> c.lo, span |-> c.span, sampled |-> Sampled(c.priority),
     debug |-> FALSE]

\* _injectTraceparent and TraceState.forVendor: the entry of dd is updated.  The
\* tag overwrites the mechanism.
DdState(c) ==
    [s |-> c.priority, origin |-> c.origin, tid |-> c.tid,
     dm |-> IF c.dm # NONE THEN c.dm ELSE IF c.mechanism > 0 THEN c.mechanism ELSE NONE]

TraceContextHeaders(c) ==
    [high |-> IF HighDigits(c) = NONE THEN Zero ELSE HighDigits(c), lo |-> c.lo, span |-> c.span,
     flags |-> Sampled(c.priority),
     state |-> [dd |-> DdState(c), others |-> c.state.others]]

\* LogPropagator.inject, for the records of a log: no decision is written.  With
\* 128 bits logged the tag precedes the digits of the buffer, of which a wide
\* context has 32 already: 48 digits, which are read as a decimal number.
Misspells(c, wide) == wide /\ c.wide /\ c.tid # NONE
Misread == -1 \* stands for that number, which is no id of the trace

LogFields(c, wide) ==
    IF Misspells(c, wide)
    THEN [lo |-> Misread, span |-> c.span, high |-> NONE]
    ELSE [lo |-> c.lo, span |-> c.span, high |-> IF wide THEN c.tid ELSE NONE]

HeadersOf(style, c, fits) ==
    CASE style = "datadog" -> DatadogHeaders(c, fits)
      [] style = "b3multi" -> B3MultiHeaders(c)
      [] style = "b3 single header" -> B3SingleHeader(c)
      [] style = "tracecontext" -> TraceContextHeaders(c)
      [] style = "log" -> LogFields(c, fits)

-----------------------------------------------------------------------------
(* Extraction: a context, NoContext, or Throws.                            *)

\* _extractDatadogContext.
FromDatadog(h) ==
    [Context(h.lo, NONE, FALSE, h.span, h.priority) EXCEPT
        !.origin = h.origin, !.tid = h.tid, !.dm = h.dm]

\* _getPriority.
B3Priority(h) == IF h.debug THEN 2 ELSE h.sampled

\* _extractB3Context: a priority without ids makes a context without a span.
FromB3(h, new) ==
    IF h.lo # NONE
    THEN [Context(h.lo, h.high, h.high # NONE, h.span, B3Priority(h)) EXCEPT !.tid = Tid(h.high)]
    ELSE IF B3Priority(h) # NONE THEN Context(new, NONE, FALSE, NONE, B3Priority(h))
    ELSE NoContext

\* _extractTraceparentContext: the entry s refines what the flags say, and
\* does not contradict it.
TracePriority(flags, s) ==
    IF s # NONE /\ ((flags = 1 /\ s > 0) \/ (flags = 0 /\ s < 0)) THEN s ELSE flags

FromTraceContext(h) ==
    LET dd == h.state.dd
        high == Tid(h.high)
    IN [Context(h.lo, h.high, TRUE, h.span, TracePriority(h.flags, dd.s)) EXCEPT
           !.origin = dd.origin,
           !.tid = IF dd.tid # NONE THEN dd.tid ELSE high,
           !.mechanism = IF dd.dm = NONE THEN NONE ELSE -dd.dm,
           !.dm = dd.dm,
           !.state = h.state]

\* LogPropagator.extract: 32 digits have a high half.
FromLog(h) == [Context(h.lo, NONE, FALSE, h.span, NONE) EXCEPT !.tid = h.high]

FromHeaders(style, h, new) ==
    CASE style = "datadog" -> FromDatadog(h)
      [] style = "tracecontext" -> FromTraceContext(h)
      [] style = "log" -> FromLog(h)
      [] OTHER -> FromB3(h, new)

FromStyle(style, new) ==
    CASE style \notin DOMAIN carrier -> NoContext
      [] style \in DOMAIN carrier /\ carrier[style] = Damaged ->
            IF style = "tracecontext" THEN Throws ELSE NoContext
      [] OTHER -> FromHeaders(style, carrier[style], new)

\* _extractSpanContext: the first style that gives a context.  tracer.ts makes
\* null of an exception, whatever the styles after it would have given.
Extracted(order, new) ==
    LET gives == {k \in DOMAIN order : FromStyle(order[k], new) # NoContext}
        first == CHOOSE k \in gives : \A j \in gives : k \leq j
    IN IF gives = {} \/ FromStyle(order[first], new) = Throws THEN NoContext
       ELSE FromStyle(order[first], new)

-----------------------------------------------------------------------------
(* A trace through services.                                               *)

NoStory == [lo |-> NONE, high |-> NONE, kept |-> NONE, misread |-> FALSE]

PropagationInit ==
    /\ hop = 1
    /\ ids = 0
    /\ context = NoContext
    /\ carrier \in Foreign \cup {<<>>}
    /\ story = NoStory

\* _createContext without a parent, with or without a generated high half.
StartTrace(tid) ==
    /\ context = NoContext
    /\ ids < MaxIds
    /\ ids' = ids + 1
    /\ context' = [Context(ids + 1, NONE, FALSE, ids + 1, NONE) EXCEPT !.tid = tid, !.rooted = TRUE]
    /\ story' = [NoStory EXCEPT !.lo = ids + 1, !.high = tid]
    /\ carrier' = <<>>
    /\ UNCHANGED hop

\* _createContext with a parent: the trace is shared.
StartChild ==
    /\ context # NoContext
    /\ ids < MaxIds
    /\ ids' = ids + 1
    /\ context' = [context EXCEPT !.span = ids + 1, !.parent = context.span, !.rooted = TRUE]
    /\ UNCHANGED <<hop, carrier, story>>

\* A variant of Decided: the trace is decided again before every injection.
DecidedAgain(priority) == [context EXCEPT !.priority = priority, !.mechanism = 1]

\* PrioritySampler.sample before the injection, of a trace not yet decided that
\* has a span here to decide by.  The mechanism is 1 for whichever decided.
Decided(priority) ==
    IF context.priority # NONE \/ ~context.rooted THEN context
    ELSE [context EXCEPT !.priority = priority, !.mechanism = 1,
                         !.dm = IF Kept(priority) THEN 1 ELSE NONE]

\* inject.  A context without a span id fails, and writes nothing that counts.
Inject(styles, priority, fits) ==
    /\ context # NoContext
    /\ context.span # NONE
    /\ context' = Decided(priority)
    /\ carrier' = [style \in styles |-> HeadersOf(style, context', fits)]
    /\ story' = [story EXCEPT
                   !.kept = IF context'.priority = NONE THEN NONE
                            ELSE IF story.kept = NONE THEN Sampled(context'.priority) ELSE story.kept,
                   !.misread = story.misread \/ ("log" \in styles /\ Misspells(context', fits))]
    /\ UNCHANGED <<hop, ids>>

\* The headers of a style are lost or damaged between two services.
Lose(style) ==
    /\ carrier' = [s \in DOMAIN carrier \ {style} |-> carrier[s]]
    /\ UNCHANGED <<hop, ids, context, story>>

Damage(style) ==
    /\ carrier' = [carrier EXCEPT ![style] = Damaged]
    /\ UNCHANGED <<hop, ids, context, story>>

\* What is known of the decision when a context was read.
KeptOf(found, kept) ==
    CASE found.priority = NONE -> NONE
      [] found.priority # NONE /\ kept = NONE -> Sampled(found.priority)
      [] OTHER -> kept

\* extract in the next service.  What a foreign carrier says is the story.
Extract(order) ==
    LET found == Extracted(order, ids + 1)
    IN /\ hop < MaxHops
       /\ ids < MaxIds
       /\ hop' = hop + 1
       /\ ids' = ids + 1
       /\ context' = found
       /\ carrier' = <<>>
       /\ story' = CASE found = NoContext -> NoStory
                     [] found # NoContext /\ story.lo = NONE ->
                           [lo |-> found.lo, high |-> Tid(HighDigits(found)),
                            kept |-> KeptOf(found, NONE), misread |-> FALSE]
                     [] OTHER -> [story EXCEPT !.kept = KeptOf(found, story.kept)]

PropagationNext ==
    \/ \E tid \in {NONE, 1} : StartTrace(tid)
    \/ StartChild
    \/ \E styles \in InjectStyles, priority \in {-1, 0, 1, 2}, fits \in BOOLEAN :
          Inject(styles, priority, fits)
    \/ \E style \in DOMAIN carrier : Lose(style) \/ Damage(style)
    \/ \E order \in ExtractStyles : Extract(order)

PropagationSpec == PropagationInit /\ [][PropagationNext]_propagationVars

-----------------------------------------------------------------------------
(* Properties.                                                             *)

\* Through any number of services and styles a context belongs to the trace it
\* started in, knows the high half of its id or, where the tags did not fit,
\* nothing of it, and stays kept or rejected as it was first decided, as long as
\* the headers that were read say so.  Only a log record with 128 bits, written
\* by a service that itself read them, sends its reader to another trace.
TraceSurvives ==
    context # NoContext =>
        /\ context.lo = story.lo \/ (story.misread /\ context.lo = Misread)
        /\ Tid(HighDigits(context)) \in {story.high, NONE}
        /\ (story.kept # NONE /\ context.priority # NONE) =>
              Sampled(context.priority) = story.kept

\* Whichever style of a carrier the next service reads, it joins the same trace
\* under the same parent and, where the trace was decided, with that decision.
\* (Of a trace that no span here has decided, B3 and traceparent say that it is
\* rejected, and Datadog's own headers say nothing.)
StylesAgree ==
    \A a, b \in {s \in DOMAIN carrier : carrier[s] # Damaged} :
        LET x == FromStyle(a, NONE)
            y == FromStyle(b, NONE)
        IN (x # NoContext /\ y # NoContext /\ story.lo # NONE) =>
             /\ x.lo = y.lo
             /\ x.span = y.span
             /\ story.kept # NONE => Sampled(x.priority) = Sampled(y.priority)

\* The trace and its decision survive the services it passes through, and the
\* styles of one carrier say the same (text_map.ts).
PropagationKept == TraceSurvives /\ StylesAgree
=============================================================================
