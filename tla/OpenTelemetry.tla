---------------------------- MODULE OpenTelemetry ----------------------------
(***************************************************************************)
(* opentelemetry/*.ts: the OpenTelemetry API over the tracer's own spans,  *)
(* as far as span processors can tell: which spans start, in which trace,  *)
(* and who ends them.                                                      *)
(*                                                                         *)
(* The program enters and leaves scopes, made by context.with, by          *)
(* startActiveSpan or by the tracer's scope.activate; each has the span    *)
(* active in the tracer (0 is none).  A Datadog span is also finished      *)
(* without the bridge: by the program, which finds it active through the   *)
(* tracer's scope, and by the span processor once killAll was called.      *)
(***************************************************************************)
EXTENDS Integers, Sequences, FiniteSets, SequencesExt

CONSTANTS
    OtelSpans,      \* bound: span numbers
    MaxDepth,       \* bound: nested scopes
    OtelProcessors  \* span processors the program may add

VARIABLES
    scopes,     \* the spans of the scopes entered, the innermost last
    traceOf,    \* span -> the first span of its trace
    endedSpans, \* the spans whose _duration is set
    below,      \* those of them that were finished otherwise than by Span.end
    killing,    \* the span processor's _killAll
    processors, \* _processors, in the order they were added
    onStarts,   \* the calls of onStart: <<processor, span>> -> number
    onEnds,     \* the calls of onEnd
    registered  \* span -> the processors there were when it was started

spanVars == <<traceOf, onStarts, registered>>
otelVars == <<scopes, spanVars, endedSpans, below, killing, processors, onEnds>>

Started == DOMAIN traceOf

ActiveSpan == IF scopes = <<>> THEN 0 ELSE Last(scopes)

OtelInit ==
    /\ scopes = <<>>
    /\ traceOf = <<>> /\ registered = <<>>
    /\ endedSpans = {} /\ below = {} /\ killing = FALSE
    /\ processors = <<>>
    /\ onStarts = [c \in OtelProcessors \X OtelSpans |-> 0]
    /\ onEnds = [c \in OtelProcessors \X OtelSpans |-> 0]

WithSpan(f, s, v) == [x \in DOMAIN f \cup {s} |-> IF x = s THEN v ELSE f[x]]

\* MultiSpanProcessor: every processor in turn.
Called(heard, s) ==
    [c \in DOMAIN heard |-> IF c[2] = s /\ c[1] \in ToSet(processors) THEN heard[c] + 1 ELSE heard[c]]

\* A new span, in the trace of its parent or, with 0, in one of its own.
Created(s, parent) ==
    /\ s \in OtelSpans \ Started
    /\ traceOf' = WithSpan(traceOf, s, IF parent = 0 THEN s ELSE traceOf[parent])
    /\ registered' = WithSpan(registered, s, ToSet(processors))
    /\ onStarts' = Called(onStarts, s)

\* Tracer.startSpan: in the active context, whose span is a fake one for the
\* tracer's own (or, without one, for ids of no span), as a root, or in a
\* context kept, whose span may have ended.
StartSpan(s, parent) ==
    /\ parent \in Started \cup {0}
    /\ Created(s, parent)
    /\ UNCHANGED <<scopes, endedSpans, below, killing, processors, onEnds>>

\* Tracer.startActiveSpan: with a context that has the new span.
StartActiveSpan(s) ==
    /\ Len(scopes) < MaxDepth
    /\ Created(s, ActiveSpan)
    /\ scopes' = Append(scopes, s)
    /\ UNCHANGED <<endedSpans, below, killing, processors, onEnds>>

\* ContextManager.with a context that holds a span (without one it throws), or
\* the tracer's own scope.activate.  In with(active()) the fake span has no
\* _ddSpan, and undefined is activated.
Enter(s) ==
    /\ s \in Started \cup {0}
    /\ Len(scopes) < MaxDepth
    /\ scopes' = Append(scopes, s)
    /\ UNCHANGED <<spanVars, endedSpans, below, killing, processors, onEnds>>

Leave ==
    /\ scopes # <<>>
    /\ scopes' = Front(scopes)
    /\ UNCHANGED <<spanVars, endedSpans, below, killing, processors, onEnds>>

\* The loop of SpanProcessor.process: with a span, the others of its trace.
KilledWith(s) ==
    IF killing
    THEN {t \in Started \ (endedSpans \cup {s}) : traceOf[t] = traceOf[s]}
    ELSE {}

\* A variant of End: it tells the processors of every call.
EndAgain(s) ==
    /\ s \in Started
    /\ onEnds[<<CHOOSE p \in OtelProcessors : TRUE, s>>] < 2
    /\ endedSpans' = endedSpans \cup {s} \cup KilledWith(s)
    /\ below' = below \cup KilledWith(s)
    /\ onEnds' = Called(onEnds, s)
    /\ UNCHANGED <<scopes, spanVars, killing, processors>>

\* Span.end: nothing but a message if the Datadog span has a duration.
End(s) ==
    /\ s \in Started \ endedSpans
    /\ endedSpans' = endedSpans \cup {s} \cup KilledWith(s)
    /\ below' = below \cup KilledWith(s)
    /\ onEnds' = Called(onEnds, s)
    /\ UNCHANGED <<scopes, spanVars, killing, processors>>

\* The program finishes the active Datadog span: the bridge is not asked.
FinishActive(s) ==
    /\ s = ActiveSpan /\ s \in Started \ endedSpans
    /\ endedSpans' = endedSpans \cup {s} \cup KilledWith(s)
    /\ below' = below \cup {s} \cup KilledWith(s)
    /\ UNCHANGED <<scopes, spanVars, killing, processors, onEnds>>

\* SpanProcessor.killAll, of the tracer's own span processor.
StartKilling ==
    /\ ~killing
    /\ killing' = TRUE
    /\ UNCHANGED <<scopes, spanVars, endedSpans, below, processors, onEnds>>

\* TracerProvider.addSpanProcessor.
AddSpanProcessor(p) ==
    /\ p \notin ToSet(processors)
    /\ processors' = Append(processors, p)
    /\ UNCHANGED <<scopes, spanVars, endedSpans, below, killing, onEnds>>

OtelNext ==
    \/ \E s \in OtelSpans : StartActiveSpan(s) \/ End(s) \/ FinishActive(s)
    \/ \E s \in OtelSpans, parent \in OtelSpans \cup {0} : StartSpan(s, parent)
    \/ \E s \in OtelSpans \cup {0} : Enter(s)
    \/ Leave
    \/ StartKilling
    \/ \E p \in OtelProcessors : AddSpanProcessor(p)

OtelSpec == OtelInit /\ [][OtelNext]_otelVars

-----------------------------------------------------------------------------
(* Properties.                                                             *)

\* A processor that was there when a span started hears of its start once and,
\* when it was ended by Span.end, of its end once; one added since never hears
\* of the start, and at most once of the end.  The end of a span that the
\* program or killAll has finished below the bridge is heard by none, whatever
\* Span.end is called afterwards.
ProcessorsPaired ==
    \A p \in OtelProcessors, s \in Started :
        /\ onStarts[<<p, s>>] = IF p \in registered[s] THEN 1 ELSE 0
        /\ p \in registered[s] => onEnds[<<p, s>>] = IF s \in endedSpans \ below THEN 1 ELSE 0
        /\ onEnds[<<p, s>>] \leq (IF s \in below THEN 0 ELSE 1)
=============================================================================
