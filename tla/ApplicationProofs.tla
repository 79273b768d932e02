-------------------------- MODULE ApplicationProofs --------------------------
(***************************************************************************)
(* What the tracer does inside the application's jobs, for any numbers of  *)
(* them.  Requests: a root span finishes with the first end of its         *)
(* response, once, and its middleware before it.  Contexts: every function *)
(* runs with the span that it was activated with, the tracer's own         *)
(* requests and the application's logger run untraced.  Tags: the client's *)
(* address is the first one that counts, by whomever it is looked up.      *)
(***************************************************************************)
EXTENDS Application, Loops, TLAPS

-----------------------------------------------------------------------------
(* The spans of a request.                                                 *)

Settings == {<<>>} \cup {Normalized(config) : config \in PluginConfigs}

Spans == Requests \X Int

Contexts ==
    [known : BOOLEAN, span : BOOLEAN, instrumented : BOOLEAN, finished : BOOLEAN,
     paths : Seq({"/a", "/b"}), middleware : Seq(Spans), error : BOOLEAN,
     config : Settings]

Typed ==
    /\ contexts \in [Requests -> Contexts]
    /\ DOMAIN requestSpan = Requests
    /\ startedSpans \in [Requests -> Int]
    /\ openSpans \subseteq Spans

\* The root span is open from the instrumentation to the first end, and an open
\* middleware span is one the request's context still holds.
RootOf(req) ==
    /\ contexts[req].span = contexts[req].instrumented
    /\ contexts[req].finished => contexts[req].span
    /\ ~contexts[req].finished =>
          requestSpan[req] = [open |-> contexts[req].span, told |-> <<>>]
    /\ contexts[req].finished =>
          /\ requestSpan[req] = [open |-> FALSE, told |-> requestSpan[req].told]
          /\ Len(requestSpan[req].told) = 1

OpenOf(req) == {span \in openSpans : span[1] = req}

HeldOf(req) ==
    /\ OpenOf(req) \subseteq ToSet(contexts[req].middleware)
    /\ contexts[req].finished => OpenOf(req) \subseteq lateSpans

\* The inductive invariant.
WebInv == Typed /\ \A req \in Requests : RootOf(req) /\ HeldOf(req)

LEMMA WebAtStart == WebInit => WebInv
<1> SUFFICES ASSUME WebInit PROVE WebInv
  OBVIOUS
<1>1. NoContext \in Contexts
  BY DEF NoContext, Contexts, Settings
<1>2. contexts = [r \in Requests |-> NoContext] /\ contexts \in [Requests -> Contexts]
  BY <1>1 DEF WebInit
<1>3. Typed
  BY <1>2 DEF WebInit, Typed
<1>4. ASSUME NEW req \in Requests PROVE RootOf(req) /\ HeldOf(req)
  <2>1. /\ contexts[req].span = FALSE /\ contexts[req].instrumented = FALSE
        /\ contexts[req].finished = FALSE
    BY <1>2 DEF NoContext
  <2>2. requestSpan[req] = [open |-> FALSE, told |-> <<>>] /\ openSpans = {}
    BY DEF WebInit
  <2>3. RootOf(req)
    BY <2>1, <2>2, Zenon DEF RootOf
  <2>4. HeldOf(req)
    BY <2>1, <2>2 DEF HeldOf, OpenOf
  <2> QED
    BY <2>3, <2>4
<1> QED
  BY <1>3, <1>4 DEF WebInv

\* The calls that change neither span nor middleware nor end.
LEMMA ContextRests ==
    ASSUME WebInv, NEW req \in Requests, NEW context \in Contexts,
           contexts' = [contexts EXCEPT ![req] = context],
           UNCHANGED <<requestSpan, openSpans, lateSpans, startedSpans>>,
           context.span = contexts[req].span, context.instrumented = contexts[req].instrumented,
           context.finished = contexts[req].finished,
           context.middleware = contexts[req].middleware
    PROVE  WebInv'
<1>1. Typed'
  BY DEF WebInv, Typed
<1>2. ASSUME NEW r \in Requests PROVE RootOf(r)' /\ HeldOf(r)'
  <2>1. /\ contexts'[r].span = contexts[r].span
        /\ contexts'[r].instrumented = contexts[r].instrumented
        /\ contexts'[r].finished = contexts[r].finished
        /\ contexts'[r].middleware = contexts[r].middleware
    BY DEF WebInv, Typed
  <2> QED
    BY <2>1 DEF WebInv, RootOf, HeldOf, OpenOf
<1> QED
  BY <1>1, <1>2 DEF WebInv

LEMMA Opened ==
    ASSUME NEW told, NEW open, NEW other
    PROVE  [[open |-> open, told |-> told] EXCEPT !.open = other] = [open |-> other, told |-> told]
OBVIOUS

LEMMA InstrumentSteps ==
    ASSUME WebInv, NEW req \in Requests, NEW config \in PluginConfigs, Instrument(req, config)
    PROVE  WebInv'
<1> DEFINE context == [contexts[req] EXCEPT !.known = TRUE, !.span = TRUE,
                                            !.instrumented = TRUE, !.config = Normalized(config)]
<1>1. contexts[req] \in Contexts
  BY DEF WebInv, Typed
<1>2. contexts' = [contexts EXCEPT ![req] = context]
  BY DEF Instrument, Patched
<1>3. /\ context \in Contexts /\ context.span /\ context.instrumented
      /\ context.finished = contexts[req].finished
      /\ context.middleware = contexts[req].middleware
  BY <1>1 DEF Contexts, Settings
<1>4. ~contexts[req].finished /\ UNCHANGED <<openSpans, lateSpans, startedSpans>>
  BY DEF Instrument
<1>5. Typed'
  BY <1>2, <1>3, <1>4 DEF WebInv, Typed, Instrument
<1>6. requestSpan'[req] = [open |-> TRUE, told |-> <<>>]
  <2>1. RootOf(req)
    BY DEF WebInv
  <2>2. CASE contexts[req].span
    BY <1>1, <1>4, <2>1, <2>2 DEF Instrument, RootOf, Contexts
  <2>3. CASE ~contexts[req].span
    <3>1. requestSpan[req] = [open |-> FALSE, told |-> <<>>]
      BY <1>1, <1>4, <2>1, <2>3 DEF RootOf, Contexts
    <3>2. requestSpan' = [requestSpan EXCEPT ![req] = [requestSpan[req] EXCEPT !.open = TRUE]]
      BY <2>3, Zenon DEF Instrument
    <3>3. requestSpan'[req] = [requestSpan[req] EXCEPT !.open = TRUE]
      BY <3>2 DEF WebInv, Typed
    <3>4. [[open |-> FALSE, told |-> <<>>] EXCEPT !.open = TRUE] = [open |-> TRUE, told |-> <<>>]
      BY Opened
    <3> QED
      BY <3>1, <3>3, <3>4, Zenon
  <2> QED
    BY <2>2, <2>3
<1>7. ASSUME NEW r \in Requests PROVE RootOf(r)' /\ HeldOf(r)'
  <2>1. CASE r = req
    <3>1. contexts'[r] = context
      BY <1>2, <2>1 DEF WebInv, Typed
    <3>2. RootOf(r)'
      BY <1>3, <1>4, <1>6, <2>1, <3>1 DEF RootOf, Contexts
    <3>3. HeldOf(r)'
      BY <1>3, <1>4, <2>1, <3>1 DEF WebInv, HeldOf, OpenOf
    <3> QED
      BY <3>2, <3>3
  <2>2. CASE r # req
    <3>1. contexts'[r] = contexts[r] /\ requestSpan'[r] = requestSpan[r]
      BY <1>2, <2>2 DEF WebInv, Typed, Instrument
    <3> QED
      BY <1>4, <3>1 DEF WebInv, RootOf, HeldOf, OpenOf
  <2> QED
    BY <2>1, <2>2
<1> QED
  BY <1>5, <1>7 DEF WebInv

LEMMA RouteSteps ==
    ASSUME WebInv, NEW req \in Requests,
           \/ \E path \in {"/a", "/b"} : EnterRoute(req, path) \/ SetRoute(req, path)
           \/ ExitRoute(req)
           \/ AddError(req)
    PROVE  WebInv'
<1>1. contexts[req] \in Contexts
  BY DEF WebInv, Typed
<1>2. UNCHANGED <<requestSpan, openSpans, lateSpans, startedSpans>>
  BY DEF EnterRoute, SetRoute, ExitRoute, AddError
<1>3. CASE AddError(req)
  <2> DEFINE context == [contexts[req] EXCEPT !.error = TRUE]
  <2>1. /\ context \in Contexts /\ contexts' = [contexts EXCEPT ![req] = context]
        /\ context.span = contexts[req].span /\ context.instrumented = contexts[req].instrumented
        /\ context.finished = contexts[req].finished
        /\ context.middleware = contexts[req].middleware
    BY <1>1, <1>3 DEF AddError, Contexts
  <2> HIDE DEF context
  <2> QED
    BY <1>2, <2>1, ContextRests
<1>4. CASE ~AddError(req)
  <2>1. PICK paths \in Seq({"/a", "/b"}) : contexts' = [contexts EXCEPT ![req].paths = paths]
    <3>1. contexts[req].paths \in Seq({"/a", "/b"})
      BY <1>1 DEF Contexts
    <3>2. CASE \E path \in {"/a", "/b"} : EnterRoute(req, path)
      <4>1. PICK path \in {"/a", "/b"} : EnterRoute(req, path)
        BY <3>2
      <4>2. Append(contexts[req].paths, path) \in Seq({"/a", "/b"})
        BY <3>1
      <4> QED
        BY <4>1, <4>2 DEF EnterRoute
    <3>3. CASE \E path \in {"/a", "/b"} : SetRoute(req, path)
      <4>1. PICK path \in {"/a", "/b"} : SetRoute(req, path)
        BY <3>3
      <4>2. <<path>> \in Seq({"/a", "/b"})
        OBVIOUS
      <4> QED
        BY <4>1, <4>2 DEF SetRoute
    <3>4. CASE ExitRoute(req)
      <4>1. Front(contexts[req].paths) \in Seq({"/a", "/b"})
        BY <3>1, <3>4 DEF ExitRoute, Front
      <4> QED
        BY <3>4, <4>1 DEF ExitRoute
    <3> QED
      BY <1>4, <3>2, <3>3, <3>4
  <2> DEFINE context == [contexts[req] EXCEPT !.paths = paths]
  <2>2. /\ context \in Contexts /\ contexts' = [contexts EXCEPT ![req] = context]
        /\ context.span = contexts[req].span /\ context.instrumented = contexts[req].instrumented
        /\ context.finished = contexts[req].finished
        /\ context.middleware = contexts[req].middleware
    BY <1>1, <2>1 DEF Contexts
  <2> HIDE DEF context
  <2> QED
    BY <1>2, <2>2, ContextRests
<1> QED
  BY <1>3, <1>4

\* The set of a sequence, and what adding and removing its last element does.
LEMMA LastOfSequence ==
    ASSUME NEW S, NEW seq \in Seq(S), NEW new \in S
    PROVE  /\ Append(seq, new) \in Seq(S)
           /\ ToSet(Append(seq, new)) = ToSet(seq) \cup {new}
           /\ seq # <<>> => /\ Front(seq) \in Seq(S)
                            /\ ToSet(seq) = ToSet(Front(seq)) \cup {Last(seq)}
<1>1. Append(seq, new) \in Seq(S) /\ ToSet(Append(seq, new)) = ToSet(seq) \cup {new}
  <2>1. /\ Append(seq, new) \in Seq(S) /\ Len(Append(seq, new)) = Len(seq) + 1
        /\ DOMAIN seq = 1 .. Len(seq)
        /\ DOMAIN Append(seq, new) = 1 .. Len(seq) + 1
        /\ \A k \in 1 .. Len(seq) : Append(seq, new)[k] = seq[k]
        /\ Append(seq, new)[Len(seq) + 1] = new
        /\ Len(seq) \in Nat
    OBVIOUS
  <2>2. ToSet(Append(seq, new)) \subseteq ToSet(seq) \cup {new}
    BY <2>1 DEF ToSet
  <2>3. ToSet(seq) \subseteq ToSet(Append(seq, new))
    BY <2>1 DEF ToSet
  <2>4. new \in ToSet(Append(seq, new))
    BY <2>1 DEF ToSet
  <2> QED
    BY <2>1, <2>2, <2>3, <2>4
<1>2. CASE seq # <<>>
  <2>1. Len(seq) \in Nat \ {0} /\ DOMAIN seq = 1 .. Len(seq)
    BY <1>2
  <2>2. Front(seq) \in Seq(S) /\ Len(Front(seq)) = Len(seq) - 1
        /\ \A k \in 1 .. Len(seq) - 1 : Front(seq)[k] = seq[k]
    BY <2>1 DEF Front
  <2>3. ToSet(seq) = ToSet(Front(seq)) \cup {Last(seq)}
    BY <2>1, <2>2 DEF ToSet, Last
  <2> QED
    BY <1>1, <2>2, <2>3
<1> QED
  BY <1>1, <1>2

\* Another middleware span, which is late if the request has finished.
LEMMA WrapSteps ==
    ASSUME WebInv, NEW req \in Requests, WrapMiddleware(req)
    PROVE  WebInv'
<1> DEFINE span == <<req, startedSpans[req] + 1>>
           old == contexts[req]
           context == [old EXCEPT !.middleware = Append(@, span)]
<1>1. old \in Contexts /\ span \in Spans /\ span[1] = req
  BY DEF WebInv, Typed, Spans
<1>2. /\ contexts' = [contexts EXCEPT ![req] = context]
      /\ openSpans' = openSpans \cup {span} /\ requestSpan' = requestSpan
      /\ lateSpans' = IF old.finished THEN lateSpans \cup {span} ELSE lateSpans
      /\ startedSpans' = [startedSpans EXCEPT ![req] = @ + 1]
  BY DEF WrapMiddleware
<1>3. old.middleware \in Seq(Spans)
  BY <1>1 DEF Contexts
<1> HIDE DEF span
<1>4. /\ Append(old.middleware, span) \in Seq(Spans)
      /\ ToSet(Append(old.middleware, span)) = ToSet(old.middleware) \cup {span}
  <2> DEFINE held == old.middleware
  <2>1. span \in Spans /\ held \in Seq(Spans)
    BY <1>1, <1>3
  <2> HIDE DEF held, old, context
  <2>2. /\ Append(held, span) \in Seq(Spans)
        /\ ToSet(Append(held, span)) = ToSet(held) \cup {span}
    BY <2>1, LastOfSequence, Z3
  <2> QED
    BY <2>2 DEF held
<1>5. /\ context \in Contexts /\ context.middleware = Append(old.middleware, span)
      /\ context.span = old.span /\ context.instrumented = old.instrumented
      /\ context.finished = old.finished
  BY <1>1, <1>4 DEF Contexts
<1> HIDE DEF context
<1>6. Typed'
  BY <1>1, <1>2, <1>5 DEF WebInv, Typed
<1>7. ASSUME NEW r \in Requests PROVE RootOf(r)' /\ HeldOf(r)'
  <2>1. CASE r = req
    <3>1. contexts'[r] = context
      BY <1>2, <2>1 DEF WebInv, Typed
    <3>2. RootOf(r)'
      BY <1>2, <1>5, <2>1, <3>1 DEF WebInv, RootOf
    <3>3. HeldOf(r)'
      BY <1>2, <1>4, <1>5, <2>1, <3>1 DEF WebInv, HeldOf, OpenOf
    <3> QED
      BY <3>2, <3>3
  <2>2. CASE r # req
    <3>1. contexts'[r] = contexts[r]
      BY <1>2, <2>2 DEF WebInv, Typed
    <3>2. OpenOf(r)' = OpenOf(r)
      BY <1>1, <1>2, <2>2 DEF OpenOf
    <3>3. lateSpans \subseteq lateSpans'
      BY <1>2
    <3>4. RootOf(r)'
      BY <1>2, <3>1 DEF WebInv, RootOf
    <3>5. HeldOf(r)'
      BY <3>1, <3>2, <3>3 DEF WebInv, HeldOf
    <3> QED
      BY <3>4, <3>5
  <2> QED
    BY <2>1, <2>2
<1> QED
  BY <1>6, <1>7 DEF WebInv

\* The innermost middleware span leaves the context and ends.
LEMMA FinishMiddlewareSteps ==
    ASSUME WebInv, NEW req \in Requests, FinishMiddleware(req)
    PROVE  WebInv'
<1> DEFINE old == contexts[req]
           context == [old EXCEPT !.middleware = Front(@)]
<1>1. old \in Contexts
  BY DEF WebInv, Typed
<1>2. /\ old.middleware # <<>>
      /\ contexts' = [contexts EXCEPT ![req] = context]
      /\ openSpans' = openSpans \ {Last(old.middleware)}
      /\ UNCHANGED <<requestSpan, lateSpans, startedSpans>>
  BY DEF FinishMiddleware
<1>3. old.middleware \in Seq(Spans)
  BY <1>1 DEF Contexts
<1>4. /\ Front(old.middleware) \in Seq(Spans)
      /\ ToSet(old.middleware) = ToSet(Front(old.middleware)) \cup {Last(old.middleware)}
  BY <1>2, <1>3, LastOfSequence, <<req, 0>> \in Spans DEF Spans
<1>5. /\ context \in Contexts /\ context.middleware = Front(old.middleware)
      /\ context.span = old.span /\ context.instrumented = old.instrumented
      /\ context.finished = old.finished
  BY <1>1, <1>4 DEF Contexts
<1> HIDE DEF context
<1>6. Typed'
  BY <1>1, <1>2, <1>5 DEF WebInv, Typed
<1>7. ASSUME NEW r \in Requests PROVE RootOf(r)' /\ HeldOf(r)'
  <2>1. OpenOf(r)' \subseteq OpenOf(r)
    BY <1>2 DEF OpenOf
  <2>2. CASE r = req
    <3>1. contexts'[r] = context
      BY <1>2, <2>2 DEF WebInv, Typed
    <3>2. RootOf(r)'
      BY <1>2, <1>5, <2>2, <3>1 DEF WebInv, RootOf
    <3>3. HeldOf(r)'
      BY <1>2, <1>4, <1>5, <2>1, <2>2, <3>1 DEF WebInv, HeldOf, OpenOf
    <3> QED
      BY <3>2, <3>3
  <2>3. CASE r # req
    <3>1. contexts'[r] = contexts[r]
      BY <1>2, <2>3 DEF WebInv, Typed
    <3> QED
      BY <1>2, <2>1, <3>1 DEF WebInv, RootOf, HeldOf
  <2> QED
    BY <2>2, <2>3
<1> QED
  BY <1>6, <1>7 DEF WebInv

\* What the end of a request leaves of its root span: finished, with what the
\* first end told.
LEMMA RootEnds ==
    ASSUME WebInv, NEW req \in Requests, NEW status, End(req, status)
    PROVE  /\ DOMAIN requestSpan' = Requests
           /\ \A r \in Requests : r # req => requestSpan'[r] = requestSpan[r]
           /\ requestSpan'[req] = [open |-> FALSE, told |-> requestSpan'[req].told]
           /\ Len(requestSpan'[req].told) = 1
<1>1. contexts[req] \in Contexts /\ RootOf(req) /\ contexts[req].instrumented
  BY DEF WebInv, Typed, End
<1>2. SpanFinishes(req, status) /\ DOMAIN requestSpan = Requests
  BY DEF WebInv, Typed, End
<1> DEFINE root == requestSpan[req]
           after == IF root.open THEN [open |-> FALSE, told |-> <<ResponseTags(req, status)>>]
                    ELSE root
<1>3. CASE contexts[req].finished
  <2>1. root = [open |-> FALSE, told |-> root.told] /\ Len(root.told) = 1
    BY <1>1, <1>3 DEF RootOf
  <2>2. ~root.open
    BY <2>1
  <2>3. UNCHANGED requestSpan \/ requestSpan' = [requestSpan EXCEPT ![req] = root]
    BY <1>2, <2>2, Zenon DEF SpanFinishes
  <2>4. /\ DOMAIN requestSpan' = Requests
        /\ \A r \in Requests : requestSpan'[r] = requestSpan[r]
    BY <1>2, <2>3
  <2> QED
    BY <2>1, <2>4
<1>4. CASE ~contexts[req].finished
  <2>1. root.open
    BY <1>1, <1>4 DEF RootOf, Contexts
  <2> DEFINE told == <<ResponseTags(req, status)>>
  <2>2. requestSpan' = [requestSpan EXCEPT ![req] = [open |-> FALSE, told |-> told]]
    BY <1>2, <1>4, <2>1, Zenon DEF SpanFinishes
  <2>3. Len(told) = 1
    OBVIOUS
  <2> HIDE DEF told
  <2> QED
    BY <1>2, <2>2, <2>3
<1> QED
  BY <1>3, <1>4

\* The end of a response: the first one takes all of the middleware, the others
\* find it finished.
LEMMA EndSteps ==
    ASSUME WebInv, NEW req \in Requests, NEW status, End(req, status)
    PROVE  WebInv'
<1> DEFINE old == contexts[req]
           left == MiddlewareLeft(old)
           context == [old EXCEPT !.middleware = left, !.finished = TRUE]
<1>1. old \in Contexts /\ RootOf(req) /\ HeldOf(req)
  BY DEF WebInv, Typed
<1>2. /\ old.instrumented
      /\ contexts' = [contexts EXCEPT ![req] = context]
      /\ openSpans' = openSpans \ (ToSet(old.middleware) \ ToSet(left))
      /\ UNCHANGED <<lateSpans, startedSpans>>
  BY DEF End
<1>3. left \in Seq(Spans)
  BY <1>1 DEF MiddlewareLeft, Contexts
<1>4. /\ context \in Contexts /\ context.middleware = left
      /\ context.span = old.span /\ context.instrumented = old.instrumented
      /\ context.finished = TRUE
  BY <1>1, <1>3 DEF Contexts
<1>5. /\ old.finished => left = old.middleware
      /\ ~old.finished => ToSet(left) = {}
  BY DEF MiddlewareLeft, ToSet
<1> HIDE DEF context, left
<1>6. Typed'
  BY <1>1, <1>2, <1>4, RootEnds DEF WebInv, Typed
<1>7. ASSUME NEW r \in Requests PROVE RootOf(r)' /\ HeldOf(r)'
  <2>1. OpenOf(r)' \subseteq OpenOf(r)
    BY <1>2 DEF OpenOf
  <2>2. CASE r = req
    <3>1. contexts'[r] = context
      BY <1>2, <2>2 DEF WebInv, Typed
    <3>2. RootOf(r)'
      BY <1>1, <1>2, <1>4, <2>2, <3>1, RootEnds DEF RootOf
    <3>3. CASE old.finished
      BY <1>1, <1>2, <1>4, <1>5, <2>2, <3>1, <3>2, <3>3 DEF HeldOf, OpenOf
    <3>4. CASE ~old.finished
      <4>1. OpenOf(r)' = {}
        BY <1>1, <1>2, <1>5, <2>2, <3>4 DEF HeldOf, OpenOf
      <4> QED
        BY <3>2, <4>1 DEF HeldOf, OpenOf
    <3> QED
      BY <3>2, <3>3, <3>4 DEF HeldOf
  <2>3. CASE r # req
    <3>1. contexts'[r] = contexts[r] /\ requestSpan'[r] = requestSpan[r]
      BY <1>2, <2>3, RootEnds DEF WebInv, Typed
    <3> QED
      BY <1>2, <2>1, <3>1 DEF WebInv, RootOf, HeldOf
  <2> QED
    BY <2>2, <2>3
<1> QED
  BY <1>6, <1>7 DEF WebInv

\* Every step keeps the invariant.
LEMMA WebSteps == WebInv /\ [WebNext]_webVars => WebInv'
<1> SUFFICES ASSUME WebInv, [WebNext]_webVars PROVE WebInv'
  OBVIOUS
<1>1. CASE UNCHANGED webVars
  BY <1>1 DEF webVars, WebInv, Typed, RootOf, HeldOf, OpenOf
<1>2. CASE WebNext
  <2>1. PICK req \in Requests :
          \/ \E config \in PluginConfigs : Instrument(req, config)
          \/ \E path \in {"/a", "/b"} : EnterRoute(req, path) \/ SetRoute(req, path)
          \/ ExitRoute(req)
          \/ WrapMiddleware(req)
          \/ AddError(req)
          \/ FinishMiddleware(req)
          \/ \E status \in Statuses : End(req, status)
    BY <1>2 DEF WebNext
  <2>2. CASE \E config \in PluginConfigs : Instrument(req, config)
    BY <2>2, InstrumentSteps
  <2>3. CASE \/ \E path \in {"/a", "/b"} : EnterRoute(req, path) \/ SetRoute(req, path)
             \/ ExitRoute(req)
             \/ AddError(req)
    BY <2>3, RouteSteps
  <2>4. CASE WrapMiddleware(req)
    BY <2>4, WrapSteps
  <2>5. CASE FinishMiddleware(req)
    BY <2>5, FinishMiddlewareSteps
  <2>6. CASE \E status \in Statuses : End(req, status)
    BY <2>6, EndSteps
  <2> QED
    BY <2>1, <2>2, <2>3, <2>4, <2>5, <2>6
<1> QED
  BY <1>1, <1>2

\* However often a response is ended, and whatever middleware never returned:
\* the request's span has finished once, and only middleware that started after
\* the end is open (web.ts, finishAll).
THEOREM MiddlewareIsFirst == WebSpec => []MiddlewareEndsFirst
<1>1. WebInv => MiddlewareEndsFirst
  <2> SUFFICES ASSUME WebInv, NEW req \in Requests, contexts[req].finished
               PROVE  /\ ~requestSpan[req].open
                      /\ Len(requestSpan[req].told) = 1
                      /\ OpenOf(req) \subseteq lateSpans
    BY DEF MiddlewareEndsFirst, OpenOf
  <2>1. RootOf(req) /\ HeldOf(req)
    BY DEF WebInv
  <2> QED
    BY <2>1 DEF RootOf, HeldOf
<1> QED
  BY <1>1, WebAtStart, WebSteps, PTL DEF WebSpec

-----------------------------------------------------------------------------
(* The ends of sequences: stacks of stores, activations and loggers.       *)

LEMMA AppendedEnd ==
    ASSUME NEW S, NEW seq \in Seq(S), NEW new \in S
    PROVE  /\ Append(seq, new) \in Seq(S)
           /\ Append(seq, new) # <<>>
           /\ Last(Append(seq, new)) = new
           /\ Len(Append(seq, new)) = Len(seq) + 1
           /\ \A k \in 1 .. Len(seq) : Append(seq, new)[k] = seq[k]
BY DEF Last

LEMMA RemovedEnd ==
    ASSUME NEW S, NEW seq \in Seq(S), seq # <<>>
    PROVE  /\ Last(seq) \in S /\ Last(seq) = seq[Len(seq)]
           /\ Len(seq) \in Nat \ {0}
           /\ Front(seq) \in Seq(S)
           /\ Len(Front(seq)) = Len(seq) - 1
           /\ \A k \in 1 .. Len(seq) - 1 : Front(seq)[k] = seq[k]
BY DEF Last, Front

-----------------------------------------------------------------------------
(* The application's logger (log/writer.ts).                               *)

StoresOfCallers == CallerStores \cup {NoTrace}
RunningLoggers == [level : Levels, method : Levels, saved : StoresOfCallers]

LogTyped ==
    /\ store \in StoresOfCallers
    /\ loggers \in Seq(RunningLoggers)
    /\ threw \in BOOLEAN

\* The inductive invariant: the outermost logger has the application's store
\* to go back to.
LogInv ==
    /\ LogTyped
    /\ LoggerUntraced
    /\ loggers # <<>> /\ ~threw => loggers[1].saved = appStore

LEMMA LogAtStart == LogInit => LogInv
<1> SUFFICES ASSUME LogInit PROVE LogInv
  OBVIOUS
<1>1. loggers = <<>> /\ threw = FALSE /\ store \in CallerStores /\ appStore = store
  BY DEF LogInit
<1>2. LogTyped
  <2>1. store \in StoresOfCallers /\ threw \in BOOLEAN
    BY <1>1, Zenon DEF StoresOfCallers
  <2> HIDE DEF StoresOfCallers
  <2>2. loggers \in Seq(RunningLoggers)
    BY <1>1
  <2> QED
    BY <2>1, <2>2, Zenon DEF LogTyped
<1> QED
  BY <1>1, <1>2, SMT DEF LogInv, LoggerUntraced

\* A message that the logger is told: it runs in the noop store.
LEMMA LogSteps ==
    ASSUME LogInv, NEW level \in Levels, Log(level)
    PROVE  LogInv'
<1> DEFINE method == IF level \in logger THEN level ELSE "debug"
           new == [level |-> level, method |-> method, saved |-> store]
<1>1. UNCHANGED <<appStore, threw>>
  BY DEF Log
<1>2. CASE level \notin subscribed
  <2>1. UNCHANGED <<loggers, store>>
    BY <1>2 DEF Log
  <2> QED
    BY <1>1, <2>1 DEF LogInv, LogTyped, LoggerUntraced
<1>3. CASE level \in subscribed
  <2>1. loggers' = Append(loggers, new) /\ store' = NoTrace
    BY <1>3 DEF Log
  <2>2. new \in RunningLoggers /\ new.saved = store
    BY DEF LogInv, LogTyped, RunningLoggers, Levels
  <2> HIDE DEF new
  <2>3. /\ loggers' \in Seq(RunningLoggers) /\ loggers' # <<>>
        /\ Len(loggers') = Len(loggers) + 1 /\ Last(loggers') = new
        /\ \A k \in 1 .. Len(loggers) : loggers'[k] = loggers[k]
    <3>1. loggers \in Seq(RunningLoggers)
      BY Zenon DEF LogInv, LogTyped
    <3>2. /\ Append(loggers, new) \in Seq(RunningLoggers)
          /\ Append(loggers, new) # <<>>
          /\ Last(Append(loggers, new)) = new
          /\ Len(Append(loggers, new)) = Len(loggers) + 1
          /\ \A k \in 1 .. Len(loggers) : Append(loggers, new)[k] = loggers[k]
      BY <2>2, <3>1, AppendedEnd, Zenon
    <3> QED
      BY <2>1, <2>2, <3>2, Zenon
  <2>4. loggers'[Len(loggers) + 1] = new /\ Len(loggers) \in Nat /\ DOMAIN loggers' = 1 .. Len(loggers) + 1
        /\ DOMAIN loggers = 1 .. Len(loggers)
    BY <2>3 DEF LogInv, LogTyped, Last
  <2>5. \A k \in DOMAIN loggers' : k > 1 => loggers'[k].saved = NoTrace
    <3> SUFFICES ASSUME NEW k \in DOMAIN loggers', k > 1 PROVE loggers'[k].saved = NoTrace
      OBVIOUS
    <3>1. CASE k = Len(loggers) + 1
      <4>1. loggers # <<>>
        BY <2>4, <3>1
      <4> QED
        BY <2>2, <2>4, <3>1, <4>1 DEF LogInv, LoggerUntraced
    <3>2. CASE k # Len(loggers) + 1
      BY <2>3, <2>4, <3>2 DEF LogInv, LoggerUntraced
    <3> QED
      BY <3>1, <3>2
  <2>6. ~threw' => loggers'[1].saved = appStore'
    <3>1. CASE loggers = <<>>
      BY <1>1, <2>2, <2>4, <3>1 DEF LogInv, LoggerUntraced
    <3>2. CASE loggers # <<>>
      BY <1>1, <2>3, <2>4, <3>2 DEF LogInv
    <3> QED
      BY <3>1, <3>2
  <2>7. LogTyped'
    BY <1>1, <2>1, <2>3 DEF LogInv, LogTyped, StoresOfCallers
  <2> QED
    BY <2>1, <2>3, <2>5, <2>6, <2>7 DEF LogInv, LoggerUntraced
<1> QED
  BY <1>2, <1>3

\* The innermost logger ends, one way or the other.
LEMMA LoggerEnds ==
    ASSUME LogInv, loggers # <<>>, loggers' = Front(loggers), UNCHANGED appStore,
           \/ store' = Last(loggers).saved /\ threw' = threw
           \/ store' = store /\ threw' = TRUE
    PROVE  LogInv'
<1>1. /\ Last(loggers) \in RunningLoggers /\ Last(loggers) = loggers[Len(loggers)]
      /\ Len(loggers) \in Nat \ {0}
      /\ loggers' \in Seq(RunningLoggers) /\ Len(loggers') = Len(loggers) - 1
      /\ \A k \in 1 .. Len(loggers) - 1 : loggers'[k] = loggers[k]
  BY RemovedEnd DEF LogInv, LogTyped
<1>2. DOMAIN loggers' = 1 .. Len(loggers) - 1 /\ DOMAIN loggers = 1 .. Len(loggers)
  BY <1>1 DEF LogInv, LogTyped
<1>3. LogTyped'
  BY <1>1 DEF LogInv, LogTyped, RunningLoggers
<1>4. \A k \in DOMAIN loggers' : k > 1 => loggers'[k].saved = NoTrace
  BY <1>1, <1>2 DEF LogInv, LoggerUntraced
<1>5. loggers' # <<>> => store' = NoTrace
  <2> SUFFICES ASSUME loggers' # <<>> PROVE store' = NoTrace
    OBVIOUS
  <2>1. Len(loggers) > 1
    BY <1>1
  <2> QED
    BY <1>1, <1>2, <2>1 DEF LogInv, LoggerUntraced
<1>6. loggers' # <<>> /\ ~threw' => loggers'[1].saved = appStore'
  <2> SUFFICES ASSUME loggers' # <<>>, ~threw' PROVE loggers'[1].saved = appStore'
    OBVIOUS
  <2>1. Len(loggers) > 1
    BY <1>1
  <2> QED
    BY <1>1, <2>1 DEF LogInv
<1>7. loggers' = <<>> /\ ~threw' => store' = appStore'
  <2> SUFFICES ASSUME loggers' = <<>>, ~threw' PROVE store' = appStore'
    OBVIOUS
  <2>1. Len(loggers) = 1
    BY <1>1
  <2> QED
    BY <1>1, <2>1 DEF LogInv
<1> QED
  BY <1>3, <1>4, <1>5, <1>6, <1>7 DEF LogInv, LoggerUntraced

LEMMA LogInvSteps == LogInv /\ [LogNext]_logVars => LogInv'
<1> SUFFICES ASSUME LogInv, [LogNext]_logVars PROVE LogInv'
  OBVIOUS
<1>1. CASE \E level \in Levels : Log(level)
  BY <1>1, LogSteps
<1>2. CASE LoggerReturns \/ LoggerThrows
  BY <1>2, LoggerEnds DEF LoggerReturns, LoggerThrows
<1>3. CASE \E entered \in CallerStores : EnterStore(entered)
  BY <1>3 DEF EnterStore, LogInv, LogTyped, LoggerUntraced, StoresOfCallers
<1>4. CASE UNCHANGED logVars
  BY <1>4 DEF logVars, LogInv, LogTyped, LoggerUntraced
<1> QED
  BY <1>1, <1>2, <1>3, <1>4 DEF LogNext

\* The logger runs untraced however deeply it logs itself, and the code that
\* logged goes on in its own store unless a logger has thrown (withNoop).
THEOREM LoggerIsUntraced == LogSpec => []LoggerUntraced
<1>1. LogInv => LoggerUntraced
  BY DEF LogInv
<1> QED
  BY <1>1, LogAtStart, LogInvSteps, PTL DEF LogSpec

-----------------------------------------------------------------------------
(* The active span (scope.ts, async_local_storage.ts, request.ts).         *)

Jobs == [kind : Kinds, role : {"app", "flush", "settle", "retry"},
         ctx : Stores, expected : 0..MaxSpans, saved : Stores,
         tries : 0..1, id : 0..(MaxAwaits + MaxFlushes)]
Activations == [old : Stores, expected : 0..MaxSpans]

\* A request's continuation runs under the promise hooks, in the noop store.
SettlesUntraced == \A job \in pending : job.role = "settle" => job.kind = "promise" /\ job.ctx.noop

\* With the runtime's storage and no flush from finish, whatever a step may go
\* back to is labelled with the span that should be active then.
Labelled ==
    /\ running = "none" => stack = <<>> /\ acts = <<>>
    /\ running # "none" => Current.span = expected
    /\ \A k \in DOMAIN acts : acts[k].old.span = acts[k].expected
    /\ \A job \in pending : job.role = "app" => job.ctx.span = job.expected

\* The inductive invariant.
ContextInv ==
    /\ TypeOK /\ HandlersUntraced /\ SettlesUntraced
    /\ storage = "native" /\ ~eager => Labelled

\* What the storage returns is a store, and what has been entered is current.
LEMMA CurrentIsStore == ASSUME NEW s \in Seq(Stores) PROVE CurrentOf(s) \in Stores
<1>1. EmptyStore \in Stores
  BY AsyncContextAssumption DEF EmptyStore, Stores
<1> HIDE DEF Stores
<1>2. s # <<>> => Last(s) \in Stores
  BY RemovedEnd, Zenon
<1> QED
  BY <1>1, <1>2, Zenon DEF CurrentOf

LEMMA EnteredIsCurrent ==
    ASSUME NEW s \in Seq(Stores), NEW next \in Stores
    PROVE  Entered(s, next) \in Seq(Stores) /\ CurrentOf(Entered(s, next)) = next
<1>1. /\ Append(s, next) \in Seq(Stores) /\ Append(s, next) # <<>>
      /\ Last(Append(s, next)) = next
  BY AppendedEnd, Zenon
<1>2. <<next>> \in Seq(Stores) /\ <<next>> # <<>> /\ Last(<<next>>) = next
  BY DEF Last
<1> QED
  BY <1>1, <1>2, Zenon DEF Entered, CurrentOf

LEMMA BegunIsStack ==
    ASSUME NEW s \in Seq(Stores), NEW kind, NEW ctx \in Stores
    PROVE  /\ Begun(s, kind, ctx) \in Seq(Stores)
           /\ kind = "promise" \/ storage = "native" => CurrentOf(Begun(s, kind, ctx)) = ctx
<1>1. /\ Append(s, ctx) \in Seq(Stores) /\ Append(s, ctx) # <<>>
      /\ Last(Append(s, ctx)) = ctx
  BY AppendedEnd, Zenon
<1>2. <<ctx>> \in Seq(Stores) /\ <<ctx>> # <<>> /\ Last(<<ctx>>) = ctx
  BY DEF Last
<1> QED
  BY <1>1, <1>2, Zenon DEF Begun, CurrentOf

LEMMA EndedIsStack ==
    ASSUME NEW s \in Seq(Stores), NEW kind
    PROVE  /\ Ended(s, kind) \in Seq(Stores)
           /\ storage = "native" => Ended(s, kind) = <<>>
<1>1. s # <<>> => Front(s) \in Seq(Stores)
  BY RemovedEnd, Zenon
<1>2. <<>> \in Seq(Stores)
  OBVIOUS
<1> QED
  BY <1>1, <1>2, Zenon DEF Ended

LEMMA ContextAtStart == Init => ContextInv
<1> SUFFICES ASSUME Init PROVE ContextInv
  OBVIOUS
<1>1. TypeOK
  BY AsyncContextAssumption DEF Init, TypeOK
<1>2. HandlersUntraced /\ SettlesUntraced
  BY DEF Init, HandlersUntraced, SettlesUntraced
<1>3. Labelled
  BY DEF Init, Labelled
<1> QED
  BY <1>1, <1>2, <1>3 DEF ContextInv

LEMMA JobHas ==
    ASSUME NEW kind \in Kinds, NEW role \in {"app", "flush", "settle", "retry"},
           NEW ctx \in Stores, NEW exp \in 0..MaxSpans, NEW saved \in Stores,
           NEW tries \in 0..1, NEW id \in 0..(MaxAwaits + MaxFlushes)
    PROVE  LET job == Job(kind, role, ctx, exp, saved, tries, id)
           IN  /\ job \in Jobs
               /\ job.kind = kind /\ job.role = role /\ job.ctx = ctx /\ job.expected = exp
BY DEF Job, Jobs

\* An event or a continuation begins a job.
LEMMA JobBegins ==
    ASSUME ContextInv, running = "none", NEW kind \in Kinds, NEW ctx \in Stores,
           NEW exp \in 0..MaxSpans,
           storage = "native" /\ ~eager => ctx.span = exp,
           running' = kind, expected' = exp, stack' = Begun(stack, kind, ctx),
           pending' \subseteq pending, events' \in 0..MaxEvents,
           UNCHANGED <<setting, acts, spans, awaits, flushes, handled>>
    PROVE  ContextInv'
<1>1. /\ stack' \in Seq(Stores) /\ stack \in Seq(Stores)
      /\ kind = "promise" \/ storage = "native" => CurrentOf(stack') = ctx
  BY BegunIsStack, Zenon DEF ContextInv, TypeOK
<1>2. TypeOK'
  BY <1>1 DEF ContextInv, TypeOK, setting
<1>3. HandlersUntraced' /\ SettlesUntraced'
  BY DEF ContextInv, HandlersUntraced, SettlesUntraced
<1>4. ASSUME storage = "native", ~eager PROVE Labelled'
  BY <1>1, <1>4 DEF ContextInv, Labelled, Current, Kinds
<1> QED
  BY <1>2, <1>3, <1>4 DEF ContextInv, setting

\* The job ends.
LEMMA JobEnds == ContextInv /\ EndJob => ContextInv'
<1> SUFFICES ASSUME ContextInv, EndJob PROVE ContextInv'
  OBVIOUS
<1>1. stack' \in Seq(Stores) /\ (storage = "native" => stack' = <<>>)
  BY EndedIsStack, Zenon DEF ContextInv, TypeOK, EndJob
<1>2. TypeOK'
  BY <1>1 DEF ContextInv, TypeOK, EndJob, setting, counters
<1>3. HandlersUntraced' /\ SettlesUntraced'
  BY DEF ContextInv, HandlersUntraced, SettlesUntraced, EndJob
<1>4. ASSUME storage = "native", ~eager PROVE Labelled'
  BY <1>1, <1>4 DEF ContextInv, Labelled, EndJob
<1> QED
  BY <1>2, <1>3, <1>4 DEF ContextInv, EndJob, setting

\* A span is started and activated.
LEMMA TraceSteps == ContextInv /\ Trace => ContextInv'
<1> SUFFICES ASSUME ContextInv, Trace PROVE ContextInv'
  OBVIOUS
<1> DEFINE next == [Current EXCEPT !.span = spans']
           new == [old |-> Current, expected |-> expected]
<1>1. Current \in Stores /\ spans' \in 0..MaxSpans
  BY CurrentIsStore, AsyncContextAssumption DEF ContextInv, TypeOK, Trace, Current
<1>2. next \in Stores /\ next.span = spans'
  BY <1>1 DEF Stores
<1>3. new \in Activations /\ new.old = Current /\ new.expected = expected
  BY <1>1 DEF Activations, ContextInv, TypeOK
<1>4. stack' = Entered(stack, next) /\ acts' = Append(acts, new)
  BY DEF Trace
<1> HIDE DEF next, new
<1>5. stack' \in Seq(Stores) /\ CurrentOf(stack') = next
  BY <1>2, <1>4, EnteredIsCurrent, Zenon DEF ContextInv, TypeOK
<1>6. acts \in Seq(Activations)
  BY Zenon DEF ContextInv, TypeOK, Activations
<1>7. /\ acts' \in Seq(Activations) /\ Last(acts') = new /\ Len(acts') = Len(acts) + 1
      /\ \A k \in 1 .. Len(acts) : acts'[k] = acts[k]
  BY <1>3, <1>4, <1>6, AppendedEnd, Zenon
<1>8. TypeOK'
  BY <1>1, <1>5, <1>7 DEF ContextInv, TypeOK, Trace, Activations, setting
<1>9. HandlersUntraced' /\ SettlesUntraced'
  BY DEF ContextInv, HandlersUntraced, SettlesUntraced, Trace
<1>10. ASSUME storage = "native", ~eager PROVE Labelled'
  <2>1. \A k \in DOMAIN acts' : acts'[k].old.span = acts'[k].expected
    <3> SUFFICES ASSUME NEW k \in DOMAIN acts' PROVE acts'[k].old.span = acts'[k].expected
      OBVIOUS
    <3>1. Len(acts) \in Nat /\ DOMAIN acts = 1 .. Len(acts) /\ DOMAIN acts' = 1 .. Len(acts) + 1
      BY <1>6, <1>7
    <3>2. CASE k \in DOMAIN acts
      BY <1>7, <1>10, <3>1, <3>2 DEF ContextInv, Labelled
    <3>3. CASE k = Len(acts) + 1
      <4>1. acts'[k] = new
        BY <1>7, <3>1, <3>3 DEF Last
      <4> QED
        BY <1>3, <1>10, <4>1 DEF ContextInv, Labelled, Trace
    <3> QED
      BY <3>1, <3>2, <3>3
  <2> QED
    BY <1>2, <1>5, <1>10, <2>1 DEF ContextInv, Labelled, Trace, Current
<1> QED
  BY <1>8, <1>9, <1>10 DEF ContextInv, Trace, setting

\* What activate goes back to.
LEMMA ActivationEnds ==
    ASSUME ContextInv, acts # <<>>
    PROVE  /\ Deactivated \in Seq(Stores) /\ CurrentOf(Deactivated) = Last(acts).old
           /\ Last(acts).old \in Stores /\ Last(acts).expected \in 0..MaxSpans
           /\ Front(acts) \in Seq(Activations)
           /\ storage = "native" /\ ~eager =>
                /\ running # "none" /\ Last(acts).old.span = Last(acts).expected
                /\ \A k \in DOMAIN Front(acts) :
                      Front(acts)[k].old.span = Front(acts)[k].expected
<1>1. acts \in Seq(Activations)
  BY Zenon DEF ContextInv, TypeOK, Activations
<1>2. /\ Last(acts) \in Activations /\ Last(acts) = acts[Len(acts)]
      /\ Len(acts) \in Nat \ {0}
      /\ Front(acts) \in Seq(Activations)
      /\ Len(Front(acts)) = Len(acts) - 1
      /\ \A k \in 1 .. Len(acts) - 1 : Front(acts)[k] = acts[k]
  BY <1>1, RemovedEnd, Zenon
<1>3. Last(acts).old \in Stores /\ Last(acts).expected \in 0..MaxSpans
  BY <1>2 DEF Activations
<1>4. Deactivated \in Seq(Stores) /\ CurrentOf(Deactivated) = Last(acts).old
  BY <1>3, EnteredIsCurrent, Zenon DEF ContextInv, TypeOK, Deactivated
<1>5. DOMAIN acts = 1 .. Len(acts) /\ DOMAIN Front(acts) = 1 .. Len(acts) - 1
  BY <1>1, <1>2
<1>6. ASSUME storage = "native", ~eager
      PROVE  /\ running # "none" /\ Last(acts).old.span = Last(acts).expected
             /\ \A k \in DOMAIN Front(acts) :
                   Front(acts)[k].old.span = Front(acts)[k].expected
  BY <1>2, <1>5, <1>6 DEF ContextInv, Labelled
<1> QED
  BY <1>2, <1>3, <1>4, <1>6

LEMMA ReturnPromiseSteps == ContextInv /\ ReturnPromise => ContextInv'
<1> SUFFICES ASSUME ContextInv, ReturnPromise PROVE ContextInv'
  OBVIOUS
<1>1. acts # <<>>
  BY DEF ReturnPromise
<1>2. TypeOK'
  BY <1>1, ActivationEnds DEF ContextInv, TypeOK, ReturnPromise, Activations, setting, counters
<1>3. HandlersUntraced' /\ SettlesUntraced'
  BY DEF ContextInv, HandlersUntraced, SettlesUntraced, ReturnPromise
<1>4. ASSUME storage = "native", ~eager PROVE Labelled'
  BY <1>1, <1>4, ActivationEnds DEF ContextInv, Labelled, ReturnPromise, Current
<1> QED
  BY <1>2, <1>3, <1>4 DEF ContextInv, ReturnPromise, setting

\* A request that is made from the stack s: it leaves its caller in the noop
\* store, and its continuation will run in it.
LEMMA RequestMade ==
    ASSUME NEW s \in Seq(Stores), NEW tries \in 0..1, flushes' \in 0..MaxFlushes
    PROVE  /\ RequestStore(s) \in Seq(Stores)
           /\ Requested(s, tries) \in Jobs
           /\ Requested(s, tries).role = "settle" /\ Requested(s, tries).kind = "promise"
           /\ Requested(s, tries).ctx.noop
<1>1. NoopStore \in Stores /\ NoopStore.noop
  BY AsyncContextAssumption DEF NoopStore, Stores
<1>2. RequestStore(s) \in Seq(Stores) /\ CurrentOf(RequestStore(s)) = NoopStore
  BY <1>1, EnteredIsCurrent, Zenon DEF RequestStore
<1>3. CurrentOf(s) \in Stores
  BY CurrentIsStore, Zenon
<1>4. "promise" \in Kinds /\ 0 \in 0..MaxSpans /\ flushes' \in 0..(MaxAwaits + MaxFlushes)
  BY AsyncContextAssumption DEF Kinds
<1> QED
  BY <1>1, <1>2, <1>3, <1>4, JobHas DEF Requested

LEMMA ReturnSteps == ContextInv /\ Return => ContextInv'
<1> SUFFICES ASSUME ContextInv, Return PROVE ContextInv'
  OBVIOUS
<1> DEFINE flush == Job("timer", "flush", CurrentOf(Deactivated), 0, EmptyStore, 0, flushes + 1)
<1>1. acts # <<>>
  BY DEF Return
<1>2. pending' \subseteq pending \cup {flush}
      /\ (pending' = pending \/ flushes # MaxFlushes)
  BY DEF Return
<1>3. flushes # MaxFlushes => flush \in Jobs /\ flush.role = "flush"
  <2>1. EmptyStore \in Stores /\ CurrentOf(Deactivated) \in Stores
    BY <1>1, ActivationEnds, AsyncContextAssumption DEF EmptyStore, Stores
  <2>2. flushes # MaxFlushes => flushes + 1 \in 0..(MaxAwaits + MaxFlushes)
    BY AsyncContextAssumption DEF ContextInv, TypeOK
  <2>3. "timer" \in Kinds /\ 0 \in 0..MaxSpans
    BY AsyncContextAssumption DEF Kinds
  <2> QED
    BY <2>1, <2>2, <2>3, JobHas
<1> HIDE DEF flush
<1>4. pending' \subseteq Jobs
  BY <1>2, <1>3 DEF ContextInv, TypeOK, Jobs
<1>5. TypeOK'
  BY <1>1, <1>4, ActivationEnds DEF ContextInv, TypeOK, Return, Activations, Jobs, setting, counters
<1>6. HandlersUntraced' /\ SettlesUntraced'
  BY <1>2, <1>3 DEF ContextInv, HandlersUntraced, SettlesUntraced, Return
<1>7. ASSUME storage = "native", ~eager PROVE Labelled'
  BY <1>1, <1>2, <1>3, <1>7, ActivationEnds DEF ContextInv, Labelled, Return, Current
<1> QED
  BY <1>5, <1>6, <1>7 DEF ContextInv, Return, setting

LEMMA ReturnAndFlushSteps == ContextInv /\ ReturnAndFlush => ContextInv'
<1> SUFFICES ASSUME ContextInv, ReturnAndFlush PROVE ContextInv'
  OBVIOUS
<1> DEFINE made == Requested(Deactivated, 0)
<1>1. acts # <<>> /\ eager
  BY DEF ReturnAndFlush
<1>2. flushes' \in 0..MaxFlushes
  BY AsyncContextAssumption DEF ContextInv, TypeOK, ReturnAndFlush
<1>3. /\ RequestStore(Deactivated) \in Seq(Stores)
      /\ made \in Jobs /\ made.kind = "promise" /\ made.ctx.noop
  BY <1>1, <1>2, ActivationEnds, RequestMade
<1>4. pending' = pending \cup {made}
  BY DEF ReturnAndFlush
<1> HIDE DEF made
<1>5. TypeOK'
  BY <1>1, <1>2, <1>3, <1>4, ActivationEnds
     DEF ContextInv, TypeOK, ReturnAndFlush, Activations, Jobs, setting
<1>6. HandlersUntraced' /\ SettlesUntraced'
  BY <1>3, <1>4 DEF ContextInv, HandlersUntraced, SettlesUntraced, ReturnAndFlush
<1> QED
  BY <1>1, <1>5, <1>6 DEF ContextInv, ReturnAndFlush, setting

LEMMA AwaitSteps == ContextInv /\ Await => ContextInv'
<1> SUFFICES ASSUME ContextInv, Await PROVE ContextInv'
  OBVIOUS
<1> DEFINE rest == Job("promise", "app", Current, expected, EmptyStore, 0, awaits')
<1>1. Current \in Stores /\ EmptyStore \in Stores
  <2>1. Current \in Stores
    BY CurrentIsStore, Zenon DEF ContextInv, TypeOK, Current
  <2>2. EmptyStore \in Stores
    BY AsyncContextAssumption DEF EmptyStore, Stores
  <2> QED
    BY <2>1, <2>2
<1>2. awaits' \in 0..MaxAwaits /\ awaits' \in 0..(MaxAwaits + MaxFlushes)
  BY AsyncContextAssumption DEF ContextInv, TypeOK, Await
<1>3. "promise" \in Kinds /\ expected \in 0..MaxSpans
  BY DEF Kinds, ContextInv, TypeOK
<1>4. /\ rest \in Jobs /\ rest.role = "app"
      /\ rest.ctx = Current /\ rest.expected = expected
  BY <1>1, <1>2, <1>3, JobHas
<1>5. pending' = pending \cup {rest}
  BY DEF Await
<1> HIDE DEF rest
<1>6. TypeOK'
  BY <1>2, <1>4, <1>5 DEF ContextInv, TypeOK, Await, Jobs, setting
<1>7. HandlersUntraced' /\ SettlesUntraced'
  BY <1>4, <1>5 DEF ContextInv, HandlersUntraced, SettlesUntraced, Await
<1>8. ASSUME storage = "native", ~eager PROVE Labelled'
  BY <1>4, <1>5, <1>8 DEF ContextInv, Labelled, Await, Current
<1> QED
  BY <1>6, <1>7, <1>8 DEF ContextInv, Await, setting

\* A job of the tracer itself makes a request.
LEMMA RunRequestSteps ==
    ASSUME ContextInv, NEW job \in pending, RunRequest(job)
    PROVE  ContextInv'
<1> DEFINE begun == Begun(stack, job.kind, job.ctx)
           made == Requested(begun, job.tries)
<1>1. /\ job.ctx \in Stores /\ job.tries \in 0..1 /\ job.kind \in Kinds
      /\ stack \in Seq(Stores)
  BY DEF ContextInv, TypeOK
<1>2. begun \in Seq(Stores)
  BY <1>1, BegunIsStack, Zenon
<1>3. flushes' \in 0..MaxFlushes
  BY AsyncContextAssumption DEF ContextInv, TypeOK, RunRequest
<1>4. pending' = (pending \ {job}) \cup {made} /\ stack' = Ended(RequestStore(begun), job.kind)
  BY DEF RunRequest
<1> HIDE DEF begun
<1>5. /\ RequestStore(begun) \in Seq(Stores)
      /\ made \in Jobs /\ made.role = "settle" /\ made.kind = "promise" /\ made.ctx.noop
  BY <1>1, <1>2, <1>3, RequestMade
<1> HIDE DEF made
<1>6. stack' \in Seq(Stores) /\ (storage = "native" => stack' = <<>>)
  BY <1>4, <1>5, EndedIsStack, Zenon
<1>7. TypeOK'
  BY <1>3, <1>4, <1>5, <1>6 DEF ContextInv, TypeOK, RunRequest, Jobs, setting
<1>8. HandlersUntraced' /\ SettlesUntraced'
  BY <1>4, <1>5 DEF ContextInv, HandlersUntraced, SettlesUntraced, RunRequest
<1>9. ASSUME storage = "native", ~eager PROVE Labelled'
  BY <1>4, <1>5, <1>6, <1>9 DEF ContextInv, Labelled, RunRequest
<1> QED
  BY <1>7, <1>8, <1>9 DEF ContextInv, RunRequest, setting

\* A request has settled: its handler runs in the store of its continuation.
LEMMA SettleSteps ==
    ASSUME ContextInv, NEW job \in pending, NEW ok, Settle(job, ok)
    PROVE  ContextInv'
<1> DEFINE begun == Begun(stack, job.kind, job.ctx)
           retry == Job("timer", "retry", CurrentOf(begun), 0, EmptyStore, 1, job.id)
<1>1. /\ job.ctx \in Stores /\ job.saved \in Stores /\ stack \in Seq(Stores)
      /\ job.id \in 0..(MaxAwaits + MaxFlushes)
      /\ job.kind = "promise" /\ job.ctx.noop
  BY DEF ContextInv, TypeOK, SettlesUntraced, Settle
<1>2. begun \in Seq(Stores) /\ CurrentOf(begun) = job.ctx
  BY <1>1, BegunIsStack, Zenon
<1>3. /\ pending' \subseteq (pending \ {job}) \cup {retry}
      /\ handled' = handled \cup {CurrentOf(begun)}
      /\ stack' = Ended(Entered(begun, job.saved), job.kind)
  BY DEF Settle
<1> HIDE DEF begun
<1>4. "timer" \in Kinds /\ 0 \in 0..MaxSpans /\ EmptyStore \in Stores
  BY AsyncContextAssumption DEF Kinds, EmptyStore, Stores
<1>5. retry \in Jobs /\ retry.role = "retry"
  BY <1>1, <1>2, <1>4, JobHas
<1> HIDE DEF retry
<1>6. Entered(begun, job.saved) \in Seq(Stores)
  BY <1>1, <1>2, EnteredIsCurrent, Zenon
<1>7. stack' \in Seq(Stores) /\ (storage = "native" => stack' = <<>>)
  BY <1>3, <1>6, EndedIsStack, Zenon
<1>8. TypeOK'
  BY <1>1, <1>2, <1>3, <1>5, <1>7 DEF ContextInv, TypeOK, Settle, Jobs, setting, counters
<1>9. HandlersUntraced' /\ SettlesUntraced'
  BY <1>1, <1>2, <1>3, <1>5 DEF ContextInv, HandlersUntraced, SettlesUntraced
<1>10. ASSUME storage = "native", ~eager PROVE Labelled'
  BY <1>3, <1>5, <1>7, <1>10 DEF ContextInv, Labelled, Settle
<1> QED
  BY <1>8, <1>9, <1>10 DEF ContextInv, Settle, setting

LEMMA ContextSteps == ContextInv /\ [Next]_vars => ContextInv'
<1> SUFFICES ASSUME ContextInv, [Next]_vars PROVE ContextInv'
  OBVIOUS
<1>1. ASSUME NEW kind \in Kinds, Event(kind) PROVE ContextInv'
  <2>1. EmptyStore \in Stores /\ EmptyStore.span = 0 /\ 0 \in 0..MaxSpans
    BY AsyncContextAssumption DEF EmptyStore, Stores
  <2>2. events' \in 0..MaxEvents
    BY <1>1, AsyncContextAssumption DEF ContextInv, TypeOK, Event
  <2> QED
    BY <1>1, <2>1, <2>2, JobBegins DEF Event
<1>2. ASSUME NEW job \in pending, Resume(job) PROVE ContextInv'
  <2>1. /\ job.kind \in Kinds /\ job.ctx \in Stores /\ job.expected \in 0..MaxSpans
        /\ storage = "native" /\ ~eager => job.ctx.span = job.expected
        /\ events \in 0..MaxEvents
    BY <1>2 DEF ContextInv, TypeOK, Labelled, Resume
  <2> QED
    BY <1>2, <2>1, JobBegins DEF Resume, counters
<1>3. ASSUME NEW job \in pending, RunRequest(job) PROVE ContextInv'
  BY <1>3, RunRequestSteps
<1>4. ASSUME NEW job \in pending, NEW ok \in BOOLEAN, Settle(job, ok) PROVE ContextInv'
  BY <1>4, SettleSteps
<1>5. CASE EndJob \/ Trace \/ ReturnPromise
  BY <1>5, JobEnds, TraceSteps, ReturnPromiseSteps
<1>6. CASE Return \/ ReturnAndFlush \/ Await
  BY <1>6, ReturnSteps, ReturnAndFlushSteps, AwaitSteps
<1>7. CASE UNCHANGED vars
  BY <1>7 DEF vars, setting, counters, ContextInv, TypeOK, HandlersUntraced, SettlesUntraced,
       Labelled, Current
<1> QED
  BY <1>1, <1>2, <1>3, <1>4, <1>5, <1>6, <1>7 DEF Next

-----------------------------------------------------------------------------
(* The parts side by side.                                                 *)

\* A step of the program is a step of one of its parts, and none of the others.
LEMMA PartsSteps == [PartsNext]_partVars => [Next]_vars /\ [LogNext]_logVars
BY DEF PartsNext, partVars, OfContext, OfLogging, OfWeb, OfTags

\* Every variable of the contexts has its type; with the runtime's storage and
\* the exporter's timer the active span is that of the innermost activation,
\* across awaits, events and the tracer's own requests; the handlers of those
\* requests and the application's logger run untraced, and the code that logged
\* goes on in its own store unless a logger threw (scope.ts, request.ts,
\* log/writer.ts).
THEOREM ContextsAreKept == PartsSpec => []ContextsKept
<1>1. PartsInit => ContextInv /\ LogInv
  BY ContextAtStart, LogAtStart DEF PartsInit
<1>2. ContextInv /\ LogInv /\ [PartsNext]_partVars => (ContextInv /\ LogInv)'
  BY PartsSteps, ContextSteps, LogInvSteps
<1>3. ContextInv /\ LogInv => ContextsKept
  <2>1. ContextInv => ActiveIfTimed
    BY DEF ContextInv, Labelled, ActiveIfTimed, ActiveIsExpected
  <2> QED
    BY <2>1 DEF ContextInv, LogInv, ContextsKept
<1> QED
  BY <1>1, <1>2, <1>3, PTL DEF PartsSpec

-----------------------------------------------------------------------------
(* The tags of a request.                                                  *)

Chunks == Seq({"public", "private", "junk"})

\* What a lookup may find, and whether it is the first of its kind in the first
\* i of the headers: no other of its kind is before it, and none is public if
\* it is not.
Found == [public : BOOLEAN, at : (ToSet(ipHeaderList) \cup {""}) \X Nat]

FirstAt(headers, i, a, j, k) ==
    /\ headers[ipHeaderList[j]][k] # "junk"
    /\ a = AddressAt(ipHeaderList[j], headers[ipHeaderList[j]], k)
    /\ \A g \in 1 .. i : \A m \in DOMAIN headers[ipHeaderList[g]] :
          /\ g < j \/ (g = j /\ m < k) =>
                headers[ipHeaderList[g]][m] # headers[ipHeaderList[j]][k]
          /\ headers[ipHeaderList[g]][m] = "public" => a.public

FirstOf(headers, i, a) ==
    \/ /\ a = Missing
       /\ \A g \in 1 .. i : Addresses(headers[ipHeaderList[g]]) = {}
    \/ \E j \in 1 .. i : \E k \in DOMAIN headers[ipHeaderList[j]] : FirstAt(headers, i, a, j, k)

LEMMA AddressesAreNot ==
    ASSUME NEW header, NEW chunks \in Chunks, NEW k \in DOMAIN chunks
    PROVE  AddressAt(header, chunks, k) # Missing /\ k \in Nat
<1>1. k # 0 /\ k \in Nat
  BY DEF Chunks
<1>2. AddressAt(header, chunks, k).at = <<header, k>> /\ Missing.at = <<"", 0>>
  BY DEF AddressAt, Missing
<1>3. <<header, k>>[2] = k /\ <<"", 0>>[2] = 0
  OBVIOUS
<1> QED  BY <1>1, <1>2, <1>3

\* What findFirstIp finds in one header.
LEMMA FirstIp ==
    ASSUME NEW header, NEW chunks \in Chunks
    PROVE  LET ip == findFirstIp(header, chunks)
           IN  /\ \/ /\ ip.public = Missing
                     /\ \A k \in DOMAIN chunks : chunks[k] # "public"
                  \/ \E k \in DOMAIN chunks :
                        /\ chunks[k] = "public"
                        /\ ip.public = AddressAt(header, chunks, k)
                        /\ \A m \in DOMAIN chunks : m < k => chunks[m] # "public"
               /\ ip.public = Missing =>
                    \/ ip.private = Missing /\ Addresses(chunks) = {}
                    \/ \E k \in DOMAIN chunks :
                        /\ chunks[k] = "private"
                        /\ ip.private = AddressAt(header, chunks, k)
                        /\ \A m \in DOMAIN chunks : m < k => chunks[m] = "junk"
<1> DEFINE ip == findFirstIp(header, chunks)
           public == {k \in Addresses(chunks) : chunks[k] = "public"}
           private == {k \in Addresses(chunks) \ public : \A p \in public : k < p}
<1>0. /\ ip.public = IF public = {} THEN Missing ELSE AddressAt(header, chunks, Min(public))
      /\ ip.private = IF private = {} THEN Missing ELSE AddressAt(header, chunks, Min(private))
  BY DEF findFirstIp
<1>1. DOMAIN chunks \subseteq Nat /\ \A k \in DOMAIN chunks : chunks[k] \in {"public", "private", "junk"}
  BY DEF Chunks
<1>2. public \subseteq DOMAIN chunks /\ private \subseteq DOMAIN chunks
  BY DEF Addresses
<1>3. /\ public # {} => Min(public) \in public /\ \A y \in public : Min(public) <= y
      /\ private # {} => Min(private) \in private /\ \A y \in private : Min(private) <= y
  BY <1>1, <1>2, MinIs
<1>4. \A k \in DOMAIN chunks : k \in public <=> chunks[k] = "public"
  BY DEF Addresses
<1>5. public = {} => \A k \in DOMAIN chunks : k \in private <=> chunks[k] # "junk"
  BY DEF Addresses
<1> HIDE DEF public, private, ip
<1>6. \A k \in DOMAIN chunks : AddressAt(header, chunks, k) # Missing
  BY AddressesAreNot
<1>7. ip.public = Missing => public = {}
  BY <1>0, <1>2, <1>3, <1>6
<1>8. \/ ip.public = Missing /\ \A k \in DOMAIN chunks : chunks[k] # "public"
      \/ \E k \in DOMAIN chunks : /\ chunks[k] = "public"
                                  /\ ip.public = AddressAt(header, chunks, k)
                                  /\ \A m \in DOMAIN chunks : m < k => chunks[m] # "public"
  <2>1. CASE public = {}
    BY <2>1, <1>0, <1>4
  <2>2. CASE public # {}
    <3>1. Min(public) \in DOMAIN chunks /\ chunks[Min(public)] = "public"
      BY <2>2, <1>2, <1>3, <1>4
    <3>2. \A m \in DOMAIN chunks : m < Min(public) => chunks[m] # "public"
      BY <2>2, <1>1, <1>3, <1>4, <3>1
    <3> QED  BY <2>2, <1>0, <3>1, <3>2
  <2> QED  BY <2>1, <2>2
<1>9. ASSUME ip.public = Missing
      PROVE  \/ ip.private = Missing /\ Addresses(chunks) = {}
             \/ \E k \in DOMAIN chunks :
                  /\ chunks[k] = "private"
                  /\ ip.private = AddressAt(header, chunks, k)
                  /\ \A m \in DOMAIN chunks : m < k => chunks[m] = "junk"
  <2>1. public = {}
    BY <1>7, <1>9
  <2>2. CASE private = {}
    <3>1. Addresses(chunks) = {}
      BY <2>1, <2>2, <1>5 DEF Addresses
    <3> QED  BY <3>1, <2>2, <1>0
  <2>3. CASE private # {}
    <3>1. Min(private) \in DOMAIN chunks /\ chunks[Min(private)] = "private"
      BY <2>1, <2>3, <1>1, <1>2, <1>3, <1>4, <1>5
    <3>2. \A m \in DOMAIN chunks : m < Min(private) => chunks[m] = "junk"
      BY <2>1, <2>3, <1>1, <1>3, <1>5, <3>1
    <3> QED  BY <2>3, <1>0, <3>1, <3>2
  <2> QED  BY <2>2, <2>3
<1> QED  BY <1>8, <1>9 DEF ip

LEMMA HeadersAre ==
    /\ Len(ipHeaderList) \in Nat
    /\ DOMAIN ipHeaderList = 1 .. Len(ipHeaderList)
    /\ \A i \in DOMAIN ipHeaderList : ipHeaderList[i] \in ToSet(ipHeaderList)
<1>1. ipHeaderList \in Seq(ToSet(ipHeaderList))
  BY HeadersAssumption
<1>2. Len(ipHeaderList) \in Nat /\ DOMAIN ipHeaderList = 1 .. Len(ipHeaderList)
  BY <1>1
<1>3. \A i \in DOMAIN ipHeaderList : ipHeaderList[i] \in ToSet(ipHeaderList)
  BY Zenon DEF ToSet
<1> QED  BY <1>2, <1>3

\* One turn of extractIp's loop.
LEMMA LookStep ==
    ASSUME NEW headers \in [ToSet(ipHeaderList) -> Chunks], NEW i \in DOMAIN ipHeaderList,
           NEW best \in Found, FirstOf(headers, i - 1, best)
    PROVE  LET now == Look(best, findFirstIp(ipHeaderList[i], headers[ipHeaderList[i]]))
           IN  now \in Found /\ FirstOf(headers, i, now)
<1> DEFINE header == ipHeaderList[i]
           chunks == headers[header]
           ip == findFirstIp(header, chunks)
           now == Look(best, ip)
<1>1. /\ header \in ToSet(ipHeaderList) /\ chunks \in Chunks
      /\ i \in Nat /\ i # 0 /\ i - 1 \in Nat
  BY HeadersAre
<1>2. \A j \in 1 .. i : j \in DOMAIN ipHeaderList /\ headers[ipHeaderList[j]] \in Chunks
  BY HeadersAre
<1>3. \A k \in DOMAIN chunks : k \in Nat /\ AddressAt(header, chunks, k) \in Found
                                /\ AddressAt(header, chunks, k) # Missing
  <2>1. ASSUME NEW k \in DOMAIN chunks
        PROVE  k \in Nat /\ AddressAt(header, chunks, k) \in Found /\ AddressAt(header, chunks, k) # Missing
    <3>1. k \in Nat /\ AddressAt(header, chunks, k) # Missing
      BY <1>1, AddressesAreNot
    <3> QED  BY <1>1, <3>1 DEF AddressAt, Found
  <2> QED  BY <2>1
<1>4. /\ Missing \in Found /\ ~Missing.public
      /\ \A k \in DOMAIN chunks : AddressAt(header, chunks, k).public <=> chunks[k] = "public"
  BY DEF Missing, Found, AddressAt
<1>5. /\ \/ /\ ip.public = Missing
            /\ \A k \in DOMAIN chunks : chunks[k] # "public"
         \/ \E k \in DOMAIN chunks :
               /\ chunks[k] = "public"
               /\ ip.public = AddressAt(header, chunks, k)
               /\ \A m \in DOMAIN chunks : m < k => chunks[m] # "public"
      /\ ip.public = Missing =>
           \/ ip.private = Missing /\ Addresses(chunks) = {}
           \/ \E k \in DOMAIN chunks :
               /\ chunks[k] = "private"
               /\ ip.private = AddressAt(header, chunks, k)
               /\ \A m \in DOMAIN chunks : m < k => chunks[m] = "junk"
  BY <1>1, FirstIp
<1>6. now = IF best.public THEN best
            ELSE IF ip.public # Missing THEN ip.public
            ELSE IF best = Missing THEN ip.private ELSE best
  BY Zenon DEF Look
\* Headers before this one, and their chunks.
<1>7. \A g \in 1 .. i : g \in 1 .. i - 1 \/ g = i
  BY <1>1
<1>8. best # Missing =>
        \E j \in 1 .. i - 1 : \E k \in DOMAIN headers[ipHeaderList[j]] : FirstAt(headers, i - 1, best, j, k)
  BY DEF FirstOf
<1>9. best = Missing =>
        \A g \in 1 .. i - 1 : Addresses(headers[ipHeaderList[g]]) = {}
  <2> SUFFICES ASSUME best = Missing,
                      NEW j \in 1 .. i - 1, NEW k \in DOMAIN headers[ipHeaderList[j]],
                      FirstAt(headers, i - 1, best, j, k)
               PROVE FALSE
    BY DEF FirstOf
  <2>1. AddressAt(ipHeaderList[j], headers[ipHeaderList[j]], k) # Missing
    BY <1>1, <1>2, AddressesAreNot
  <2> QED  BY <2>1 DEF FirstAt
<1> HIDE DEF header, chunks, ip, now
<1>10. CASE best.public \/ (best # Missing /\ ip.public = Missing)
  <2>1. now = best /\ best # Missing
    BY <1>10, <1>4, <1>6
  <2>2. PICK j \in 1 .. i - 1 : \E k \in DOMAIN headers[ipHeaderList[j]] : FirstAt(headers, i - 1, best, j, k)
    BY <2>1, <1>8
  <2>3. PICK k \in DOMAIN headers[ipHeaderList[j]] : FirstAt(headers, i - 1, best, j, k)
    BY <2>2
  <2>4. ASSUME NEW m \in DOMAIN headers[ipHeaderList[i]]
        PROVE  headers[ipHeaderList[i]][m] = "public" => best.public
    BY <1>10, <1>3, <1>5 DEF chunks, header
  <2>5. FirstAt(headers, i, best, j, k)
    BY <2>3, <2>4, <1>1, <1>7 DEF FirstAt
  <2>6. j \in 1 .. i
    BY <1>1
  <2> QED  BY <2>1, <2>5, <2>6 DEF now, ip, chunks, header, FirstOf
<1>11. CASE ~best.public /\ ip.public # Missing
  <2>1. now = ip.public
    BY <1>11, <1>6
  <2>2. PICK k \in DOMAIN chunks : /\ chunks[k] = "public"
                                   /\ ip.public = AddressAt(header, chunks, k)
                                   /\ \A m \in DOMAIN chunks : m < k => chunks[m] # "public"
    BY <1>11, <1>5
  <2>3. now \in Found /\ now.public
    BY <2>1, <2>2, <1>3, <1>4
  <2>4. \A g \in 1 .. i - 1 : \A m \in DOMAIN headers[ipHeaderList[g]] :
           headers[ipHeaderList[g]][m] # "public"
    <3>1. CASE best = Missing
      BY <3>1, <1>9 DEF Addresses
    <3>2. CASE best # Missing
      BY <3>2, <1>8, <1>11 DEF FirstAt
    <3> QED  BY <3>1, <3>2
  <2>5. FirstAt(headers, i, now, i, k)
    BY <2>1, <2>2, <2>3, <2>4, <1>1, <1>7 DEF FirstAt, header, chunks
  <2> QED  BY <2>3, <2>5, <1>1 DEF now, ip, chunks, header, FirstOf
<1>12. CASE best = Missing /\ ip.public = Missing
  <2>1. now = ip.private
    BY <1>12, <1>4, <1>6
  <2>2. \A k \in DOMAIN chunks : chunks[k] # "public"
    BY <1>12, <1>3, <1>5
  <2>3. \A g \in 1 .. i - 1 : \A m \in DOMAIN headers[ipHeaderList[g]] :
           headers[ipHeaderList[g]][m] = "junk"
    BY <1>12, <1>9 DEF Addresses
  <2>4. CASE ip.private = Missing /\ Addresses(chunks) = {}
    <3>1. \A g \in 1 .. i : Addresses(headers[ipHeaderList[g]]) = {}
      BY <2>4, <1>12, <1>9, <1>7 DEF header, chunks
    <3> QED  BY <2>1, <2>4, <3>1, <1>4 DEF now, ip, chunks, header, FirstOf
  <2>5. CASE \E k \in DOMAIN chunks : /\ chunks[k] = "private"
                                      /\ ip.private = AddressAt(header, chunks, k)
                                      /\ \A m \in DOMAIN chunks : m < k => chunks[m] = "junk"
    <3>1. PICK k \in DOMAIN chunks : /\ chunks[k] = "private"
                                     /\ ip.private = AddressAt(header, chunks, k)
                                     /\ \A m \in DOMAIN chunks : m < k => chunks[m] = "junk"
      BY <2>5
    <3>2. now \in Found
      BY <2>1, <3>1, <1>3
    <3>3. FirstAt(headers, i, now, i, k)
      BY <2>1, <2>2, <2>3, <3>1, <1>1, <1>7 DEF FirstAt, header, chunks
    <3> QED  BY <3>2, <3>3, <1>1 DEF now, ip, chunks, header, FirstOf
  <2> QED  BY <2>4, <2>5, <1>12, <1>5
<1> QED  BY <1>10, <1>11, <1>12

\* What extractIp's loop computes.
LEMMA LoopIs ==
    ASSUME NEW headers \in [ToSet(ipHeaderList) -> Chunks], NEW best,
           best = [i \in 0 .. Len(ipHeaderList) |->
                      IF i = 0 THEN Missing
                      ELSE Look(best[i - 1], findFirstIp(ipHeaderList[i], headers[ipHeaderList[i]]))]
    PROVE  /\ best[Len(ipHeaderList)] \in Found
           /\ FirstOf(headers, Len(ipHeaderList), best[Len(ipHeaderList)])
<1> DEFINE Ok(i) == best[i] \in Found /\ FirstOf(headers, i, best[i])
           Bad == {i \in 0 .. Len(ipHeaderList) : ~Ok(i)}
<1>1. Ok(0)
  <2>1. best[0] = Missing
    BY HeadersAre
  <2>2. Missing \in Found
    BY DEF Missing, Found
  <2>3. FirstOf(headers, 0, Missing)
    BY DEF FirstOf
  <2> QED  BY <2>1, <2>2, <2>3
<1>2. ASSUME NEW i \in DOMAIN ipHeaderList, Ok(i - 1) PROVE Ok(i)
  <2>1. best[i] = Look(best[i - 1], findFirstIp(ipHeaderList[i], headers[ipHeaderList[i]]))
    BY HeadersAre
  <2> QED  BY <2>1, <1>2, LookStep
<1> HIDE DEF Ok
<1>3. Bad = {}
  <2> SUFFICES ASSUME Bad # {} PROVE FALSE
    OBVIOUS
  <2>1. Bad \subseteq Nat /\ Bad \subseteq 0 .. Len(ipHeaderList)
    BY HeadersAre
  <2>2. Min(Bad) \in Bad /\ \A y \in Bad : Min(Bad) <= y
    BY <2>1, MinIs
  <2>3. Min(Bad) \in DOMAIN ipHeaderList /\ Min(Bad) - 1 \notin Bad
        /\ Min(Bad) - 1 \in 0 .. Len(ipHeaderList)
    BY <1>1, <2>1, <2>2, HeadersAre
  <2>4. Ok(Min(Bad) - 1)
    BY <2>3
  <2>5. Ok(Min(Bad))
    BY <2>3, <2>4, <1>2
  <2> QED  BY <2>2, <2>5
<1>4. Ok(Len(ipHeaderList))
  BY <1>3, HeadersAre
<1> QED  BY <1>4 DEF Ok

\* Of the configured header, or of all of them.
FirstIn(headers, looked, a, j, k) ==
    /\ headers[ipHeaderList[j]][k] # "junk"
    /\ a = AddressAt(ipHeaderList[j], headers[ipHeaderList[j]], k)
    /\ ipHeaderList[j] \in looked
    /\ \A g \in DOMAIN ipHeaderList : ipHeaderList[g] \in looked =>
         \A m \in DOMAIN headers[ipHeaderList[g]] :
           /\ g < j \/ (g = j /\ m < k) =>
                headers[ipHeaderList[g]][m] # headers[ipHeaderList[j]][k]
           /\ headers[ipHeaderList[g]][m] = "public" => a.public

LookedAt(config) == IF config.header # "" THEN {config.header} ELSE ToSet(ipHeaderList)

LEMMA ExtractedIp ==
    ASSUME NEW config \in IpConfigs, NEW headers \in [ToSet(ipHeaderList) -> Chunks],
           NEW socket, NEW address \in extractIp(config, headers, socket)
    PROVE  \/ /\ \A h \in LookedAt(config) : Addresses(headers[h]) = {}
              /\ config.header = "" /\ address \in socket
           \/ \E j \in DOMAIN ipHeaderList : \E k \in DOMAIN headers[ipHeaderList[j]] :
                 FirstIn(headers, LookedAt(config), address, j, k)
<1> DEFINE IpOf(header) == findFirstIp(header, headers[header])
           Loop(best) == [i \in 0 .. Len(ipHeaderList) |->
                            IF i = 0 THEN Missing ELSE Look(best[i - 1], IpOf(ipHeaderList[i]))]
           best == CHOOSE b : b = Loop(b)
           found == best[Len(ipHeaderList)]
<1>1. extractIp(config, headers, socket) =
        IF config.header # ""
        THEN {IF IpOf(config.header).public # Missing
              THEN IpOf(config.header).public ELSE IpOf(config.header).private} \ {Missing}
        ELSE IF found # Missing THEN {found} ELSE socket
  BY Zenon DEF extractIp
<1>2. /\ \A j \in DOMAIN ipHeaderList : headers[ipHeaderList[j]] \in Chunks
      /\ config.header = "" \/ config.header \in ToSet(ipHeaderList)
      /\ \A i, j \in DOMAIN ipHeaderList : ipHeaderList[i] = ipHeaderList[j] => i = j
  <2>1. config.header \in ToSet(ipHeaderList) \cup {""}
    BY HeadersAssumption
  <2>2. \A i, j \in DOMAIN ipHeaderList : ipHeaderList[i] = ipHeaderList[j] => i = j
    BY HeadersAssumption
  <2> QED  BY <2>1, <2>2, HeadersAre
<1>3. CASE config.header # ""
  <2>1. PICK j \in DOMAIN ipHeaderList : config.header = ipHeaderList[j]
    BY <1>2, <1>3 DEF ToSet
  <2> DEFINE chunks == headers[config.header]
             ip == findFirstIp(config.header, chunks)
  <2>2. chunks \in Chunks
    BY <1>2, <2>1
  <2>3. address = (IF ip.public # Missing THEN ip.public ELSE ip.private) /\ address # Missing
    BY <1>1, <1>3
  <2>4. /\ \/ /\ ip.public = Missing
              /\ \A k \in DOMAIN chunks : chunks[k] # "public"
           \/ \E k \in DOMAIN chunks :
                 /\ chunks[k] = "public"
                 /\ ip.public = AddressAt(config.header, chunks, k)
                 /\ \A m \in DOMAIN chunks : m < k => chunks[m] # "public"
        /\ ip.public = Missing =>
             \/ ip.private = Missing /\ Addresses(chunks) = {}
             \/ \E k \in DOMAIN chunks :
                 /\ chunks[k] = "private"
                 /\ ip.private = AddressAt(config.header, chunks, k)
                 /\ \A m \in DOMAIN chunks : m < k => chunks[m] = "junk"
    BY <2>2, FirstIp
  <2>5. \A k \in DOMAIN chunks : AddressAt(config.header, chunks, k).public <=> chunks[k] = "public"
    BY DEF AddressAt
  <2>6. \A g \in DOMAIN ipHeaderList : ipHeaderList[g] = config.header => g = j
    BY <1>2, <2>1
  <2> HIDE DEF ip
  <2>7. PICK k \in DOMAIN chunks :
           /\ address = AddressAt(config.header, chunks, k)
           /\ chunks[k] # "junk"
           /\ \A m \in DOMAIN chunks : /\ m < k => chunks[m] # chunks[k]
                                       /\ chunks[m] = "public" => address.public
    <3>1. CASE ip.public # Missing
      BY <3>1, <2>3, <2>4, <2>5
    <3>2. CASE ip.public = Missing
      BY <3>2, <2>2, <2>3, <2>4, <2>5, AddressesAreNot
    <3> QED  BY <3>1, <3>2
  <2>8. /\ \A g \in DOMAIN ipHeaderList : ipHeaderList[g] \in {config.header} => g = j
        /\ ~(j < j)
    BY <2>6, HeadersAre
  <2>9. \A g \in DOMAIN ipHeaderList : ipHeaderList[g] \in {config.header} =>
           \A m \in DOMAIN headers[ipHeaderList[g]] :
             /\ g < j \/ (g = j /\ m < k) =>
                  headers[ipHeaderList[g]][m] # headers[ipHeaderList[j]][k]
             /\ headers[ipHeaderList[g]][m] = "public" => address.public
    BY <2>1, <2>7, <2>8
  <2>10. /\ DOMAIN headers[ipHeaderList[j]] = DOMAIN chunks /\ ipHeaderList[j] \in {config.header}
         /\ headers[ipHeaderList[j]][k] # "junk"
         /\ address = AddressAt(ipHeaderList[j], headers[ipHeaderList[j]], k)
    BY <2>1, <2>7
  <2>11. FirstIn(headers, {config.header}, address, j, k)
    BY <2>9, <2>10 DEF FirstIn
  <2>12. LookedAt(config) = {config.header}
    BY <1>3 DEF LookedAt
  <2> QED  BY <2>10, <2>11, <2>12
<1>4. CASE config.header = ""
  <2> DEFINE n == Len(ipHeaderList)
             step == [i \in 1 .. n |-> [b \in Found |-> Look(b, IpOf(ipHeaderList[i]))]]
  <2>1. ASSUME NEW i \in 1 .. n, NEW b \in Found PROVE Look(b, IpOf(ipHeaderList[i])) \in Found
    <3>1. ipHeaderList[i] \in ToSet(ipHeaderList) /\ headers[ipHeaderList[i]] \in Chunks
      BY HeadersAre
    <3>2. /\ \A k \in DOMAIN headers[ipHeaderList[i]] :
                AddressAt(ipHeaderList[i], headers[ipHeaderList[i]], k) \in Found
          /\ Missing \in Found
      <4>1. Missing \in Found
        BY DEF Missing, Found
      <4>2. ASSUME NEW k \in DOMAIN headers[ipHeaderList[i]]
            PROVE  AddressAt(ipHeaderList[i], headers[ipHeaderList[i]], k) \in Found
        <5>1. k \in Nat
          BY <3>1, AddressesAreNot
        <5> QED  BY <3>1, <5>1 DEF AddressAt, Found
      <4> QED  BY <4>1, <4>2
    <3>3. /\ IpOf(ipHeaderList[i]).public \in Found
          /\ IpOf(ipHeaderList[i]).public = Missing => IpOf(ipHeaderList[i]).private \in Found
      BY <3>1, <3>2, FirstIp
    <3> QED  BY <3>3, Zenon DEF Look
  <2>2. n \in Nat /\ Missing \in Found /\ step \in [1 .. n -> [Found -> Found]]
    BY <2>1, HeadersAre DEF Missing, Found
  <2> HIDE DEF step, n
  <2>3. PICK f : Runs(f, n, Found, Missing, step)
    BY <2>2, LoopExists
  <2>5. ASSUME NEW i \in 1 .. n PROVE f[i] = Look(f[i - 1], IpOf(ipHeaderList[i]))
    <3>1. f[i - 1] \in Found
      BY <2>2, <2>3 DEF Runs
    <3> QED  BY <2>3, <3>1 DEF step, Runs
  <2>6. f = Loop(f)
    BY <2>2, <2>3, <2>5 DEF n, Runs
  <2> USE DEF n
  <2>7. best = Loop(best)
    BY <2>6, Zenon
  <2> HIDE DEF best
  <2>8. found \in Found /\ FirstOf(headers, n, found)
    BY <2>7, LoopIs
  <2>9. extractIp(config, headers, socket) = IF found # Missing THEN {found} ELSE socket
    BY <1>1, <1>4, Zenon DEF best
  <2>10. \A h \in ToSet(ipHeaderList) : \E j \in 1 .. n : h = ipHeaderList[j]
    BY HeadersAre DEF ToSet
  <2>11. DOMAIN ipHeaderList = 1 .. n /\ \A j \in 1 .. n : ipHeaderList[j] \in ToSet(ipHeaderList)
    BY HeadersAre
  <2> HIDE DEF found, n
  <2>12. CASE found = Missing
    <3>1. ~\E j \in 1 .. n : \E k \in DOMAIN headers[ipHeaderList[j]] : FirstAt(headers, n, found, j, k)
      BY <2>11, <2>12, <1>2, AddressesAreNot DEF FirstAt
    <3>2. \A h \in ToSet(ipHeaderList) : Addresses(headers[h]) = {}
      BY <2>8, <2>10, <3>1 DEF FirstOf
    <3> QED  BY <1>4, <2>9, <2>12, <3>2 DEF LookedAt
  <2>13. CASE found # Missing
    <3>1. address = found
      BY <2>9, <2>13
    <3>2. PICK j \in 1 .. n : \E k \in DOMAIN headers[ipHeaderList[j]] : FirstAt(headers, n, found, j, k)
      BY <2>8, <2>13 DEF FirstOf
    <3>3. PICK k \in DOMAIN headers[ipHeaderList[j]] : FirstAt(headers, n, address, j, k)
      BY <3>1, <3>2
    <3>4. LookedAt(config) = ToSet(ipHeaderList)
      BY <1>4 DEF LookedAt
    <3>5. FirstIn(headers, LookedAt(config), address, j, k)
      BY <2>11, <3>3, <3>4 DEF FirstAt, FirstIn
    <3> QED  BY <2>11, <3>5
  <2> QED  BY <2>12, <2>13
<1> QED  BY <1>3, <1>4

\* The address that extractIp finds is the one ClientIpIsFirst names.
Names(config, headers, address) ==
    LET looked == LookedAt(config)
        any == \E h \in looked : Addresses(headers[h]) # {}
    IN  IF any THEN IsFirst(address, looked) ELSE address = PeerAddress /\ config.header = ""

LEMMA ExtractedIsFirst ==
    ASSUME NEW config, config = ipConfig, config \in IpConfigs,
           NEW headers, headers = httpRequest.headers, headers \in [ToSet(ipHeaderList) -> Chunks],
           NEW socket, socket \subseteq {PeerAddress},
           NEW address \in extractIp(config, headers, socket)
    PROVE  Names(config, headers, address)
<1> DEFINE looked == LookedAt(config)
           any == \E h \in looked : Addresses(headers[h]) # {}
<1>1. /\ looked \subseteq ToSet(ipHeaderList)
      /\ \A h \in looked : \E g \in DOMAIN ipHeaderList : h = ipHeaderList[g]
      /\ \A i, j \in DOMAIN ipHeaderList : ipHeaderList[i] = ipHeaderList[j] => i = j
  <2>1. looked \subseteq ToSet(ipHeaderList)
    BY HeadersAssumption DEF LookedAt
  <2>2. \A h \in looked : \E g \in DOMAIN ipHeaderList : h = ipHeaderList[g]
    BY <2>1 DEF ToSet
  <2> QED  BY <2>1, <2>2, HeadersAssumption
<1>2. \/ /\ \A h \in looked : Addresses(headers[h]) = {}
         /\ config.header = "" /\ address \in socket
      \/ \E j \in DOMAIN ipHeaderList : \E k \in DOMAIN headers[ipHeaderList[j]] :
            FirstIn(headers, looked, address, j, k)
  BY ExtractedIp
<1> HIDE DEF looked
<1>3. CASE /\ \A h \in looked : Addresses(headers[h]) = {}
           /\ config.header = "" /\ address \in socket
  BY <1>3 DEF Names, looked
<1>4. CASE \E j \in DOMAIN ipHeaderList : \E k \in DOMAIN headers[ipHeaderList[j]] :
              FirstIn(headers, looked, address, j, k)
  <2>1. PICK j \in DOMAIN ipHeaderList : \E k \in DOMAIN headers[ipHeaderList[j]] :
                FirstIn(headers, looked, address, j, k)
    BY <1>4
  <2>2. PICK k \in DOMAIN headers[ipHeaderList[j]] : FirstIn(headers, looked, address, j, k)
    BY <2>1
  <2> DEFINE chunks == headers[ipHeaderList[j]]
  <2>3. /\ ipHeaderList[j] \in looked
        /\ address = AddressAt(ipHeaderList[j], chunks, k)
        /\ chunks[k] # "junk" /\ k \in Addresses(chunks)
        /\ chunks[k] \in {"public", "private", "junk"}
    <3>1. chunks \in Chunks
      BY HeadersAre
    <3> QED  BY <2>2, <3>1 DEF FirstIn, Addresses, Chunks
  <2>4. any
    BY <2>3
  <2>5. /\ address.at = <<ipHeaderList[j], k>>
        /\ address.at[1] = ipHeaderList[j] /\ address.at[2] = k
        /\ address.public = (chunks[k] = "public")
    BY <2>3 DEF AddressAt
  <2>6. chunks[k] = (IF address.public THEN "public" ELSE "private")
    BY <2>3, <2>5
  <2>7. ASSUME NEW h \in looked, NEW m \in DOMAIN httpRequest.headers[h]
        PROVE  LET kind == httpRequest.headers[h][m]
                   Before(g) == CHOOSE i \in DOMAIN ipHeaderList : ipHeaderList[i] = g
                   earlier == \/ Before(h) < Before(address.at[1])
                              \/ h = address.at[1] /\ m < address.at[2]
               IN  /\ earlier => kind # (IF address.public THEN "public" ELSE "private")
                   /\ kind = "public" => address.public
    <3> DEFINE Before(g) == CHOOSE i \in DOMAIN ipHeaderList : ipHeaderList[i] = g
    <3>1. PICK g \in DOMAIN ipHeaderList : h = ipHeaderList[g]
      BY <1>1
    <3>2. Before(ipHeaderList[g]) = g /\ Before(ipHeaderList[j]) = j
      <4>1. ASSUME NEW i \in DOMAIN ipHeaderList PROVE Before(ipHeaderList[i]) = i
        <5>1. \A n \in DOMAIN ipHeaderList : ipHeaderList[n] = ipHeaderList[i] => n = i
          BY <1>1
        <5>2. \E n \in DOMAIN ipHeaderList : ipHeaderList[n] = ipHeaderList[i]
          OBVIOUS
        <5>3. Before(ipHeaderList[i]) \in DOMAIN ipHeaderList
              /\ ipHeaderList[Before(ipHeaderList[i])] = ipHeaderList[i]
          BY <5>2, Zenon
        <5> QED  BY <5>1, <5>3
      <4> QED  BY <4>1
    <3>3. m \in DOMAIN headers[ipHeaderList[g]]
      BY <3>1
    <3>4. /\ g < j \/ (g = j /\ m < k) => headers[h][m] # chunks[k]
          /\ headers[h][m] = "public" => address.public
      BY <2>2, <3>1, <3>3 DEF FirstIn
    <3>5. h = ipHeaderList[j] => g = j
      BY <1>1, <3>1
    <3>6. Before(h) = g /\ Before(address.at[1]) = j
      BY <3>1, <3>2, <2>5
    <3> HIDE DEF Before, chunks
    <3>7. \/ Before(h) < Before(address.at[1])
          \/ h = address.at[1] /\ m < address.at[2] => g < j \/ (g = j /\ m < k)
      BY <3>5, <3>6, <2>5
    <3>8. /\ (\/ Before(h) < Before(address.at[1])
              \/ h = address.at[1] /\ m < address.at[2])
                  => headers[h][m] # (IF address.public THEN "public" ELSE "private")
          /\ headers[h][m] = "public" => address.public
      BY <3>4, <3>5, <3>6, <2>5, <2>6
    <3> QED  BY <3>8 DEF Before
  <2>8. IsFirst(address, looked)
    BY <2>3, <2>5, <2>7, Zenon DEF IsFirst
  <2> QED  BY <2>4, <2>8, Zenon DEF Names, looked
<1> QED  BY <1>2, <1>3, <1>4

\* The inductive invariant: what is looked at is well-formed.
TagsInv ==
    /\ ipConfig \in IpConfigs
    /\ httpRequest.headers \in [ToSet(ipHeaderList) -> Chunks]
    /\ peer \subseteq {PeerAddress}
    /\ ClientIpIsFirst
    /\ PreflightAllowsTracing

LEMMA TagsAtStart == TagsInit => TagsInv
<1> SUFFICES ASSUME TagsInit PROVE TagsInv
  OBVIOUS
<1>1. /\ ipConfig \in IpConfigs /\ peer \subseteq {PeerAddress}
      /\ clientIp = {} /\ ~answer.written
      /\ httpRequest.headers \in [ToSet(ipHeaderList) -> HeaderValues]
  BY DEF TagsInit
<1>2. HeaderValues \subseteq Chunks
  BY HeadersAssumption DEF Chunks
<1>3. ClientIpIsFirst /\ PreflightAllowsTracing
  BY <1>1 DEF ClientIpIsFirst, PreflightAllowsTracing
<1> QED  BY <1>1, <1>2, <1>3 DEF TagsInv

LEMMA TagsSteps == TagsInv /\ [TagsNext]_tagsVars => TagsInv'
<1> SUFFICES ASSUME TagsInv, [TagsNext]_tagsVars PROVE TagsInv'
  OBVIOUS
<1>1. /\ UNCHANGED <<ipConfig, httpRequest>>
      /\ peer' \subseteq {PeerAddress}
  BY DEF TagsInv, TagsNext, tagsVars, StartSpan, AppsecStart, Disconnect, WriteHead, FinishSpan
<1>2. ClientIpIsFirst'
  <2>1. clientIp' = clientIp \/ clientIp' = extractIp(ipConfig, httpRequest.headers, peer)
    BY DEF TagsNext, tagsVars, StartSpan, AppsecStart, Disconnect, WriteHead, FinishSpan,
           AddRequestTags
  <2>2. PICK config, headers, socket : config = ipConfig /\ headers = httpRequest.headers /\ socket = peer
    OBVIOUS
  <2>3. \A address \in clientIp : Names(config, headers, address)
    BY <2>2, Zenon DEF TagsInv, ClientIpIsFirst, Names, LookedAt
  <2>4. \A address \in extractIp(config, headers, socket) : Names(config, headers, address)
    BY <2>2, ExtractedIsFirst DEF TagsInv
  <2>5. \A address \in clientIp' : Names(config, headers, address)
    BY <2>1, <2>2, <2>3, <2>4
  <2>6. ASSUME NEW address \in clientIp' PROVE Names(config, headers, address)'
    <3>1. Names(config, headers, address)
      BY <2>5
    <3> QED  BY <1>1, <3>1 DEF Names, IsFirst
  <2>7. config = ipConfig' /\ headers = httpRequest.headers'
    BY <1>1, <2>2
  <2> QED  BY <2>6, <2>7, Zenon DEF ClientIpIsFirst, Names, LookedAt
<1>3. PreflightAllowsTracing'
  <2>1. CASE WriteHead
    BY <2>1 DEF WriteHead, PreflightAllowsTracing, addAllowHeaders
  <2>2. CASE UNCHANGED answer
    BY <2>2, <1>1 DEF TagsInv, PreflightAllowsTracing
  <2> QED  BY <2>1, <2>2 DEF TagsNext, tagsVars, StartSpan, AppsecStart, Disconnect, FinishSpan
<1> QED  BY <1>1, <1>2, <1>3 DEF TagsInv

\* The tags of a request are the right ones, however often, by whomever and when
\* the client's address is looked up (extractIp, addRequestTags,
\* incomingHttpStartTranslator, wrapWriteHead).
THEOREM TagsAreKept == TagsSpec => []RequestTagsKept
<1>1. TagsInv => RequestTagsKept
  BY DEF TagsInv, RequestTagsKept
<1> QED  BY <1>1, TagsAtStart, TagsSteps, PTL DEF TagsSpec

-----------------------------------------------------------------------------
(* Side by side.                                                           *)

\* A step of Application is a step of its web part, or leaves that alone.
LEMMA WebIsAPart == PartsSpec => WebSpec
<1>1. PartsInit => WebInit
  BY DEF PartsInit
<1>2. ASSUME [PartsNext]_partVars
      PROVE  [WebNext]_webVars
  <2>1. CASE PartsNext
    BY <2>1, Zenon DEF PartsNext, OfContext, OfLogging, OfWeb, OfTags
  <2>2. CASE UNCHANGED partVars
    BY <2>2, Zenon DEF partVars
  <2> QED  BY <1>2, <2>1, <2>2
<1> QED  BY <1>1, <1>2, PTL DEF PartsSpec, WebSpec

\* The same of the tags.
LEMMA TagsAreAPart == PartsSpec => TagsSpec
<1>1. PartsInit => TagsInit
  BY DEF PartsInit
<1>2. ASSUME [PartsNext]_partVars
      PROVE  [TagsNext]_tagsVars
  <2>1. CASE PartsNext
    BY <2>1, Zenon DEF PartsNext, OfContext, OfLogging, OfWeb, OfTags
  <2>2. CASE UNCHANGED partVars
    BY <2>2, Zenon DEF partVars
  <2> QED  BY <1>2, <2>1, <2>2
<1> QED  BY <1>1, <1>2, PTL DEF PartsSpec, TagsSpec

\* The jobs, the logger, the requests and their tags keep side by side what each
\* keeps alone.
THEOREM PartsAreKept == PartsSpec => [](ContextsKept /\ MiddlewareEndsFirst /\ RequestTagsKept)
BY ContextsAreKept, MiddlewareIsFirst, TagsAreKept, WebIsAPart, TagsAreAPart, PTL
=============================================================================
