----------------------------- MODULE WebRequests -----------------------------
(***************************************************************************)
(* plugins/util/web.ts: the context that web plugins keep of a request,    *)
(* its span, the spans of its middleware, its route, and what the end of   *)
(* the response does with them.  The plugins that call it are not in this  *)
(* repository: they instrument a request, enter and leave routes and       *)
(* middleware, and the application ends the response, more than once if it *)
(* likes.                                                                  *)
(***************************************************************************)
EXTENDS Integers, Sequences, SequencesExt

CONSTANTS
    Requests,      \* requests
    PluginConfigs, \* configurations of a plugin, before normalizeConfig
    Statuses,      \* status codes of a response
    MaxMiddleware, \* bound: middleware spans of a request
    MaxEnds        \* bound: calls of res.end of a request

VARIABLES
    streamRequests, \* those of the http2 compatibility API, which have a stream
    contexts,    \* the context of each request, NoContext before patch
    requestSpan, \* the root span: [open, told], told once it has finished
    spanTags,    \* its tags: [route, status, error, resource, recording]
    openSpans,   \* the open middleware spans: <<request, number>>
    lateSpans,   \* those started after the end of the response
    startedSpans,\* how many middleware spans each request has started
    ended        \* how often res.end was called

webVars == <<streamRequests, contexts, requestSpan, spanTags, openSpans, lateSpans, startedSpans, ended>>

NoContext == [known |-> FALSE, span |-> FALSE, instrumented |-> FALSE, finished |-> FALSE,
              paths |-> <<>>, middleware |-> <<>>, error |-> FALSE, config |-> <<>>]

\* normalizeConfig: a setting of a wrong type counts as its default; query
\* strings are dropped unless the obfuscator is a regular expression or off.
Normalized(config) ==
    [middleware |-> IF config.middleware = "false" THEN FALSE ELSE TRUE,
     valid |-> IF config.validateStatus = "all" THEN Statuses ELSE {s \in Statuses : s < 500},
     query |-> IF config.query \in {"regex", "false"} THEN config.query ELSE "true",
     accepts |-> config.accepts]

\* patch: a compatibility request shares the context of its stream, which is
\* the same request here.
Patched(req) == [contexts[req] EXCEPT !.known = TRUE]

\* active: the innermost middleware span, else the root span.
Active(req) == contexts[req].known /\ (contexts[req].span \/ contexts[req].middleware # <<>>)

WebInit ==
    /\ streamRequests \in SUBSET Requests
    /\ contexts = [r \in Requests |-> NoContext]
    /\ requestSpan = [r \in Requests |-> [open |-> FALSE, told |-> <<>>]]
    /\ spanTags = [r \in Requests |->
                     [route |-> <<>>, status |-> 0, error |-> FALSE, resource |-> <<>>,
                      recording |-> TRUE]]
    /\ openSpans = {}
    /\ lateSpans = {}
    /\ startedSpans = [r \in Requests |-> 0]
    /\ ended = [r \in Requests |-> 0]

\* instrument: startSpan and setConfig, for a filtered request without its
\* recording, then wrap, which replaces res.end once.
Instrument(req, config) ==
    /\ ~contexts[req].finished
    /\ contexts' = [contexts EXCEPT ![req] =
         [Patched(req) EXCEPT !.span = TRUE, !.instrumented = TRUE, !.config = Normalized(config)]]
    /\ requestSpan' = IF contexts[req].span THEN requestSpan
                      ELSE [requestSpan EXCEPT ![req].open = TRUE]
    /\ spanTags' = [spanTags EXCEPT ![req].recording = @ /\ config.accepts]
    /\ UNCHANGED <<openSpans, lateSpans, startedSpans, ended>>

\* enterRoute, exitRoute and setRoute.
EnterRoute(req, path) ==
    /\ contexts[req].known
    /\ Len(contexts[req].paths) < 2
    /\ contexts' = [contexts EXCEPT ![req].paths = Append(@, path)]
    /\ UNCHANGED <<requestSpan, spanTags, openSpans, lateSpans, startedSpans, ended>>

ExitRoute(req) ==
    /\ contexts[req].known
    /\ contexts[req].paths # <<>>
    /\ contexts' = [contexts EXCEPT ![req].paths = Front(@)]
    /\ UNCHANGED <<requestSpan, spanTags, openSpans, lateSpans, startedSpans, ended>>

SetRoute(req, path) ==
    /\ contexts[req].known
    /\ contexts' = [contexts EXCEPT ![req].paths = <<path>>]
    /\ UNCHANGED <<requestSpan, spanTags, openSpans, lateSpans, startedSpans, ended>>

\* wrapMiddleware, with a span unless the plugin wants none.
WrapMiddleware(req) ==
    /\ Active(req)
    /\ contexts[req].config.middleware
    /\ startedSpans[req] < MaxMiddleware
    /\ LET span == <<req, startedSpans[req] + 1>>
       IN  /\ contexts' = [contexts EXCEPT ![req].middleware = Append(@, span)]
           /\ openSpans' = openSpans \cup {span}
           /\ lateSpans' = IF contexts[req].finished THEN lateSpans \cup {span} ELSE lateSpans
    /\ startedSpans' = [startedSpans EXCEPT ![req] = @ + 1]
    /\ UNCHANGED <<requestSpan, spanTags, ended>>

\* A middleware throws: bindAndWrapMiddlewareErrors and addError.
AddError(req) ==
    /\ contexts[req].known
    /\ ~contexts[req].error
    /\ contexts' = [contexts EXCEPT ![req].error = TRUE]
    /\ UNCHANGED <<requestSpan, spanTags, openSpans, lateSpans, startedSpans, ended>>

\* finish: the innermost middleware span.
FinishMiddleware(req) ==
    /\ Active(req)
    /\ contexts[req].middleware # <<>>
    /\ openSpans' = openSpans \ {Last(contexts[req].middleware)}
    /\ contexts' = [contexts EXCEPT ![req].middleware = Front(@)]
    /\ UNCHANGED <<requestSpan, spanTags, lateSpans, startedSpans, ended>>

\* addResponseTags, addStatusError and addResourceTag.
ResponseTags(req, status) ==
    LET context == contexts[req]
        old == spanTags[req]
        route == IF context.paths # <<>> THEN context.paths ELSE old.route
    IN  [old EXCEPT !.route = route,
                    !.status = status,
                    !.error = @ \/ status \notin context.config.valid,
                    !.resource = IF @ # <<>> THEN @ ELSE <<"method">> \o route]

\* A variant of MiddlewareLeft: only the innermost middleware span is finished.
MiddlewareLeftButOne(context) ==
    IF context.finished \/ context.middleware = <<>> THEN context.middleware
    ELSE Front(context.middleware)

\* finishMiddleware: all of the middleware, unless the request has finished.
MiddlewareLeft(context) == IF context.finished THEN context.middleware ELSE <<>>

\* finishSpan: nothing for a finished request, but for one with a stream,
\* whose tags are set again and whose finished span keeps what it has told.
SpanFinishes(req, status) ==
    IF contexts[req].finished /\ req \notin streamRequests
    THEN UNCHANGED <<spanTags, requestSpan>>
    ELSE /\ spanTags' = [spanTags EXCEPT ![req] = ResponseTags(req, status)]
         /\ requestSpan' = [requestSpan EXCEPT ![req] =
              IF @.open THEN [open |-> FALSE, told |-> <<ResponseTags(req, status)>>] ELSE @]

\* The replaced res.end: finishAll, and then the response's own end.
End(req, status) ==
    /\ contexts[req].instrumented
    /\ ended[req] < MaxEnds
    /\ ended' = [ended EXCEPT ![req] = @ + 1]
    /\ SpanFinishes(req, status)
    /\ LET left == MiddlewareLeft(contexts[req])
       IN  /\ contexts' = [contexts EXCEPT ![req].middleware = left, ![req].finished = TRUE]
           /\ openSpans' = openSpans \ (ToSet(contexts[req].middleware) \ ToSet(left))
    /\ UNCHANGED <<lateSpans, startedSpans>>

WebNext ==
    /\ UNCHANGED streamRequests
    /\ \E req \in Requests :
          \/ \E config \in PluginConfigs : Instrument(req, config)
          \/ \E path \in {"/a", "/b"} : EnterRoute(req, path) \/ SetRoute(req, path)
          \/ ExitRoute(req)
          \/ WrapMiddleware(req)
          \/ AddError(req)
          \/ FinishMiddleware(req)
          \/ \E status \in Statuses : End(req, status)

WebSpec == WebInit /\ [][WebNext]_webVars

-----------------------------------------------------------------------------
(* Properties.                                                             *)

\* A request's span finishes with its response, and once, however often the
\* response is ended; its middleware has finished by then, whatever of it was
\* still open, so that no trace waits for a middleware that never returns: a
\* middleware span is open only before the end or if it started after it
\* (finishAll, finishMiddleware, finishSpan).
MiddlewareEndsFirst ==
    \A req \in Requests :
        contexts[req].finished =>
            /\ ~requestSpan[req].open
            /\ Len(requestSpan[req].told) = 1
            /\ {span \in openSpans : span[1] = req} \subseteq lateSpans
=============================================================================
