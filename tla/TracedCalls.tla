----------------------------- MODULE TracedCalls -----------------------------
(***************************************************************************)
(* The functions a program traces with trace and wrap (tracer.ts): when    *)
(* the span of a call finishes, how a failure gets into its tags, and what *)
(* format.ts makes of the tags when the trace is complete.                 *)
(*                                                                         *)
(* JavaScript runs one function at a time: `callStack` are the traced      *)
(* functions in progress.  A call is its number, and a wrapped function    *)
(* with a callback is a call with a callback.                              *)
(***************************************************************************)
EXTENDS Integers, Sequences, FiniteSets, SequencesExt

CONSTANTS
    UserTags,  \* the tags that the program sets: a sequence of [key, value]
    Failures,  \* what functions throw and reject with: Errors with a message,
               \* and "other" for what is no Error, and not falsy either
    MaxCalls,  \* bound: calls
    MaxDones,  \* bound: calls of callbacks
    MaxTags    \* bound: tags set by the program

\* A value that is no object counts by its text, of an object its properties do.
ScalarTypes == {"string", "number", "boolean", "undefined", "null", "url", "buffer", "error"}
ScalarTags == [key : STRING, value : [type : ScalarTypes, of : STRING]]
ObjectTags == [key : STRING, value : [type : {"object"}, of : Seq(ScalarTags)]]

\* A property goes by the key of its object, a dot and its own name.
ASSUME CallsAssumption ==
    /\ \A k \in DOMAIN UserTags :
          IF UserTags[k].value.type # "object" THEN UserTags[k] \in ScalarTags
          ELSE /\ UserTags[k] \in ObjectTags
               /\ UserTags[k].key # "error" =>
                     \A j \in DOMAIN UserTags[k].value.of :
                        UserTags[k].value.of[j].key # "error.message"
    /\ Failures \subseteq STRING \ {"", "none"}

VARIABLES
    calls,    \* the calls, in the order of their spans
    callStack, \* the calls whose functions run, the innermost last
    thrown,   \* the exception the running function has caught, or "none"
    spanTags, \* the tags of each span, in the order they were first set
    ended,    \* the spans with a duration
    reported, \* the reported spans, formatted
    dones,    \* calls of callbacks so far
    tagged,   \* tags set by the program so far
    told      \* what each span was told of errors before its report:
              \* [how : "thrown", "told" or "tag", error]

callVars == <<calls, callStack, thrown, spanTags, ended, reported, dones, tagged, told>>

Str(s) == [type |-> "string", of |-> s]
Err(e) == [type |-> "error", of |-> e]
Undefined == [type |-> "undefined", of |-> ""]
Falsy(v) ==
    \/ v.type \in {"undefined", "null"}
    \/ v.type = "string" /\ v.of = ""
    \/ v.type = "number" /\ v.of \in {"0", "NaN"}
    \/ v.type = "boolean" /\ v.of = "false"

WithEntry(f, k, v) == [x \in DOMAIN f \cup {k} |-> IF x = k THEN v ELSE f[x]]

\* Object.assign of one key: a known one keeps its place.
Assigned(ts, key, value) ==
    IF \E k \in DOMAIN ts : ts[k].key = key
    THEN [k \in DOMAIN ts |-> IF ts[k].key = key THEN [key |-> key, value |-> value] ELSE ts[k]]
    ELSE Append(ts, [key |-> key, value |-> value])

-----------------------------------------------------------------------------
(* format.ts                                                               *)

\* addTag of a value that is no object.
AddScalar(r, key, v) ==
    CASE v.type = "string" /\ v.of # "" -> [r EXCEPT !.meta = WithEntry(@, key, v.of)]
      [] v.type = "number" /\ v.of # "NaN" -> [r EXCEPT !.metrics = WithEntry(@, key, v.of)]
      [] v.type = "boolean" -> [r EXCEPT !.metrics = WithEntry(@, key, IF v.of = "true" THEN "1" ELSE "0")]
      [] v.type \in {"url", "buffer"} -> [r EXCEPT !.metrics = WithEntry(@, key, v.of)]
      [] OTHER -> r

\* addTag: of an object, the tags its properties make, one level deep (`of` is
\* the sequence of them, under their whole names).
AddTag(r, key, v) ==
    IF v.type # "object" THEN AddScalar(r, key, v)
    ELSE LET added[k \in 0 .. Len(v.of)] ==
                IF k = 0 THEN r ELSE AddScalar(added[k - 1], v.of[k].key, v.of[k].value)
         IN  added[Len(v.of)]

\* String.
Text(v) == IF v.type = "object" THEN "[object Object]" ELSE v.of

\* extractError.  The message stands for the type and the stack as well.
ExtractError(r, v) ==
    IF Falsy(v) THEN r
    ELSE IF v.type = "error" THEN AddTag([r EXCEPT !.error = 1], "error.message", Str(v.of))
    ELSE [r EXCEPT !.error = 1]

\* One turn of extractTags, for a span that is not named fs.operation.  The
\* service stands for the type and the resource.
ExtractTag(r, t) ==
    CASE t.key = "service.name" ->
            IF t.value.type = "string" /\ t.value.of # "" THEN [r EXCEPT !.service = t.value.of] ELSE r
      [] t.key = "http.status_code" ->
            IF Falsy(t.value) THEN r ELSE AddTag(r, t.key, Str(Text(t.value)))
      [] t.key = "_dd.measured" ->
            [r EXCEPT !.metrics =
                WithEntry(@, t.key, IF t.value.type # "undefined" /\ Falsy(t.value) THEN "0" ELSE "1")]
      [] t.key = "error" -> ExtractError(r, t.value)
      [] t.key = "error.message" -> AddTag([r EXCEPT !.error = 1], t.key, t.value)
      [] OTHER -> AddTag(r, t.key, t.value)

\* format: the tags of the program, then those of the library.
Formatted(ts) ==
    LET bare == [service |-> "", error |-> 0, meta |-> <<>>, metrics |-> <<>>]
        kind == \E k \in DOMAIN ts :
                   ts[k].key = "span.kind" /\ ~Falsy(ts[k].value) /\ Text(ts[k].value) # "internal"
        start == IF kind THEN [bare EXCEPT !.metrics = WithEntry(@, "_dd.measured", "1")] ELSE bare
        extracted[k \in 0 .. Len(ts)] ==
            IF k = 0 THEN start ELSE ExtractTag(extracted[k - 1], ts[k])
    IN  AddTag(extracted[Len(ts)], "language", Str("typescript"))

-----------------------------------------------------------------------------
(* The span of a call.                                                     *)

CallsInit ==
    /\ calls = <<>> /\ callStack = <<>> /\ thrown = "none"
    /\ spanTags = <<>> /\ ended = {} /\ reported = <<>>
    /\ dones = 0 /\ tagged = 0
    /\ told = <<>>

Told(c, how, failure) ==
    IF c \in DOMAIN reported THEN told
    ELSE [told EXCEPT ![c] = Append(@, [how |-> how, error |-> failure])]

\* addError of tracer.ts: nothing but an Error gets into the tags.
WithError(ts, failure) ==
    IF failure \in {"none", "other"} THEN ts ELSE Assigned(ts, "error.message", Str(failure))

AddError(c, failure) ==
    /\ spanTags' = [spanTags EXCEPT ![c] = WithError(@, failure)]
    /\ told' = IF failure \in {"none", "other"} THEN told ELSE Told(c, "told", failure)

\* The catch of activate: the tag holds whatever was thrown.
WithErrorTag(ts, failure) == Assigned(ts, "error", IF failure = "other" THEN Str(failure) ELSE Err(failure))

SameTrace(c, d) == calls[c].root = calls[d].root

\* A variant of Finish: the trace is formatted with the tags from before.
FinishBeforeError(c) ==
    LET done == ended \cup {c}
        trace == {d \in DOMAIN calls : SameTrace(c, d) /\ d \notin DOMAIN reported}
    IN  /\ ended' = done
        /\ reported' = IF c \in ended \/ ~(trace \subseteq done) THEN reported
                       ELSE [d \in DOMAIN reported \cup trace |->
                               IF d \in trace THEN Formatted(spanTags[d]) ELSE reported[d]]

\* finish: of the first time.  Once every span of the trace that is not yet
\* reported has ended, they are formatted with the tags they have by then.
Finish(c) ==
    LET done == ended \cup {c}
        trace == {d \in DOMAIN calls : SameTrace(c, d) /\ d \notin DOMAIN reported}
    IN  /\ ended' = done
        /\ reported' = IF c \in ended \/ ~(trace \subseteq done) THEN reported
                       ELSE [d \in DOMAIN reported \cup trace |->
                               IF d \in trace THEN Formatted(spanTags'[d]) ELSE reported[d]]

\* The call whose scope the running code is in, 0 where there is none.
Top == IF callStack = <<>> THEN 0 ELSE Last(callStack)

\* Where code runs when no function does: nowhere, or in a continuation of a
\* promise or in a callback, whose scope is that of its call.
Places == IF callStack # <<>> THEN {Top}
          ELSE {0} \cup {c \in DOMAIN calls : calls[c].promise = "pending" \/ calls[c].callback}

\* trace, up to the function: startSpan, addTags and activate.
Call(parent, callback) ==
    /\ thrown = "none"
    /\ Len(calls) < MaxCalls
    /\ parent \in Places
    /\ LET c == Len(calls) + 1
       IN  /\ calls' = Append(calls,
                [callback |-> callback, parent |-> parent, promise |-> "none",
                 root |-> IF parent = 0 THEN c ELSE calls[parent].root])
           /\ callStack' = Append(callStack, c)
    /\ spanTags' = Append(spanTags, <<[key |-> "service.name", value |-> Str("svc")],
                                      [key |-> "_dd.measured", value |-> Undefined]>>)
    /\ told' = Append(told, <<>>)
    /\ UNCHANGED <<thrown, ended, reported, dones, tagged>>

\* The program sets a tag of a span, at any time before its report.
SetTag(c, k) ==
    /\ thrown = "none" /\ tagged < MaxTags /\ c \notin DOMAIN reported
    /\ tagged' = tagged + 1
    /\ spanTags' = [spanTags EXCEPT ![c] = Assigned(@, UserTags[k].key, UserTags[k].value)]
    /\ told' = IF UserTags[k].key \in {"error", "error.message"}
               THEN Told(c, "tag", Text(UserTags[k].value)) ELSE told
    /\ UNCHANGED <<calls, callStack, thrown, ended, reported, dones>>

\* The innermost function throws, or lets pass what it was thrown: activate
\* tags the span and throws it on, trace adds the error and finishes the span.
Throw(failure) ==
    /\ callStack # <<>>
    /\ thrown \in {"none", failure}
    /\ spanTags' = [spanTags EXCEPT ![Top] = WithError(WithErrorTag(@, failure), failure)]
    /\ told' = Told(Top, "thrown", failure)
    /\ Finish(Top)
    /\ callStack' = Front(callStack)
    /\ thrown' = IF Len(callStack) = 1 THEN "none" ELSE failure
    /\ UNCHANGED <<calls, dones, tagged>>

\* The function that called a traced one catches what it threw.
Catch ==
    /\ thrown # "none"
    /\ thrown' = "none"
    /\ UNCHANGED <<calls, callStack, spanTags, ended, reported, dones, tagged, told>>

\* The function returns no promise: without a callback its span finishes.
ReturnValue ==
    /\ callStack # <<>> /\ thrown = "none"
    /\ UNCHANGED spanTags
    /\ IF calls[Top].callback THEN UNCHANGED <<ended, reported>> ELSE Finish(Top)
    /\ callStack' = Front(callStack)
    /\ UNCHANGED <<calls, thrown, dones, tagged, told>>

\* The function returns a promise, which a call with a callback hands on
\* without looking at it.
ReturnPending ==
    /\ callStack # <<>> /\ thrown = "none"
    /\ calls' = [calls EXCEPT ![Top].promise = "pending"]
    /\ callStack' = Front(callStack)
    /\ UNCHANGED <<thrown, spanTags, ended, reported, dones, tagged, told>>

\* The promise is settled, and the handlers of trace run.
SettlePromise(c, failure) ==
    /\ callStack = <<>>
    /\ calls[c].promise = "pending"
    /\ calls' = [calls EXCEPT ![c].promise = "settled"]
    /\ IF calls[c].callback THEN UNCHANGED <<spanTags, told, ended, reported>>
       ELSE AddError(c, failure) /\ Finish(c)
    /\ UNCHANGED <<callStack, thrown, dones, tagged>>

\* The callback is called: by the function, by those it calls, or later, and
\* maybe again.
Done(c, failure) ==
    /\ thrown = "none"
    /\ calls[c].callback
    /\ dones < MaxDones
    /\ dones' = dones + 1
    /\ AddError(c, failure)
    /\ Finish(c)
    /\ UNCHANGED <<calls, callStack, thrown, tagged>>

\* The callback that wrap was given, bound to the scope it was called in,
\* throws there.
BoundThrows(c, failure) ==
    /\ thrown = "none"
    /\ calls[c].callback /\ calls[c].parent # 0
    /\ dones < MaxDones
    /\ dones' = dones + 1
    /\ spanTags' = [spanTags EXCEPT ![calls[c].parent] = WithErrorTag(@, failure)]
    /\ told' = Told(calls[c].parent, "thrown", failure)
    /\ UNCHANGED <<calls, callStack, thrown, ended, reported, tagged>>

CallsNext ==
    \/ \E parent \in 0 .. Len(calls), callback \in BOOLEAN : Call(parent, callback)
    \/ \E c \in DOMAIN calls, k \in DOMAIN UserTags : SetTag(c, k)
    \/ \E failure \in Failures : Throw(failure)
    \/ \E c \in DOMAIN calls, failure \in Failures : BoundThrows(c, failure)
    \/ Catch
    \/ ReturnValue
    \/ ReturnPending
    \/ \E c \in DOMAIN calls, failure \in Failures \cup {"none"} :
          SettlePromise(c, failure) \/ Done(c, failure)

CallsSpec == CallsInit /\ [][CallsNext]_callVars

-----------------------------------------------------------------------------
(* Properties.                                                             *)

Ways(c) == {told[c][k].how : k \in DOMAIN told[c]}
Errors(c) == {told[c][k].error : k \in DOMAIN told[c]}

\* However calls nest, fail and call back, early, late or twice: unless the
\* program sets the error tags itself, a span is reported as an error exactly
\* if an Error was told to it, or something thrown in it, before its trace was
\* complete; where these were all Errors the message is of one of them, and of
\* the last one if none was thrown.
ErrorsReported ==
    \A c \in DOMAIN reported :
        "tag" \notin Ways(c) =>
            /\ reported[c].error = IF told[c] = <<>> THEN 0 ELSE 1
            /\ told[c] # <<>> /\ "other" \notin Errors(c) =>
                  reported[c].meta["error.message"] \in Errors(c)
            /\ Ways(c) = {"told"} => reported[c].meta["error.message"] = Last(told[c]).error

\* What interfaces.ts promises of trace: the function returns a promise, in
\* which case the span will finish when the promise is resolved or rejected.
PromiseEndsSpan ==
    \A c \in DOMAIN calls : calls[c].promise = "settled" => c \in ended
=============================================================================
