------------------------------- MODULE MCTracer -------------------------------
(* Values for TLC: what Tracer's parts load, set, send and encode. *)
EXTENDS Tracer

CONSTANTS p1, p2, l1, l2

MCPlugins == {p1, p2}
MCLogs == {l1, l2}

\* Neither plugins nor entries are told apart; the run checks no liveness.
MCSymmetry == Permutations(MCPlugins) \cup Permutations(MCLogs)

(* The tags a program sets, one of each type.                              *)

UserTag(key, type, of) == [key |-> key, value |-> [type |-> type, of |-> of]]
MCUserTags ==
    <<UserTag("error", "error", "mine"), UserTag("error", "boolean", "false"),
      UserTag("http.status_code", "number", "500"), UserTag("span.kind", "string", "client"),
      UserTag("user", "object", <<UserTag("user.id", "string", "7")>>)>>

(* Propagation: what services inject and extract, and what others send,    *)
(* where -9 stands for a header that is missing.                           *)

MCInject ==
    {{"datadog", "tracecontext"}, {"b3multi", "b3 single header"},
     {"datadog", "b3multi", "tracecontext"}, {"log"}}
MCExtract ==
    {<<"datadog", "tracecontext">>, <<"tracecontext", "b3multi">>, <<"b3 single header", "datadog">>,
     <<"log">>}
MCForeign ==
    {[s \in {"b3multi"} |-> [high |-> -9, lo |-> -9, span |-> -9, sampled |-> 0, debug |-> FALSE]],
     [s \in {"tracecontext"} |->
         [high |-> 7, lo |-> 8, span |-> 9, flags |-> 1, state |-> [NoState EXCEPT !.others = <<"other">>]]]}

(* Statistics: spans of two groups.                                        *)

StatSpan(id, key, top, error) ==
    [id |-> id, key |-> key, top |-> top, measured |-> FALSE, error |-> error, duration |-> id]
MCStatSpans ==
    {StatSpan(1, "a", TRUE, FALSE), StatSpan(2, "a", TRUE, TRUE), StatSpan(3, "b", TRUE, FALSE),
     StatSpan(4, "b", FALSE, FALSE)}

(* Data streams: a queue that is produced to and consumed from.            *)

MCDirection == [edge \in Edges |-> IF edge = "consume" THEN "in" ELSE "out"]

(* The encoders: strings by their length, and traces that share some.      *)

MCSizeOf(s) == IF s = "long" THEN 40 ELSE 4
MCCut == [k \in {"long"} |-> "lo..."]

EncodedSpan(id, service, name, type, meta, metrics) ==
    [id |-> id, service |-> service, name |-> name, resource |-> "", type |-> type,
     meta |-> meta, metrics |-> metrics]
MCTraces ==
    {<<EncodedSpan(1, "", "", "", <<>>, <<>>)>>,
     <<EncodedSpan(2, "svc", "get", "web", <<<<"long", <<"string", "svc">>>>>>, <<<<"get", <<"float", 7>>>>>>),
       EncodedSpan(3, "svc", "long", "", <<<<"key", <<"string", "long">>>>>>, <<>>)>>,
     <<EncodedSpan(4, "new", "constructor", "", <<>>, <<>>)>>}

-----------------------------------------------------------------------------
\* A part that does not run starts in one state only.
MCInit ==
    /\ PartsInit
    /\ part # "propagation" => carrier = <<>>
    /\ part # "encoder" => version = "0.4"

MCSpec == MCInit /\ [][PartsNext]_partVars
=============================================================================
