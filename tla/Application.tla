----------------------------- MODULE Application -----------------------------
(***************************************************************************)
(* What the tracer does inside the application's own jobs, side by side:   *)
(* the active span across jobs, the messages to the application's logger,  *)
(* the contexts of its requests, and their tags.  The parts share no state *)
(* here: `part` says which of them a behaviour is about, and the others    *)
(* stay in one of their initial states.                                    *)
(***************************************************************************)
EXTENDS AsyncContext, Logging, WebRequests, RequestTags

VARIABLE part

partVars == <<part, vars, logVars, webVars, tagsVars>>

PartsInit ==
    /\ part \in {"context", "logging", "web", "tags"}
    /\ Init /\ LogInit /\ WebInit /\ TagsInit

OfContext == part = "context" /\ Next /\ UNCHANGED <<part, logVars, webVars, tagsVars>>
OfLogging == part = "logging" /\ LogNext /\ UNCHANGED <<part, vars, webVars, tagsVars>>
OfWeb == part = "web" /\ WebNext /\ UNCHANGED <<part, vars, logVars, tagsVars>>
OfTags == part = "tags" /\ TagsNext /\ UNCHANGED <<part, vars, logVars, webVars>>

PartsNext == OfContext \/ OfLogging \/ OfWeb \/ OfTags

PartsSpec == PartsInit /\ [][PartsNext]_partVars

-----------------------------------------------------------------------------
\* Where the exporter flushes from its timer only, the active span is the one
\* that the running function was activated with, and the handlers of the
\* tracer's own requests always run untraced, as does the logger,
\* whose caller goes on in its store (scope.ts, request.ts, log/writer.ts).
ContextsKept == TypeOK /\ ActiveIfTimed /\ HandlersUntraced /\ LoggerUntraced
=============================================================================
