---------------------------- MODULE TraceReporting ----------------------------
(***************************************************************************)
(* What the tracer promises about the spans of a trace, whatever way it    *)
(* cuts the trace into chunks: a span is started once, ends once, and is   *)
(* then reported, or muted with its trace, once; the verdict on a trace is *)
(* given once, and before anything of the trace is reported.               *)
(***************************************************************************)
EXTENDS Integers

CONSTANTS
    Ids,       \* spans
    TraceIds,  \* traces
    Verdicts,  \* what can be decided of a trace
    Pending    \* no verdict yet

VARIABLES
    state,    \* span -> how far it has come
    trace,    \* span -> the trace it was started in
    verdict   \* trace -> its verdict

reportVars == <<state, trace, verdict>>

Init ==
    /\ state = [s \in Ids |-> "unborn"]
    /\ trace = [s \in Ids |-> 0]
    /\ verdict = [t \in TraceIds |-> Pending]

\* A verdict can be given along with any other step, if there is none yet.
MayJudge(t) ==
    \/ UNCHANGED verdict
    \/ /\ verdict[t] = Pending
       /\ verdict'[t] \in Verdicts
       /\ verdict' = [verdict EXCEPT ![t] = verdict'[t]]

Judge(t) == MayJudge(t) /\ UNCHANGED <<state, trace>>

Begin(s, t) ==
    /\ state[s] = "unborn"
    /\ state' = [state EXCEPT ![s] = "open"]
    /\ trace' = [trace EXCEPT ![s] = t]
    /\ MayJudge(t)

\* The span ends, and with it may go any spans of its trace that have ended:
\* all of them reported, or all of them muted, under a verdict.
End(s) ==
    /\ state[s] = "open"
    /\ \E out \in SUBSET ({s} \cup {x \in Ids : state[x] = "ended" /\ trace[x] = trace[s]}),
          fate \in {"reported", "muted"} :
          /\ state' = [x \in Ids |-> IF x \in out THEN fate
                                     ELSE IF x = s THEN "ended"
                                     ELSE state[x]]
          /\ out # {} => verdict'[trace[s]] # Pending
    /\ MayJudge(trace[s])
    /\ UNCHANGED trace

Next ==
    \/ \E t \in TraceIds : Judge(t)
    \/ \E s \in Ids, t \in TraceIds : Begin(s, t)
    \/ \E s \in Ids : End(s)

Spec == Init /\ [][Next]_reportVars
=============================================================================
