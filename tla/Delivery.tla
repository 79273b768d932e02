------------------------------- MODULE Delivery -------------------------------
(***************************************************************************)
(* What the process sends, side by side: the requests to the agent with    *)
(* their limit and retries, the logs of the external logger, and what the  *)
(* metrics count.  They share no state: `part` says which of them a        *)
(* behaviour is about, and the others stay as they were made.              *)
(***************************************************************************)
EXTENDS Requests, ExternalLogger, Metrics

VARIABLE part

partVars == <<part, requestVars, loggerVars, metricsVars>>

PartsInit ==
    /\ part \in {"requests", "logger", "metrics"}
    /\ Init /\ LoggerInit /\ MetricsInit

OfRequests(A) == part = "requests" /\ A /\ UNCHANGED <<part, loggerVars, metricsVars>>
OfLogger(A) == part = "logger" /\ A /\ UNCHANGED <<part, requestVars, metricsVars>>
OfMetrics(A) == part = "metrics" /\ A /\ UNCHANGED <<part, requestVars, loggerVars>>

PartsNext == OfRequests(Next) \/ OfLogger(LoggerNext) \/ OfMetrics(MetricsNext)

PartsSpec == PartsInit /\ [][PartsNext]_partVars

\* The fairness of each part, as its module states it.
PartsFairSpec ==
    /\ PartsSpec
    /\ \A r \in Requests :
         /\ WF_partVars(OfRequests(Headers(r) \/ Fail(r) \/ GiveUp(r)))
         /\ WF_partVars(OfRequests(Answer(r) \/ Refuse(r) \/ LoseBody(r)))
         /\ WF_partVars(OfRequests(Retry(r)))
    /\ WF_partVars(OfLogger(IntervalFlush))
    /\ \A f \in 1..(MaxLogs + MaxFlushes + 1) :
         WF_partVars(OfLogger(f \in DOMAIN flushes /\ Settle(f)))
    /\ WF_partVars(OfMetrics(Flush)) /\ WF_partVars(OfMetrics(Interval))
    /\ \A c \in Clients, b \in Slots : WF_partVars(OfMetrics(Sending(c, b)))
=============================================================================
