-------------------------------- MODULE Tracer --------------------------------
(***************************************************************************)
(* The tracer's interfaces and what it sends besides traces, side by side: *)
(* telemetry, calls traced by trace and wrap, the OpenTelemetry bridge,    *)
(* propagation between services, span statistics, data streams and the     *)
(* encoders.  They share no state here: `part` says which of them a        *)
(* behaviour is about, and the others stay in one of their initial states. *)
(***************************************************************************)
EXTENDS Telemetry, TracedCalls, OpenTelemetry, Propagation, SpanStats, DataStreams, Encoder

VARIABLE part

partVars == <<part, vars, callVars, otelVars, propagationVars, statsVars, streamsVars,
              encoderVars>>

PartsInit ==
    /\ part \in {"telemetry", "calls", "otel", "propagation", "stats", "streams", "encoder"}
    /\ Init /\ CallsInit /\ OtelInit
    /\ PropagationInit /\ StatsInit /\ StreamsInit /\ EncoderInit

OfTelemetry ==
    /\ part = "telemetry" /\ Next
    /\ UNCHANGED <<part, callVars, otelVars, propagationVars, statsVars, streamsVars, encoderVars>>
OfCalls ==
    /\ part = "calls" /\ CallsNext
    /\ UNCHANGED <<part, vars, otelVars, propagationVars, statsVars, streamsVars, encoderVars>>
OfOtel ==
    /\ part = "otel" /\ OtelNext
    /\ UNCHANGED <<part, vars, callVars, propagationVars, statsVars, streamsVars, encoderVars>>
OfPropagation ==
    /\ part = "propagation" /\ PropagationNext
    /\ UNCHANGED <<part, vars, callVars, otelVars, statsVars, streamsVars, encoderVars>>
OfStats ==
    /\ part = "stats" /\ StatsNext
    /\ UNCHANGED <<part, vars, callVars, otelVars, propagationVars, streamsVars, encoderVars>>
OfStreams ==
    /\ part = "streams" /\ StreamsNext
    /\ UNCHANGED <<part, vars, callVars, otelVars, propagationVars, statsVars, encoderVars>>
OfEncoder ==
    /\ part = "encoder" /\ EncoderNext
    /\ UNCHANGED <<part, vars, callVars, otelVars, propagationVars, statsVars, streamsVars>>

PartsNext ==
    OfTelemetry \/ OfCalls \/ OfOtel \/ OfPropagation \/ OfStats \/ OfStreams \/ OfEncoder

PartsSpec == PartsInit /\ [][PartsNext]_partVars

-----------------------------------------------------------------------------
\* A finished span is counted by one payload, and so is a checkpoint; a pathway
\* turns at its checkpoints as their edges say (span_stats.ts, datastreams).
StatisticsCounted == StatsOnce /\ PointsOnce /\ PathwayTurns
=============================================================================
