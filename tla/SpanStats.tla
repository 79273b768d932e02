------------------------------ MODULE SpanStats ------------------------------
(***************************************************************************)
(* span_stats.ts with its exporter and writer: hits, errors and durations  *)
(* of the finished spans, grouped by SpanAggKey, and sent at intervals.    *)
(*                                                                         *)
(* onSpanFinished gets what format.ts made of a span, which has a start    *)
(* and no startTime: the time of the bucket is NaN for every span, and     *)
(* there is one bucket between two intervals.                              *)
(***************************************************************************)
EXTENDS Integers, Sequences, FiniteSets

CONSTANTS
    StatSpans,    \* spans: [id, key, top, measured, error, duration]
    MaxIntervals, \* bound: intervals
    GlobalBuffer  \* whether there is a global Buffer, which span-stats.ts uses

ASSUME StatsAssumption ==
    /\ IsFiniteSet(StatSpans)
    /\ \A span \in StatSpans :
          /\ {span.top, span.measured, span.error} \subseteq BOOLEAN
          /\ span.duration \in Nat
    /\ MaxIntervals \in Nat
    /\ GlobalBuffer \in BOOLEAN

VARIABLES
    finishedSpans, \* the spans that called onSpanFinished
    groups,        \* buckets: aggKey -> SpanAggStats
    sequence,      \* the sequence of the last payload
    sentStats,     \* the payloads sent
    droppedStats,  \* groups of the payloads discarded at the limit of requests
    dead           \* the timer's callback threw, and the process ended

statsVars == <<finishedSpans, groups, sequence, sentStats, droppedStats, dead>>

StatFields == {"hits", "topLevelHits", "errors", "duration"}
NoStats == [hits |-> 0, topLevelHits |-> 0, errors |-> 0, duration |-> 0]

One(condition) == IF condition THEN 1 ELSE 0

\* SpanAggStats.record.
Recorded(stats, span) ==
    [hits |-> stats.hits + 1,
     topLevelHits |-> stats.topLevelHits + One(span.top),
     errors |-> stats.errors + One(span.error),
     duration |-> stats.duration + span.duration]

\* forTime and forSpan make a group for a key they have not seen.
GroupFor(key) == IF key \in DOMAIN groups THEN groups[key] ELSE NoStats

IsCounted(span) == span.top \/ span.measured

StatsInit ==
    /\ finishedSpans = {}
    /\ groups = <<>>
    /\ sequence = 0
    /\ sentStats = <<>>
    /\ droppedStats = <<>>
    /\ dead = FALSE

OnSpanFinished(span) ==
    /\ ~dead
    /\ span \notin finishedSpans
    /\ finishedSpans' = finishedSpans \cup {span}
    /\ groups' = IF IsCounted(span)
                 THEN [key \in DOMAIN groups \cup {span.key} |->
                         IF key = span.key THEN Recorded(GroupFor(key), span) ELSE groups[key]]
                 ELSE groups
    /\ UNCHANGED <<sequence, sentStats, droppedStats, dead>>

\* onInterval: the buckets are serialized and cleared, and exported even when
\* there are none.  append and flush do nothing at the limit of requests; else
\* the payload is made, which throws without a global Buffer.
OnInterval(writable) ==
    /\ ~dead
    /\ sequence < MaxIntervals
    /\ groups' = <<>>
    /\ sequence' = sequence + 1
    /\ sentStats' = IF writable /\ GlobalBuffer
                    THEN Append(sentStats, [sequence |-> sequence + 1, groups |-> groups])
                    ELSE sentStats
    /\ droppedStats' = IF writable THEN droppedStats
                       ELSE Append(droppedStats, [sequence |-> sequence + 1, groups |-> groups])
    /\ dead' = (writable /\ ~GlobalBuffer)
    /\ UNCHANGED finishedSpans

StatsNext == (\E span \in StatSpans : OnSpanFinished(span)) \/ \E w \in BOOLEAN : OnInterval(w)

StatsSpec == StatsInit /\ [][StatsNext]_statsVars

-----------------------------------------------------------------------------
(* Properties.                                                             *)

Reports == {sentStats[k] : k \in DOMAIN sentStats}
           \cup {droppedStats[k] : k \in DOMAIN droppedStats}

\* What has been counted under a key in the reports, one by one.
CountedUnits(key, field) ==
    UNION {{r} \X (1 .. r.groups[key][field]) : r \in {r \in Reports : key \in DOMAIN r.groups}}

\* What a span counts for.
Weight(span, field) ==
    CASE field = "hits" -> 1
      [] field = "topLevelHits" -> One(span.top)
      [] field = "errors" -> One(span.error)
      [] field = "duration" -> span.duration

\* What the finished spans of a key count for, one by one.
SpanUnits(key, field) ==
    UNION {{span} \X (1 .. Weight(span, field)) :
              span \in {span \in finishedSpans : IsCounted(span) /\ span.key = key}}

\* Every span is counted once, in what waits, in what was sent or in what was
\* discarded at the limit of requests, and each report has a number of its own:
\* an interval neither sends a bucket again nor loses a span that finishes
\* between two of them (_serializeBuckets, the sequence of onInterval).
StatsOnce ==
    ~dead =>
        /\ \A key \in {span.key : span \in StatSpans}, field \in StatFields :
              Cardinality(CountedUnits(key, field)) + GroupFor(key)[field]
              = Cardinality(SpanUnits(key, field))
        /\ {r.sequence : r \in Reports} = 1 .. sequence
        /\ Cardinality(Reports) = sequence
=============================================================================
