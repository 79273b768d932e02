----------------------------- MODULE SpanProcessor -----------------------------
(***************************************************************************)
(* The life of spans inside one process: the tracer starts them, the       *)
(* application tags and finishes them, and every finish() runs             *)
(* SpanProcessor.process, which decides the sampling priority of the trace *)
(* and hands the finished part of the trace to the exporter.               *)
(*                                                                         *)
(* A trace is the object the spans of one local root share by reference    *)
(* (SpanContext._trace and SpanContext._sampling).  JavaScript runs        *)
(* startSpan, addTags, finish and inject to completion, so each is one     *)
(* action; the interleaving is that of the calls of concurrent requests.   *)
(*                                                                         *)
(* Spans are numbered in the order they are started.  trace.started is     *)
(* only ever pushed to and filtered, so a set of those numbers is the      *)
(* array and its minimum is started[0].                                    *)
(***************************************************************************)
EXTENDS Integers, FiniteSets, Sequences, FiniteSetsExt

CONSTANTS
    MaxSpans,          \* bound: spans started in a behaviour
    MaxTraces,         \* bound: trace objects made in a behaviour
    FlushMinSpans,     \* config.flushMinSpans
    RemotePriorities,  \* what an incoming carrier can say of the priority
    TagSets,           \* the sets of sampling tags one addTags call can carry
    RateSources,       \* whose rates the sampler of a service can come from
    TraceRules,        \* config.sampler has rules or a sample rate
    SpanRules          \* config.sampler has single-span rules

ASSUME BoundAssumption == MaxSpans \in Nat /\ MaxTraces \in Nat

\* A threshold of zero would flush on every finish, as a threshold of one does.
ASSUME FlushMinAssumption == FlushMinSpans \in Nat \ {0}

ASSUME InputAssumption ==
    /\ RemotePriorities \subseteq Int
    /\ TagSets \subseteq SUBSET {"keep", "drop"}
    /\ RateSources \subseteq {"default", "agent"}
    /\ TraceRules \in BOOLEAN /\ SpanRules \in BOOLEAN

-----------------------------------------------------------------------------
(* Sampling priorities, and `undefined`, which is below every priority so  *)
(* that comparing it with >= gives false as it does in the code.           *)
UserReject == -1
AutoReject == 0
AutoKeep == 1
UserKeep == 2
NoPriority == -9

Mechanisms == {"none", "default", "agent", "rule", "manual"}

Ids == 1..MaxSpans
TraceIds == 1..MaxTraces

Decisions == [priority : Int,
              mechanism : Mechanisms,
              dm : Mechanisms \cup {"remote"}]

Chunks == [spans : SUBSET Ids,
           tagged : 0..MaxSpans,
           top : 0..MaxSpans,
           priority : Int,
           dm : Mechanisms \cup {"remote"}]

VARIABLES
    spans,       \* how many spans have been started
    traces,      \* how many trace objects exist
    home,        \* span -> its trace (0 before it is started)
    parented,    \* the spans whose _parentId is set
    manual,      \* span -> sampling tags in context._tags
    ended,       \* the spans with a _duration
    singled,     \* the spans with a _spanSampling
    started,     \* trace -> trace.started
    finished,    \* trace -> trace.finished
    decision,    \* trace -> _sampling.priority, _sampling.mechanism, tags._dd.p.dm
    recording,   \* the traces whose isRecording is not false
    origin,      \* trace -> made here, extracted, or extracted without a span id
    agentRates,  \* which sampler _getPriorityByAgent finds: built in or the agent's
    killAll,     \* SpanProcessor._killAll
    killing,     \* spans the kill loop in progress still has to finish
    chunks,      \* trace -> what exporter.export was called with, in order
    counted,     \* span -> how often the stats processor saw it
    carriers     \* trace -> priorities written to outgoing carriers

spanVars == <<spans, home, parented>>
traceVars == <<traces, recording, origin>>
outVars == <<chunks, counted, singled>>
killVars == <<killAll, killing>>
vars == <<spans, traces, home, parented, manual, ended, singled, started,
          finished, decision, recording, origin, agentRates, killAll, killing,
          chunks, counted, carriers>>

Started == 1..spans
Traces == 1..traces
SpansOf(t) == {s \in Started : home[s] = t}

Undecided == [priority |-> NoPriority, mechanism |-> "none", dm |-> "none"]

Init ==
    /\ spans = 0
    /\ traces = 0
    /\ home = [s \in Ids |-> 0]
    /\ parented = {}
    /\ manual = [s \in Ids |-> {}]
    /\ ended = {}
    /\ singled = {}
    /\ started = [t \in TraceIds |-> {}]
    /\ finished = [t \in TraceIds |-> {}]
    /\ decision = [t \in TraceIds |-> Undecided]
    /\ recording = TraceIds
    /\ origin = [t \in TraceIds |-> "local"]
    /\ agentRates = "default"
    /\ killAll = FALSE
    /\ killing = {}
    /\ chunks = [t \in TraceIds |-> <<>>]
    /\ counted = [s \in Ids |-> 0]
    /\ carriers = [t \in TraceIds |-> {}]

-----------------------------------------------------------------------------
(* PrioritySampler                                                         *)

\* _getPriorityFromTags: a keep tag wins over a drop tag.
ManualPriority(tags) == IF "keep" \in tags THEN UserKeep ELSE UserReject

\* _getPriorityFromAuto: a matching rule decides as the user, and its sampler
\* or its rate limiter may refuse; without one the sampler for the service
\* does, and the built-in one has rate 1.
AutoOutcomes ==
    [priority : IF TraceRules THEN {UserKeep, UserReject} ELSE {}, mechanism : {"rule"}]
    \cup IF agentRates = "default"
         THEN [priority : {AutoKeep}, mechanism : {"default"}]
         ELSE [priority : {AutoKeep, AutoReject}, mechanism : {"agent"}]

\* A variant of Decide: a rejected trace keeps the decision maker of its carrier.
DecideKeepMaker(old, choice) ==
    [priority |-> choice.priority,
     mechanism |-> choice.mechanism,
     dm |-> IF old.dm = "none" /\ choice.priority >= AutoKeep THEN choice.mechanism ELSE old.dm]

\* The assignment of a decision followed by _addDecisionMaker.
Decide(old, choice) ==
    [priority |-> choice.priority,
     mechanism |-> choice.mechanism,
     dm |-> IF choice.priority < AutoKeep THEN "none"
            ELSE IF old.dm = "none" THEN choice.mechanism
            ELSE old.dm]

\* A variant of SampleOutcomes: an automatic decision may be taken again.
ResampleOutcomes(t, startedNow, tags, auto) ==
    IF auto /\ startedNow # {} THEN {Decide(decision[t], a) : a \in AutoOutcomes}
    ELSE {decision[t]}

\* sample(span, auto): what the decision of a trace can be afterwards, given
\* trace.started at the time and the tags of the span it is called with.
SampleOutcomes(t, startedNow, tags, auto) ==
    LET old == decision[t]
    IN CASE old.priority # NoPriority \/ startedNow = {} -> {old}
         [] OTHER ->
              IF tags # {}
              THEN {Decide(old, [priority |-> ManualPriority(tags),
                                 mechanism |-> "manual"])}
              ELSE IF auto THEN {Decide(old, a) : a \in AutoOutcomes}
              ELSE {old}

\* A variant of Kept: only the user's decision keeps a trace.
KeptByUser(priority) == priority = UserKeep

Kept(priority) == priority \in {AutoKeep, UserKeep}

-----------------------------------------------------------------------------
(* Tracer and Span                                                         *)

\* The kill loop runs inside one call of finish(): nothing else runs then.
Idle == killing = {}

\* new Span followed by addTags(options.tags): the span is pushed on
\* trace.started, and then its own tags may decide the trace.
OpenSpan(t, tags) ==
    LET s == spans + 1
    IN /\ spans < MaxSpans
       /\ spans' = s
       /\ home' = [home EXCEPT ![s] = t]
       /\ manual' = [manual EXCEPT ![s] = tags]
       /\ started' = [started EXCEPT ![t] = @ \cup {s}]
       /\ \E d \in SampleOutcomes(t, started[t] \cup {s}, tags, FALSE) :
             decision' = [decision EXCEPT ![t] = d]
       /\ UNCHANGED <<ended, finished, agentRates, killVars, outVars, carriers>>

\* startSpan without a parent: a new trace.
StartRoot(tags) ==
    /\ Idle
    /\ traces < MaxTraces
    /\ traces' = traces + 1
    /\ OpenSpan(traces + 1, tags)
    /\ UNCHANGED <<parented, recording, origin>>

\* startSpan as a child of a span of the trace, finished or not.
StartChild(t, tags) ==
    /\ Idle
    /\ t \in Traces
    /\ SpansOf(t) # {}
    /\ OpenSpan(t, tags)
    /\ parented' = parented \cup {spans + 1}
    /\ UNCHANGED traceVars

\* startSpan as a child of an extracted context, whose span id may be null.
StartFromRemote(t, tags) ==
    /\ Idle
    /\ t \in Traces
    /\ origin[t] # "local"
    /\ OpenSpan(t, tags)
    /\ parented' = IF origin[t] = "remote" THEN parented \cup {spans + 1} ELSE parented
    /\ UNCHANGED traceVars

\* extract: a trace object that has no span yet, with what the carrier says.
\* Only the B3 style makes a context without ids, and only with a priority.
Extract(priority, dm, from) ==
    /\ Idle
    /\ traces < MaxTraces
    /\ from = "idless" => priority # NoPriority /\ dm = "none"
    /\ traces' = traces + 1
    /\ decision' = [decision EXCEPT ![traces + 1] =
                      [priority |-> priority, mechanism |-> "none", dm |-> dm]]
    /\ origin' = [origin EXCEPT ![traces + 1] = from]
    /\ UNCHANGED <<spanVars, manual, ended, started, finished, recording,
                   agentRates, killVars, outVars, carriers>>

\* setTag, addTags: also possible on a span that has ended.
AddTags(s, tags) ==
    /\ Idle
    /\ s \in Started
    /\ tags # {}
    /\ manual' = [manual EXCEPT ![s] = @ \cup tags]
    /\ \E d \in SampleOutcomes(home[s], started[home[s]], manual[s] \cup tags, FALSE) :
          decision' = [decision EXCEPT ![home[s]] = d]
    /\ UNCHANGED <<spanVars, traceVars, ended, started, finished, agentRates,
                   killVars, outVars, carriers>>

\* web.setConfig for a request its filter rejects.
FilterOut(s) ==
    /\ Idle
    /\ s \in Started \ ended
    /\ manual' = [manual EXCEPT ![s] = @ \cup {"drop"}]
    /\ \E d \in SampleOutcomes(home[s], started[home[s]], manual[s] \cup {"drop"}, FALSE) :
          decision' = [decision EXCEPT ![home[s]] = d]
    /\ recording' = recording \ {home[s]}
    /\ UNCHANGED <<spanVars, traces, origin, ended, started, finished, agentRates,
                   killVars, outVars, carriers>>

\* tracer.inject with the context of a span, or with an extracted one, which
\* has no tags: decides if nothing has, then writes the priority if there is one.
InjectWith(t, tags) ==
    /\ Idle
    /\ \E d \in SampleOutcomes(t, started[t], tags, TRUE) :
          /\ decision' = [decision EXCEPT ![t] = d]
          /\ carriers' = [carriers EXCEPT ![t] =
                            IF d.priority = NoPriority THEN @ ELSE @ \cup {d.priority}]
    /\ UNCHANGED <<spanVars, traceVars, manual, ended, started, finished,
                   agentRates, killVars, outVars>>

InjectSpan(s) == s \in Started /\ InjectWith(home[s], manual[s])

\* An extracted context without a span id is decided, and writing its ids
\* fails before its priority is written: nothing changes.
InjectRemote(t) == t \in Traces /\ origin[t] = "remote" /\ InjectWith(t, {})

\* PrioritySampler.update with the rates of an agent response: an answer
\* without rates puts the built-in sampler back.
UpdateRates(rates) ==
    /\ Idle
    /\ agentRates' = rates
    /\ UNCHANGED <<spanVars, traceVars, manual, ended, started, finished,
                   decision, killVars, outVars, carriers>>

-----------------------------------------------------------------------------
(* SpanProcessor                                                           *)

\* A variant of ShouldFlush: the threshold is not looked at.
ShouldFlushComplete(t, fin) == Cardinality(started[t]) = Cardinality(fin)

\* The condition under which process() exports: the trace is complete, or
\* enough of it has finished.
ShouldFlush(t, fin) ==
    \/ Cardinality(started[t]) = Cardinality(fin)
    \/ Cardinality(fin) >= FlushMinSpans

\* A variant of ChunkOf: the trace's tags only on a root span.
ChunkTaggedIfRoot(t, out, d) ==
    LET root == IF Min(started[t]) \in out \ parented THEN Min(started[t]) ELSE 0
    IN [spans |-> out, tagged |-> root, top |-> root, priority |-> d.priority, dm |-> d.dm]

\* The chunk exported when the spans `out` of trace.started have ended.  The
\* trace's tags go on started[0] if it is among them; so do the root tags,
\* if it has no parent.
ChunkOf(t, out, d) ==
    LET first == Min(started[t])
    IN [spans |-> out,
        tagged |-> IF first \in out THEN first ELSE 0,
        top |-> IF first \in out \ parented THEN first ELSE 0,
        priority |-> d.priority,
        dm |-> d.dm]

\* Variants of Remaining: everything or nothing is erased.
RemainingNone(t, now) == {}
RemainingAll(t, now) == started[t]

\* _erase keeps the spans that have no duration.
Remaining(t, now) == started[t] \ now

IsExported(t, out) == out # {} /\ t \in recording

\* sample, spanSampler.sample, format of the ended spans with the statistics
\* they feed, export and _erase.  A rejected trace offers every span still in
\* trace.started to the single-span rules, `picked` being those they take.
Flush(t, s, now) ==
    LET out == started[t] \cap now
    IN /\ \E d \in SampleOutcomes(t, started[t], manual[s], TRUE) :
             /\ decision' = [decision EXCEPT ![t] = d]
             /\ \E picked \in SUBSET started[t] :
                   /\ picked # {} => SpanRules /\ ~Kept(d.priority)
                   /\ singled' = singled \cup picked
             /\ chunks' = IF IsExported(t, out)
                          THEN [chunks EXCEPT ![t] = Append(@, ChunkOf(t, out, d))]
                          ELSE chunks
       /\ counted' = [x \in Ids |-> IF x \in out THEN counted[x] + 1 ELSE counted[x]]
       /\ started' = [started EXCEPT ![t] = Remaining(t, now)]
       /\ finished' = [finished EXCEPT ![t] = {}]

\* finish(), which returns at once for a span that has a duration.  Under
\* killAll the loop that follows finishes what trace.started held, first to
\* last; each of those calls runs the same loop, so it is done when none is left.
Finish(s) ==
    LET t == home[s]
        now == ended \cup {s}
        fin == finished[t] \cup {s}
    IN /\ s \in Started \ ended
       /\ ~Idle => s = Min(killing)
       /\ ended' = now
       /\ IF ShouldFlush(t, fin)
          THEN Flush(t, s, now)
          ELSE /\ finished' = [finished EXCEPT ![t] = fin]
               /\ UNCHANGED <<started, decision, outVars>>
       /\ killing' = IF killAll THEN started[t] \ now ELSE {}
       /\ UNCHANGED <<spanVars, traceVars, manual, agentRates, killAll, carriers>>

KillAll ==
    /\ Idle
    /\ killAll' = TRUE
    /\ UNCHANGED <<spanVars, traceVars, manual, ended, started, finished,
                   decision, agentRates, killing, outVars, carriers>>

Next ==
    \/ \E tags \in TagSets : StartRoot(tags)
    \/ \E t \in TraceIds, tags \in TagSets : StartChild(t, tags)
    \/ \E t \in TraceIds, tags \in TagSets : StartFromRemote(t, tags)
    \/ \E p \in RemotePriorities, dm \in {"none", "remote"}, from \in {"remote", "idless"} :
          Extract(p, dm, from)
    \/ \E s \in Ids, tags \in TagSets : AddTags(s, tags)
    \/ \E s \in Ids : FilterOut(s)
    \/ \E s \in Ids : InjectSpan(s)
    \/ \E t \in TraceIds : InjectRemote(t)
    \/ \E rates \in RateSources : UpdateRates(rates)
    \/ \E s \in Ids : Finish(s)
    \/ KillAll

Spec == Init /\ [][Next]_vars

\* The application goes on finishing spans as long as some are open.
FairSpec == Spec /\ WF_vars(\E s \in Ids : Finish(s))

-----------------------------------------------------------------------------
(* What the design promises                                                *)

\* Every variable stays in its type; in particular numbers of spans and traces
\* in the code's arrays stay those of objects that exist.
TypeOK ==
    /\ spans \in 0..MaxSpans
    /\ traces \in 0..MaxTraces
    /\ home \in [Ids -> 0..MaxTraces]
    /\ parented \subseteq Ids
    /\ manual \in [Ids -> SUBSET {"keep", "drop"}]
    /\ ended \subseteq Ids
    /\ singled \subseteq Ids
    /\ started \in [TraceIds -> SUBSET Ids]
    /\ finished \in [TraceIds -> SUBSET Ids]
    /\ decision \in [TraceIds -> Decisions]
    /\ recording \subseteq TraceIds
    /\ origin \in [TraceIds -> {"local", "remote", "idless"}]
    /\ agentRates \in {"default", "agent"}
    /\ killAll \in BOOLEAN
    /\ killing \subseteq Ids
    /\ chunks \in [TraceIds -> Seq(Chunks)]
    /\ counted \in [Ids -> Nat]
    /\ carriers \in [TraceIds -> SUBSET Int]

Reported(s) == \E i \in DOMAIN chunks[home[s]] : s \in chunks[home[s]][i].spans

\* Partial flushes lose nothing: a span that has ended still waits in
\* trace.finished or has been counted by the statistics and, unless its trace
\* was filtered out, exported (process and _erase).
NoSpanLost ==
    \A s \in ended :
        \/ s \in finished[home[s]]
        \/ /\ counted[s] = 1
           /\ home[s] \in recording => Reported(s)

\* Partial flushes repeat nothing and export nothing unfinished: two chunks
\* of a trace are disjoint, and what is in a chunk, or was counted, has ended
\* and left trace.started for good.
NoSpanTwice ==
    /\ \A t \in TraceIds : \A i, j \in DOMAIN chunks[t] :
          i # j => chunks[t][i].spans \cap chunks[t][j].spans = {}
    /\ \A t \in TraceIds : \A i \in DOMAIN chunks[t] : \A s \in chunks[t][i].spans :
          home[s] = t /\ s \in ended \ started[t]
    /\ \A s \in Ids : counted[s] = IF s \in ended /\ s \notin started[home[s]] THEN 1 ELSE 0

\* Between calls a trace holds fewer finished spans than the threshold, and
\* none at all once its last open span has finished, whatever the order in
\* which the spans of several requests finish (the condition in process).
NothingStranded ==
    \A t \in Traces : /\ Cardinality(finished[t]) < FlushMinSpans
                      /\ started[t] = finished[t] => started[t] = {}

\* All that leaves the process about a trace tells one story: every chunk of
\* it, early or late, and every carrier written for it agree on the priority,
\* and every chunk on the decision maker; and there is a priority to tell.
OneDecision ==
    \A t \in TraceIds :
        /\ carriers[t] \subseteq {decision[t].priority} \ {NoPriority}
        /\ \A i \in DOMAIN chunks[t] :
              /\ chunks[t][i].priority = decision[t].priority
              /\ chunks[t][i].priority # NoPriority
              /\ chunks[t][i].dm = decision[t].dm

\* A trace this process decided names a decision maker exactly when it is
\* kept, also when the carrier it came from named one without a priority
\* (_addDecisionMaker).
DecisionMakerIfKept ==
    \A t \in Traces :
        decision[t].mechanism # "none" =>
            (decision[t].dm # "none" <=> decision[t].priority >= AutoKeep)

\* The trace's own tags reach the agent: a chunk that lacks them leaves an
\* older span of the trace open, so when nothing is open any more the last
\* chunk has them, and no span has them twice (extractChunkTags).
TraceTagsReported ==
    \A t \in Traces : t \in recording /\ chunks[t] # <<>> =>
        LET n == Len(chunks[t])
        IN /\ started[t] = {} => chunks[t][n].tagged # 0
           /\ \A i \in 1..n : \/ chunks[t][i].tagged = Min(chunks[t][i].spans)
                              \/ /\ chunks[t][i].tagged = 0
                                 /\ \/ \E s \in started[t] : s < Min(chunks[t][i].spans)
                                    \/ \E j \in (i + 1)..n : chunks[t][j].tagged # 0

\* The sampling rates and the top-level mark, which only a span without a
\* parent carries, are reported with the first span of its trace even when
\* that span is the last of many to be exported (extractRootTags).
RootTagsReported ==
    \A t \in Traces : \A i \in DOMAIN chunks[t] :
        LET first == Min(SpansOf(t))
        IN first \in chunks[t][i].spans /\ first \notin parented => chunks[t][i].top = first

\* Neither kind of tags is lost to partial flushes, whichever span leaves first.
TagsReported == TraceTagsReported /\ RootTagsReported

\* Single-span sampling marks are only put on spans of a trace that is
\* dropped: a span of a kept trace is never also reported as sampled alone.
SingledOnlyIfRejected ==
    \A s \in singled : decision[home[s]].priority \notin {AutoKeep, UserKeep, NoPriority}

\* The abstract state: a span that is no longer in trace.finished has been
\* reported if some chunk has it, and muted otherwise.
Progress(s) ==
    CASE s \notin Started -> "unborn"
      [] s \in Started \ ended -> "open"
      [] s \in ended /\ s \in finished[home[s]] -> "ended"
      [] OTHER -> IF Reported(s) THEN "reported" ELSE "muted"

Reporting == INSTANCE TraceReporting WITH
    Verdicts <- Int \ {NoPriority},
    Pending <- NoPriority,
    state <- [s \in Ids |-> Progress(s)],
    trace <- home,
    verdict <- [t \in TraceIds |-> decision[t].priority]

\* The processor reports spans the way TraceReporting promises: once each,
\* after they have ended, under one verdict given before.
ReportsAsPromised == Reporting!Spec

\* As long as the application goes on finishing spans while some are open, the
\* finished spans of every trace leave the process's memory, those that wait for
\* a partial flush included: again and again it holds only open ones (process
\* and _erase).
EndedIsErased ==
    \A t \in TraceIds : []<>(started[t] \cap ended = {})
=============================================================================
