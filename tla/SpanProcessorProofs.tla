-------------------------- MODULE SpanProcessorProofs --------------------------
(***************************************************************************)
(* Proofs, for any number of spans and traces and any flush threshold,     *)
(* that SpanProcessor keeps its types and its invariants, and implements   *)
(* TraceReporting.                                                         *)
(***************************************************************************)
EXTENDS SpanProcessor, Loops, FiniteSetTheorems, TLAPS

\* What sample() may do to a trace: leave it alone, as it must when it is
\* decided, or give it a priority and a decision maker that fit together.
LEMMA SampleFacts ==
    ASSUME TypeOK, NEW t \in TraceIds, NEW startedNow, NEW tags, NEW auto \in BOOLEAN,
           NEW d \in SampleOutcomes(t, startedNow, tags, auto)
    PROVE  /\ d \in Decisions
           /\ decision[t].priority # NoPriority => d = decision[t]
           /\ auto /\ startedNow # {} => d.priority # NoPriority
           /\ \/ d = decision[t]
              \/ /\ d.mechanism # "none"
                 /\ d.dm # "none" <=> d.priority >= AutoKeep
<1> DEFINE old == decision[t]
<1>1. old \in Decisions
  BY DEF TypeOK
<1>2. ASSUME NEW p \in {UserReject, AutoReject, AutoKeep, UserKeep},
             NEW m \in Mechanisms \ {"none"},
             d = Decide(old, [priority |-> p, mechanism |-> m])
      PROVE  /\ d \in Decisions
             /\ d.priority # NoPriority
             /\ d.mechanism # "none"
             /\ d.dm # "none" <=> d.priority >= AutoKeep
  BY <1>1, <1>2 DEF Decide, Decisions, Mechanisms, UserReject, AutoReject, AutoKeep, UserKeep, NoPriority
<1>3. CASE old.priority # NoPriority \/ startedNow = {}
  <2>1. d = old
    BY <1>3 DEF SampleOutcomes
  <2> QED  BY <1>1, <1>3, <2>1
<1>4. CASE old.priority = NoPriority /\ startedNow # {}
  <2>1. CASE tags # {}
    <3>1. d = Decide(old, [priority |-> ManualPriority(tags), mechanism |-> "manual"])
      BY <1>4, <2>1 DEF SampleOutcomes
    <3>2. ManualPriority(tags) \in {UserReject, AutoReject, AutoKeep, UserKeep}
      BY DEF ManualPriority
    <3>3. "manual" \in Mechanisms \ {"none"}
      BY DEF Mechanisms
    <3> QED  BY <1>2, <1>4, <3>1, <3>2, <3>3
  <2>2. CASE tags = {} /\ auto
    <3>1. PICK a \in AutoOutcomes : d = Decide(old, a)
      BY <1>4, <2>2 DEF SampleOutcomes
    <3>2. /\ a.priority \in {UserReject, AutoReject, AutoKeep, UserKeep}
          /\ a.mechanism \in Mechanisms \ {"none"}
          /\ a = [priority |-> a.priority, mechanism |-> a.mechanism]
      BY DEF AutoOutcomes, Mechanisms
    <3> QED  BY <1>2, <1>4, <3>1, <3>2
  <2>3. CASE tags = {} /\ ~auto
    <3>1. d = old
      BY <1>4, <2>3 DEF SampleOutcomes
    <3> QED  BY <1>1, <1>4, <2>3, <3>1
  <2> QED  BY <2>1, <2>2, <2>3
<1> QED  BY <1>3, <1>4

-----------------------------------------------------------------------------

\* A span that exists belongs to a trace that exists.
HomeOK == \A s \in Started : home[s] \in Traces

Typed == TypeOK /\ HomeOK

\* Init is well typed, and gives every unstarted span the home 0.
LEMMA TypedInit == Init => Typed
<1> SUFFICES ASSUME Init PROVE Typed
  OBVIOUS
<1> USE BoundAssumption DEF BoundAssumption, Init, Ids, TraceIds
<1>1. Undecided \in Decisions
  BY DEF Undecided, Decisions, Mechanisms, NoPriority
<1>2. chunks \in [TraceIds -> Seq(Chunks)]
  OBVIOUS
<1>3. Started = {}
  BY DEF Started
<1>4. decision \in [TraceIds -> Decisions]
  BY <1>1
<1>5. TypeOK
  <2>1. spans \in 0..MaxSpans
    OBVIOUS
  <2>2. traces \in 0..MaxTraces /\ home \in [Ids -> 0..MaxTraces]
    OBVIOUS
  <2>3. manual \in [Ids -> SUBSET {"keep", "drop"}]
    OBVIOUS
  <2>4. parented \subseteq Ids /\ ended \subseteq Ids /\ singled \subseteq Ids /\ killing \subseteq Ids
    OBVIOUS
  <2>5. started \in [TraceIds -> SUBSET Ids] /\ finished \in [TraceIds -> SUBSET Ids]
    OBVIOUS
  <2>6. origin \in [TraceIds -> {"local", "remote", "idless"}] /\ agentRates \in {"default", "agent"}
    OBVIOUS
  <2>7. killAll \in BOOLEAN /\ recording \subseteq TraceIds
    OBVIOUS
  <2>8. counted \in [Ids -> Nat] /\ carriers \in [TraceIds -> SUBSET Int]
    OBVIOUS
  <2> QED  BY <1>2, <1>4, <2>1, <2>2, <2>3, <2>4, <2>5, <2>6, <2>7, <2>8 DEF TypeOK
<1> QED  BY <1>3, <1>5 DEF Typed, HomeOK

\* The part startSpan's three forms share.
LEMMA OpenSpanTyped ==
    ASSUME Typed, NEW t \in TraceIds, NEW tags \in TagSets, OpenSpan(t, tags),
           t \in 1..traces', traces' \in traces..MaxTraces, parented' \subseteq Ids,
           recording' = recording, origin' = origin
    PROVE  Typed'
<1> USE BoundAssumption, InputAssumption DEF BoundAssumption, InputAssumption, Typed, TraceIds, Ids
<1>1. /\ spans \in Nat /\ spans + 1 \in Ids /\ spans' = spans + 1 /\ spans' \in 0..MaxSpans
      /\ home' = [home EXCEPT ![spans + 1] = t]
      /\ manual' = [manual EXCEPT ![spans + 1] = tags]
      /\ started' = [started EXCEPT ![t] = started[t] \cup {spans + 1}]
  BY DEF OpenSpan, TypeOK
<1>2. /\ traces \in Nat /\ traces' \in Nat /\ traces <= traces' /\ traces' <= MaxTraces
      /\ t \in 0..MaxTraces
  BY DEF TypeOK
<1>3. home' \in [Ids -> 0..MaxTraces]
  <2>1. home \in [Ids -> 0..MaxTraces]
    BY DEF TypeOK
  <2>2. spans + 1 \in Ids /\ t \in 0..MaxTraces /\ home' = [home EXCEPT ![spans + 1] = t]
    BY <1>1, <1>2
  <2> HIDE DEF Ids
  <2> QED  BY <2>1, <2>2
<1>4. manual' \in [Ids -> SUBSET {"keep", "drop"}]
  BY <1>1 DEF TypeOK
<1>5. started' \in [TraceIds -> SUBSET Ids]
  BY <1>1 DEF TypeOK
<1>6. decision' \in [TraceIds -> Decisions]
  <2>1. PICK d \in SampleOutcomes(t, started[t] \cup {spans + 1}, tags, FALSE) :
           decision' = [decision EXCEPT ![t] = d]
    BY DEF OpenSpan
  <2>2. d \in Decisions
    BY <2>1, SampleFacts
  <2> QED  BY <2>1, <2>2 DEF TypeOK
<1>7. HomeOK'
  <2>1. \A s \in 1..spans : s \in Ids /\ home[s] \in 1..traces
    BY <1>1 DEF HomeOK, Started, Traces
  <2>2. ASSUME NEW s \in 1..(spans + 1) PROVE home'[s] \in 1..traces'
    <3>1. CASE s = spans + 1
      BY <1>1, <3>1 DEF TypeOK
    <3>2. CASE s # spans + 1
      <4>1. s \in 1..spans
        BY <1>1, <3>2
      <4>2. home'[s] = home[s]
        BY <1>1, <2>1, <4>1 DEF TypeOK
      <4> QED  BY <1>2, <2>1, <4>1, <4>2
    <3> QED  BY <3>1, <3>2
  <2> QED  BY <1>1, <1>2, <2>2 DEF HomeOK, Started, Traces
<1>8. UNCHANGED <<ended, finished, agentRates, killAll, killing, chunks, counted, singled, carriers>>
  BY DEF OpenSpan, killVars, outVars
<1>9. traces' \in 0..MaxTraces /\ recording' \subseteq TraceIds /\ parented' \subseteq Ids
  BY <1>2 DEF TypeOK
<1>10. TypeOK'
  BY <1>1, <1>3, <1>4, <1>5, <1>6, <1>8, <1>9 DEF TypeOK
<1> QED  BY <1>7, <1>10

\* Every action of the tracer keeps the arrays, records and homes well typed.
LEMMA TypedStep == Typed /\ [Next]_vars => Typed'
<1> SUFFICES ASSUME Typed, [Next]_vars PROVE Typed'
  OBVIOUS
<1> USE BoundAssumption, InputAssumption DEF BoundAssumption, InputAssumption, Ids, TraceIds
<1>0. \A s \in Started : s \in Ids /\ home[s] \in TraceIds
  BY DEF Typed, TypeOK, HomeOK, Started, Traces
<1>1. ASSUME NEW tags \in TagSets, StartRoot(tags) PROVE Typed'
  <2>1. traces + 1 \in TraceIds /\ traces' = traces + 1 /\ traces' \in traces..MaxTraces
    BY <1>1 DEF StartRoot, Typed, TypeOK
  <2>2. traces + 1 \in 1..traces' /\ parented' \subseteq Ids
    BY <1>1, <2>1 DEF StartRoot, Typed, TypeOK
  <2> QED  BY <1>1, <2>1, <2>2, OpenSpanTyped DEF StartRoot
<1>2. ASSUME NEW t \in TraceIds, NEW tags \in TagSets, StartChild(t, tags) PROVE Typed'
  <2>1. traces' \in traces..MaxTraces /\ t \in 1..traces'
    BY <1>2 DEF StartChild, Typed, TypeOK, traceVars, Traces
  <2>2. parented' \subseteq Ids
    BY <1>2 DEF StartChild, OpenSpan, Typed, TypeOK
  <2> QED  BY <1>2, <2>1, <2>2, OpenSpanTyped DEF StartChild, traceVars
<1>3. ASSUME NEW t \in TraceIds, NEW tags \in TagSets, StartFromRemote(t, tags) PROVE Typed'
  <2>1. traces' \in traces..MaxTraces /\ t \in 1..traces'
    BY <1>3 DEF StartFromRemote, Typed, TypeOK, traceVars, Traces
  <2>2. parented' \subseteq Ids
    BY <1>3 DEF StartFromRemote, OpenSpan, Typed, TypeOK
  <2> QED  BY <1>3, <2>1, <2>2, OpenSpanTyped DEF StartFromRemote, traceVars
<1>4. ASSUME NEW p \in RemotePriorities, NEW dm \in {"none", "remote"},
             NEW from \in {"remote", "idless"}, Extract(p, dm, from)
      PROVE Typed'
  <2>1. traces + 1 \in TraceIds /\ traces' \in 0..MaxTraces /\ Traces \subseteq Traces'
    BY <1>4 DEF Extract, Typed, TypeOK, Traces
  <2>2. [priority |-> p, mechanism |-> "none", dm |-> dm] \in Decisions
    BY DEF Decisions, Mechanisms
  <2>3. decision' \in [TraceIds -> Decisions] /\ origin' \in [TraceIds -> {"local", "remote", "idless"}]
    BY <1>4, <2>1, <2>2 DEF Extract, Typed, TypeOK
  <2>4. HomeOK'
    BY <1>4, <2>1 DEF Extract, Typed, HomeOK, Started, spanVars
  <2> QED  BY <1>4, <2>1, <2>3, <2>4 DEF Extract, Typed, TypeOK, spanVars, killVars, outVars
<1>5. ASSUME NEW s \in Ids, NEW tags \in TagSets, AddTags(s, tags) PROVE Typed'
  <2>1. home[s] \in TraceIds /\ s \in Started
    BY <1>0, <1>5 DEF AddTags
  <2>2. PICK d \in SampleOutcomes(home[s], started[home[s]], manual[s] \cup tags, FALSE) :
           decision' = [decision EXCEPT ![home[s]] = d]
    BY <1>5 DEF AddTags
  <2>3. d \in Decisions
    BY <2>1, <2>2, SampleFacts DEF Typed
  <2>4. decision' \in [TraceIds -> Decisions]
    BY <2>1, <2>2, <2>3 DEF Typed, TypeOK
  <2> QED  BY <1>5, <2>1, <2>4 DEF AddTags, Typed, TypeOK, HomeOK, Started, Traces, spanVars, traceVars, killVars, outVars
<1>6. ASSUME NEW s \in Ids, FilterOut(s) PROVE Typed'
  <2>1. home[s] \in TraceIds /\ s \in Started
    BY <1>0, <1>6 DEF FilterOut
  <2>2. PICK d \in SampleOutcomes(home[s], started[home[s]], manual[s] \cup {"drop"}, FALSE) :
           decision' = [decision EXCEPT ![home[s]] = d]
    BY <1>6 DEF FilterOut
  <2>3. d \in Decisions
    BY <2>1, <2>2, SampleFacts DEF Typed
  <2>4. decision' \in [TraceIds -> Decisions]
    BY <2>1, <2>2, <2>3 DEF Typed, TypeOK
  <2> QED  BY <1>6, <2>1, <2>4 DEF FilterOut, Typed, TypeOK, HomeOK, Started, Traces, spanVars, killVars, outVars
<1>7. ASSUME NEW t \in TraceIds, NEW tags, InjectWith(t, tags) PROVE Typed'
  <2>1. PICK d \in SampleOutcomes(t, started[t], tags, TRUE) :
           /\ decision' = [decision EXCEPT ![t] = d]
           /\ carriers' = [carriers EXCEPT ![t] =
                            IF d.priority = NoPriority THEN @ ELSE @ \cup {d.priority}]
    BY <1>7 DEF InjectWith
  <2>2. d \in Decisions
    BY <2>1, SampleFacts DEF Typed
  <2>3. decision' \in [TraceIds -> Decisions] /\ carriers' \in [TraceIds -> SUBSET Int]
    BY <2>1, <2>2 DEF Typed, TypeOK, Decisions
  <2> QED  BY <1>7, <2>3 DEF InjectWith, Typed, TypeOK, HomeOK, Started, Traces, spanVars, traceVars, killVars, outVars
<1>8. ASSUME NEW rates \in RateSources, UpdateRates(rates) PROVE Typed'
  BY <1>8 DEF UpdateRates, Typed, TypeOK, HomeOK, Started, Traces, spanVars, traceVars, killVars, outVars
<1>9. ASSUME NEW s \in Ids, Finish(s) PROVE Typed'
  <2> DEFINE t == home[s]
             now == ended \cup {s}
             fin == finished[t] \cup {s}
  <2>1. t \in TraceIds /\ s \in Started \ ended
    BY <1>0, <1>9 DEF Finish
  <2>2. /\ ended' = now
        /\ killing' = IF killAll THEN started[t] \ now ELSE {}
        /\ UNCHANGED <<spans, home, parented, traces, recording, origin, manual,
                       agentRates, killAll, carriers>>
    BY <1>9 DEF Finish, spanVars, traceVars
  <2>3. ended' \subseteq Ids /\ killing' \subseteq Ids
    BY <2>1, <2>2 DEF Typed, TypeOK
  <2>4. HomeOK'
    BY <2>2 DEF Typed, HomeOK, Started, Traces
  <2>5. /\ started' \in [TraceIds -> SUBSET Ids]
        /\ finished' \in [TraceIds -> SUBSET Ids]
        /\ decision' \in [TraceIds -> Decisions]
        /\ singled' \subseteq Ids
        /\ chunks' \in [TraceIds -> Seq(Chunks)]
        /\ counted' \in [Ids -> Nat]
    <3>1. CASE ShouldFlush(t, fin)
      <4>1. Flush(t, s, now)
        BY <1>9, <3>1 DEF Finish
      <4> DEFINE out == started[t] \cap now
      <4>2. PICK d \in SampleOutcomes(t, started[t], manual[s], TRUE), picked \in SUBSET started[t] :
               /\ decision' = [decision EXCEPT ![t] = d]
               /\ singled' = singled \cup picked
               /\ chunks' = IF out # {} /\ t \in recording
                            THEN [chunks EXCEPT ![t] = Append(@, ChunkOf(t, out, d))]
                            ELSE chunks
        BY <4>1 DEF Flush, Remaining, IsExported
      <4>3. d \in Decisions
        BY <2>1, <4>2, SampleFacts DEF Typed
      <4>4. ChunkOf(t, out, d) \in Chunks
        BY <2>1, <4>3 DEF ChunkOf, Chunks, Decisions, Typed, TypeOK
      <4>5. chunks' \in [TraceIds -> Seq(Chunks)]
        <5>1. chunks \in [TraceIds -> Seq(Chunks)]
          BY DEF Typed, TypeOK
        <5>2. Append(chunks[t], ChunkOf(t, out, d)) \in Seq(Chunks)
          BY <2>1, <4>4, <5>1
        <5> QED  BY <2>1, <4>2, <5>1, <5>2
      <4>6. /\ counted' = [x \in Ids |-> IF x \in out THEN counted[x] + 1 ELSE counted[x]]
            /\ started' = [started EXCEPT ![t] = @ \ now]
            /\ finished' = [finished EXCEPT ![t] = {}]
        BY <4>1 DEF Flush, Remaining, IsExported
      <4>7. counted' \in [Ids -> Nat]
        BY <4>6 DEF Typed, TypeOK
      <4>8. started' \in [TraceIds -> SUBSET Ids] /\ finished' \in [TraceIds -> SUBSET Ids]
        BY <2>1, <4>6 DEF Typed, TypeOK
      <4>9. decision' \in [TraceIds -> Decisions]
        BY <2>1, <4>2, <4>3 DEF Typed, TypeOK
      <4>10. singled' \subseteq Ids
        BY <2>1, <4>2 DEF Typed, TypeOK
      <4> QED  BY <4>5, <4>7, <4>8, <4>9, <4>10
    <3>2. CASE ~ShouldFlush(t, fin)
      <4>1. finished' = [finished EXCEPT ![t] = fin] /\ UNCHANGED <<started, decision, chunks, counted, singled>>
        BY <1>9, <3>2 DEF Finish, outVars
      <4>2. finished' \in [TraceIds -> SUBSET Ids]
        BY <2>1, <4>1 DEF Typed, TypeOK
      <4> QED  BY <4>1, <4>2 DEF Typed, TypeOK
    <3> QED  BY <3>1, <3>2
  <2> QED  BY <2>2, <2>3, <2>4, <2>5 DEF Typed, TypeOK
<1>10. CASE KillAll
  BY <1>10 DEF KillAll, Typed, TypeOK, HomeOK, Started, Traces, spanVars, traceVars, outVars
<1>11. CASE UNCHANGED vars
  BY <1>11 DEF vars, Typed, TypeOK, HomeOK, Started, Traces
<1>12. ASSUME NEW s \in Ids, InjectSpan(s) PROVE Typed'
  BY <1>0, <1>7, <1>12 DEF InjectSpan
<1>13. ASSUME NEW t \in TraceIds, InjectRemote(t) PROVE Typed'
  BY <1>7, <1>13 DEF InjectRemote
<1> QED  BY <1>1, <1>2, <1>3, <1>4, <1>5, <1>6, <1>8, <1>9, <1>10, <1>11, <1>12, <1>13 DEF Next

-----------------------------------------------------------------------------
(* What a step does, by the kind of call it models.  The invariants below  *)
(* are proved from these effects, not from the eleven actions.             *)

\* A decision that sample() may leave on trace t.
SampleOK(t, d) ==
    /\ d \in Decisions
    /\ decision[t].priority # NoPriority => d = decision[t]
    /\ \/ d = decision[t]
       \/ d.mechanism # "none" /\ (d.dm # "none" <=> d.priority >= AutoKeep)

SpanState == <<spans, home, ended, started, finished, chunks, counted, singled>>

\* startSpan
Opens(t, d) ==
    /\ SampleOK(t, d)
    /\ spans + 1 \in Ids
    /\ spans' = spans + 1
    /\ home' = [home EXCEPT ![spans + 1] = t]
    /\ started' = [started EXCEPT ![t] = @ \cup {spans + 1}]
    /\ decision' = [decision EXCEPT ![t] = d]
    /\ traces' \in Nat /\ traces <= traces' /\ t <= traces'
    /\ UNCHANGED <<ended, finished, recording, chunks, counted, singled, carriers>>

\* addTags, a web filter, inject
Judges(t, d) ==
    /\ SampleOK(t, d)
    /\ decision' = [decision EXCEPT ![t] = d]
    /\ recording' \subseteq recording
    /\ \/ UNCHANGED carriers
       \/ carriers' = [carriers EXCEPT ![t] =
                         IF d.priority = NoPriority THEN @ ELSE @ \cup {d.priority}]
    /\ UNCHANGED <<SpanState, traces>>

\* extract
Extracts(t, d) ==
    /\ d \in Decisions /\ d.mechanism = "none"
    /\ t \notin Traces
    /\ decision' = [decision EXCEPT ![t] = d]
    /\ traces' \in Nat /\ traces <= traces' /\ t <= traces'
    /\ UNCHANGED <<SpanState, recording, carriers>>

\* finish, below the flush threshold
Waits(s) ==
    /\ s \in Started \ ended
    /\ ended' = ended \cup {s}
    /\ ~ShouldFlush(home[s], finished[home[s]] \cup {s})
    /\ finished' = [finished EXCEPT ![home[s]] = @ \cup {s}]
    /\ UNCHANGED <<spans, traces, home, started, decision, recording, chunks,
                   counted, singled, carriers>>

\* finish, with a chunk to export
Flushes(s, d) ==
    /\ s \in Started \ ended
    /\ ended' = ended \cup {s}
    /\ SampleOK(home[s], d)
    /\ started[home[s]] # {} => d.priority # NoPriority
    /\ decision' = [decision EXCEPT ![home[s]] = d]
    /\ LET out == started[home[s]] \cap ended'
       IN /\ chunks' = IF out # {} /\ home[s] \in recording
                       THEN [chunks EXCEPT ![home[s]] = Append(@, ChunkOf(home[s], out, d))]
                       ELSE chunks
          /\ counted' = [x \in Ids |-> IF x \in out THEN counted[x] + 1 ELSE counted[x]]
    /\ started' = [started EXCEPT ![home[s]] = @ \ ended']
    /\ finished' = [finished EXCEPT ![home[s]] = {}]
    /\ singled' \subseteq singled \cup started[home[s]]
    /\ Kept(d.priority) => singled' = singled
    /\ UNCHANGED <<spans, traces, home, recording, carriers>>

\* everything else
Stays == UNCHANGED <<SpanState, traces, decision, recording, carriers>>

\* Every step is, for the arrays and decisions, one of six shapes: it opens a
\* span, decides a trace, extracts one, parks a finished span, flushes, or
\* leaves them alone.
LEMMA Effects ==
    ASSUME Typed, [Next]_vars
    PROVE  \/ \E t \in TraceIds, d \in Decisions :
                 \/ Opens(t, d)
                 \/ t \in Traces /\ Judges(t, d)
                 \/ Extracts(t, d)
           \/ \E s \in Ids : Waits(s) \/ \E d \in Decisions : Flushes(s, d)
           \/ Stays
<1> USE DEF Ids, TraceIds
<1>0. \A s \in Started : s \in Ids /\ home[s] \in TraceIds /\ home[s] \in Traces
  BY BoundAssumption DEF BoundAssumption, Typed, TypeOK, HomeOK, Started, Traces
<1>1. ASSUME NEW t \in TraceIds, NEW st, NEW tags, NEW auto \in BOOLEAN,
             NEW d \in SampleOutcomes(t, st, tags, auto)
      PROVE  d \in Decisions /\ SampleOK(t, d)
  BY SampleFacts DEF SampleOK, Typed
<1>2. ASSUME NEW t \in TraceIds, NEW tags, OpenSpan(t, tags),
             traces' \in Nat, traces <= traces', t <= traces', recording' = recording
      PROVE  \E d \in Decisions : Opens(t, d)
  <2>1. PICK d \in SampleOutcomes(t, started[t] \cup {spans + 1}, tags, FALSE) :
           decision' = [decision EXCEPT ![t] = d]
    BY <1>2 DEF OpenSpan
  <2>2. d \in Decisions /\ SampleOK(t, d)
    BY <1>1, <2>1
  <2>3. spans + 1 \in Ids
    BY <1>2, BoundAssumption DEF BoundAssumption, OpenSpan, Typed, TypeOK
  <2> QED  BY <1>2, <2>1, <2>2, <2>3 DEF OpenSpan, Opens, outVars
<1>3. traces \in Nat /\ traces <= MaxTraces /\ MaxTraces \in Nat
  BY BoundAssumption DEF BoundAssumption, Typed, TypeOK
<1>4. ASSUME NEW tags \in TagSets, StartRoot(tags)
      PROVE  \E t \in TraceIds, d \in Decisions : Opens(t, d)
  <2>1. traces + 1 \in TraceIds /\ traces' = traces + 1
    BY <1>3, <1>4 DEF StartRoot
  <2> QED  BY <1>2, <1>3, <1>4, <2>1 DEF StartRoot
<1>5. ASSUME NEW t \in TraceIds, NEW tags \in TagSets, StartChild(t, tags) \/ StartFromRemote(t, tags)
      PROVE  \E d \in Decisions : Opens(t, d)
  <2>1. t <= traces' /\ traces' = traces /\ recording' = recording
    BY <1>3, <1>5 DEF StartChild, StartFromRemote, traceVars, Traces
  <2> QED  BY <1>2, <1>3, <1>5, <2>1 DEF StartChild, StartFromRemote
<1>6. ASSUME NEW p \in RemotePriorities, NEW dm \in {"none", "remote"},
             NEW from \in {"remote", "idless"}, Extract(p, dm, from)
      PROVE  \E t \in TraceIds, d \in Decisions : Extracts(t, d)
  <2> DEFINE d == [priority |-> p, mechanism |-> "none", dm |-> dm]
  <2>1. traces + 1 \in TraceIds /\ traces' = traces + 1 /\ traces + 1 \notin Traces
    BY <1>3, <1>6 DEF Extract, Traces
  <2>2. d \in Decisions /\ d.mechanism = "none"
    BY InputAssumption DEF InputAssumption, Decisions, Mechanisms
  <2>3. Extracts(traces + 1, d)
    BY <1>3, <1>6, <2>1, <2>2 DEF Extract, Extracts, SpanState, spanVars, outVars
  <2> QED  BY <2>1, <2>2, <2>3
<1>7. ASSUME NEW s \in Ids, NEW tags \in TagSets, AddTags(s, tags)
      PROVE  \E t \in TraceIds, d \in Decisions : t \in Traces /\ Judges(t, d)
  <2>1. home[s] \in TraceIds /\ home[s] \in Traces
    BY <1>0, <1>7 DEF AddTags
  <2>2. PICK d \in SampleOutcomes(home[s], started[home[s]], manual[s] \cup tags, FALSE) :
           decision' = [decision EXCEPT ![home[s]] = d]
    BY <1>7 DEF AddTags
  <2>3. d \in Decisions /\ SampleOK(home[s], d)
    BY <1>1, <2>1, <2>2
  <2>4. Judges(home[s], d)
    BY <1>7, <2>2, <2>3 DEF AddTags, Judges, SpanState, spanVars, traceVars, outVars
  <2> QED  BY <2>1, <2>3, <2>4
<1>8. ASSUME NEW s \in Ids, FilterOut(s)
      PROVE  \E t \in TraceIds, d \in Decisions : t \in Traces /\ Judges(t, d)
  <2>1. home[s] \in TraceIds /\ home[s] \in Traces
    BY <1>0, <1>8 DEF FilterOut
  <2>2. PICK d \in SampleOutcomes(home[s], started[home[s]], manual[s] \cup {"drop"}, FALSE) :
           decision' = [decision EXCEPT ![home[s]] = d]
    BY <1>8 DEF FilterOut
  <2>3. d \in Decisions /\ SampleOK(home[s], d)
    BY <1>1, <2>1, <2>2
  <2>4. Judges(home[s], d)
    BY <1>8, <2>2, <2>3 DEF FilterOut, Judges, SpanState, spanVars, outVars
  <2> QED  BY <2>1, <2>3, <2>4
<1>9. ASSUME NEW t \in TraceIds, t \in Traces, NEW tags, InjectWith(t, tags)
      PROVE  \E d \in Decisions : Judges(t, d)
  <2>1. PICK d \in SampleOutcomes(t, started[t], tags, TRUE) :
           /\ decision' = [decision EXCEPT ![t] = d]
           /\ carriers' = [carriers EXCEPT ![t] =
                            IF d.priority = NoPriority THEN @ ELSE @ \cup {d.priority}]
    BY <1>9 DEF InjectWith
  <2>2. d \in Decisions /\ SampleOK(t, d)
    BY <1>1, <2>1
  <2>3. Judges(t, d)
    BY <1>9, <2>1, <2>2 DEF InjectWith, Judges, SpanState, spanVars, traceVars, outVars
  <2> QED  BY <2>2, <2>3
<1>10. ASSUME NEW s \in Ids, InjectSpan(s)
       PROVE  \E t \in TraceIds, d \in Decisions : t \in Traces /\ Judges(t, d)
  BY <1>0, <1>9, <1>10 DEF InjectSpan
<1>11. ASSUME NEW t \in TraceIds, InjectRemote(t)
       PROVE  \E d \in Decisions : t \in Traces /\ Judges(t, d)
  BY <1>9, <1>11 DEF InjectRemote
<1>12. ASSUME NEW s \in Ids, Finish(s)
       PROVE  Waits(s) \/ \E d \in Decisions : Flushes(s, d)
  <2> DEFINE t == home[s]
             now == ended \cup {s}
  <2>1. t \in TraceIds /\ s \in Started \ ended /\ ended' = now
    BY <1>0, <1>12 DEF Finish
  <2>2. CASE ShouldFlush(t, finished[t] \cup {s})
    <3>1. Flush(t, s, now)
      BY <1>12, <2>2 DEF Finish
    <3>2. PICK d \in SampleOutcomes(t, started[t], manual[s], TRUE) :
             /\ decision' = [decision EXCEPT ![t] = d]
             /\ chunks' = IF started[t] \cap now # {} /\ t \in recording
                          THEN [chunks EXCEPT ![t] = Append(@, ChunkOf(t, started[t] \cap now, d))]
                          ELSE chunks
             /\ singled' \subseteq singled \cup started[t]
             /\ Kept(d.priority) => singled' = singled
      <4>1. PICK d \in SampleOutcomes(t, started[t], manual[s], TRUE), picked \in SUBSET started[t] :
               /\ decision' = [decision EXCEPT ![t] = d]
               /\ picked # {} => SpanRules /\ ~Kept(d.priority)
               /\ singled' = singled \cup picked
               /\ chunks' = IF started[t] \cap now # {} /\ t \in recording
                            THEN [chunks EXCEPT ![t] = Append(@, ChunkOf(t, started[t] \cap now, d))]
                            ELSE chunks
        BY <3>1 DEF Flush, IsExported
      <4>2. singled' \subseteq singled \cup started[t] /\ (Kept(d.priority) => singled' = singled)
        BY <4>1
      <4> QED  BY <4>1, <4>2
    <3>3. d \in Decisions /\ SampleOK(t, d)
      BY <1>1, <2>1, <3>2
    <3>4. started[t] # {} => d.priority # NoPriority
      <4>1. TypeOK
        BY DEF Typed
      <4>2. ASSUME started[t] # {} PROVE d.priority # NoPriority
        <5> DEFINE st == started[t]
                   tags == manual[s]
        <5>1. d \in SampleOutcomes(t, st, tags, TRUE) /\ st # {}
          BY <3>2, <4>2
        <5> HIDE DEF st, tags
        <5> QED  BY <2>1, <4>1, <5>1, SampleFacts
      <4> QED  BY <4>2
    <3>5. /\ counted' = [x \in Ids |-> IF x \in started[t] \cap now THEN counted[x] + 1 ELSE counted[x]]
          /\ started' = [started EXCEPT ![t] = @ \ now]
          /\ finished' = [finished EXCEPT ![t] = {}]
      BY <3>1 DEF Flush, Remaining, IsExported
    <3>6. UNCHANGED <<spans, traces, home, recording, carriers>>
      BY <1>12 DEF Finish, spanVars, traceVars
    <3>7. Flushes(s, d)
      BY <2>1, <3>2, <3>3, <3>4, <3>5, <3>6 DEF Flushes
    <3> QED  BY <3>3, <3>7
  <2>3. CASE ~ShouldFlush(t, finished[t] \cup {s})
    BY <1>12, <2>1, <2>3 DEF Finish, Waits, spanVars, traceVars, outVars
  <2> QED  BY <2>2, <2>3
<1>13. CASE (\E rates \in RateSources : UpdateRates(rates)) \/ KillAll \/ UNCHANGED vars
  BY <1>13 DEF UpdateRates, KillAll, vars, Stays, SpanState, spanVars, traceVars, outVars
<1> QED  BY <1>4, <1>5, <1>6, <1>7, <1>8, <1>10, <1>11, <1>12, <1>13 DEF Next

-----------------------------------------------------------------------------
(* The bookkeeping of trace.started and trace.finished, on which the rest  *)
(* rests: an unfinished span is in trace.started, trace.finished is the    *)
(* ended part of trace.started, and a trace that does not exist is blank.  *)

Blank(t) ==
    /\ started[t] = {}
    /\ chunks[t] = <<>>
    /\ carriers[t] = {}
    /\ decision[t] = Undecided

Ledger ==
    /\ \A t \in TraceIds : \A s \in started[t] : s \in Started /\ home[s] = t
    /\ ended \subseteq Started
    /\ \A s \in Started \ ended : s \in started[home[s]]
    /\ \A t \in TraceIds : finished[t] = started[t] \cap ended
    /\ \A t \in TraceIds \ Traces : Blank(t)

\* The bookkeeping between spans and the arrays of their traces holds at first.
LEMMA LedgerInit == Init => Ledger
  BY DEF Init, Ledger, Blank, Started

\* A span just started is in no array yet.
LEMMA NewSpan ==
    ASSUME Typed, Ledger, NEW t \in TraceIds, NEW d, Opens(t, d)
    PROVE  /\ spans \in Nat
           /\ spans + 1 \in Ids
           /\ spans + 1 \notin Started
           /\ Started' = Started \cup {spans + 1}
           /\ home'[spans + 1] = t
           /\ \A s \in Started : s \in Ids /\ home'[s] = home[s]
           /\ started'[t] = started[t] \cup {spans + 1}
           /\ \A u \in TraceIds \ {t} : started'[u] = started[u]
<1>1. spans \in Nat /\ spans' = spans + 1 /\ spans + 1 \in Ids
  BY DEF Typed, TypeOK, Opens
<1>2. Started \subseteq Ids /\ spans + 1 \notin Started /\ Started' = Started \cup {spans + 1}
  BY <1>1, BoundAssumption DEF BoundAssumption, Started, Ids
<1> QED  BY <1>1, <1>2 DEF Opens, Typed, TypeOK

\* trace.started and trace.finished keep exactly the spans they should through
\* every call, process() and _erase included.
LEMMA LedgerStep == Typed /\ Ledger /\ [Next]_vars => Ledger'
<1> SUFFICES ASSUME Typed, Ledger, [Next]_vars PROVE Ledger'
  OBVIOUS
<1>1. ASSUME NEW t \in TraceIds, NEW d \in Decisions, Opens(t, d) PROVE Ledger'
  <2>1. \A u \in TraceIds : \A s \in started'[u] : s \in Started' /\ home'[s] = u
    BY <1>1, NewSpan DEF Ledger
  <2>2. ended' = ended /\ finished' = finished /\ ended \subseteq Started
    BY <1>1 DEF Ledger, Opens
  <2>3. ASSUME NEW s \in Started' \ ended' PROVE s \in started'[home'[s]]
    <3>1. CASE s = spans + 1
      BY <1>1, <3>1, NewSpan
    <3>2. CASE s # spans + 1
      <4>1. s \in Started \ ended /\ home'[s] = home[s] /\ s \in started[home[s]]
        BY <1>1, <2>2, <2>3, <3>2, NewSpan DEF Ledger
      <4>2. home[s] \in TraceIds
        BY <4>1, BoundAssumption DEF BoundAssumption, Typed, TypeOK, HomeOK, Traces, TraceIds
      <4> QED  BY <1>1, <4>1, <4>2, NewSpan
    <3> QED  BY <3>1, <3>2
  <2>5. ASSUME NEW u \in TraceIds PROVE finished'[u] = started'[u] \cap ended'
    <3>1. spans + 1 \notin ended
      BY <1>1, <2>2, NewSpan
    <3>2. finished[u] = started[u] \cap ended
      BY DEF Ledger
    <3> QED  BY <1>1, <2>2, <3>1, <3>2, NewSpan
  <2>4. ASSUME NEW u \in TraceIds \ Traces' PROVE Blank(u)'
    <3>1. u \in TraceIds \ Traces /\ u # t
      BY <1>1, <2>4 DEF Opens, Traces, TraceIds, Typed, TypeOK
    <3> QED  BY <1>1, <3>1 DEF Opens, Ledger, Blank, Typed, TypeOK
  <2> QED  BY <1>1, <2>1, <2>2, <2>3, <2>4, <2>5, NewSpan DEF Ledger
<1>2. ASSUME NEW t \in TraceIds, NEW d \in Decisions, t \in Traces, Judges(t, d) PROVE Ledger'
  BY <1>2 DEF Judges, SpanState, Ledger, Blank, Started, Traces, Typed, TypeOK
<1>3. ASSUME NEW t \in TraceIds, NEW d \in Decisions, Extracts(t, d) PROVE Ledger'
  <2>1. ASSUME NEW u \in TraceIds \ Traces' PROVE Blank(u)'
    <3>1. u \in TraceIds \ Traces /\ u # t
      BY <1>3, <2>1 DEF Extracts, Traces, TraceIds, Typed, TypeOK
    <3> QED  BY <1>3, <3>1 DEF Extracts, SpanState, Ledger, Blank, Typed, TypeOK
  <2> QED  BY <1>3, <2>1 DEF Extracts, SpanState, Ledger, Started
<1>4. ASSUME NEW s \in Ids, Waits(s) PROVE Ledger'
  <2>1. home[s] \in TraceIds /\ home[s] \in Traces /\ s \in started[home[s]]
    BY <1>4, BoundAssumption DEF BoundAssumption, Waits, Ledger, Typed, TypeOK, HomeOK, Traces, TraceIds
  <2>2. \A u \in TraceIds : finished'[u] = started'[u] \cap ended'
    BY <1>4, <2>1 DEF Waits, Ledger, Typed, TypeOK
  <2> QED  BY <1>4, <2>2 DEF Waits, Ledger, Blank, Started, Traces
<1>5. ASSUME NEW s \in Ids, NEW d \in Decisions, Flushes(s, d) PROVE Ledger'
  <2>1. home[s] \in TraceIds /\ home[s] \in Traces /\ s \in started[home[s]]
    BY <1>5, BoundAssumption DEF BoundAssumption, Flushes, Ledger, Typed, TypeOK, HomeOK, Traces, TraceIds
  <2>2. /\ \A u \in TraceIds : started'[u] = IF u = home[s] THEN started[u] \ ended' ELSE started[u]
        /\ \A u \in TraceIds : finished'[u] = IF u = home[s] THEN {} ELSE finished[u]
        /\ UNCHANGED <<Started, Traces, home>>
    BY <1>5, <2>1 DEF Flushes, Typed, TypeOK, Started, Traces
  <2>3. ASSUME NEW u \in TraceIds PROVE finished'[u] = started'[u] \cap ended'
    <3>1. CASE u = home[s]
      BY <2>2, <3>1
    <3>2. CASE u # home[s]
      <4>1. s \notin started[u] /\ finished[u] = started[u] \cap ended
        BY <3>2 DEF Ledger
      <4> QED  BY <1>5, <2>2, <3>2, <4>1 DEF Flushes
    <3> QED  BY <3>1, <3>2
  <2>4. ASSUME NEW x \in Started' \ ended' PROVE x \in started'[home'[x]]
    <3>1. x \in Started \ ended /\ x \in started[home[x]]
      BY <1>5, <2>2, <2>4 DEF Flushes, Ledger
    <3>2. home[x] \in TraceIds
      BY <3>1, BoundAssumption DEF BoundAssumption, Typed, TypeOK, HomeOK, Traces, TraceIds
    <3> QED  BY <2>2, <2>4, <3>1, <3>2
  <2>5. ASSUME NEW u \in TraceIds \ Traces' PROVE Blank(u)'
    BY <1>5, <2>1, <2>2, <2>5 DEF Flushes, Ledger, Blank, Typed, TypeOK
  <2> QED  BY <1>5, <2>1, <2>2, <2>3, <2>4, <2>5 DEF Flushes, Ledger
<1>6. CASE Stays
  BY <1>6 DEF Stays, SpanState, Ledger, Blank, Started, Traces
<1> QED  BY <1>1, <1>2, <1>3, <1>4, <1>5, <1>6, Effects

-----------------------------------------------------------------------------
(* The invariants, each preserved given the ledger.                        *)

\* The trace of a span that is finishing.
LEMMA HomeOf ==
    ASSUME Typed, Ledger, NEW s \in Started \ ended
    PROVE  /\ home[s] \in TraceIds /\ home[s] \in Traces
           /\ s \in started[home[s]]
           /\ s \in Ids
  BY BoundAssumption DEF BoundAssumption, Ledger, Typed, TypeOK, HomeOK, Started, Traces, TraceIds, Ids

NotTwice ==
    /\ \A t \in TraceIds : \A i, j \in DOMAIN chunks[t] :
          i # j => chunks[t][i].spans \cap chunks[t][j].spans = {}
    /\ \A t \in TraceIds : \A i \in DOMAIN chunks[t] : \A s \in chunks[t][i].spans :
          home[s] = t /\ s \in ended \ started[t]

\* Each span counted once, when it leaves trace.started.
CountedOnce ==
    \A s \in Ids : counted[s] = IF s \in ended /\ s \notin started[home[s]] THEN 1 ELSE 0

\* A step leaves the chunks of a trace alone or appends one, made of spans that
\* were in trace.started, have ended and are erased by the same step.
LEMMA ChunksStep ==
    ASSUME Typed, Ledger, NEW s \in Ids, NEW d \in Decisions, Flushes(s, d)
    PROVE  LET t == home[s]
               out == started[t] \cap ended'
           IN /\ t \in TraceIds
              /\ s \in out
              /\ out # {}
              /\ \A u \in TraceIds \ {t} : chunks'[u] = chunks[u] /\ started'[u] = started[u]
              /\ started'[t] = started[t] \ ended'
              /\ t \notin recording => chunks'[t] = chunks[t]
              /\ t \in recording =>
                   /\ chunks[t] \in Seq(Chunks)
                   /\ Len(chunks[t]) \in Nat
                   /\ DOMAIN chunks'[t] = 1..(Len(chunks[t]) + 1)
                   /\ DOMAIN chunks[t] = 1..Len(chunks[t])
                   /\ \A i \in DOMAIN chunks[t] : chunks'[t][i] = chunks[t][i]
                   /\ chunks'[t][Len(chunks[t]) + 1] = ChunkOf(t, out, d)
<1>1. home[s] \in TraceIds /\ s \in started[home[s]]
  BY HomeOf DEF Flushes
<1>2. s \in started[home[s]] \cap ended'
  BY <1>1 DEF Flushes
<1>3. chunks[home[s]] \in Seq(Chunks)
  BY <1>1 DEF Typed, TypeOK
<1>4. started'[home[s]] = started[home[s]] \ ended' /\ \A u \in TraceIds \ {home[s]} : started'[u] = started[u]
  BY <1>1 DEF Flushes, Typed, TypeOK
<1>5. CASE home[s] \notin recording
  BY <1>1, <1>2, <1>4, <1>5 DEF Flushes
<1>6. CASE home[s] \in recording
  <2> DEFINE c == ChunkOf(home[s], started[home[s]] \cap ended', d)
  <2>1. chunks' = [chunks EXCEPT ![home[s]] = Append(chunks[home[s]], c)]
    BY <1>2, <1>6 DEF Flushes
  <2>2. chunks'[home[s]] = Append(chunks[home[s]], c) /\ \A u \in TraceIds \ {home[s]} : chunks'[u] = chunks[u]
    BY <1>1, <2>1 DEF Typed, TypeOK
  <2> HIDE DEF c
  <2>3. /\ Len(chunks[home[s]]) \in Nat
        /\ DOMAIN Append(chunks[home[s]], c) = 1..(Len(chunks[home[s]]) + 1)
        /\ DOMAIN chunks[home[s]] = 1..Len(chunks[home[s]])
        /\ \A i \in 1..Len(chunks[home[s]]) : Append(chunks[home[s]], c)[i] = chunks[home[s]][i]
        /\ Append(chunks[home[s]], c)[Len(chunks[home[s]]) + 1] = c
    BY <1>3
  <2> QED  BY <1>1, <1>2, <1>3, <1>4, <1>6, <2>2, <2>3 DEF c
<1> QED  BY <1>5, <1>6

\* No step exports a span again, nor one that is still open.
LEMMA NotTwiceStep == Typed /\ Ledger /\ NotTwice /\ [Next]_vars => NotTwice'
<1> SUFFICES ASSUME Typed, Ledger, NotTwice, [Next]_vars PROVE NotTwice'
  OBVIOUS
<1>1. ASSUME NEW t \in TraceIds, NEW d \in Decisions, Opens(t, d) PROVE NotTwice'
  <2>1. chunks' = chunks /\ ended' = ended /\ ended \subseteq Started
    BY <1>1 DEF Opens, Ledger
  <2>2. ASSUME NEW u \in TraceIds, NEW i \in DOMAIN chunks[u], NEW s \in chunks[u][i].spans
        PROVE  home'[s] = u /\ s \in ended' \ started'[u]
    <3>1. home[s] = u /\ s \in ended \ started[u] /\ s \in Started
      BY <2>1 DEF NotTwice
    <3>2. home'[s] = home[s] /\ s # spans + 1
      BY <1>1, <3>1, NewSpan
    <3> QED  BY <1>1, <2>1, <3>1, <3>2, NewSpan
  <2> QED  BY <2>1, <2>2 DEF NotTwice
<1>2. ASSUME NEW t \in TraceIds, NEW d \in Decisions, Judges(t, d) PROVE NotTwice'
  BY <1>2 DEF Judges, SpanState, NotTwice
<1>3. ASSUME NEW t \in TraceIds, NEW d \in Decisions, Extracts(t, d) PROVE NotTwice'
  BY <1>3 DEF Extracts, SpanState, NotTwice
<1>4. ASSUME NEW s \in Ids, Waits(s) PROVE NotTwice'
  BY <1>4 DEF Waits, NotTwice
<1>5. ASSUME NEW s \in Ids, NEW d \in Decisions, Flushes(s, d) PROVE NotTwice'
  <2> DEFINE t == home[s]
             out == started[t] \cap ended'
             c == ChunkOf(t, out, d)
  <2>1. ended' = ended \cup {s} /\ home' = home
    BY <1>5 DEF Flushes
  <2>2. c.spans = out
    BY DEF ChunkOf
  <2> HIDE DEF c
  <2>3. ASSUME NEW u \in TraceIds, NEW i \in DOMAIN chunks'[u], NEW x \in chunks'[u][i].spans
        PROVE  home[x] = u /\ x \in ended' \ started'[u]
    <3>1. CASE i \in DOMAIN chunks[u] /\ chunks'[u][i] = chunks[u][i]
      <4>1. home[x] = u /\ x \in ended \ started[u]
        BY <2>3, <3>1 DEF NotTwice
      <4>2. started'[u] \subseteq started[u]
        BY <1>5, ChunksStep
      <4> QED  BY <2>1, <4>1, <4>2
    <3>2. CASE u = t /\ chunks'[u][i] = c
      <4>1. x \in out /\ home[x] = t
        BY <2>2, <2>3, <3>2 DEF Ledger
      <4>2. started'[t] = started[t] \ ended'
        BY <1>5, ChunksStep
      <4> QED  BY <3>2, <4>1, <4>2
    <3>3. CASE u # t \/ t \notin recording
      <4>1. chunks'[u] = chunks[u]
        BY <1>5, <3>3, ChunksStep
      <4> QED  BY <2>3, <3>1, <4>1
    <3>4. CASE u = t /\ t \in recording
      <4>1. /\ DOMAIN chunks'[t] = 1..(Len(chunks[t]) + 1) /\ DOMAIN chunks[t] = 1..Len(chunks[t])
            /\ Len(chunks[t]) \in Nat
            /\ \A k \in DOMAIN chunks[t] : chunks'[t][k] = chunks[t][k]
            /\ chunks'[t][Len(chunks[t]) + 1] = c
        BY <1>5, <3>4, ChunksStep DEF c
      <4> QED  BY <2>3, <3>1, <3>2, <3>4, <4>1
    <3> QED  BY <3>3, <3>4
  <2>4. ASSUME NEW u \in TraceIds, NEW i \in DOMAIN chunks'[u], NEW j \in DOMAIN chunks'[u], i # j
        PROVE  chunks'[u][i].spans \cap chunks'[u][j].spans = {}
    <3>1. CASE u # t \/ t \notin recording
      <4>1. chunks'[u] = chunks[u]
        BY <1>5, <3>1, ChunksStep
      <4> QED  BY <2>4, <4>1 DEF NotTwice
    <3>2. CASE u = t /\ t \in recording
      <4>1. ASSUME NEW k \in DOMAIN chunks[t]
            PROVE  chunks[t][k].spans \cap c.spans = {}
        <5>1. t \in TraceIds
          BY <2>4, <3>2
        <5> QED  BY <2>2, <4>1, <5>1 DEF NotTwice
      <4> DEFINE n == Len(chunks[t])
      <4>2. /\ n \in Nat /\ DOMAIN chunks'[t] = 1..(n + 1) /\ DOMAIN chunks[t] = 1..n
            /\ \A k \in DOMAIN chunks[t] : chunks'[t][k] = chunks[t][k]
            /\ chunks'[t][n + 1] = c
        BY <1>5, <3>2, ChunksStep DEF c
      <4> HIDE DEF n
      <4>3. CASE i \in 1..n /\ j \in 1..n
        BY <2>4, <3>2, <4>2, <4>3 DEF NotTwice
      <4>4. CASE i = n + 1 /\ j \in 1..n
        BY <3>2, <4>1, <4>2, <4>4
      <4>5. CASE i \in 1..n /\ j = n + 1
        BY <3>2, <4>1, <4>2, <4>5
      <4> QED  BY <2>4, <3>2, <4>2, <4>3, <4>4, <4>5
    <3> QED  BY <3>1, <3>2
  <2> QED  BY <2>1, <2>3, <2>4 DEF NotTwice
<1>6. CASE Stays
  BY <1>6 DEF Stays, SpanState, NotTwice
<1> QED  BY <1>1, <1>2, <1>3, <1>4, <1>5, <1>6, Effects

\* The statistics see a span exactly when it is erased, and once.
LEMMA CountedOnceStep == Typed /\ Ledger /\ CountedOnce /\ [Next]_vars => CountedOnce'
<1> SUFFICES ASSUME Typed, Ledger, CountedOnce, [Next]_vars, NEW x \in Ids
             PROVE  counted'[x] = IF x \in ended' /\ x \notin started'[home'[x]] THEN 1 ELSE 0
  BY DEF CountedOnce
<1>0. x \in ended => x \in Started /\ home[x] \in TraceIds
  BY BoundAssumption DEF BoundAssumption, Ledger, Typed, TypeOK, HomeOK, Traces, TraceIds
<1>1. ASSUME NEW t \in TraceIds, NEW d \in Decisions, Opens(t, d)
      PROVE  counted'[x] = IF x \in ended' /\ x \notin started'[home'[x]] THEN 1 ELSE 0
  <2>1. counted' = counted /\ ended' = ended
    BY <1>1 DEF Opens
  <2>2. CASE x \in ended
    <3>1. home'[x] = home[x] /\ x # spans + 1
      BY <1>0, <1>1, <2>2, NewSpan
    <3>2. x \in started'[home'[x]] <=> x \in started[home[x]]
      BY <1>0, <1>1, <2>2, <3>1, NewSpan
    <3> QED  BY <2>1, <3>2 DEF CountedOnce
  <2>3. CASE x \notin ended
    BY <2>1, <2>3 DEF CountedOnce
  <2> QED  BY <2>2, <2>3
<1>2. ASSUME NEW t \in TraceIds, NEW d \in Decisions, Judges(t, d) \/ Extracts(t, d)
      PROVE  counted'[x] = IF x \in ended' /\ x \notin started'[home'[x]] THEN 1 ELSE 0
  BY <1>2 DEF Judges, Extracts, SpanState, CountedOnce
<1>3. ASSUME NEW s \in Ids, Waits(s)
      PROVE  counted'[x] = IF x \in ended' /\ x \notin started'[home'[x]] THEN 1 ELSE 0
  <2>1. s \in started[home[s]] /\ UNCHANGED <<counted, started, home>> /\ ended' = ended \cup {s}
    BY <1>3, HomeOf DEF Waits
  <2> QED  BY <2>1 DEF CountedOnce
<1>4. ASSUME NEW s \in Ids, NEW d \in Decisions, Flushes(s, d)
      PROVE  counted'[x] = IF x \in ended' /\ x \notin started'[home'[x]] THEN 1 ELSE 0
  <2> DEFINE t == home[s]
             out == started[t] \cap ended'
  <2>1. /\ t \in TraceIds /\ s \in out
        /\ started'[t] = started[t] \ ended'
        /\ \A u \in TraceIds \ {t} : started'[u] = started[u]
    BY <1>4, ChunksStep, HomeOf DEF Flushes, Typed, TypeOK
  <2>2. /\ counted'[x] = IF x \in out THEN counted[x] + 1 ELSE counted[x]
        /\ ended' = ended \cup {s} /\ home' = home
    BY <1>4 DEF Flushes
  <2>3. CASE x \in out
    <3>1. home[x] = t /\ x \in started[t] /\ x \in ended'
      BY <2>1, <2>3 DEF Ledger
    <3>2. counted[x] = 0
      BY <3>1 DEF CountedOnce
    <3> QED  BY <2>1, <2>2, <2>3, <3>1, <3>2
  <2>4. CASE x \notin out
    <3>1. x # s /\ (x \in ended' <=> x \in ended)
      BY <2>1, <2>2, <2>4
    <3>2. CASE x \in ended
      <4>1. x \in started'[home[x]] <=> x \in started[home[x]]
        BY <1>0, <2>1, <2>4, <3>1, <3>2
      <4> QED  BY <2>2, <2>4, <3>1, <4>1 DEF CountedOnce
    <3>3. CASE x \notin ended
      BY <2>2, <2>4, <3>1, <3>3 DEF CountedOnce
    <3> QED  BY <3>2, <3>3
  <2> QED  BY <2>3, <2>4
<1>5. CASE Stays
  BY <1>5 DEF Stays, SpanState, CountedOnce
<1> QED  BY <1>1, <1>2, <1>3, <1>4, <1>5, Effects

\* A span that is no longer in trace.started was exported, if its trace is recorded.
LEMMA NoSpanLostStep ==
    Typed /\ Ledger /\ CountedOnce /\ CountedOnce' /\ NoSpanLost /\ [Next]_vars => NoSpanLost'
<1> SUFFICES ASSUME Typed, Ledger, Ledger', CountedOnce', NoSpanLost, [Next]_vars,
                    NEW x \in ended'
             PROVE  \/ x \in finished'[home'[x]]
                    \/ /\ counted'[x] = 1
                       /\ home'[x] \in recording' => Reported(x)'
  BY LedgerStep DEF NoSpanLost
<1>0. /\ x \in Started' /\ x \in Ids
      /\ x \in ended => x \in Started /\ home[x] \in TraceIds
  <2>1. x \in Started' /\ x \in Ids
    <3>1. ended' \subseteq Ids
      BY TypedStep DEF Typed, TypeOK
    <3> QED  BY <3>1 DEF Ledger
  <2>2. x \in ended => x \in Started /\ home[x] \in TraceIds
    BY BoundAssumption DEF BoundAssumption, Ledger, Typed, TypeOK, HomeOK, Traces, TraceIds
  <2> QED  BY <2>1, <2>2
<1>1. ASSUME NEW t \in TraceIds, NEW d \in Decisions, Opens(t, d)
      PROVE  \/ x \in finished'[home'[x]]
             \/ counted'[x] = 1 /\ (home'[x] \in recording' => Reported(x)')
  <2>1. UNCHANGED <<counted, ended, finished, recording, chunks>>
    BY <1>1 DEF Opens
  <2>2. home'[x] = home[x]
    BY <1>0, <1>1, <2>1, NewSpan
  <2> QED  BY <2>1, <2>2 DEF NoSpanLost, Reported
<1>2. ASSUME NEW t \in TraceIds, NEW d \in Decisions, Judges(t, d) \/ Extracts(t, d)
      PROVE  \/ x \in finished'[home'[x]]
             \/ counted'[x] = 1 /\ (home'[x] \in recording' => Reported(x)')
  BY <1>2 DEF Judges, Extracts, SpanState, NoSpanLost, Reported
<1>3. ASSUME NEW s \in Ids, Waits(s)
      PROVE  \/ x \in finished'[home'[x]]
             \/ counted'[x] = 1 /\ (home'[x] \in recording' => Reported(x)')
  <2>1. /\ home[s] \in TraceIds /\ home' = home /\ ended' = ended \cup {s}
        /\ finished'[home[s]] = finished[home[s]] \cup {s}
        /\ \A u \in TraceIds \ {home[s]} : finished'[u] = finished[u]
        /\ UNCHANGED <<counted, recording, chunks>>
    BY <1>3, HomeOf DEF Waits, Typed, TypeOK
  <2>2. CASE x = s
    BY <2>1, <2>2
  <2>3. CASE x # s
    BY <1>0, <2>1, <2>3 DEF NoSpanLost, Reported
  <2> QED  BY <2>2, <2>3
<1>4. ASSUME NEW s \in Ids, NEW d \in Decisions, Flushes(s, d)
      PROVE  \/ x \in finished'[home'[x]]
             \/ counted'[x] = 1 /\ (home'[x] \in recording' => Reported(x)')
  <2> DEFINE t == home[s]
             out == started[t] \cap ended'
             c == ChunkOf(t, out, d)
  <2>1. /\ t \in TraceIds /\ home' = home /\ ended' = ended \cup {s} /\ recording' = recording
        /\ started'[t] = started[t] \ ended'
        /\ finished'[t] = {} /\ \A u \in TraceIds \ {t} : finished'[u] = finished[u]
    BY <1>4, HomeOf DEF Flushes, Typed, TypeOK
  <2>2. s \in out
    BY <1>4, ChunksStep
  <2>3. \A u \in TraceIds : \A i \in DOMAIN chunks[u] :
           i \in DOMAIN chunks'[u] /\ chunks'[u][i] = chunks[u][i]
    <3> SUFFICES ASSUME NEW u \in TraceIds, NEW i \in DOMAIN chunks[u]
                 PROVE  i \in DOMAIN chunks'[u] /\ chunks'[u][i] = chunks[u][i]
      OBVIOUS
    <3>1. CASE u # t \/ t \notin recording
      BY <1>4, <3>1, ChunksStep
    <3>2. CASE u = t /\ t \in recording
      <4>1. /\ DOMAIN chunks'[t] = 1..(Len(chunks[t]) + 1) /\ DOMAIN chunks[t] = 1..Len(chunks[t])
            /\ Len(chunks[t]) \in Nat
            /\ \A k \in DOMAIN chunks[t] : chunks'[t][k] = chunks[t][k]
        BY <1>4, <3>2, ChunksStep
      <4> QED  BY <3>2, <4>1
    <3> QED  BY <3>1, <3>2
  <2>4. CASE x \in out
    <3>1. home[x] = t
      BY <2>1, <2>4 DEF Ledger
    <3>2. counted'[x] = 1
      BY <1>0, <2>1, <2>4, <3>1 DEF CountedOnce
    <3>3. ASSUME t \in recording PROVE Reported(x)'
      <4>1. /\ DOMAIN chunks'[t] = 1..(Len(chunks[t]) + 1) /\ Len(chunks[t]) \in Nat
            /\ chunks'[t][Len(chunks[t]) + 1] = c
        BY <1>4, <3>3, ChunksStep
      <4>2. Len(chunks[t]) + 1 \in DOMAIN chunks'[t]
        BY <4>1
      <4>3. x \in chunks'[t][Len(chunks[t]) + 1].spans
        BY <2>4, <4>1 DEF ChunkOf
      <4>4. home'[x] = t
        BY <2>1, <3>1
      <4> QED  BY <4>2, <4>3, <4>4 DEF Reported
    <3> QED  BY <2>1, <3>1, <3>2, <3>3
  <2>5. CASE x \notin out
    <3>1. x \in ended /\ home[x] \in TraceIds
      BY <1>0, <2>1, <2>2, <2>5
    <3>2. x \in finished[home[x]] => x \in finished'[home[x]]
      <4>1. x \in finished[home[x]] => x \in started[home[x]]
        BY <3>1 DEF Ledger
      <4> QED  BY <2>1, <2>5, <3>1, <4>1
    <3>3. counted'[x] = counted[x]
      BY <1>0, <1>4, <2>5 DEF Flushes
    <3>4. Reported(x) => Reported(x)'
      BY <2>1, <2>3, <3>1 DEF Reported
    <3> QED  BY <2>1, <3>1, <3>2, <3>3, <3>4 DEF NoSpanLost
  <2> QED  BY <2>4, <2>5
<1>5. CASE Stays
  BY <1>5 DEF Stays, SpanState, NoSpanLost, Reported
<1> QED  BY <1>1, <1>2, <1>3, <1>4, <1>5, Effects

-----------------------------------------------------------------------------

\* NothingStranded, also of the traces that do not exist yet.
Drained == \A t \in TraceIds : /\ Cardinality(finished[t]) < FlushMinSpans
                               /\ started[t] = finished[t] => started[t] = {}

\* No trace holds a finished span at first.
LEMMA DrainedInit == Init => Drained
  BY FS_EmptySet, FlushMinAssumption DEF FlushMinAssumption, Init, Drained

\* finish() flushes as soon as the trace is complete or reaches the threshold,
\* and starting a span never completes a trace.
LEMMA DrainedStep == Typed /\ Ledger /\ Drained /\ [Next]_vars => Drained'
<1> SUFFICES ASSUME Typed, Ledger, Drained, [Next]_vars PROVE Drained'
  OBVIOUS
<1>1. ASSUME NEW t \in TraceIds, NEW d \in Decisions, Opens(t, d) PROVE Drained'
  <2>1. finished' = finished /\ ended \subseteq Started /\ spans + 1 \notin ended
    BY <1>1, NewSpan DEF Opens, Ledger
  <2>2. started'[t] # finished'[t]
    BY <1>1, <2>1, NewSpan DEF Ledger
  <2> QED  BY <1>1, <2>1, <2>2, NewSpan DEF Drained
<1>2. ASSUME NEW t \in TraceIds, NEW d \in Decisions, Judges(t, d) \/ Extracts(t, d) PROVE Drained'
  BY <1>2 DEF Judges, Extracts, SpanState, Drained
<1>3. ASSUME NEW s \in Ids, Waits(s) PROVE Drained'
  <2> DEFINE fin == finished[home[s]] \cup {s}
  <2>1. home[s] \in TraceIds /\ started' = started /\ finished' = [finished EXCEPT ![home[s]] = fin]
    BY <1>3, HomeOf DEF Waits
  <2>2. finished'[home[s]] = fin /\ \A u \in TraceIds \ {home[s]} : finished'[u] = finished[u]
    BY <2>1 DEF Typed, TypeOK
  <2>3. Cardinality(fin) \in Nat
    <3>1. IsFiniteSet(Ids)
      BY FS_Interval, BoundAssumption DEF BoundAssumption, Ids
    <3>2. fin \subseteq Ids
      BY <2>1 DEF Typed, TypeOK
    <3> QED  BY <3>1, <3>2, FS_Subset, FS_CardinalityType
  <2>4. Cardinality(started[home[s]]) # Cardinality(fin) /\ ~(Cardinality(fin) >= FlushMinSpans)
    BY <1>3 DEF Waits, ShouldFlush
  <2>5. started[home[s]] # fin /\ Cardinality(fin) < FlushMinSpans
    BY <2>3, <2>4, FlushMinAssumption DEF FlushMinAssumption
  <2> HIDE DEF fin
  <2> QED  BY <2>1, <2>2, <2>5 DEF Drained
<1>4. ASSUME NEW s \in Ids, NEW d \in Decisions, Flushes(s, d) PROVE Drained'
  <2>1. home[s] \in TraceIds /\ finished'[home[s]] = {}
    BY <1>4, HomeOf DEF Flushes, Typed, TypeOK
  <2>2. \A u \in TraceIds \ {home[s]} : finished'[u] = finished[u] /\ started'[u] = started[u]
    BY <1>4, <2>1 DEF Flushes, Typed, TypeOK
  <2>3. Cardinality({}) < FlushMinSpans
    BY FS_EmptySet, FlushMinAssumption DEF FlushMinAssumption
  <2> QED  BY <2>1, <2>2, <2>3 DEF Drained
<1>5. CASE Stays
  BY <1>5 DEF Stays, SpanState, Drained
<1> QED  BY <1>1, <1>2, <1>3, <1>4, <1>5, Effects

-----------------------------------------------------------------------------
(* One decision per trace.                                                 *)

\* DecisionMakerIfKept, also of the traces that do not exist yet.
MakerFits ==
    \A t \in TraceIds :
        decision[t].mechanism # "none" =>
            (decision[t].dm # "none" <=> decision[t].priority >= AutoKeep)

\* What every step does to the decision of a trace, and what it lets out.
LEMMA DecisionStep ==
    ASSUME Typed, Ledger, [Next]_vars, NEW u \in TraceIds
    PROVE  /\ \/ decision'[u] = decision[u]
              \/ SampleOK(u, decision'[u])
              \/ u \notin Traces /\ decision'[u].mechanism = "none"
           /\ carriers'[u] \subseteq carriers[u] \cup ({decision'[u].priority} \ {NoPriority})
<1>1. ASSUME NEW t \in TraceIds, NEW d \in Decisions, Opens(t, d)
      PROVE  /\ decision'[u] = decision[u] \/ SampleOK(u, decision'[u])
             /\ carriers' = carriers
  BY <1>1 DEF Opens, Typed, TypeOK
<1>2. ASSUME NEW t \in TraceIds, NEW d \in Decisions, Judges(t, d)
      PROVE  /\ decision'[u] = decision[u] \/ SampleOK(u, decision'[u])
             /\ carriers'[u] \subseteq carriers[u] \cup ({decision'[u].priority} \ {NoPriority})
  <2>1. CASE u = t
    BY <1>2, <2>1 DEF Judges, Typed, TypeOK
  <2>2. CASE u # t
    BY <1>2, <2>2 DEF Judges, Typed, TypeOK
  <2> QED  BY <2>1, <2>2
<1>3. ASSUME NEW t \in TraceIds, NEW d \in Decisions, Extracts(t, d)
      PROVE  /\ decision'[u] = decision[u] \/ (u \notin Traces /\ decision'[u].mechanism = "none")
             /\ carriers' = carriers
  BY <1>3 DEF Extracts, Typed, TypeOK
<1>4. ASSUME NEW s \in Ids, Waits(s)
      PROVE  decision' = decision /\ carriers' = carriers
  BY <1>4 DEF Waits
<1>5. ASSUME NEW s \in Ids, NEW d \in Decisions, Flushes(s, d)
      PROVE  /\ decision'[u] = decision[u] \/ SampleOK(u, decision'[u])
             /\ carriers' = carriers
  BY <1>5 DEF Flushes, Typed, TypeOK
<1>6. CASE Stays
  BY <1>6 DEF Stays
<1> QED  BY <1>1, <1>2, <1>3, <1>4, <1>5, <1>6, Effects

\* Every decision this process takes comes with a fitting decision maker.
LEMMA MakerFitsStep == Typed /\ Ledger /\ MakerFits /\ [Next]_vars => MakerFits'
<1> SUFFICES ASSUME Typed, Ledger, MakerFits, [Next]_vars, NEW u \in TraceIds
             PROVE  decision'[u].mechanism # "none" =>
                      (decision'[u].dm # "none" <=> decision'[u].priority >= AutoKeep)
  BY DEF MakerFits
<1> QED  BY DecisionStep DEF MakerFits, SampleOK

\* Chunks and carriers already out keep agreeing with the decision, because a
\* decision, once taken, is never taken again.
LEMMA OneDecisionStep == Typed /\ Ledger /\ OneDecision /\ [Next]_vars => OneDecision'
<1> SUFFICES ASSUME Typed, Ledger, OneDecision, [Next]_vars, NEW u \in TraceIds
             PROVE  /\ carriers'[u] \subseteq {decision'[u].priority} \ {NoPriority}
                    /\ \A i \in DOMAIN chunks'[u] :
                          /\ chunks'[u][i].priority = decision'[u].priority
                          /\ chunks'[u][i].priority # NoPriority
                          /\ chunks'[u][i].dm = decision'[u].dm
  BY DEF OneDecision
<1>1. decision[u].priority # NoPriority => decision'[u] = decision[u] \/ u \notin Traces
  BY DecisionStep DEF SampleOK
<1>2. u \notin Traces => carriers[u] = {} /\ chunks[u] = <<>>
  BY DEF Ledger, Blank
<1>3. carriers'[u] \subseteq {decision'[u].priority} \ {NoPriority}
  <2>1. carriers[u] # {} => decision'[u] = decision[u]
    BY <1>1, <1>2 DEF OneDecision
  <2> QED  BY <2>1, DecisionStep DEF OneDecision
<1>4. ASSUME NEW i \in DOMAIN chunks[u]
      PROVE  /\ chunks[u][i].priority = decision'[u].priority
             /\ chunks[u][i].priority # NoPriority
             /\ chunks[u][i].dm = decision'[u].dm
  <2>1. u \in Traces /\ decision[u].priority # NoPriority
    BY <1>2, <1>4 DEF OneDecision
  <2>2. decision'[u] = decision[u]
    BY <1>1, <2>1
  <2> QED  BY <1>4, <2>2 DEF OneDecision
<1>5. CASE chunks'[u] = chunks[u]
  BY <1>3, <1>4, <1>5
<1>6. ASSUME NEW s \in Ids, NEW d \in Decisions, Flushes(s, d), u = home[s], u \in recording
      PROVE  \A i \in DOMAIN chunks'[u] :
                /\ chunks'[u][i].priority = decision'[u].priority
                /\ chunks'[u][i].priority # NoPriority
                /\ chunks'[u][i].dm = decision'[u].dm
  <2> DEFINE c == ChunkOf(u, started[u] \cap ended', d)
  <2>1. decision'[u] = d /\ d.priority # NoPriority
    <3>1. started[u] # {}
      BY <1>6, HomeOf DEF Flushes
    <3> QED  BY <1>6, <3>1 DEF Flushes, Typed, TypeOK
  <2>2. c.priority = d.priority /\ c.dm = d.dm
    BY DEF ChunkOf
  <2> HIDE DEF c
  <2>3. /\ DOMAIN chunks'[u] = 1..(Len(chunks[u]) + 1) /\ DOMAIN chunks[u] = 1..Len(chunks[u])
        /\ Len(chunks[u]) \in Nat
        /\ \A k \in DOMAIN chunks[u] : chunks'[u][k] = chunks[u][k]
        /\ chunks'[u][Len(chunks[u]) + 1] = c
    BY <1>6, ChunksStep DEF c
  <2> QED  BY <1>4, <2>1, <2>2, <2>3
<1>7. \/ chunks'[u] = chunks[u]
      \/ \E s \in Ids, d \in Decisions : Flushes(s, d) /\ u = home[s] /\ u \in recording
  <2>1. ASSUME NEW s \in Ids, NEW d \in Decisions, Flushes(s, d)
        PROVE  chunks'[u] = chunks[u] \/ (u = home[s] /\ u \in recording)
    BY <2>1, ChunksStep
  <2>2. ASSUME NEW t \in TraceIds, NEW d \in Decisions, Opens(t, d) \/ Judges(t, d) \/ Extracts(t, d)
        PROVE  chunks' = chunks
    BY <2>2 DEF Opens, Judges, Extracts, SpanState
  <2>3. ASSUME NEW s \in Ids, Waits(s) PROVE chunks' = chunks
    BY <2>3 DEF Waits
  <2>4. CASE Stays
    BY <2>4 DEF Stays, SpanState
  <2> QED  BY <2>1, <2>2, <2>3, <2>4, Effects
<1> QED  BY <1>3, <1>5, <1>6, <1>7

\* A span marked as sampled on its own belongs to a trace decided against.
Singled ==
    \A s \in singled : s \in Started /\ decision[home[s]].priority \notin {AutoKeep, UserKeep, NoPriority}

\* Marks of the single-span sampler are only given to traces already rejected,
\* and these stay rejected.
LEMMA SingledStep == Typed /\ Ledger /\ Singled /\ [Next]_vars => Singled'
<1> SUFFICES ASSUME Typed, Ledger, Singled, [Next]_vars, NEW x \in singled'
             PROVE  x \in Started' /\ decision'[home'[x]].priority \notin {AutoKeep, UserKeep, NoPriority}
  BY DEF Singled
<1>1. ASSUME NEW y \in Started
      PROVE  /\ home[y] \in TraceIds
             /\ decision[home[y]].priority # NoPriority => decision'[home[y]] = decision[home[y]]
  <2>1. home[y] \in TraceIds /\ home[y] \in Traces
    BY BoundAssumption DEF BoundAssumption, Typed, TypeOK, HomeOK, Traces, TraceIds
  <2> QED  BY <2>1, DecisionStep DEF SampleOK
<1>2. ASSUME NEW t \in TraceIds, NEW d \in Decisions, Opens(t, d)
      PROVE  x \in Started' /\ decision'[home'[x]].priority \notin {AutoKeep, UserKeep, NoPriority}
  <2>1. x \in singled /\ x \in Started
    BY <1>2 DEF Opens, Singled
  <2>2. x \in Started' /\ home'[x] = home[x]
    BY <1>2, <2>1, NewSpan
  <2> QED  BY <1>1, <2>1, <2>2 DEF Singled
<1>3. ASSUME UNCHANGED <<singled, home, spans>>
      PROVE  x \in Started' /\ decision'[home'[x]].priority \notin {AutoKeep, UserKeep, NoPriority}
  BY <1>1, <1>3 DEF Singled, Started
<1>4. ASSUME NEW s \in Ids, NEW d \in Decisions, Flushes(s, d)
      PROVE  x \in Started' /\ decision'[home'[x]].priority \notin {AutoKeep, UserKeep, NoPriority}
  <2>1. UNCHANGED <<home, spans>>
    BY <1>4 DEF Flushes
  <2>2. CASE x \in singled
    BY <1>1, <2>1, <2>2 DEF Singled, Started
  <2>3. CASE x \notin singled
    <3>1. x \in started[home[s]] /\ ~Kept(d.priority) /\ home[s] \in TraceIds
      BY <1>4, <2>3, HomeOf DEF Flushes
    <3>2. x \in Started /\ home[x] = home[s]
      BY <3>1 DEF Ledger
    <3>3. decision'[home[s]] = d /\ d.priority # NoPriority
      BY <1>4, <3>1 DEF Flushes, Typed, TypeOK
    <3> QED  BY <2>1, <3>1, <3>2, <3>3 DEF Kept, Started
  <2> QED  BY <2>2, <2>3
<1>5. ASSUME NEW s \in Ids, Waits(s) PROVE UNCHANGED <<singled, home, spans>>
  BY <1>5 DEF Waits
<1>6. ASSUME NEW t \in TraceIds, NEW d \in Decisions, Judges(t, d) \/ Extracts(t, d)
      PROVE  UNCHANGED <<singled, home, spans>>
  BY <1>6 DEF Judges, Extracts, SpanState
<1>7. CASE Stays
  BY <1>3, <1>7 DEF Stays, SpanState
<1> QED  BY <1>2, <1>3, <1>4, <1>5, <1>6, <1>7, Effects

-----------------------------------------------------------------------------
(* The trace's tags and the root's.                                        *)

\* A chunk carries the trace's tags on its first span; or it has none, and
\* they are still to come with an older span that is open, or came later.
Tagged(t, i) == chunks[t][i].tagged = Min(chunks[t][i].spans)
Untagged(t, i) ==
    /\ chunks[t][i].tagged = 0
    /\ \/ \E s \in started[t] : s < Min(chunks[t][i].spans)
       \/ \E j \in DOMAIN chunks[t] : i < j /\ chunks[t][j].tagged # 0

TagsOf(t) ==
    /\ \A i \in DOMAIN chunks[t] : chunks[t][i].spans # {} /\ (Tagged(t, i) \/ Untagged(t, i))
    /\ chunks[t] # <<>> /\ started[t] = {} => chunks[t][Len(chunks[t])].tagged # 0

\* TraceTagsReported, also of the traces that do not exist yet.
TraceTags == \A t \in TraceIds \cap recording : TagsOf(t)

\* RootTagsReported, likewise.
RootTags ==
    \A t \in TraceIds : \A i \in DOMAIN chunks[t] :
        LET first == Min(SpansOf(t))
        IN first \in chunks[t][i].spans /\ first \notin parented => chunks[t][i].top = first

\* What a flush of an exported trace puts in its chunk.
LEMMA FlushedTags ==
    ASSUME Typed, Ledger, NEW s \in Ids, NEW d \in Decisions, Flushes(s, d)
    PROVE  LET t == home[s]
               out == started[t] \cap ended'
               first == Min(started[t])
               c == ChunkOf(t, out, d)
           IN /\ out # {} /\ out \subseteq Nat /\ started[t] \subseteq Nat /\ started[t] # {}
              /\ first \in started[t] /\ \A x \in started[t] : first <= x
              /\ c.spans = out
              /\ first \in out => c.tagged = first /\ first # 0 /\ first = Min(out)
              /\ first \notin out => /\ c.tagged = 0 /\ first \in started'[t]
                                     /\ \A x \in started[t] : first <= x
                                     /\ first < Min(out)
              /\ first \in out /\ first \notin parented => c.top = first
<1> DEFINE t == home[s]
           out == started[t] \cap ended'
           first == Min(started[t])
           c == ChunkOf(t, out, d)
<1>1. /\ t \in TraceIds /\ out # {} /\ started'[t] = started[t] \ ended'
      /\ started[t] \subseteq Ids
  BY ChunksStep DEF Typed, TypeOK
<1>2. Ids \subseteq Nat \ {0}
  BY BoundAssumption DEF BoundAssumption, Ids
<1>3. out \subseteq Nat /\ started[t] \subseteq Nat /\ started[t] # {}
  BY <1>1, <1>2
<1>4. first \in started[t] /\ \A x \in started[t] : first <= x
  BY <1>3, MinIs
<1>5. /\ c.spans = out
      /\ c.tagged = IF first \in out THEN first ELSE 0
      /\ c.top = IF first \in out \ parented THEN first ELSE 0
  BY DEF ChunkOf
<1> HIDE DEF c
<1>6. ASSUME first \in out PROVE first = Min(out) /\ first # 0
  <2>1. \A x \in out : first <= x
    BY <1>4
  <2> HIDE DEF out, first
  <2> QED  BY <1>1, <1>2, <1>3, <1>4, <1>6, <2>1, MinIsOnly
<1>7. ASSUME first \notin out PROVE first \in started'[t] /\ first < Min(out)
  <2>1. Min(out) \in out
    BY <1>1, <1>3, MinIs
  <2>2. Min(out) \in started[t] /\ Min(out) # first
    BY <1>7, <2>1
  <2>3. first \in Nat /\ Min(out) \in Nat /\ first <= Min(out)
    BY <1>3, <1>4, <2>2
  <2> QED  BY <1>1, <1>4, <1>7, <2>2, <2>3
<1> QED  BY <1>1, <1>3, <1>4, <1>5, <1>6, <1>7 DEF c

\* A flush keeps the promise for the trace it flushes: it tags its chunk, or
\* leaves the older span open that the tags wait for.
LEMMA TagsFlushed ==
    ASSUME Typed, Ledger, NEW s \in Ids, NEW d \in Decisions, Flushes(s, d),
           home[s] \in recording, TagsOf(home[s])
    PROVE  TagsOf(home[s])'
<1> DEFINE t == home[s]
           out == started[t] \cap ended'
           first == Min(started[t])
           c == ChunkOf(t, out, d)
           n == Len(chunks[t])
<1>1. /\ t \in TraceIds /\ chunks[t] \in Seq(Chunks) /\ n \in Nat
      /\ DOMAIN chunks[t] = 1..n /\ DOMAIN chunks'[t] = 1..(n + 1)
      /\ \A i \in 1..n : chunks'[t][i] = chunks[t][i]
      /\ chunks'[t][n + 1] = c
      /\ started'[t] = started[t] \ ended'
      /\ home' = home
  BY ChunksStep DEF Flushes
<1>2. chunks' \in [TraceIds -> Seq(Chunks)]
  <2>1. chunks' = [chunks EXCEPT ![t] = Append(chunks[t], c)] /\ c \in Chunks
    <3>1. c \in Chunks
      <4>1. t \in TraceIds
        BY ChunksStep
      <4>2. out \subseteq Ids
        BY <4>1 DEF Typed, TypeOK
      <4>3. \A x \in out : x \in 0..MaxSpans
        BY <4>2, BoundAssumption DEF BoundAssumption, Ids
      <4>4. 0 \in 0..MaxSpans
        BY BoundAssumption DEF BoundAssumption
      <4>5. d.priority \in Int /\ d.dm \in Mechanisms \cup {"remote"}
        BY DEF Decisions
      <4> HIDE DEF out, t
      <4> QED  BY <4>2, <4>3, <4>4, <4>5 DEF ChunkOf, Chunks
    <3> HIDE DEF c
    <3> QED  BY <3>1, ChunksStep DEF Flushes, c
  <2> HIDE DEF c
  <2> QED  BY <1>1, <2>1 DEF Typed, TypeOK
<1>3. Len(chunks'[t]) = n + 1
  <2>1. chunks'[t] \in Seq(Chunks)
    BY <1>1, <1>2
  <2>2. DOMAIN chunks'[t] = 1..Len(chunks'[t]) /\ Len(chunks'[t]) \in Nat
    BY <2>1
  <2> HIDE DEF n
  <2> QED  BY <1>1, <2>2
<1>4. /\ started[t] \subseteq Nat /\ out \subseteq Nat /\ out # {}
      /\ first \in started[t] /\ \A x \in started[t] : first <= x
      /\ c.spans = out
      /\ first \in out => c.tagged = Min(out) /\ c.tagged # 0
      /\ first \notin out => c.tagged = 0 /\ first \in started'[t] /\ first < Min(out)
  BY FlushedTags
<1>5. \A i \in DOMAIN chunks[t] : chunks[t][i].spans # {} /\ (Tagged(t, i) \/ Untagged(t, i))
  BY DEF TagsOf
<1> HIDE DEF c, out, first, n
<1>6. ASSUME NEW i \in 1..n
      PROVE  \/ chunks[t][i].tagged = Min(chunks[t][i].spans)
             \/ /\ chunks[t][i].tagged = 0
                /\ \/ \E x \in started'[t] : x < Min(chunks[t][i].spans)
                   \/ \E j \in 1..(n + 1) : i < j /\ chunks'[t][j].tagged # 0
  <2>1. CASE Tagged(t, i)
    BY <2>1 DEF Tagged
  <2>2. CASE chunks[t][i].tagged = 0 /\ \E j \in 1..n : i < j /\ chunks[t][j].tagged # 0
    <3>1. PICK j \in 1..n : i < j /\ chunks[t][j].tagged # 0
      BY <2>2
    <3>2. j \in 1..(n + 1) /\ chunks'[t][j].tagged # 0
      BY <1>1, <3>1
    <3> QED  BY <2>2, <3>1, <3>2
  <2>3. CASE chunks[t][i].tagged = 0 /\ \E x \in started[t] : x < Min(chunks[t][i].spans)
    <3>1. CASE first \in out
      <4>1. n + 1 \in 1..(n + 1) /\ i < n + 1 /\ chunks'[t][n + 1].tagged # 0
        BY <1>1, <1>4, <3>1
      <4> QED  BY <2>3, <4>1
    <3>2. CASE first \notin out
      <4> DEFINE S == chunks[t][i].spans
      <4>1. PICK x \in started[t] : x < Min(S)
        BY <2>3
      <4>2. S \subseteq Nat /\ S # {}
        <5>1. chunks[t][i] \in Chunks /\ S # {}
          BY <1>1, <1>5
        <5> QED  BY <5>1, BoundAssumption DEF BoundAssumption, Chunks, Ids
      <4>3. Min(S) \in Nat
        BY <4>2, MinIs
      <4> HIDE DEF S
      <4>4. first \in started'[t] /\ first < Min(S)
        BY <1>4, <3>2, <4>1, <4>3
      <4> QED  BY <2>3, <4>4 DEF S
    <3> QED  BY <3>1, <3>2
  <2> QED  BY <1>1, <1>5, <2>1, <2>2, <2>3 DEF Untagged
<1>7. ASSUME NEW i \in DOMAIN chunks'[t]
      PROVE  chunks'[t][i].spans # {} /\ (Tagged(t, i)' \/ Untagged(t, i)')
  <2>1. CASE i \in 1..n
    BY <1>1, <1>5, <1>6, <2>1 DEF Tagged, Untagged, t
  <2>2. CASE i = n + 1
    <3>1. CASE first \in out
      BY <1>1, <1>4, <2>2, <3>1 DEF Tagged, t
    <3>2. CASE first \notin out
      BY <1>1, <1>4, <2>2, <3>2 DEF Untagged, t
    <3> QED  BY <3>1, <3>2
  <2> QED  BY <1>1, <1>7, <2>1, <2>2
<1>8. started'[t] = {} => chunks'[t][Len(chunks'[t])].tagged # 0
  BY <1>1, <1>3, <1>4
<1> QED  BY <1>1, <1>7, <1>8 DEF TagsOf

\* Only flushes touch the chunks of a trace, only these take spans out of
\* trace.started, and nothing turns recording back on.
LEMMA TagsStep == Typed /\ Ledger /\ TraceTags /\ [Next]_vars => TraceTags'
<1> SUFFICES ASSUME Typed, Ledger, TraceTags, [Next]_vars, NEW u \in TraceIds, u \in recording'
             PROVE  TagsOf(u)'
  BY DEF TraceTags
<1>1. ASSUME u \in recording, chunks'[u] = chunks[u], started[u] \subseteq started'[u]
      PROVE  TagsOf(u)'
  BY <1>1 DEF TraceTags, TagsOf, Tagged, Untagged
<1>2. ASSUME NEW t \in TraceIds, NEW d \in Decisions, Opens(t, d) PROVE TagsOf(u)'
  <2>1. started[u] \subseteq started'[u]
    BY <1>2, NewSpan
  <2> QED  BY <1>1, <1>2, <2>1 DEF Opens
<1>3. ASSUME NEW t \in TraceIds, NEW d \in Decisions, Judges(t, d) \/ Extracts(t, d)
      PROVE  TagsOf(u)'
  BY <1>1, <1>3 DEF Judges, Extracts, SpanState
<1>4. ASSUME NEW s \in Ids, Waits(s) PROVE TagsOf(u)'
  BY <1>1, <1>4 DEF Waits
<1>5. ASSUME NEW s \in Ids, NEW d \in Decisions, Flushes(s, d) PROVE TagsOf(u)'
  <2>1. u \in recording
    BY <1>5 DEF Flushes
  <2>2. CASE u = home[s]
    <3>1. TagsOf(home[s])'
      <4>1. home[s] \in recording /\ TagsOf(home[s])
        BY <2>1, <2>2 DEF TraceTags
      <4> QED  BY <1>5, <4>1, TagsFlushed
    <3>2. home' = home
      BY <1>5 DEF Flushes
    <3> QED  BY <2>2, <3>1, <3>2 DEF TagsOf, Tagged, Untagged
  <2>3. CASE u # home[s]
    <3>1. chunks'[u] = chunks[u] /\ started'[u] = started[u]
      BY <1>5, <2>3, ChunksStep
    <3> QED  BY <1>1, <2>1, <3>1
  <2> QED  BY <2>2, <2>3
<1>6. CASE Stays
  BY <1>1, <1>6 DEF Stays, SpanState
<1> QED  BY <1>2, <1>3, <1>4, <1>5, <1>6, Effects

\* A span never gains or loses its parent.
LEMMA ParentKept ==
    ASSUME Typed, [Next]_vars, NEW s \in Started
    PROVE  s \in parented' <=> s \in parented
<1>1. s # spans + 1
  BY DEF Started, Typed, TypeOK
<1> QED  BY <1>1 DEF Next, vars, spanVars, StartRoot, StartChild, StartFromRemote, Extract, AddTags,
          FilterOut, InjectSpan, InjectRemote, InjectWith, UpdateRates, Finish, KillAll

\* The first span of a trace stays its first.
LEMMA FirstKept ==
    ASSUME Typed, Ledger, NEW t \in TraceIds, NEW d \in Decisions, Opens(t, d),
           NEW u \in TraceIds, SpansOf(u) # {}
    PROVE  Min(SpansOf(u))' = Min(SpansOf(u)) /\ Min(SpansOf(u)) \in SpansOf(u)
<1>1. SpansOf(u) \subseteq Nat /\ SpansOf(u) \subseteq 1..spans
  BY DEF SpansOf, Started, Typed, TypeOK
<1>2. Min(SpansOf(u)) \in SpansOf(u) /\ \A y \in SpansOf(u) : Min(SpansOf(u)) <= y
  BY <1>1, MinIs
<1>3. /\ SpansOf(u) \subseteq SpansOf(u)'
      /\ SpansOf(u)' \subseteq SpansOf(u) \cup {spans + 1}
  BY NewSpan DEF SpansOf
<1>4. spans \in Nat
  BY DEF Typed, TypeOK
<1>5. \A y \in SpansOf(u)' : Min(SpansOf(u)) <= y
  BY <1>1, <1>2, <1>3, <1>4
<1>6. SpansOf(u)' \subseteq Nat
  BY <1>1, <1>3, <1>4
<1> DEFINE S == SpansOf(u)'
           m == Min(SpansOf(u))
<1>7. S \subseteq Nat /\ m \in S /\ \A y \in S : m <= y
  BY <1>2, <1>3, <1>5, <1>6
<1>8. Min(S) = m
  <2> HIDE DEF S, m
  <2> QED  BY <1>7, MinIsOnly
<1> QED  BY <1>2, <1>8

\* A span in a chunk is one of the trace's.
LEMMA ChunkSpan ==
    ASSUME Typed, Ledger, NotTwice, NEW t \in TraceIds, NEW i \in DOMAIN chunks[t],
           NEW s \in chunks[t][i].spans
    PROVE  s \in SpansOf(t)
  BY DEF Ledger, NotTwice, SpansOf

\* The chunk of the first span has the root's tags, whether a flush adds it now
\* or it is there already.
LEMMA RootTagsStep == Typed /\ Ledger /\ NotTwice /\ RootTags /\ [Next]_vars => RootTags'
<1> SUFFICES ASSUME Typed, Ledger, NotTwice, RootTags, [Next]_vars,
                    NEW u \in TraceIds, NEW i \in DOMAIN chunks'[u],
                    Min(SpansOf(u))' \in chunks'[u][i].spans, Min(SpansOf(u))' \notin parented'
             PROVE  chunks'[u][i].top = Min(SpansOf(u))'
  BY DEF RootTags
<1> DEFINE first == Min(SpansOf(u))
<1>1. ASSUME i \in DOMAIN chunks[u], chunks'[u][i] = chunks[u][i], Min(SpansOf(u))' = first
      PROVE  chunks'[u][i].top = Min(SpansOf(u))'
  <2>1. first \in chunks[u][i].spans
    BY <1>1
  <2>2. first \in Started
    BY <1>1, <2>1, ChunkSpan DEF SpansOf
  <2>3. first \notin parented
    BY <1>1, <2>2, ParentKept
  <2> QED  BY <1>1, <2>1, <2>3 DEF RootTags
<1>2. ASSUME NEW t \in TraceIds, NEW d \in Decisions, Opens(t, d)
      PROVE  chunks'[u][i].top = Min(SpansOf(u))'
  <2>1. chunks' = chunks
    BY <1>2 DEF Opens
  <2>2. Min(SpansOf(u))' \in SpansOf(u)
    BY <2>1, ChunkSpan
  <2>3. Min(SpansOf(u))' = first
    BY <1>2, <2>2, FirstKept
  <2> QED  BY <1>1, <2>1, <2>3
<1>3. ASSUME UNCHANGED <<spans, home, chunks>>
      PROVE  chunks'[u][i].top = Min(SpansOf(u))'
  <2>1. SpansOf(u)' = SpansOf(u)
    BY <1>3 DEF SpansOf, Started
  <2> QED  BY <1>1, <1>3, <2>1
<1>4. ASSUME NEW s \in Ids, NEW d \in Decisions, Flushes(s, d)
      PROVE  chunks'[u][i].top = Min(SpansOf(u))'
  <2>1. SpansOf(u)' = SpansOf(u)
    BY <1>4 DEF Flushes, SpansOf, Started
  <2>2. CASE i \in DOMAIN chunks[u] /\ chunks'[u][i] = chunks[u][i]
    BY <1>1, <2>1, <2>2
  <2>3. CASE u = home[s] /\ chunks'[u][i] = ChunkOf(u, started[u] \cap ended', d)
    <3> DEFINE out == started[u] \cap ended'
               c == ChunkOf(u, out, d)
    <3>1. /\ started[u] \subseteq Nat
          /\ Min(started[u]) \in started[u] /\ \A x \in started[u] : Min(started[u]) <= x
          /\ c.spans = out
          /\ Min(started[u]) \in out /\ Min(started[u]) \notin parented => c.top = Min(started[u])
      BY <1>4, <2>3, FlushedTags
    <3>2. first \in out
      BY <2>1, <2>3, <3>1
    <3>3. started[u] \subseteq SpansOf(u)
      BY DEF Ledger, SpansOf
    <3>4. \A x \in started[u] : first <= x
      <4>1. SpansOf(u) \subseteq Nat /\ SpansOf(u) # {}
        BY <3>2, <3>3 DEF SpansOf, Started
      <4>2. \A x \in SpansOf(u) : first <= x
        BY <4>1, MinIs
      <4> QED  BY <3>3, <4>2
    <3>5. first = Min(started[u])
      BY <3>1, <3>2, <3>4, MinIsOnly
    <3>6. first \notin parented
      <4>1. first \in Started
        BY <3>2, <3>3 DEF SpansOf
      <4> QED  BY <2>1, <4>1, ParentKept
    <3> HIDE DEF out, c
    <3> QED  BY <2>1, <2>3, <3>1, <3>2, <3>5, <3>6 DEF c, out
  <2>4. CASE u # home[s] \/ home[s] \notin recording
    <3>1. chunks'[u] = chunks[u]
      <4>1. CASE u # home[s]
        BY <1>4, <4>1, ChunksStep
      <4>2. CASE u = home[s]
        <5>1. home[s] \notin recording
          BY <2>4, <4>2
        <5>2. chunks'[home[s]] = chunks[home[s]]
          BY <1>4, <5>1, ChunksStep
        <5> QED  BY <4>2, <5>2
      <4> QED  BY <4>1, <4>2
    <3> QED  BY <2>2, <3>1
  <2>5. CASE u = home[s] /\ home[s] \in recording
    <3>1. /\ DOMAIN chunks'[u] = 1..(Len(chunks[u]) + 1) /\ DOMAIN chunks[u] = 1..Len(chunks[u])
          /\ Len(chunks[u]) \in Nat
          /\ \A k \in DOMAIN chunks[u] : chunks'[u][k] = chunks[u][k]
          /\ chunks'[u][Len(chunks[u]) + 1] = ChunkOf(u, started[u] \cap ended', d)
      BY <1>4, <2>5, ChunksStep
    <3> QED  BY <2>2, <2>3, <2>5, <3>1
  <2> QED  BY <2>4, <2>5
<1>5. ASSUME NEW s \in Ids, Waits(s) PROVE UNCHANGED <<spans, home, chunks>>
  BY <1>5 DEF Waits
<1>6. ASSUME NEW t \in TraceIds, NEW d \in Decisions, Judges(t, d) \/ Extracts(t, d)
      PROVE  UNCHANGED <<spans, home, chunks>>
  BY <1>6 DEF Judges, Extracts, SpanState
<1>7. CASE Stays
  BY <1>3, <1>7 DEF Stays, SpanState
<1> QED  BY <1>2, <1>3, <1>4, <1>5, <1>6, <1>7, Effects

-----------------------------------------------------------------------------
(* The inductive invariant and what follows from it.                       *)

IndInv ==
    /\ Typed /\ Ledger
    /\ NotTwice /\ CountedOnce /\ NoSpanLost
    /\ Drained
    /\ OneDecision /\ MakerFits /\ Singled
    /\ TraceTags /\ RootTags

\* Typing, bookkeeping and the safety parts hold together in every reachable
\* state: the inductive invariant behind the theorems below.
THEOREM Inductive == Spec => []IndInv
<1>1. Init => IndInv
  <2> SUFFICES ASSUME Init PROVE IndInv
    OBVIOUS
  <2>1. NotTwice /\ CountedOnce /\ NoSpanLost /\ OneDecision /\ Singled
    BY DEF Init, NotTwice, CountedOnce, NoSpanLost, OneDecision, Singled
  <2>2. MakerFits
    BY DEF Init, MakerFits, Undecided
  <2>3. TraceTags /\ RootTags
    BY DEF Init, TraceTags, RootTags, TagsOf
  <2> QED  BY <2>1, <2>2, <2>3, TypedInit, LedgerInit, DrainedInit DEF IndInv
<1>2. IndInv /\ [Next]_vars => IndInv'
  BY TypedStep, LedgerStep, NotTwiceStep, CountedOnceStep, NoSpanLostStep, DrainedStep,
     OneDecisionStep, MakerFitsStep, SingledStep, TagsStep, RootTagsStep DEF IndInv
<1> QED  BY <1>1, <1>2, PTL DEF Spec

\* Whatever the calls and their order, the arrays and records of the code keep
\* their types, and every span that exists belongs to a trace that exists.
THEOREM TypeCorrect == Spec => []TypeOK
<1>1. IndInv => TypeOK
  BY DEF IndInv, Typed
<1> QED  BY <1>1, Inductive, PTL

\* No partial flush drops a finished span of a recorded trace, whatever the
\* threshold and the order in which spans are started and finished.
THEOREM SpansAreNotLost == Spec => []NoSpanLost
<1>1. IndInv => NoSpanLost
  BY DEF IndInv
<1> QED  BY <1>1, Inductive, PTL

\* No span is exported or counted twice, and none before it has ended.
THEOREM SpansAreNotRepeated == Spec => []NoSpanTwice
<1>1. IndInv => NoSpanTwice
  BY DEF IndInv, NoSpanTwice, NotTwice, CountedOnce
<1> QED  BY <1>1, Inductive, PTL

\* Finished spans never pile up to the threshold, nor outlive the trace's last
\* open span.
THEOREM FinishedSpansDrain == Spec => []NothingStranded
<1>1. IndInv => NothingStranded
  BY BoundAssumption DEF BoundAssumption, IndInv, NothingStranded, Drained, Typed, TypeOK, Traces, TraceIds
<1> QED  BY <1>1, Inductive, PTL

\* Chunks and carriers of a trace never contradict each other.
THEOREM DecisionIsShared == Spec => []OneDecision
<1>1. IndInv => OneDecision
  BY DEF IndInv
<1> QED  BY <1>1, Inductive, PTL

\* A decision of this process names its maker exactly when it keeps the trace.
THEOREM DecisionHasMaker == Spec => []DecisionMakerIfKept
<1>1. IndInv => DecisionMakerIfKept
  BY BoundAssumption DEF BoundAssumption, IndInv, DecisionMakerIfKept, MakerFits, Typed, TypeOK, Traces, TraceIds
<1> QED  BY <1>1, Inductive, PTL

\* Single-span marks never appear in a trace that is kept.
THEOREM SingledIsRejected == Spec => []SingledOnlyIfRejected
<1>1. IndInv => SingledOnlyIfRejected
  BY DEF IndInv, SingledOnlyIfRejected, Singled
<1> QED  BY <1>1, Inductive, PTL

\* Neither the trace's tags nor its root's are lost, in whatever order the
\* spans of a trace leave.
THEOREM TagsAreReported == Spec => []TagsReported
<1>1. IndInv => TagsReported
  <2> SUFFICES ASSUME IndInv PROVE TraceTagsReported /\ RootTagsReported
    BY DEF TagsReported
  <2>1. Traces \subseteq TraceIds /\ chunks \in [TraceIds -> Seq(Chunks)]
    BY BoundAssumption DEF BoundAssumption, IndInv, Typed, TypeOK, Traces, TraceIds
  <2>2. RootTagsReported
    BY <2>1 DEF IndInv, RootTags, RootTagsReported
  <2>3. ASSUME NEW t \in Traces, t \in recording, chunks[t] # <<>>
        PROVE  LET n == Len(chunks[t])
               IN /\ started[t] = {} => chunks[t][n].tagged # 0
                  /\ \A i \in 1..n : \/ chunks[t][i].tagged = Min(chunks[t][i].spans)
                                     \/ /\ chunks[t][i].tagged = 0
                                        /\ \/ \E s \in started[t] : s < Min(chunks[t][i].spans)
                                           \/ \E j \in (i + 1)..n : chunks[t][j].tagged # 0
    <3> DEFINE n == Len(chunks[t])
    <3>1. DOMAIN chunks[t] = 1..n /\ n \in Nat /\ TagsOf(t)
      BY <2>1, <2>3 DEF IndInv, TraceTags
    <3>2. started[t] = {} => chunks[t][n].tagged # 0
      BY <2>3, <3>1 DEF TagsOf
    <3> HIDE DEF n
    <3>3. \A i, j \in 1..n : i < j => j \in (i + 1)..n
      BY <3>1
    <3>4. \A i \in 1..n : \/ chunks[t][i].tagged = Min(chunks[t][i].spans)
                          \/ /\ chunks[t][i].tagged = 0
                             /\ \/ \E s \in started[t] : s < Min(chunks[t][i].spans)
                                \/ \E j \in (i + 1)..n : chunks[t][j].tagged # 0
      BY <3>1, <3>3 DEF TagsOf, Tagged, Untagged
    <3> QED  BY <3>2, <3>4 DEF n
  <2>4. TraceTagsReported
    BY <2>3 DEF TraceTagsReported
  <2> QED  BY <2>2, <2>4
<1> QED  BY <1>1, Inductive, PTL

-----------------------------------------------------------------------------
(* SpanProcessor implements TraceReporting.  `state` is the abstract state *)
(* and `verdict` the abstract verdict of the INSTANCE in SpanProcessor.    *)

State == [s \in Ids |-> Progress(s)]
Verdict == [t \in TraceIds |-> decision[t].priority]

\* A span keeps its abstract state if a step changes nothing of it.
LEMMA ProgressKept ==
    ASSUME Ledger, NEW x,
           x \in Started' <=> x \in Started,
           x \in ended' <=> x \in ended,
           x \in Started => (x \in finished'[home'[x]] <=> x \in finished[home[x]]),
           x \in Started => (Reported(x)' <=> Reported(x))
    PROVE  Progress(x)' = Progress(x)
<1>1. CASE x \notin Started
  BY <1>1 DEF Progress, Ledger
<1>2. CASE x \in Started \ ended
  BY <1>2 DEF Progress
<1>3. CASE x \in Started /\ x \in ended /\ x \in finished[home[x]]
  BY <1>3 DEF Progress
<1>4. CASE x \in Started /\ x \in ended /\ x \notin finished[home[x]]
  BY <1>4 DEF Progress
<1> QED  BY <1>1, <1>2, <1>3, <1>4

\* A decision taken by a step on trace t may be judged by the abstract step.
LEMMA MayJudge ==
    ASSUME Typed, NEW t \in TraceIds, NEW d \in Decisions,
           decision' = [decision EXCEPT ![t] = d],
           d = decision[t] \/ decision[t].priority = NoPriority
    PROVE  Reporting!MayJudge(t)
<1>1. /\ \A u \in TraceIds \ {t} : decision'[u].priority = decision[u].priority
      /\ decision'[t].priority = d.priority
      /\ d.priority \in Int
  BY DEF Typed, TypeOK, Decisions
<1>2. Verdict' = [Verdict EXCEPT ![t] = d.priority]
  BY <1>1 DEF Verdict
<1>3. Verdict'[t] = d.priority /\ Verdict[t] = decision[t].priority
  BY <1>1 DEF Verdict
<1>4. CASE d.priority = decision[t].priority
  <2>1. Verdict' = Verdict
    BY <1>2, <1>4 DEF Verdict
  <2> QED  BY <2>1 DEF Reporting!MayJudge, Verdict
<1>5. CASE d.priority # decision[t].priority
  <2>1. Verdict[t] = NoPriority /\ Verdict'[t] \in Int \ {NoPriority}
    BY <1>1, <1>3, <1>5
  <2>2. Verdict' = [Verdict EXCEPT ![t] = Verdict'[t]]
    BY <1>2, <1>3
  <2> QED  BY <2>1, <2>2 DEF Reporting!MayJudge, Verdict
<1> QED  BY <1>4, <1>5

\* startSpan begins a span.
LEMMA OpensBegins ==
    ASSUME Typed, Ledger, NEW t \in TraceIds, NEW d \in Decisions, Opens(t, d),
           NEW s \in Ids, s = spans + 1
    PROVE  Reporting!Begin(s, t)
<1>1. Reporting!MayJudge(t)
  BY MayJudge DEF Opens, SampleOK
<1>2. UNCHANGED <<ended, finished, chunks>>
  BY DEF Opens
<1>3. ASSUME NEW x \in Ids, x # s
      PROVE  Progress(x)' = Progress(x)
  <2>1. x \in Started' <=> x \in Started
    BY <1>3, NewSpan
  <2>2. x \in Started => home'[x] = home[x]
    BY NewSpan
  <2> QED  BY <1>2, <2>1, <2>2, ProgressKept DEF Reported
<1>4. s \notin Started /\ s \in Started' /\ s \notin ended /\ s \notin ended'
  BY <1>2, NewSpan DEF Ledger
<1>5. Progress(s) = "unborn" /\ Progress(s)' = "open"
  BY <1>4 DEF Progress
<1>6. State' = [State EXCEPT ![s] = "open"]
  BY <1>3, <1>4, <1>5 DEF State
<1>7. State[s] = "unborn"
  BY <1>4, <1>5 DEF State
<1> QED  BY <1>1, <1>6, <1>7 DEF Reporting!Begin, Opens, State

\* A step that touches no span leaves their abstract states alone.
LEMMA StateKept ==
    ASSUME Ledger, UNCHANGED SpanState
    PROVE  State' = State /\ home' = home
<1>1. ASSUME NEW x \in Ids PROVE Progress(x)' = Progress(x)
  BY ProgressKept DEF SpanState, Started, Reported
<1> QED  BY <1>1 DEF State, SpanState

\* addTags, a web filter, inject and extract judge a trace, if anything.
LEMMA JudgesJudge ==
    ASSUME Typed, Ledger, NEW t \in TraceIds, NEW d \in Decisions,
           Judges(t, d) \/ Extracts(t, d)
    PROVE  Reporting!Judge(t)
<1>1. UNCHANGED SpanState
  BY DEF Judges, Extracts
<1>2. decision' = [decision EXCEPT ![t] = d]
  BY DEF Judges, Extracts
<1>3. d = decision[t] \/ decision[t].priority = NoPriority
  BY DEF Judges, Extracts, SampleOK, Ledger, Blank, Undecided
<1>4. Reporting!MayJudge(t)
  BY <1>2, <1>3, MayJudge
<1> QED  BY <1>1, <1>4, StateKept DEF Reporting!Judge, State

\* finish() below the threshold ends its span and lets none go.
LEMMA WaitsEnds ==
    ASSUME Typed, Ledger, NEW s \in Ids, Waits(s)
    PROVE  Reporting!End(s)
<1>1. home[s] \in TraceIds /\ s \in Started \ ended
  BY HomeOf DEF Waits
<1>2. UNCHANGED <<Started, home, decision, chunks>> /\ ended' = ended \cup {s}
  BY DEF Waits, Started
<1>3. /\ finished'[home[s]] = finished[home[s]] \cup {s}
      /\ \A u \in TraceIds \ {home[s]} : finished'[u] = finished[u]
  BY <1>1 DEF Waits, Typed, TypeOK
<1>4. ASSUME NEW x \in Ids, x # s PROVE Progress(x)' = Progress(x)
  <2>1. x \in Started => home[x] \in TraceIds
    BY BoundAssumption DEF BoundAssumption, Typed, TypeOK, HomeOK, Traces, TraceIds
  <2>2. x \in Started => (x \in finished'[home'[x]] <=> x \in finished[home[x]])
    BY <1>2, <1>3, <1>4, <2>1
  <2>3. Reported(x)' <=> Reported(x)
    BY <1>2 DEF Reported
  <2> QED  BY <1>2, <1>4, <2>2, <2>3, ProgressKept
<1>5. Progress(s) = "open" /\ Progress(s)' = "ended"
  BY <1>1, <1>2, <1>3 DEF Progress
<1>6. State' = [x \in Ids |-> IF x \in {} THEN "muted" ELSE IF x = s THEN "ended" ELSE State[x]]
  BY <1>4, <1>5 DEF State
<1>7. State[s] = "open"
  BY <1>5 DEF State
<1>8. Reporting!MayJudge(home[s])
  BY <1>2 DEF Reporting!MayJudge
<1> QED  BY <1>2, <1>6, <1>7, <1>8 DEF Reporting!End, State

\* The spans a flush takes out of trace.started, and what becomes of them.
LEMMA FlushedProgress ==
    ASSUME Typed, Ledger, NotTwice, NEW s \in Ids, NEW d \in Decisions, Flushes(s, d),
           NEW x \in Ids
    PROVE  LET out == started[home[s]] \cap ended'
           IN Progress(x)' = IF x \in out
                             THEN IF home[s] \in recording THEN "reported" ELSE "muted"
                             ELSE Progress(x)
<1> DEFINE t == home[s]
           out == started[t] \cap ended'
           n == Len(chunks[t])
<1>1. /\ t \in TraceIds /\ s \in Started \ ended /\ ended' = ended \cup {s}
      /\ UNCHANGED <<Started, home>>
      /\ finished' = [finished EXCEPT ![t] = {}]
  BY HomeOf DEF Flushes, Started
<1>2. finished'[t] = {} /\ \A u \in TraceIds \ {t} : finished'[u] = finished[u]
  BY <1>1 DEF Typed, TypeOK
<1>3. ASSUME t \in recording
      PROVE  /\ n \in Nat /\ DOMAIN chunks[t] = 1..n /\ DOMAIN chunks'[t] = 1..(n + 1)
             /\ \A i \in 1..n : chunks'[t][i] = chunks[t][i]
             /\ chunks'[t][n + 1].spans = out
  <2> DEFINE c == ChunkOf(t, out, d)
  <2>1. c.spans = out
    BY DEF ChunkOf
  <2> HIDE DEF c
  <2>2. /\ n \in Nat /\ DOMAIN chunks[t] = 1..n /\ DOMAIN chunks'[t] = 1..(n + 1)
        /\ \A i \in DOMAIN chunks[t] : chunks'[t][i] = chunks[t][i]
        /\ chunks'[t][n + 1] = c
    BY <1>3, ChunksStep DEF c
  <2> QED  BY <2>1, <2>2
<1>4. CASE x \in out
  <2>1. x \in Started /\ home[x] = t /\ x \in ended'
    BY <1>1, <1>4 DEF Ledger
  <2>2. CASE t \in recording
    <3>1. n + 1 \in DOMAIN chunks'[t]
      BY <1>3, <2>2
    <3>2. Reported(x)'
      BY <1>1, <1>3, <1>4, <2>1, <2>2, <3>1 DEF Reported
    <3> QED  BY <1>1, <1>2, <1>4, <2>1, <2>2, <3>2 DEF Progress
  <2>3. CASE t \notin recording
    <3>1. chunks'[t] = chunks[t]
      BY <2>3, ChunksStep
    <3>2. ~Reported(x)'
      BY <1>1, <1>4, <2>1, <3>1 DEF Reported, NotTwice
    <3> QED  BY <1>1, <1>2, <1>4, <2>1, <2>3, <3>2 DEF Progress
  <2> QED  BY <2>2, <2>3
<1>5. CASE x \notin out
  <2>1. x # s
    BY <1>5, ChunksStep
  <2>2. x \in ended' <=> x \in ended
    BY <1>1, <2>1
  <2>3. x \in Started => home[x] \in TraceIds
    BY BoundAssumption DEF BoundAssumption, Typed, TypeOK, HomeOK, Traces, TraceIds
  <2>4. ASSUME x \in Started PROVE x \in finished'[home'[x]] <=> x \in finished[home[x]]
    <3>1. CASE home[x] = t
      <4>1. x \notin finished[t]
        BY <1>1, <1>5 DEF Ledger
      <4> QED  BY <1>1, <1>2, <3>1, <4>1
    <3>2. CASE home[x] # t
      BY <1>1, <1>2, <2>3, <2>4, <3>2
    <3> QED  BY <3>1, <3>2
  <2>5. ASSUME x \in Started PROVE Reported(x)' <=> Reported(x)
    <3>1. CASE home[x] = t /\ t \in recording
      <4>1. \A i \in 1..(n + 1) : i \in 1..n \/ i = n + 1
        BY <1>3, <3>1
      <4>2. \A i \in 1..n : i \in 1..(n + 1)
        BY <1>3, <3>1
      <4> HIDE DEF n, out
      <4> QED  BY <1>1, <1>3, <1>5, <3>1, <4>1, <4>2 DEF Reported
    <3>2. CASE ~(home[x] = t /\ t \in recording)
      <4>1. chunks'[home[x]] = chunks[home[x]]
        <5>1. CASE home[x] # t
          BY <2>3, <2>5, <5>1, ChunksStep
        <5>2. CASE home[x] = t
          <6>1. t \notin recording
            BY <3>2, <5>2
          <6>2. chunks'[t] = chunks[t]
            BY <6>1, ChunksStep
          <6> QED  BY <5>2, <6>2
        <5> QED  BY <5>1, <5>2
      <4> QED  BY <1>1, <4>1 DEF Reported
    <3> QED  BY <3>1, <3>2
  <2> QED  BY <1>1, <1>5, <2>2, <2>4, <2>5, ProgressKept
<1> QED  BY <1>4, <1>5

\* finish() with a chunk to export ends its span and lets the finished part of
\* the trace go, under a verdict.
LEMMA FlushesEnds ==
    ASSUME Typed, Ledger, NotTwice, NEW s \in Ids, NEW d \in Decisions, Flushes(s, d)
    PROVE  Reporting!End(s)
<1> DEFINE t == home[s]
           out == started[t] \cap ended'
           fate == IF t \in recording THEN "reported" ELSE "muted"
<1>1. /\ t \in TraceIds /\ s \in Started \ ended /\ ended' = ended \cup {s} /\ home' = home
      /\ s \in out
  BY HomeOf, ChunksStep DEF Flushes
<1>2. State[s] = "open"
  BY <1>1 DEF State, Progress
<1>3. out \in SUBSET ({s} \cup {x \in Ids : State[x] = "ended" /\ home[x] = t})
  <2> SUFFICES ASSUME NEW x \in out, x # s
               PROVE  x \in Ids /\ State[x] = "ended" /\ home[x] = t
    OBVIOUS
  <2>1. x \in Ids
    BY <1>1 DEF Typed, TypeOK
  <2>2. x \in Started /\ home[x] = t /\ x \in ended /\ x \in finished[t]
    BY <1>1 DEF Ledger
  <2>3. Progress(x) = "ended"
    BY <2>2 DEF Progress
  <2> QED  BY <2>1, <2>2, <2>3 DEF State
<1>4. State' = [x \in Ids |-> IF x \in out THEN fate ELSE IF x = s THEN "ended" ELSE State[x]]
  <2>1. ASSUME NEW x \in Ids
        PROVE  Progress(x)' = IF x \in out THEN fate ELSE IF x = s THEN "ended" ELSE State[x]
    BY <1>1, FlushedProgress DEF State
  <2> HIDE DEF out, fate
  <2> QED  BY <2>1 DEF State
<1>5. decision'[t].priority # NoPriority
  BY <1>1 DEF Flushes, Typed, TypeOK
<1>6. Reporting!MayJudge(t)
  <2>1. decision' = [decision EXCEPT ![t] = d] /\ (d = decision[t] \/ decision[t].priority = NoPriority)
    BY DEF Flushes, SampleOK
  <2>2. PICK u \in TraceIds : u = t
    BY <1>1
  <2>3. Reporting!MayJudge(u)
    BY <2>1, <2>2, MayJudge
  <2> QED  BY <2>2, <2>3 DEF Reporting!MayJudge
<1>7. fate \in {"reported", "muted"}
  OBVIOUS
<1>8. Verdict'[t] # NoPriority
  BY <1>1, <1>5 DEF Verdict
<1> HIDE DEF out, fate
<1> QED  BY <1>1, <1>2, <1>3, <1>4, <1>6, <1>7, <1>8 DEF Reporting!End, State, Verdict

\* The processor reports spans the way TraceReporting promises: every call is
\* one of its steps, or invisible to it.
THEOREM ReportsImplemented == Spec => ReportsAsPromised
<1>1. Init => Reporting!Init
  <2> SUFFICES ASSUME Init PROVE Reporting!Init
    OBVIOUS
  <2>1. \A x \in Ids : Progress(x) = "unborn"
    BY DEF Init, Progress, Started
  <2>2. \A t \in TraceIds : decision[t].priority = NoPriority
    BY DEF Init, Undecided
  <2> QED  BY <2>1, <2>2 DEF Init, Reporting!Init
<1>2. IndInv /\ [Next]_vars => [Reporting!Next]_(Reporting!reportVars)
  <2> SUFFICES ASSUME IndInv, [Next]_vars
               PROVE  Reporting!Next \/ UNCHANGED Reporting!reportVars
    OBVIOUS
  <2>0. Typed /\ Ledger /\ NotTwice
    BY DEF IndInv
  <2>1. ASSUME NEW t \in TraceIds, NEW d \in Decisions, Opens(t, d) PROVE Reporting!Next
    <3>1. PICK s \in Ids : s = spans + 1
      BY <2>0, <2>1, NewSpan
    <3>2. Reporting!Begin(s, t)
      BY <2>0, <2>1, <3>1, OpensBegins
    <3> QED  BY <3>2 DEF Reporting!Next
  <2>2. ASSUME NEW t \in TraceIds, NEW d \in Decisions, Judges(t, d) \/ Extracts(t, d)
        PROVE  Reporting!Next
    BY <2>0, <2>2, JudgesJudge DEF Reporting!Next
  <2>3. ASSUME NEW s \in Ids, Waits(s) PROVE Reporting!Next
    BY <2>0, <2>3, WaitsEnds DEF Reporting!Next
  <2>4. ASSUME NEW s \in Ids, NEW d \in Decisions, Flushes(s, d) PROVE Reporting!Next
    BY <2>0, <2>4, FlushesEnds DEF Reporting!Next
  <2>5. CASE Stays
    <3>1. State' = State /\ home' = home /\ decision' = decision
      BY <2>0, <2>5, StateKept DEF Stays
    <3> QED  BY <3>1 DEF Reporting!reportVars, State
  <2> QED  BY <2>0, <2>1, <2>2, <2>3, <2>4, <2>5, Effects
<1> QED  BY <1>1, <1>2, Inductive, PTL DEF Spec, ReportsAsPromised, Reporting!Spec
=============================================================================
