--------------------------- MODULE SecurityProofs ---------------------------
(***************************************************************************)
(* The start of the tracer, however many calls of init, uses of the plugin *)
(* and log records come in between its awaits: the subsystems start once   *)
(* and in order, and the log plugin is what the last use has chosen and    *)
(* meets the real tracer.  And application security, for any requests and  *)
(* users and any number of polls: one chain of polls, an announcement that *)
(* follows the switch, and a login of the SDK whose user stays the one the *)
(* application named.  And IAST, for any requests and vulnerabilities, any *)
(* limits and ends of requests: its slots, its quotas and its reports.     *)
(* And the redaction of evidences, for any text, ranges, sources and       *)
(* reports: what a report shows is what is not secret.                     *)
(***************************************************************************)
EXTENDS Security, Loops, FiniteSetTheorems, TLAPS

-----------------------------------------------------------------------------
(* The slots, the quotas and the reports of IAST.                          *)

Stores == {"own", "none"}

Typed ==
    /\ available \in 0..MaxConcurrent
    /\ ends \in [Requests -> Seq(Stores)]
    /\ \A r \in Requests : Len(ends[r]) <= MaxEnds
    /\ tokens \in [Requests -> 0..MaxOps]
    /\ found \in [Requests -> Seq(SUBSET Vulns)]
    /\ globalTokens \in 0..MaxOps
    /\ outside \in 0..MaxOutside
    /\ hashes \subseteq Vulns
    /\ reports \in [Vulns -> Nat]
    /\ detected \subseteq Vulns /\ reported \subseteq Vulns

\* The counters of the metrics, which nothing else reads.
SlotsCounted ==
    /\ counts \in [Requests -> Nat]
    /\ globalCount \in Nat /\ executed \in Nat /\ sentCount \in Nat

\* Who refers to a context: the web context exactly as long as it is live, the
\* store as well, and longer only if the end was first published without one.
References ==
    /\ live = inTop
    /\ live \subseteq inStore
    /\ inStore \subseteq started
    /\ started \subseteq Requests
    /\ \A r \in Requests \ started : ends[r] = <<>>
    /\ \A r \in live : ends[r] = <<>>
    /\ \A r \in inStore : "own" \notin ToSet(ends[r])
    /\ \A r \in inStore \ live : ends[r] # <<>>

\* What waits in the contexts, next to the tokens that are left.
Quotas ==
    \A r \in Requests :
        IF r \in live THEN Len(found[r]) + tokens[r] = MaxOps ELSE found[r] = <<>>

\* What was reported since the cache was cleared is in the cache, and what is
\* in the cache was reported.
Cached ==
    /\ \A v \in Vulns : reports[v] = 0 \/ (reports[v] = 1 /\ v \in hashes)
    /\ hashes \subseteq reported

IndInv == Typed /\ SlotsCounted /\ References /\ SlotsAddUp /\ Quotas /\ Cached /\ NothingDropped

-----------------------------------------------------------------------------
\* The range of a sequence, as the reports and the properties take it.
LEMMA Ranges ==
    ASSUME NEW V
    PROVE  /\ ToSet(<<>>) = {}
           /\ \A v \in V : ToSet(<<v>>) = {v}
           /\ \A s \in Seq(V) : ToSet(s) \subseteq V
           /\ \A s \in Seq(V), v \in V : ToSet(Append(s, v)) = ToSet(s) \cup {v}
<1>1. ToSet(<<>>) = {}
  BY DEF ToSet
<1>2. \A v \in V : ToSet(<<v>>) = {v}
  BY DEF ToSet
<1>3. \A s \in Seq(V) : ToSet(s) \subseteq V
  BY DEF ToSet
<1>4. ASSUME NEW s \in Seq(V), NEW v \in V
      PROVE  ToSet(Append(s, v)) = ToSet(s) \cup {v}
  <2>1. Len(s) \in Nat /\ DOMAIN s = 1..Len(s)
    OBVIOUS
  <2>2. DOMAIN Append(s, v) = 1..(Len(s) + 1)
    OBVIOUS
  <2>3. \A i \in 1..(Len(s) + 1) :
          Append(s, v)[i] = IF i = Len(s) + 1 THEN v ELSE s[i]
    OBVIOUS
  <2>4. ToSet(Append(s, v)) \subseteq ToSet(s) \cup {v}
    BY <2>1, <2>2, <2>3 DEF ToSet
  <2>5. ASSUME NEW x \in ToSet(s)
        PROVE  x \in ToSet(Append(s, v))
    <3>1. PICK i \in 1..Len(s) : x = s[i]
      BY <2>1 DEF ToSet
    <3> QED  BY <3>1, <2>1, <2>2, <2>3 DEF ToSet
  <2>6. v \in ToSet(Append(s, v))
    BY <2>1, <2>2, <2>3 DEF ToSet
  <2> QED  BY <2>4, <2>5, <2>6
<1> QED  BY <1>1, <1>2, <1>3, <1>4

\* The requests under analysis are finitely many, and so are those that gave
\* back a second slot.
LEMMA LiveIsFinite ==
    /\ References => IsFiniteSet(live)
    /\ IsFiniteSet(ReleasedAnew) /\ Cardinality(ReleasedAnew) \in Nat
<1>1. References => IsFiniteSet(live)
  BY FS_Subset, IastAssumption DEF References, IastAssumption
<1>2. ReleasedAnew \subseteq Requests
  BY DEF ReleasedAnew
<1>3. IsFiniteSet(ReleasedAnew)
  BY <1>2, FS_Subset, IastAssumption DEF IastAssumption
<1> QED  BY <1>1, <1>3, FS_CardinalityType

\* A further end changes the ends of one request only, of which it is the last.
LEMMA EndsGrow ==
    ASSUME Typed, NEW r \in Requests, NEW where \in Stores,
           ends' = [ends EXCEPT ![r] = Append(@, where)]
    PROVE  /\ ends' \in [Requests -> Seq(Stores)]
           /\ \A q \in Requests \ {r} : ends'[q] = ends[q]
           /\ Len(ends'[r]) = Len(ends[r]) + 1 /\ ends'[r] # <<>>
           /\ ToSet(ends'[r]) = ToSet(ends[r]) \cup {where}
           /\ ends[r] = <<>> => Head(ends'[r]) = where
           /\ ends[r] # <<>> => Head(ends'[r]) = Head(ends[r])
<1>1. ends[r] \in Seq(Stores) /\ ends'[r] = Append(ends[r], where)
  BY DEF Typed
<1>2. ToSet(ends'[r]) = ToSet(ends[r]) \cup {where}
  BY <1>1, Ranges
<1>3. Len(ends'[r]) = Len(ends[r]) + 1 /\ ends'[r] # <<>>
  BY <1>1
<1>4. ends[r] = <<>> => Head(ends'[r]) = where
  BY <1>1
<1>5. ends[r] # <<>> => Head(ends'[r]) = Head(ends[r])
  BY <1>1
<1>6. ends' \in [Requests -> Seq(Stores)] /\ \A q \in Requests \ {r} : ends'[q] = ends[q]
  BY <1>1 DEF Typed
<1> QED  BY <1>2, <1>3, <1>4, <1>5, <1>6

\* A request that gave back a second slot stays one.
LEMMA ReleasesGrow ==
    ASSUME Typed, NEW r \in Requests, NEW where \in Stores,
           ends' = [ends EXCEPT ![r] = Append(@, where)]
    PROVE  Cardinality(ReleasedAnew) <= Cardinality(ReleasedAnew')
<1>1. ASSUME NEW q \in ReleasedAnew PROVE q \in ReleasedAnew'
  <2>1. q \in Requests /\ "own" \in ToSet(ends[q]) /\ Head(ends[q]) = "none"
    BY DEF ReleasedAnew
  <2>2. ends[q] # <<>>
    BY <2>1, Ranges
  <2>3. "own" \in ToSet(ends'[q]) /\ Head(ends'[q]) = "none"
    BY <2>1, <2>2, EndsGrow
  <2> QED  BY <2>1, <2>3 DEF ReleasedAnew
<1>2. ReleasedAnew' \subseteq Requests
  BY DEF ReleasedAnew
<1>3. IsFiniteSet(ReleasedAnew')
  BY <1>2, FS_Subset, IastAssumption DEF IastAssumption
<1> QED  BY <1>1, <1>3, FS_Subset

\* An end in the store of a request that has ended without one gives back a
\* second slot.
LEMMA ReleasedOnceMore ==
    ASSUME Typed, References, NEW r \in inStore \ live,
           ends' = [ends EXCEPT ![r] = Append(@, "own")]
    PROVE  Cardinality(ReleasedAnew') = Cardinality(ReleasedAnew) + 1
<1>1. r \in Requests /\ ends[r] # <<>> /\ "own" \notin ToSet(ends[r])
  BY DEF References
<1>2. ends[r] \in Seq(Stores)
  BY <1>1 DEF Typed
<1>3. Head(ends[r]) = "none"
  <2>1. Head(ends[r]) \in ToSet(ends[r])
    BY <1>1, <1>2 DEF ToSet
  <2>2. Head(ends[r]) \in Stores
    BY <1>1, <1>2
  <2> QED  BY <1>1, <2>1, <2>2 DEF Stores
<1>4. "own" \in Stores
  BY DEF Stores
<1>5. ReleasedAnew' = ReleasedAnew \cup {r}
  <2>1. r \in ReleasedAnew'
    <3>1. ToSet(ends'[r]) = ToSet(ends[r]) \cup {"own"} /\ Head(ends'[r]) = Head(ends[r])
      BY <1>1, <1>4, EndsGrow
    <3> QED  BY <1>1, <1>3, <3>1 DEF ReleasedAnew
  <2>2. \A q \in Requests \ {r} : ends'[q] = ends[q]
    BY <1>1, <1>4, EndsGrow
  <2> QED  BY <1>1, <2>1, <2>2 DEF ReleasedAnew
<1>6. r \notin ReleasedAnew
  BY <1>1 DEF ReleasedAnew
<1> QED  BY <1>5, <1>6, LiveIsFinite, FS_AddElement

\* Sending keeps the cache and the reports in step and reports all it is given.
LEMMA SendReports ==
    ASSUME Typed, Cached, NEW vs \in SUBSET Vulns, Send(vs)
    PROVE  /\ hashes' \subseteq Vulns
           /\ reports' \in [Vulns -> Nat]
           /\ reported' \subseteq Vulns
           /\ reported \subseteq reported' /\ vs \subseteq reported'
           /\ Cached'
<1>1. reports' \in [Vulns -> Nat]
  BY DEF Send, Typed
<1> QED  BY <1>1 DEF Send, Typed, Cached, Fresh

-----------------------------------------------------------------------------
LEMMA InitIndInv == Init => IndInv
<1> SUFFICES ASSUME Init PROVE IndInv
  OBVIOUS
<1> USE IastAssumption DEF IastAssumption, Init
<1>1. Typed /\ SlotsCounted /\ References /\ Quotas /\ Cached /\ NothingDropped
  BY DEF Typed, SlotsCounted, References, Quotas, Cached, NothingDropped
<1>2. SlotsAddUp
  BY FS_EmptySet, LiveIsFinite DEF SlotsAddUp
<1> QED  BY <1>1, <1>2 DEF IndInv

\* The start of a request takes a slot only if one is free.
LEMMA StartKeeps ==
    ASSUME IndInv, NEW r \in Requests, NEW sampled \in BOOLEAN, RequestStart(r, sampled)
    PROVE  IndInv'
<1> USE IastAssumption DEF IastAssumption, IndInv, RequestStart, reportVars, metricVars
<1>1. r \notin live /\ r \notin inStore /\ ends[r] = <<>>
  BY DEF References
<1>2. CASE Acquired(sampled)
  <2>1. available > 0 /\ live' = live \cup {r} /\ tokens' = [tokens EXCEPT ![r] = MaxOps]
    BY <1>2 DEF Acquired
  <2>2. Typed' /\ SlotsCounted'
    BY <1>2, <2>1 DEF Typed, SlotsCounted
  <2>3. References'
    <3>1. "own" \notin ToSet(<<>>)
      BY Ranges
    <3> QED  BY <1>2, <1>1, <3>1 DEF References
  <2>4. SlotsAddUp'
    <3>1. Cardinality(live') = Cardinality(live) + 1
      BY <2>1, <1>1, LiveIsFinite, FS_AddElement
    <3>2. Cardinality(live) \in Nat
      BY LiveIsFinite, FS_CardinalityType
    <3>3. ReleasedAnew' = ReleasedAnew
      BY DEF ReleasedAnew
    <3>4. available' = available - 1 /\ available \in Nat
      BY <1>2 DEF Typed
    <3> QED  BY <3>1, <3>2, <3>3, <3>4, LiveIsFinite DEF SlotsAddUp
  <2>5. Quotas'
    <3>1. found' = found /\ found[r] = <<>> /\ tokens'[r] = MaxOps
      BY <2>1, <1>1 DEF Quotas, Typed
    <3>2. Len(<<>>) + MaxOps = MaxOps
      OBVIOUS
    <3>3. \A q \in Requests : q # r => tokens'[q] = tokens[q] /\ (q \in live' <=> q \in live)
      BY <2>1 DEF Typed
    <3> QED  BY <2>1, <3>1, <3>2, <3>3 DEF Quotas
  <2>6. Cached' /\ NothingDropped'
    BY <2>1 DEF Cached, NothingDropped, Waiting
  <2> QED  BY <2>2, <2>3, <2>4, <2>5, <2>6
<1>3. CASE ~Acquired(sampled)
  BY <1>3, <1>1
  DEF Typed, SlotsCounted, References, SlotsAddUp, ReleasedAnew, Quotas, Cached, NothingDropped,
      Waiting
<1> QED  BY <1>2, <1>3

\* What an event in a live request finds takes a token and waits.
LEMMA AnalyzeKeeps ==
    ASSUME IndInv, NEW r \in Requests, NEW vs \in SUBSET Vulns, Analyze(r, vs)
    PROVE  IndInv'
<1> USE IastAssumption DEF IastAssumption, IndInv, Analyze, Quota, CountIn
<1>1. Typed' /\ SlotsCounted'
  BY DEF Typed, SlotsCounted
<1>2. References' /\ SlotsAddUp' /\ Cached'
  BY DEF References, SlotsAddUp, ReleasedAnew, Cached
<1>3. Quotas'
  <2>1. \A q \in Requests : q # r => found'[q] = found[q] /\ tokens'[q] = tokens[q]
    BY DEF Typed
  <2>2. Len(found'[r]) = Len(found[r]) + 1 /\ tokens'[r] = tokens[r] - 1
    BY DEF Typed
  <2>3. Len(found[r]) \in Nat /\ tokens[r] \in Nat
    BY DEF Typed
  <2> QED  BY <2>1, <2>2, <2>3 DEF Quotas
<1>4. NothingDropped'
  <2>1. found[r] \in Seq(SUBSET Vulns) /\ found'[r] = Append(found[r], vs)
    BY DEF Typed
  <2>2. ToSet(found'[r]) = ToSet(found[r]) \cup {vs}
    BY <2>1, Ranges
  <2>3. Waiting(r)' = Waiting(r) \cup vs
    BY <2>2 DEF Waiting
  <2>4. \A q \in live : q # r => Waiting(q)' = Waiting(q)
    BY DEF Typed, References, Waiting
  <2>5. r \in live /\ live' = live /\ detected' = detected \cup vs /\ reported' = reported
    OBVIOUS
  <2>6. ASSUME NEW v \in detected' PROVE v \in reported' \cup UNION {Waiting(q)' : q \in live'}
    <3>1. CASE v \in vs
      BY <2>3, <2>5, <3>1
    <3>2. CASE v \in reported
      BY <2>5, <3>2
    <3>3. ASSUME NEW q \in live, v \in Waiting(q) PROVE v \in Waiting(q)'
      BY <2>3, <2>4, <3>3
    <3> QED  BY <2>5, <2>6, <3>1, <3>2, <3>3 DEF NothingDropped
  <2> QED  BY <2>6 DEF NothingDropped
<1> QED  BY <1>1, <1>2, <1>3, <1>4

\* What an event outside of a live request finds is reported at once.
LEMMA OutsideKeeps ==
    ASSUME IndInv, NEW vs \in SUBSET Vulns, AnalyzeOutside(vs)
    PROVE  IndInv'
<1> USE IastAssumption DEF IastAssumption, IndInv, AnalyzeOutside, CountGlobally
<1>1. SlotsCounted' /\ References' /\ SlotsAddUp' /\ Quotas'
  BY DEF SlotsCounted, References, SlotsAddUp, ReleasedAnew, Quotas
<1>2. CASE globalTokens > 0
  <2>1. Send(vs)
    BY <1>2
  <2>2. /\ hashes' \subseteq Vulns /\ reports' \in [Vulns -> Nat] /\ reported' \subseteq Vulns
        /\ reported \subseteq reported' /\ vs \subseteq reported'
        /\ Cached'
    BY <2>1, SendReports
  <2>3. Typed'
    BY <1>2, <2>2 DEF Typed
  <2>4. NothingDropped'
    BY <1>2, <2>2 DEF NothingDropped, Waiting
  <2> QED  BY <1>1, <2>2, <2>3, <2>4
<1>3. CASE ~(globalTokens > 0)
  BY <1>1, <1>3 DEF Typed, Cached, NothingDropped, Waiting
<1> QED  BY <1>2, <1>3

\* An analysis that finds nothing only counts.
LEMMA CountingKeeps ==
    ASSUME IndInv, NEW r \in Requests, AnalyzeInVain(r) \/ AnalyzeUnsampled(r)
    PROVE  IndInv'
<1> USE IastAssumption DEF IastAssumption, IndInv, AnalyzeInVain, AnalyzeUnsampled,
        CountIn, CountGlobally, quotaVars, reportVars
<1>1. Typed'
  BY DEF Typed
<1>2. SlotsCounted'
  BY DEF SlotsCounted
<1>3. References' /\ SlotsAddUp'
  BY DEF References, SlotsAddUp, ReleasedAnew
<1>4. Quotas' /\ Cached' /\ NothingDropped'
  BY DEF Quotas, Cached, NothingDropped, Waiting
<1> QED  BY <1>1, <1>2, <1>3, <1>4

-----------------------------------------------------------------------------
\* The end of a live request empties its context, takes it out of the web
\* context and gives its slot back.
LEMMA EndOfLive ==
    ASSUME IndInv, NEW r \in live, NEW where \in Stores, NEW headers \in SUBSET Vulns,
           RequestEnd(r, where, headers)
    PROVE  References' /\ SlotsAddUp' /\ live' = live \ {r} /\ available' \in 0..MaxConcurrent
<1> USE IastAssumption DEF IastAssumption, IndInv
<1>1. r \in Requests /\ r \in inStore /\ r \in inTop /\ ends[r] = <<>>
  BY DEF References
<1>2. live' = live \ {r} /\ Released /\ ends' = [ends EXCEPT ![r] = Append(@, where)]
  BY <1>1 DEF RequestEnd, Referred
<1>3. Cardinality(live) \in Nat /\ Cardinality(live') \in Nat
      /\ Cardinality(live') = Cardinality(live) - 1
  BY <1>2, LiveIsFinite, FS_RemoveElement, FS_CardinalityType
<1>4. Cardinality(ReleasedAnew) <= Cardinality(ReleasedAnew')
  BY <1>1, <1>2, ReleasesGrow
<1>5. Cardinality(ReleasedAnew') \in Nat
  <2>1. ReleasedAnew' \subseteq Requests
    BY DEF ReleasedAnew
  <2> QED  BY <2>1, FS_Subset, FS_CardinalityType
<1>6. available \in 0..MaxConcurrent /\ available' \in 0..MaxConcurrent
  BY <1>2 DEF Released, Typed
<1>7. SlotsAddUp'
  BY <1>2, <1>3, <1>4, <1>5, <1>6, LiveIsFinite DEF SlotsAddUp, Released
<1>8. References'
  <2>1. inTop' = inTop \ {r} /\ started' = started /\ r \in started
        /\ inStore' = IF where = "own" THEN inStore \ {r} ELSE inStore
    BY DEF RequestEnd, CleanedTop
  <2>2. ends'[r] # <<>> /\ ToSet(ends'[r]) = {where}
    BY <1>1, <1>2, EndsGrow, Ranges
  <2>3. \A q \in Requests \ {r} : ends'[q] = ends[q]
    BY <1>1, <1>2, EndsGrow
  <2> QED  BY <1>1, <1>2, <2>1, <2>2, <2>3 DEF References
<1> QED  BY <1>2, <1>6, <1>7, <1>8

\* A further end gives a slot back only if the store still refers to the
\* emptied context.
LEMMA EndOfEnded ==
    ASSUME IndInv, NEW r \in Requests \ live, NEW where \in Stores, NEW headers \in SUBSET Vulns,
           RequestEnd(r, where, headers)
    PROVE  References' /\ SlotsAddUp' /\ live' = live /\ available' \in 0..MaxConcurrent
<1> USE IastAssumption DEF IastAssumption, IndInv
<1>1. ends' = [ends EXCEPT ![r] = Append(@, where)]
  BY DEF RequestEnd
<1>2. live' = live
  BY DEF RequestEnd
<1>3. available \in 0..MaxConcurrent /\ available' \in 0..MaxConcurrent
  BY DEF RequestEnd, Released, Typed
<1>4. Cardinality(live) \in Nat
  BY LiveIsFinite, FS_CardinalityType
<1>5. SlotsAddUp'
  <2>1. CASE where = "own" /\ r \in inStore
    <3>1. Cardinality(ReleasedAnew') = Cardinality(ReleasedAnew) + 1
      BY <1>1, <2>1, ReleasedOnceMore
    <3>2. available' = available \/ available' = available + 1
      BY DEF RequestEnd, Released
    <3>3. available <= available' /\ available' <= available + 1
      BY <1>3, <3>2
    <3> QED  BY <1>2, <1>3, <1>4, <3>1, <3>3, LiveIsFinite DEF SlotsAddUp
  <2>2. CASE ~(where = "own" /\ r \in inStore)
    <3>1. available' = available
      BY <2>2 DEF RequestEnd, Referred, References
    <3>2. Cardinality(ReleasedAnew) <= Cardinality(ReleasedAnew')
      BY <1>1, ReleasesGrow
    <3>3. Cardinality(ReleasedAnew') \in Nat
      <4>1. ReleasedAnew' \subseteq Requests
        BY DEF ReleasedAnew
      <4> QED  BY <4>1, FS_Subset, FS_CardinalityType
    <3> QED  BY <1>2, <1>3, <1>4, <3>1, <3>2, <3>3, LiveIsFinite DEF SlotsAddUp
  <2> QED  BY <2>1, <2>2
<1>6. References'
  <2>1. inTop' = inTop /\ started' = started /\ r \in started
        /\ inStore' = IF where = "own" THEN inStore \ {r} ELSE inStore
    BY DEF RequestEnd, CleanedTop, References
  <2>2. ends'[r] # <<>> /\ ToSet(ends'[r]) = ToSet(ends[r]) \cup {where}
    BY <1>1, EndsGrow
  <2>3. \A q \in Requests \ {r} : ends'[q] = ends[q]
    BY <1>1, EndsGrow
  <2>4. \A q \in inStore' : "own" \notin ToSet(ends'[q])
    BY <2>1, <2>2, <2>3 DEF References, Stores
  <2> QED  BY <1>2, <2>1, <2>2, <2>3, <2>4 DEF References
<1> QED  BY <1>2, <1>3, <1>5, <1>6

\* The end of a request reports what waited, if its context was live.
LEMMA EndKeeps ==
    ASSUME IndInv, NEW r \in Requests, NEW where \in Stores, NEW headers \in SUBSET Vulns,
           RequestEnd(r, where, headers)
    PROVE  IndInv'
<1> USE IastAssumption DEF IastAssumption, IndInv
<1>1. /\ ends' \in [Requests -> Seq(Stores)]
      /\ \A q \in Requests : Len(ends'[q]) <= MaxEnds
  <2>1. Len(ends[r]) < MaxEnds /\ ends' = [ends EXCEPT ![r] = Append(@, where)]
    BY DEF RequestEnd
  <2>2. /\ ends' \in [Requests -> Seq(Stores)] /\ Len(ends'[r]) = Len(ends[r]) + 1
        /\ \A q \in Requests \ {r} : ends'[q] = ends[q]
    BY <2>1, EndsGrow
  <2>3. Len(ends[r]) \in Nat
    BY DEF Typed
  <2>4. Len(ends'[r]) <= MaxEnds
    BY <2>1, <2>2, <2>3
  <2> QED  BY <2>2, <2>4 DEF Typed
<1>2. UNCHANGED <<outside, tokens, globalTokens>>
  BY DEF RequestEnd
<1>3. CASE r \in live
  <2>1. References' /\ SlotsAddUp' /\ live' = live \ {r} /\ available' \in 0..MaxConcurrent
    BY <1>3, EndOfLive
  <2>2. Deliver(r, headers)
    BY <1>3 DEF RequestEnd, Referred, References
  <2>3. Waiting(r) \subseteq Vulns
    <3>1. found[r] \in Seq(SUBSET Vulns)
      BY DEF Typed
    <3>2. ToSet(found[r]) \subseteq SUBSET Vulns
      BY <3>1, Ranges
    <3> QED  BY <3>2 DEF Waiting
  <2>4. /\ hashes' \subseteq Vulns /\ reports' \in [Vulns -> Nat] /\ reported' \subseteq Vulns
        /\ reported \subseteq reported' /\ Waiting(r) \cup headers \subseteq reported'
        /\ Cached'
    BY <2>2, <2>3, SendReports DEF Deliver
  <2>5. found' = [found EXCEPT ![r] = <<>>] /\ detected' = detected \cup headers
    BY <2>2 DEF Deliver
  <2>6. Typed'
    BY <1>1, <1>2, <2>1, <2>4, <2>5 DEF Typed
  <2>7. SlotsCounted'
    BY <2>2 DEF SlotsCounted, Deliver, MergeCounts
  <2>8. Quotas'
    BY <1>2, <2>1, <2>5 DEF Quotas, Typed
  <2>9. NothingDropped'
    <3>1. \A q \in live' : Waiting(q)' = Waiting(q)
      BY <2>1, <2>5 DEF References, Typed, Waiting
    <3>2. UNION {Waiting(q) : q \in live} \subseteq Waiting(r) \cup UNION {Waiting(q)' : q \in live'}
      BY <2>1, <3>1
    <3> QED  BY <2>4, <2>5, <3>2 DEF NothingDropped
  <2> QED  BY <2>1, <2>4, <2>6, <2>7, <2>8, <2>9
<1>4. CASE r \notin live
  <2>1. References' /\ SlotsAddUp' /\ live' = live /\ available' \in 0..MaxConcurrent
    BY <1>4, EndOfEnded
  <2>2. UNCHANGED <<reportVars, metricVars>>
    BY <1>4 DEF RequestEnd
  <2>3. Typed' /\ SlotsCounted' /\ Quotas' /\ Cached'
    BY <1>1, <1>2, <2>1, <2>2 DEF Typed, SlotsCounted, Quotas, Cached, reportVars, metricVars
  <2>4. NothingDropped'
    BY <2>1, <2>2 DEF NothingDropped, Waiting, reportVars
  <2> QED  BY <2>1, <2>3, <2>4
<1> QED  BY <1>3, <1>4

-----------------------------------------------------------------------------
\* The intervals: new global tokens, an empty cache, metrics sent.
LEMMA IntervalsKeep ==
    ASSUME IndInv, ResetGlobalContext \/ ClearCache \/ SendMetrics
    PROVE  IndInv'
<1> USE IastAssumption DEF IastAssumption, IndInv, ResetGlobalContext, ClearCache, SendMetrics,
        quotaVars, reportVars, metricVars
<1>1. Typed'
  BY DEF Typed
<1>2. SlotsCounted'
  BY DEF SlotsCounted
<1>3. References' /\ SlotsAddUp'
  BY DEF References, SlotsAddUp, ReleasedAnew
<1>4. Quotas' /\ NothingDropped'
  BY DEF Quotas, NothingDropped, Waiting
<1>5. Cached'
  BY DEF Cached, Typed
<1> QED  BY <1>1, <1>2, <1>3, <1>4, <1>5

LEMMA NextKeeps == IndInv /\ [Next]_vars => IndInv'
<1> SUFFICES ASSUME IndInv, [Next]_vars PROVE IndInv'
  OBVIOUS
<1>1. CASE Next
  BY <1>1, StartKeeps, AnalyzeKeeps, OutsideKeeps, CountingKeeps, EndKeeps, IntervalsKeep
  DEF Next, Stores
<1>2. CASE UNCHANGED vars
  BY <1>2
  DEF IndInv, Typed, SlotsCounted, References, SlotsAddUp, ReleasedAnew, Quotas, Cached,
      NothingDropped, Waiting, vars, quotaVars, reportVars, metricVars
<1> QED  BY <1>1, <1>2

LEMMA IndInvHolds == Spec => []IndInv
BY InitIndInv, NextKeeps, PTL DEF Spec

-----------------------------------------------------------------------------
\* A context holds what at most maxContextOperations events have found, and an
\* end is published a bounded number of times.
LEMMA SequencesAreBounded ==
    ASSUME IndInv, NEW r \in Requests
    PROVE  /\ found[r] \in UNION {[1..n -> SUBSET Vulns] : n \in 0..MaxOps}
           /\ ends[r] \in UNION {[1..n -> {"own", "none"}] : n \in 0..MaxEnds}
<1> USE IastAssumption DEF IastAssumption, IndInv
<1>1. found[r] \in Seq(SUBSET Vulns) /\ tokens[r] \in 0..MaxOps
  BY DEF Typed
<1>2. Len(found[r]) \in 0..MaxOps
  BY <1>1 DEF Quotas
<1>3. found[r] \in [1..Len(found[r]) -> SUBSET Vulns]
  BY <1>1
<1>4. ends[r] \in Seq(Stores) /\ Len(ends[r]) \in 0..MaxEnds
  BY DEF Typed
<1>5. ends[r] \in [1..Len(ends[r]) -> {"own", "none"}]
  BY <1>4 DEF Stores
<1> QED  BY <1>2, <1>3, <1>4, <1>5

\* Every reachable state is well typed; no counter leaves its range.
THEOREM IastTyped == Spec => []TypeOK
<1>1. IndInv => TypeOK
  BY SequencesAreBounded, IastAssumption
  DEF IastAssumption, IndInv, Typed, SlotsCounted, References, TypeOK
<1> QED  BY <1>1, IndInvHolds, PTL

\* acquireRequest and releaseRequest: no slot leaks, and one is given back twice
\* only for a request that ends without a store and then in it.
THEOREM SlotsAreConserved == Spec => []SlotsAddUp
BY IndInvHolds, PTL DEF IndInv

\* hasQuota: the events that reported in a request and its tokens add up to its
\* quota.
THEOREM QuotasAreKept == Spec => []QuotaKept
<1>1. IndInv => QuotaKept
  BY DEF IndInv, Quotas, QuotaKept, References
<1> QED  BY <1>1, IndInvHolds, PTL

\* sendVulnerabilities: once between two clearings of the cache.
THEOREM ReportsAreUnique == Spec => []ReportedOnce
<1>1. IndInv => ReportedOnce
  BY DEF IndInv, Cached, ReportedOnce, Typed
<1> QED  BY <1>1, IndInvHolds, PTL

\* addVulnerability and sendVulnerabilities: what was added is reported or waits
\* in a live context.
THEOREM DetectionsAreReported == Spec => []NothingDropped
BY IndInvHolds, PTL DEF IndInv

-----------------------------------------------------------------------------
\* Only live requests hold counts, and as many as telemetry has not got.
Conserved ==
    /\ \A r \in Requests \ live : counts[r] = 0
    /\ IsFiniteSet(LiveIncreases)
    /\ CountsConserved

LEMMA IncreasesAre ==
    \A x : x \in LiveIncreases <=> \E r \in live : \E k \in 1..counts[r] : x = <<r, k>>
BY DEF LiveIncreases

LEMMA ConservedAtStart == Init => Conserved
<1> SUFFICES ASSUME Init PROVE Conserved
  OBVIOUS
<1>1. LiveIncreases = {}
  BY IncreasesAre DEF Init
<1> QED  BY <1>1, FS_EmptySet DEF Init, Conserved, CountsConserved

\* As long as the counts of live requests stay, so do their increases.
LEMMA IncreasesStay ==
    ASSUME Conserved, References, References',
           \A r \in Requests : r \in live \/ r \in live' => (r \in live' \/ counts[r] = 0)
                /\ counts'[r] = counts[r],
           \A r \in Requests \ live' : counts'[r] = 0,
           executed' - sentCount' - globalCount' = executed - sentCount - globalCount,
           executed \in Nat, sentCount \in Nat, globalCount \in Nat,
           executed' \in Nat, sentCount' \in Nat, globalCount' \in Nat
    PROVE  Conserved'
<1>1. LiveIncreases' = LiveIncreases
  <2>1. ASSUME NEW r \in live', NEW k \in 1..counts'[r] PROVE <<r, k>> \in LiveIncreases
    <3>1. r \in Requests /\ counts'[r] = counts[r]
      BY DEF References
    <3>2. r \in live
      BY <3>1 DEF Conserved
    <3> QED  BY <3>1, <3>2, IncreasesAre
  <2>2. ASSUME NEW r \in live, NEW k \in 1..counts[r] PROVE r \in live' /\ k \in 1..counts'[r]
    <3>1. r \in Requests /\ counts'[r] = counts[r]
      BY DEF References
    <3> QED  BY <3>1
  <2>3. \A x : x \in LiveIncreases' <=> \E r \in live' : \E k \in 1..counts'[r] : x = <<r, k>>
    BY DEF LiveIncreases
  <2> QED  BY <2>1, <2>2, <2>3, IncreasesAre
<1>2. Cardinality(LiveIncreases) \in Nat
  BY FS_CardinalityType DEF Conserved
<1> QED  BY <1>1, <1>2 DEF Conserved, CountsConserved

\* A sink executed in the store of a live request is counted there.
LEMMA CountingInConserves ==
    ASSUME IndInv, Conserved, NEW r \in live, CountIn(r), UNCHANGED live
    PROVE  Conserved'
<1> DEFINE new == <<r, counts[r] + 1>>
<1>1. r \in Requests /\ counts[r] \in Nat
  BY DEF IndInv, References, SlotsCounted
<1>2. \A q \in Requests : counts'[q] = IF q = r THEN counts[r] + 1 ELSE counts[q]
  BY <1>1 DEF IndInv, SlotsCounted, CountIn
<1>3. LiveIncreases' = LiveIncreases \cup {new}
  <2>1. \A x : x \in LiveIncreases' <=> \E q \in live : \E k \in 1..counts'[q] : x = <<q, k>>
    BY DEF LiveIncreases
  <2>2. ASSUME NEW q \in live, NEW k \in 1..counts'[q]
        PROVE  <<q, k>> \in LiveIncreases \cup {new}
    <3>1. CASE q = r /\ k = counts[r] + 1
      BY <3>1
    <3>2. CASE ~(q = r /\ k = counts[r] + 1)
      <4>1. q \in Requests
        BY DEF IndInv, References
      <4>2. k \in 1..counts[q]
        BY <1>1, <1>2, <3>2, <4>1
      <4> QED  BY <4>2, IncreasesAre
    <3> QED  BY <3>1, <3>2
  <2>3. ASSUME NEW q \in live, NEW k \in 1..counts[q] PROVE k \in 1..counts'[q]
    BY <1>1, <1>2 DEF IndInv, References, SlotsCounted
  <2>4. counts[r] + 1 \in 1..counts'[r]
    BY <1>1, <1>2
  <2> QED  BY <2>1, <2>2, <2>3, <2>4, IncreasesAre
<1>4. new \notin LiveIncreases
  <2> SUFFICES ASSUME NEW q \in live, NEW k \in 1..counts[q], new = <<q, k>> PROVE FALSE
    BY IncreasesAre
  <2>1. q = r /\ k = counts[r] + 1
    OBVIOUS
  <2> QED  BY <1>1, <2>1
<1>5. Cardinality(LiveIncreases') = Cardinality(LiveIncreases) + 1 /\ IsFiniteSet(LiveIncreases')
  BY <1>3, <1>4, FS_AddElement DEF Conserved
<1>6. Cardinality(LiveIncreases) \in Nat
  BY FS_CardinalityType DEF Conserved
<1>7. CountsConserved'
  BY <1>5, <1>6 DEF Conserved, CountsConserved, CountIn, IndInv, SlotsCounted
<1>8. \A q \in Requests \ live' : counts'[q] = 0
  BY <1>2 DEF Conserved
<1> QED  BY <1>5, <1>7, <1>8 DEF Conserved

\* The end of a live request moves its counts to the global namespace, with that
\* of the headers of its response.
LEMMA EndConserves ==
    ASSUME IndInv, IndInv', Conserved, NEW r \in live, MergeCounts(r), live' = live \ {r}
    PROVE  Conserved'
<1> DEFINE its == {r} \X (1..counts[r])
<1>1. r \in Requests /\ counts[r] \in Nat
  BY DEF IndInv, References, SlotsCounted
<1>2. \A q \in Requests : counts'[q] = IF q = r THEN 0 ELSE counts[q]
  BY <1>1 DEF IndInv, SlotsCounted, MergeCounts
<1>3. IsFiniteSet(its) /\ Cardinality(its) = counts[r]
  <2>1. IsFiniteSet({r}) /\ Cardinality({r}) = 1
    BY FS_Singleton
  <2>2. IsFiniteSet(1..counts[r]) /\ Cardinality(1..counts[r]) = counts[r]
    BY <1>1, FS_Interval
  <2>3. IsFiniteSet(its) /\ Cardinality(its) = Cardinality({r}) * Cardinality(1..counts[r])
    BY <2>1, <2>2, FS_Product
  <2> QED  BY <1>1, <2>1, <2>2, <2>3
<1>4. LiveIncreases' = LiveIncreases \ its
  <2>1. \A x : x \in LiveIncreases' <=> \E q \in live' : \E k \in 1..counts'[q] : x = <<q, k>>
    BY DEF LiveIncreases
  <2>2. \A q \in live : q \in Requests
    BY DEF IndInv, References
  <2>3. \A q \in live' : q \in live /\ q # r /\ counts'[q] = counts[q]
    BY <1>2, <2>2
  <2>4. \A q \in live : q # r => q \in live' /\ counts'[q] = counts[q]
    BY <1>2, <2>2
  <2>5. ASSUME NEW q \in live', NEW k \in 1..counts'[q] PROVE <<q, k>> \in LiveIncreases \ its
    BY <2>3, IncreasesAre
  <2>6. ASSUME NEW q \in live, NEW k \in 1..counts[q], <<q, k>> \notin its
        PROVE  <<q, k>> \in LiveIncreases'
    <3>1. q # r
      BY <2>6
    <3> QED  BY <2>1, <2>4, <3>1
  <2> QED  BY <2>1, <2>5, <2>6, IncreasesAre
<1>5. LiveIncreases \cap its = its
  BY IncreasesAre
<1>6. IsFiniteSet(LiveIncreases') /\ Cardinality(LiveIncreases') = Cardinality(LiveIncreases) - counts[r]
  <2> HIDE DEF its
  <2>1. IsFiniteSet(LiveIncreases)
    BY DEF Conserved
  <2>2. /\ IsFiniteSet(LiveIncreases \ its)
        /\ Cardinality(LiveIncreases \ its) =
              Cardinality(LiveIncreases) - Cardinality(LiveIncreases \cap its)
    BY <2>1, FS_Difference
  <2> QED  BY <1>3, <1>4, <1>5, <2>2
<1>7. Cardinality(LiveIncreases) \in Nat /\ Cardinality(LiveIncreases') \in Nat
  BY <1>6, FS_CardinalityType DEF Conserved
<1>8. CountsConserved'
  BY <1>1, <1>6, <1>7 DEF Conserved, CountsConserved, MergeCounts, IndInv, SlotsCounted
<1>9. \A q \in Requests \ live' : counts'[q] = 0
  BY <1>2 DEF Conserved
<1> QED  BY <1>6, <1>8, <1>9 DEF Conserved

\* Every step conserves the counts.
LEMMA ConservedSteps == IndInv /\ IndInv' /\ Conserved /\ [Next]_vars => Conserved'
<1> SUFFICES ASSUME IndInv, IndInv', Conserved, [Next]_vars PROVE Conserved'
  OBVIOUS
<1>1. References /\ References' /\ SlotsCounted /\ SlotsCounted'
  BY DEF IndInv
<1>2. ASSUME NEW r \in Requests, NEW sampled \in BOOLEAN, RequestStart(r, sampled)
      PROVE  Conserved'
  <2>1. r \notin live /\ counts[r] = 0
    BY <1>1, <1>2 DEF RequestStart, References, Conserved
  <2>2. live' = live \cup {r} \/ live' = live
    BY <1>2 DEF RequestStart
  <2>3. UNCHANGED metricVars
    BY <1>2 DEF RequestStart
  <2> QED  BY <1>1, <2>1, <2>2, <2>3, IncreasesStay DEF metricVars, SlotsCounted, Conserved
<1>3. ASSUME NEW r \in Requests, NEW vs \in SUBSET Vulns, Analyze(r, vs)
      PROVE  Conserved'
  BY <1>3, CountingInConserves DEF Analyze
<1>4. ASSUME NEW r \in Requests, AnalyzeInVain(r)
      PROVE  Conserved'
  BY <1>4, CountingInConserves DEF AnalyzeInVain, quotaVars
<1>5. ASSUME CountGlobally, UNCHANGED live PROVE Conserved'
  BY <1>1, <1>5, IncreasesStay DEF CountGlobally, SlotsCounted, Conserved
<1>6. ASSUME NEW r \in Requests, NEW where \in {"own", "none"},
             NEW headers \in SUBSET Vulns, RequestEnd(r, where, headers)
      PROVE  Conserved'
  <2>1. CASE Referred(r, where) /\ r \in live
    BY <1>6, <2>1, EndConserves DEF RequestEnd, Deliver
  <2>2. CASE ~(Referred(r, where) /\ r \in live)
    <3>1. live' = live /\ UNCHANGED metricVars
      BY <1>6, <2>2 DEF RequestEnd
    <3> QED  BY <1>1, <3>1, IncreasesStay DEF metricVars, SlotsCounted, Conserved
  <2> QED  BY <2>1, <2>2
<1>7. ASSUME ResetGlobalContext \/ ClearCache \/ SendMetrics PROVE Conserved'
  <2>1. UNCHANGED <<live, counts>>
    BY <1>7 DEF ResetGlobalContext, ClearCache, SendMetrics, quotaVars, metricVars
  <2>2. executed' - sentCount' - globalCount' = executed - sentCount - globalCount
    <3>1. CASE UNCHANGED metricVars
      BY <3>1 DEF metricVars
    <3>2. CASE SendMetrics
      BY <1>1, <3>2 DEF SendMetrics, SlotsCounted
    <3> QED  BY <1>7, <3>1, <3>2 DEF ResetGlobalContext, ClearCache
  <2> QED  BY <1>1, <2>1, <2>2, IncreasesStay DEF SlotsCounted, Conserved
<1>8. CASE UNCHANGED vars
  BY <1>1, <1>8, IncreasesStay DEF vars, quotaVars, metricVars, SlotsCounted, Conserved
<1>9. ASSUME NEW vs \in SUBSET Vulns, AnalyzeOutside(vs) PROVE Conserved'
  BY <1>5, <1>9 DEF AnalyzeOutside
<1>10. ASSUME NEW r \in Requests, AnalyzeUnsampled(r) PROVE Conserved'
  BY <1>5, <1>10 DEF AnalyzeUnsampled, quotaVars
<1> QED
  BY <1>2, <1>3, <1>4, <1>6, <1>7, <1>8, <1>9, <1>10 DEF Next

\* overhead-controller.ts and telemetry/namespaces.ts: no slot leaks, and no
\* executed sink is lost or counted twice on its way from the namespace of a
\* request to telemetry.
THEOREM SlotsAndCountsAddUp == Spec => []IastAddsUp
<1>1. Spec => []Conserved
  BY IndInvHolds, ConservedAtStart, ConservedSteps, PTL DEF Spec
<1>2. Conserved => CountsConserved
  BY DEF Conserved
<1> QED  BY <1>1, <1>2, IastTyped, SlotsAreConserved, PTL DEF IastAddsUp

-----------------------------------------------------------------------------
(* The order of init.                                                      *)

Places == 1 .. 10

\* Every subsystem has one place in the order.
LEMMA OrderIsOfServices ==
    /\ DOMAIN Order = Places /\ Len(Order) = 10
    /\ \A k \in Places : Order[k] \in Services
    /\ \A s \in Services : \E k \in Places : s = Order[k]
    /\ \A j, k \in Places : Order[j] = Order[k] => j = k
<1>1. DOMAIN Order = Places /\ Len(Order) = 10
  BY DEF Order, Places
<1>2. \A k \in Places : Order[k] \in Services
  BY DEF Order, Places, Services
<1>3. \A s \in Services : \E k \in Places : s = Order[k]
  <2> SUFFICES ASSUME NEW s \in Services PROVE \E k \in Places : s = Order[k]
    OBVIOUS
  <2>1. /\ Order[1] = "dogstatsd" /\ Order[2] = "remoteConfig" /\ Order[3] = "miniAgent"
        /\ Order[4] = "profiler" /\ Order[5] = "runtimeMetrics" /\ Order[6] = "telemetry"
        /\ Order[7] = "appsec" /\ Order[8] = "tracer" /\ Order[9] = "iast" /\ Order[10] = "plugins"
    BY DEF Order
  <2>2. /\ 1 \in Places /\ 2 \in Places /\ 3 \in Places /\ 4 \in Places /\ 5 \in Places
        /\ 6 \in Places /\ 7 \in Places /\ 8 \in Places /\ 9 \in Places /\ 10 \in Places
    BY DEF Places
  <2> QED
    BY <2>1, <2>2 DEF Services
<1>4. \A j, k \in Places : Order[j] = Order[k] => j = k
  BY DEF Order, Places
<1> QED
  BY <1>1, <1>2, <1>3, <1>4

\* The tracer and the plugins have their places, and one switch starts both.
LEMMA TracerBeforePlugins ==
    /\ 8 \in Places /\ Order[8] = "tracer" /\ 10 \in Places /\ Order[10] = "plugins"
    /\ Wants("tracer") = Wants("plugins")
BY DEF Order, Places, Wants

StartsCounted == serviceStarts \in [Services -> Nat]

\* The calls of init: one at most is under way.
CallsTyped ==
    /\ stage \in [InitCalls -> 0 .. 11]
    /\ initialized \in BOOLEAN
    /\ ~initialized => \A c \in InitCalls : stage[c] = 0
    /\ \A c, d \in InitCalls : stage[c] \in Places /\ stage[d] \in Places => c = d

\* Before init nothing is started, and while a call of it is under way exactly
\* what it wants of the subsystems before the one it is at.
SoFar ==
    /\ ~initialized => \A s \in Services : serviceStarts[s] = 0
    /\ \A c \in InitCalls : stage[c] \in Places =>
          \A k \in Places :
              serviceStarts[Order[k]] = IF k < stage[c] /\ Wants(Order[k]) THEN 1 ELSE 0

\* StartsInOrder, over the places.
InOrder ==
    \A k \in Places :
        /\ serviceStarts[Order[k]] \leq 1
        /\ serviceStarts[Order[k]] > 0 =>
              \A j \in 1 .. k - 1 : Wants(Order[j]) => serviceStarts[Order[j]] = 1

\* The inductive invariant.
OrderInv == StartsCounted /\ CallsTyped /\ SoFar /\ InOrder

LEMMA OrderAtStart == StartupInit => OrderInv
<1> SUFFICES ASSUME StartupInit PROVE OrderInv
  OBVIOUS
<1>1. \A k \in Places : serviceStarts[Order[k]] = 0
  BY OrderIsOfServices DEF StartupInit
<1>2. \A c \in InitCalls : stage[c] = 0 /\ 0 \notin Places
  BY DEF StartupInit, Places
<1>3. StartsCounted /\ CallsTyped
  <2>1. StartsCounted
    BY DEF StartupInit, StartsCounted
  <2>2. stage = [c \in InitCalls |-> 0] /\ 0 \in 0 .. 11 /\ initialized = FALSE
    BY DEF StartupInit
  <2>3. stage \in [InitCalls -> 0 .. 11]
    BY <2>2
  <2> QED
    BY <1>2, <2>1, <2>2, <2>3 DEF CallsTyped
<1>4. SoFar /\ InOrder
  BY <1>1, <1>2 DEF StartupInit, SoFar, InOrder
<1> QED
  BY <1>3, <1>4 DEF OrderInv

\* What is wanted depends on the profile alone.
LEMMA WantsKept ==
    ASSUME UNCHANGED profile, NEW service
    PROVE  Wants(service)' = Wants(service)
BY DEF Wants, Switches, Features, Serverless

\* Nothing about the order changes while init and its starts rest.
LEMMA OrderRests ==
    ASSUME OrderInv, UNCHANGED <<profile, stage, initialized, serviceStarts>>
    PROVE  OrderInv'
<1>1. \A k \in Places : Wants(Order[k])' = Wants(Order[k])
  BY WantsKept DEF Order
<1> QED
  BY <1>1, OrderIsOfServices DEF OrderInv, StartsCounted, CallsTyped, SoFar, InOrder

\* A call of init: the first one begins, and every other one ends at once.
LEMMA CallInitInOrder ==
    ASSUME OrderInv, NEW c \in InitCalls, CallInit(c)
    PROVE  OrderInv'
<1>1. \A k \in Places : Wants(Order[k])' = Wants(Order[k])
  BY WantsKept DEF CallInit
<1>2. UNCHANGED serviceStarts /\ initialized' = TRUE /\ stage[c] = 0
  BY DEF CallInit
<1>3. StartsCounted' /\ InOrder'
  BY <1>1, <1>2 DEF OrderInv, StartsCounted, InOrder, Places
<1>4. CASE initialized
  <2>1. stage' = [stage EXCEPT ![c] = 11]
    BY <1>4, OrderIsOfServices DEF CallInit
  <2>2. CallsTyped'
    BY <1>2, <2>1 DEF OrderInv, CallsTyped, Places
  <2>3. SoFar'
    BY <1>1, <1>2, <2>1 DEF OrderInv, SoFar, CallsTyped, Places
  <2> QED
    BY <1>3, <2>2, <2>3 DEF OrderInv
<1>5. CASE ~initialized
  <2>1. stage' = [stage EXCEPT ![c] = 1]
    BY <1>5 DEF CallInit
  <2>2. \A d \in InitCalls : stage'[d] = IF d = c THEN 1 ELSE 0
    BY <1>5, <2>1 DEF OrderInv, CallsTyped
  <2>3. CallsTyped'
    BY <1>2, <2>1, <2>2 DEF OrderInv, CallsTyped, Places
  <2>4. \A k \in Places : serviceStarts[Order[k]] = 0 /\ ~(k < 1)
    BY <1>5, OrderIsOfServices DEF OrderInv, SoFar, Places
  <2>5. SoFar'
    BY <1>2, <2>2, <2>4 DEF SoFar, Places
  <2> QED
    BY <1>3, <2>3, <2>5 DEF OrderInv
<1> QED
  BY <1>4, <1>5

\* The call under way starts the next subsystem, or passes it.
LEMMA StartServiceInOrder ==
    ASSUME OrderInv, NEW c \in InitCalls, StartService(c)
    PROVE  OrderInv'
<1> DEFINE here == stage[c]
<1>1. /\ here \in Places /\ UNCHANGED <<profile, initialized>>
      /\ stage' = [stage EXCEPT ![c] = here + 1]
  BY OrderIsOfServices DEF StartService, GoTo, Places
<1>2. initialized
  BY <1>1 DEF OrderInv, CallsTyped, Places
<1>3. \A k \in Places : Wants(Order[k])' = Wants(Order[k])
  BY <1>1, WantsKept
<1>4. \A k \in Places :
        serviceStarts[Order[k]] = IF k < here /\ Wants(Order[k]) THEN 1 ELSE 0
  BY <1>1 DEF OrderInv, SoFar
<1>5. StartsCounted' /\ \A k \in Places :
        serviceStarts'[Order[k]] = IF k < here + 1 /\ Wants(Order[k]) THEN 1 ELSE 0
  <2>1. CASE Wants(Order[here])
    <3>1. serviceStarts' = [serviceStarts EXCEPT ![Order[here]] = @ + 1]
      BY <2>1 DEF StartService
    <3>2. StartsCounted'
      <4>1. Order[here] \in Services
        BY <1>1, OrderIsOfServices
      <4>2. serviceStarts[Order[here]] + 1 \in Nat
        BY <4>1 DEF OrderInv, StartsCounted
      <4> QED
        BY <3>1, <4>1, <4>2 DEF OrderInv, StartsCounted
    <3>3. \A k \in Places : serviceStarts'[Order[k]] =
            IF k = here THEN serviceStarts[Order[k]] + 1 ELSE serviceStarts[Order[k]]
      BY <1>1, <3>1, OrderIsOfServices DEF OrderInv, StartsCounted
    <3> QED
      BY <1>1, <1>4, <2>1, <3>2, <3>3 DEF Places
  <2>2. CASE ~Wants(Order[here])
    <3>1. UNCHANGED serviceStarts
      BY <2>2 DEF StartService
    <3> QED
      BY <1>1, <1>4, <2>2, <3>1 DEF OrderInv, StartsCounted, Places
  <2> QED
    BY <2>1, <2>2
<1>6. CallsTyped'
  <2>1. \A d \in InitCalls : d # c => stage'[d] = stage[d] /\ stage[d] \notin Places
    BY <1>1 DEF OrderInv, CallsTyped
  <2> QED
    BY <1>1, <1>2, <2>1 DEF OrderInv, CallsTyped, Places
<1>7. SoFar'
  <2>1. \A d \in InitCalls : d # c => stage'[d] = stage[d] /\ stage[d] \notin Places
    BY <1>1 DEF OrderInv, CallsTyped
  <2>2. stage'[c] = here + 1
    BY <1>1 DEF OrderInv, CallsTyped
  <2>3. \A k \in Places :
          serviceStarts'[Order[k]] = IF k < here + 1 /\ Wants(Order[k])' THEN 1 ELSE 0
    BY <1>3, <1>5
  <2> QED
    BY <1>1, <1>2, <2>1, <2>2, <2>3 DEF SoFar
<1>8. InOrder'
  <2> SUFFICES ASSUME NEW k \in Places
               PROVE  /\ serviceStarts'[Order[k]] \leq 1
                      /\ serviceStarts'[Order[k]] > 0 =>
                            \A j \in 1 .. k - 1 : Wants(Order[j])' => serviceStarts'[Order[j]] = 1
    BY DEF InOrder
  <2>1. \A j \in 1 .. k - 1 : j \in Places
    BY DEF Places
  <2> QED
    BY <1>1, <1>3, <1>5, <2>1 DEF Places
<1> QED
  BY <1>5, <1>6, <1>7, <1>8 DEF OrderInv

\* init ends where the tracer throws.
LEMMA TracerThrowsInOrder ==
    ASSUME OrderInv, NEW c \in InitCalls, TracerThrows(c)
    PROVE  OrderInv'
<1>1. /\ stage[c] \in Places /\ UNCHANGED <<profile, initialized, serviceStarts>>
      /\ stage' = [stage EXCEPT ![c] = 11]
  BY OrderIsOfServices DEF TracerThrows, Places
<1>2. initialized
  BY <1>1 DEF OrderInv, CallsTyped, Places
<1>3. \A k \in Places : Wants(Order[k])' = Wants(Order[k])
  BY <1>1, WantsKept
<1>4. \A d \in InitCalls : stage'[d] \in Places => stage'[d] = stage[d]
  BY <1>1 DEF OrderInv, CallsTyped, Places
<1>5. StartsCounted' /\ InOrder'
  BY <1>1, <1>3 DEF OrderInv, StartsCounted, InOrder, Places
<1>6. CallsTyped'
  BY <1>1, <1>2, <1>4 DEF OrderInv, CallsTyped, Places
<1>7. SoFar'
  BY <1>1, <1>2, <1>3, <1>4 DEF OrderInv, SoFar
<1> QED
  BY <1>5, <1>6, <1>7 DEF OrderInv

\* Every step keeps the order.
LEMMA OrderSteps == OrderInv /\ [StartupNext]_startupVars => OrderInv'
<1> SUFFICES ASSUME OrderInv, [StartupNext]_startupVars PROVE OrderInv'
  OBVIOUS
<1>1. CASE \E c \in InitCalls : CallInit(c)
  BY <1>1, CallInitInOrder
<1>2. CASE \E c \in InitCalls : StartService(c)
  BY <1>2, StartServiceInOrder
<1>3. CASE \E c \in InitCalls : TracerThrows(c)
  BY <1>3, TracerThrowsInOrder
<1>4. CASE \E config \in UseConfigs : Use(config)
  BY <1>4, OrderRests DEF Use
<1>5. CASE LogRecord
  BY <1>5, OrderRests DEF LogRecord
<1>6. CASE UNCHANGED startupVars
  BY <1>6, OrderRests DEF startupVars
<1> QED
  BY <1>1, <1>2, <1>3, <1>4, <1>5, <1>6 DEF StartupNext

\* However many calls of init overlap, every subsystem is started once at most
\* and after all that init wants of the ones before it (_initialized is set
\* before the first await of proxy.ts).
THEOREM StartsAreInOrder == StartupSpec => []StartsInOrder
<1>1. OrderInv => StartsInOrder
  <2> SUFFICES ASSUME OrderInv PROVE StartsInOrder
    OBVIOUS
  <2>1. \A s \in Services : serviceStarts[s] \leq 1
    BY OrderIsOfServices DEF OrderInv, InOrder
  <2> QED
    BY <2>1, OrderIsOfServices DEF OrderInv, InOrder, StartsInOrder
<1> QED
  BY <1>1, OrderAtStart, OrderSteps, PTL DEF StartupSpec

-----------------------------------------------------------------------------
(* The tracer that a record meets.                                         *)

PluginStates == [made : BOOLEAN, enabled : BOOLEAN, subscribed : {0, 1}]

\* A subscribed plugin is an enabled one, which needs the manager configured,
\* which init does after it made the tracer.
TracerBehind ==
    /\ plugin \in PluginStates
    /\ plugin.subscribed = (IF plugin.enabled THEN 1 ELSE 0)
    /\ plugin.enabled => configured
    /\ configured => realTracer
    /\ serviceStarts["tracer"] > 0 => realTracer

Recorded ==
    /\ records \in Seq([handled : {0, 1}, injected : BOOLEAN])
    /\ realTracer \in BOOLEAN /\ configured \in BOOLEAN

\* The inductive invariant.
RecordsInv == Recorded /\ TracerBehind /\ RecordsMeetTracer

\* Loading the plugin keeps subscription and switch together, and cannot
\* enable it without a configuration.
LEMMA ConfiguringKeepsPair ==
    ASSUME plugin \in PluginStates, plugin.subscribed = (IF plugin.enabled THEN 1 ELSE 0),
           NEW config
    PROVE  /\ PluginConfigure(config) \in PluginStates
           /\ PluginConfigure(config).subscribed =
                 (IF PluginConfigure(config).enabled THEN 1 ELSE 0)
<1> DEFINE on == config.enabled /\ config.logInjection = "true"
<1>1. CASE on
  <2>1. PluginConfigure(config) = [made |-> TRUE, enabled |-> TRUE, subscribed |-> 1]
    <3>1. CASE plugin.enabled
      BY <1>1, <3>1 DEF PluginConfigure
    <3>2. CASE ~plugin.enabled
      <4>1. plugin.subscribed + 1 = 1
        BY <3>2
      <4> QED
        BY <1>1, <3>2, <4>1, Zenon DEF PluginConfigure
    <3> QED
      BY <3>1, <3>2
  <2> QED
    BY <2>1 DEF PluginStates
<1>2. CASE ~on
  <2>1. PluginConfigure(config) = [made |-> TRUE, enabled |-> FALSE, subscribed |-> 0]
    <3>1. CASE plugin.enabled
      <4>1. plugin.subscribed - 1 = 0
        BY <3>1
      <4> QED
        BY <1>2, <3>1, <4>1, Zenon DEF PluginConfigure
    <3>2. CASE ~plugin.enabled
      BY <1>2, <3>2 DEF PluginConfigure
    <3> QED
      BY <3>1, <3>2
  <2> QED
    BY <2>1 DEF PluginStates
<1> QED
  BY <1>1, <1>2

LEMMA LoadingKeepsPair ==
    ASSUME plugin \in PluginStates, plugin.subscribed = (IF plugin.enabled THEN 1 ELSE 0),
           NEW hasConfig, NEW kept
    PROVE  /\ LoadPlugin(hasConfig, kept) \in PluginStates
           /\ LoadPlugin(hasConfig, kept).subscribed =
                 (IF LoadPlugin(hasConfig, kept).enabled THEN 1 ELSE 0)
           /\ ~hasConfig => LoadPlugin(hasConfig, kept).enabled = plugin.enabled
<1>1. CASE ~HasClass(profile)
  BY <1>1 DEF LoadPlugin
<1>2. CASE HasClass(profile) /\ ~hasConfig
  BY <1>2 DEF LoadPlugin, PluginStates
<1>3. CASE HasClass(profile) /\ hasConfig
  BY <1>3, ConfiguringKeepsPair DEF LoadPlugin
<1> QED
  BY <1>1, <1>2, <1>3

LEMMA RecordsRest ==
    ASSUME RecordsInv, UNCHANGED <<realTracer, serviceStarts, configured, plugin, records>>
    PROVE  RecordsInv'
BY DEF RecordsInv, Recorded, TracerBehind, RecordsMeetTracer

LEMMA RecordsAtStart == StartupInit => RecordsInv
<1> SUFFICES ASSUME StartupInit PROVE RecordsInv
  OBVIOUS
<1>1. plugin = [made |-> FALSE, enabled |-> FALSE, subscribed |-> 0]
  BY DEF StartupInit
<1>2. serviceStarts["tracer"] = 0
  BY DEF StartupInit, Services
<1>3. records = <<>> /\ realTracer = FALSE /\ configured = FALSE
  BY DEF StartupInit
<1> QED
  <2>1. Recorded
    <3>1. records \in Seq([handled : {0, 1}, injected : BOOLEAN])
      BY <1>3
    <3>2. realTracer \in BOOLEAN /\ configured \in BOOLEAN
      BY <1>3, Zenon
    <3> QED
      BY <3>1, <3>2 DEF Recorded
  <2>2. TracerBehind
    BY <1>1, <1>2, <1>3 DEF TracerBehind, PluginStates
  <2>3. RecordsMeetTracer
    BY <1>3 DEF RecordsMeetTracer
  <2> QED
    BY <2>1, <2>2, <2>3 DEF RecordsInv

\* The application's configuration waits for the tracer's.
LEMMA UseKeepsRecords ==
    ASSUME RecordsInv, NEW config, Use(config)
    PROVE  RecordsInv'
<1>1. UNCHANGED <<realTracer, serviceStarts, configured, records>>
      /\ plugin' = LoadPlugin(configured, {config})
  BY DEF Use, ConfigurePlugin
<1>2. TracerBehind'
  <2>1. CASE configured
    BY <1>1, <2>1, LoadingKeepsPair DEF RecordsInv, TracerBehind
  <2>2. CASE ~configured
    BY <1>1, <2>2, LoadingKeepsPair DEF RecordsInv, TracerBehind
  <2> QED
    BY <2>1, <2>2
<1> QED
  BY <1>1, <1>2 DEF RecordsInv, Recorded, RecordsMeetTracer

\* A record is handled by a subscribed plugin only, behind which the tracer is.
LEMMA LogRecordKeepsRecords ==
    ASSUME RecordsInv, LogRecord
    PROVE  RecordsInv'
<1> DEFINE new == [handled |-> plugin.subscribed, injected |-> realTracer]
<1>1. /\ UNCHANGED <<realTracer, serviceStarts, configured, plugin>>
      /\ records' = Append(records, new)
  BY DEF LogRecord
<1>2. new \in [handled : {0, 1}, injected : BOOLEAN]
  BY DEF RecordsInv, Recorded, TracerBehind, PluginStates
<1>3. new.handled > 0 => new.injected
  BY DEF RecordsInv, Recorded, TracerBehind
<1>4. Recorded'
  BY <1>1, <1>2 DEF RecordsInv, Recorded
<1>5. \A k \in DOMAIN records' :
        (k \in DOMAIN records /\ records'[k] = records[k]) \/ records'[k] = new
  BY <1>1, <1>2 DEF RecordsInv, Recorded
<1>6. RecordsMeetTracer'
  BY <1>3, <1>5 DEF RecordsInv, RecordsMeetTracer
<1> QED
  BY <1>1, <1>4, <1>6 DEF RecordsInv, TracerBehind

\* The plugins come after the tracer, which one switch wants with them: when
\* the manager is configured, the tracer has been made.
LEMMA StartServiceKeepsRecords ==
    ASSUME OrderInv, RecordsInv, NEW c \in InitCalls, StartService(c)
    PROVE  RecordsInv'
<1> DEFINE here == stage[c]
<1>1. here \in Places /\ UNCHANGED records
  BY OrderIsOfServices DEF StartService, Places
<1>2. CASE ~Wants(Order[here])
  BY <1>2, RecordsRest DEF StartService
<1>3. CASE Wants(Order[here])
  <2>1. /\ serviceStarts' = [serviceStarts EXCEPT ![Order[here]] = @ + 1]
        /\ Effect(Order[here])
    BY <1>3 DEF StartService
  <2>2. Order[here] \in Services /\ "tracer" \in Services /\ "plugins" # "tracer"
    BY <1>1, OrderIsOfServices DEF Services
  <2>3. Recorded' /\ RecordsMeetTracer'
    BY <1>1, <2>1 DEF RecordsInv, Recorded, RecordsMeetTracer, Effect
  <2>4. CASE Order[here] = "plugins"
    <3>1. here = 10
      BY <1>1, <2>4, TracerBeforePlugins, OrderIsOfServices
    <3>2. serviceStarts["tracer"] = 1
      BY <1>1, <1>3, <2>4, <3>1, TracerBeforePlugins DEF OrderInv, SoFar
    <3>3. realTracer' /\ configured' /\ plugin' = LoadPlugin(TRUE, chosen)
      <4>1. realTracer' = (realTracer \/ Order[here] = "tracer")
        BY <2>1 DEF Effect
      <4>2. configured' = (configured \/ Order[here] = "plugins")
        BY <2>1 DEF Effect
      <4>3. plugin' = LoadPlugin(TRUE, chosen)
        BY <2>1, <2>4 DEF Effect
      <4>4. realTracer
        BY <3>2 DEF RecordsInv, TracerBehind
      <4>5. realTracer' /\ configured'
        BY <2>4, <4>1, <4>2, <4>4, Zenon
      <4> QED
        BY <4>3, <4>5
    <3>4. TracerBehind'
      BY <3>3, LoadingKeepsPair DEF RecordsInv, TracerBehind
    <3> QED
      BY <2>3, <3>4 DEF RecordsInv
  <2>5. CASE Order[here] # "plugins"
    <3>1. /\ UNCHANGED <<configured, plugin>>
          /\ realTracer' = (realTracer \/ Order[here] = "tracer")
      <4>1. configured' = (configured \/ Order[here] = "plugins")
        BY <2>1 DEF Effect
      <4>2. UNCHANGED configured
        BY <2>5, <4>1 DEF RecordsInv, Recorded
      <4> QED
        BY <2>1, <2>5, <4>2 DEF Effect
    <3>2. Order[here] # "tracer" => serviceStarts'["tracer"] = serviceStarts["tracer"]
      BY <2>1, <2>2 DEF OrderInv, StartsCounted
    <3>3. TracerBehind'
      BY <3>1, <3>2 DEF RecordsInv, TracerBehind
    <3> QED
      BY <2>3, <3>3 DEF RecordsInv
  <2> QED
    BY <2>4, <2>5
<1> QED
  BY <1>2, <1>3

\* Every step keeps the tracer behind the records.
LEMMA RecordsSteps ==
    OrderInv /\ RecordsInv /\ [StartupNext]_startupVars => RecordsInv'
<1> SUFFICES ASSUME OrderInv, RecordsInv, [StartupNext]_startupVars PROVE RecordsInv'
  OBVIOUS
<1>1. CASE \E c \in InitCalls : CallInit(c)
  BY <1>1, RecordsRest DEF CallInit
<1>2. CASE \E c \in InitCalls : StartService(c)
  BY <1>2, StartServiceKeepsRecords
<1>3. CASE \E c \in InitCalls : TracerThrows(c)
  BY <1>3, RecordsRest DEF TracerThrows
<1>4. CASE \E config \in UseConfigs : Use(config)
  BY <1>4, UseKeepsRecords
<1>5. CASE LogRecord
  BY <1>5, LogRecordKeepsRecords
<1>6. CASE UNCHANGED startupVars
  BY <1>6, RecordsRest DEF startupVars
<1> QED
  BY <1>1, <1>2, <1>3, <1>4, <1>5, <1>6 DEF StartupNext

\* Whatever the application configures around init, and wherever init throws:
\* a record that the log plugin handles meets the real tracer, since only the
\* configured manager enables the plugin (plugin_manager.ts, loadPlugin).
THEOREM HandledRecordsMeetTracer == StartupSpec => []RecordsMeetTracer
<1>1. StartupInit => OrderInv /\ RecordsInv
  BY OrderAtStart, RecordsAtStart
<1>2. OrderInv /\ RecordsInv /\ [StartupNext]_startupVars => (OrderInv /\ RecordsInv)'
  BY OrderSteps, RecordsSteps
<1>3. OrderInv /\ RecordsInv => RecordsMeetTracer
  BY DEF RecordsInv
<1> QED
  BY <1>1, <1>2, <1>3, PTL DEF StartupSpec

-----------------------------------------------------------------------------
(* The plugin as the last use has chosen it.                               *)

\* What the log plugin should be, as its manager knows it: from the last
\* configuration it was given, if any.
Wanted(kept) ==
    /\ HasClass(profile)
    /\ IF kept = {} THEN Switches(profile).plugins
       ELSE (CHOOSE config \in kept : TRUE).enabled
    /\ IF kept # {} /\ (CHOOSE config \in kept : TRUE).logInjection # "absent"
       THEN (CHOOSE config \in kept : TRUE).logInjection = "true"
       ELSE LogInjection(profile) = "true"

\* The manager remembers the last use, and the plugin follows it from the
\* moment that the manager is configured.
ChoiceInv ==
    /\ uses \in Seq(UseConfigs)
    /\ chosen = IF uses = <<>> THEN {} ELSE {Last(uses)}
    /\ plugin.enabled => HasClass(profile)
    /\ configured => plugin.enabled = Wanted(chosen)

\* What the manager remembers says what the application has chosen.
LEMMA RememberedIsChosen ==
    ASSUME ChoiceInv
    PROVE  Wanted(chosen) = LogShouldBeOn
<1>1. CASE uses = <<>>
  <2>1. chosen = {}
    BY <1>1 DEF ChoiceInv
  <2> QED  BY <1>1, <2>1, Zenon DEF Wanted, LogShouldBeOn
<1>2. CASE uses # <<>>
  <2>1. chosen = {Last(uses)} /\ chosen # {} /\ (CHOOSE config \in chosen : TRUE) = Last(uses)
    BY <1>2 DEF ChoiceInv
  <2> QED  BY <1>2, <2>1, Zenon DEF Wanted, LogShouldBeOn
<1> QED  BY <1>1, <1>2

\* The plugin is on as its own configuration says.
LEMMA ConfiguringFollows ==
    ASSUME NEW config
    PROVE  PluginConfigure(config).enabled = (config.enabled /\ config.logInjection = "true")
BY DEF PluginConfigure

\* Loading the plugin with a configured manager makes it what is wanted.
LEMMA LoadingFollows ==
    ASSUME plugin \in PluginStates, plugin.enabled => HasClass(profile),
           NEW kept, kept = {} \/ \E config \in UseConfigs : kept = {config}
    PROVE  /\ LoadPlugin(TRUE, kept).enabled = Wanted(kept)
           /\ LoadPlugin(TRUE, kept).enabled => HasClass(profile)
<1>1. CASE ~HasClass(profile)
  <2>1. LoadPlugin(TRUE, kept) = plugin /\ plugin.enabled = FALSE
    BY <1>1 DEF LoadPlugin, PluginStates
  <2> QED  BY <1>1, <2>1, Zenon DEF Wanted
<1>2. CASE HasClass(profile)
  <2> DEFINE own == IF kept = {}
                    THEN [enabled |-> Switches(profile).plugins, logInjection |-> "absent"]
                    ELSE CHOOSE config \in kept : TRUE
             word == IF own.logInjection = "absent" THEN LogInjection(profile) ELSE own.logInjection
             final == [own EXCEPT !.logInjection = word]
  <2>1. \E on, said : own = [enabled |-> on, logInjection |-> said]
    <3>1. CASE kept = {}
      BY <3>1, Zenon
    <3>2. CASE kept # {}
      <4>1. own \in [enabled : BOOLEAN, logInjection : STRING]
        BY <3>2, UsesAssumption DEF UsesAssumption
      <4> HIDE DEF own
      <4>2. own = [enabled |-> own.enabled, logInjection |-> own.logInjection]
        BY <4>1
      <4> QED  BY <4>2
    <3> QED  BY <3>1, <3>2
  <2>2. final.enabled = own.enabled /\ final.logInjection = word
    <3> HIDE DEF own, word
    <3>1. PICK on, said : own = [enabled |-> on, logInjection |-> said]
      BY <2>1
    <3> QED  BY <3>1
  <2>3. LoadPlugin(TRUE, kept) = PluginConfigure(final)
    BY <1>2, Zenon DEF LoadPlugin
  <2>4. LoadPlugin(TRUE, kept).enabled = (own.enabled /\ word = "true")
    <3> HIDE DEF own, word, final
    <3> QED  BY <2>2, <2>3, ConfiguringFollows, Zenon
  <2>5. CASE kept = {}
    <3>1. own.enabled = Switches(profile).plugins /\ word = LogInjection(profile)
      BY <2>5
    <3> QED  BY <1>2, <2>4, <2>5, <3>1, Zenon DEF Wanted
  <2>6. CASE kept # {}
    <3>1. own = CHOOSE config \in kept : TRUE
      BY <2>6
    <3>2. CASE own.logInjection = "absent"
      <4>1. word = LogInjection(profile)
        BY <3>2
      <4> HIDE DEF own, word
      <4> QED  BY <1>2, <2>4, <2>6, <3>1, <3>2, <4>1, Zenon DEF Wanted
    <3>3. CASE own.logInjection # "absent"
      <4>1. word = own.logInjection
        BY <3>3
      <4> HIDE DEF own, word
      <4> QED  BY <1>2, <2>4, <2>6, <3>1, <3>3, <4>1, Zenon DEF Wanted
    <3> QED  BY <3>2, <3>3
  <2> QED  BY <2>5, <2>6
<1> QED  BY <1>1, <1>2

\* What is wanted depends on the profile and the last use alone.
LEMMA WantedKept ==
    ASSUME UNCHANGED profile, NEW kept
    PROVE  Wanted(kept)' = Wanted(kept) /\ HasClass(profile)' = HasClass(profile)
BY DEF Wanted, HasClass

LEMMA ChoiceAtStart == StartupInit => ChoiceInv
<1> SUFFICES ASSUME StartupInit PROVE ChoiceInv
  OBVIOUS
<1>1. uses = <<>> /\ chosen = {} /\ configured = FALSE /\ plugin.enabled = FALSE
  BY DEF StartupInit
<1>2. uses \in Seq(UseConfigs)
  BY <1>1
<1> QED  BY <1>1, <1>2, Zenon DEF ChoiceInv

LEMMA ChoiceRests ==
    ASSUME ChoiceInv, UNCHANGED <<profile, uses, chosen, configured, plugin>>
    PROVE  ChoiceInv'
<1>1. Wanted(chosen)' = Wanted(chosen) /\ HasClass(profile)' = HasClass(profile)
  BY DEF Wanted, HasClass
<1> QED  BY <1>1 DEF ChoiceInv

\* use: what it chooses is remembered, and taken on at once or by init.
LEMMA UseKeepsChoice ==
    ASSUME RecordsInv, ChoiceInv, NEW config \in UseConfigs, Use(config)
    PROVE  ChoiceInv'
<1>1. /\ UNCHANGED <<profile, configured>> /\ chosen' = {config}
      /\ uses' = Append(uses, config) /\ plugin' = LoadPlugin(configured, {config})
  BY DEF Use, ConfigurePlugin
<1>2. uses' \in Seq(UseConfigs) /\ uses' # <<>> /\ Last(uses') = config
  BY <1>1 DEF ChoiceInv, Last
<1>3. chosen' = IF uses' = <<>> THEN {} ELSE {Last(uses')}
  BY <1>1, <1>2
<1>4. CASE configured = TRUE
  <2>1. /\ plugin'.enabled = Wanted({config})
        /\ plugin'.enabled => HasClass(profile)
    BY <1>1, <1>4, LoadingFollows DEF RecordsInv, TracerBehind, ChoiceInv
  <2>2. Wanted(chosen)' = Wanted({config}) /\ HasClass(profile)' = HasClass(profile)
    BY <1>1 DEF Wanted, HasClass
  <2> QED  BY <1>1, <1>2, <1>3, <1>4, <2>1, <2>2 DEF ChoiceInv
<1>5. CASE configured = FALSE
  <2>1. plugin'.enabled = plugin.enabled
    BY <1>1, <1>5, LoadingKeepsPair DEF RecordsInv, TracerBehind
  <2>2. HasClass(profile)' = HasClass(profile)
    BY <1>1 DEF HasClass
  <2> QED  BY <1>1, <1>2, <1>3, <1>5, <2>1, <2>2 DEF ChoiceInv
<1> QED  BY <1>4, <1>5 DEF RecordsInv, Recorded

\* init configures the manager, which then takes on what was chosen before.
LEMMA StartServiceKeepsChoice ==
    ASSUME OrderInv, RecordsInv, ChoiceInv, NEW c \in InitCalls, StartService(c)
    PROVE  ChoiceInv'
<1> DEFINE here == stage[c]
<1>1. UNCHANGED <<profile, chosen, uses>>
  BY DEF StartService
<1>2. CASE ~Wants(Order[here])
  BY <1>1, <1>2, ChoiceRests DEF StartService
<1>3. CASE Wants(Order[here]) /\ Order[here] = "plugins"
  <2>1. Effect("plugins")
    BY <1>3 DEF StartService
  <2>2. plugin' = LoadPlugin(TRUE, chosen)
    BY <2>1 DEF Effect
  <2>3. chosen = {} \/ \E config \in UseConfigs : chosen = {config}
    <3>1. uses # <<>> => Last(uses) \in UseConfigs
      BY DEF ChoiceInv, Last
    <3> QED  BY <3>1 DEF ChoiceInv
  <2>4. /\ plugin'.enabled = Wanted(chosen)
        /\ plugin'.enabled => HasClass(profile)
    BY <2>2, <2>3, LoadingFollows DEF RecordsInv, TracerBehind, ChoiceInv
  <2>5. Wanted(chosen)' = Wanted(chosen) /\ HasClass(profile)' = HasClass(profile)
    BY <1>1 DEF Wanted, HasClass
  <2> QED  BY <1>1, <2>4, <2>5 DEF ChoiceInv
<1>4. CASE Wants(Order[here]) /\ Order[here] # "plugins"
  <2>1. Effect(Order[here])
    BY <1>4 DEF StartService
  <2>2. configured' = configured /\ plugin' = plugin
    BY <1>4, <2>1 DEF Effect, RecordsInv, Recorded
  <2> QED  BY <1>1, <2>2, ChoiceRests
<1> QED  BY <1>2, <1>3, <1>4

\* Every step keeps the choice.
LEMMA ChoiceSteps ==
    OrderInv /\ RecordsInv /\ ChoiceInv /\ [StartupNext]_startupVars => ChoiceInv'
<1> SUFFICES ASSUME OrderInv, RecordsInv, ChoiceInv, [StartupNext]_startupVars PROVE ChoiceInv'
  OBVIOUS
<1>1. CASE \E c \in InitCalls : CallInit(c)
  BY <1>1, ChoiceRests DEF CallInit
<1>2. CASE \E c \in InitCalls : StartService(c)
  BY <1>2, StartServiceKeepsChoice
<1>3. CASE \E c \in InitCalls : TracerThrows(c)
  BY <1>3, ChoiceRests DEF TracerThrows
<1>4. CASE \E config \in UseConfigs : Use(config)
  BY <1>4, UseKeepsChoice
<1>5. CASE LogRecord
  BY <1>5, ChoiceRests DEF LogRecord
<1>6. CASE UNCHANGED startupVars
  BY <1>6, ChoiceRests DEF startupVars
<1> QED
  BY <1>1, <1>2, <1>3, <1>4, <1>5, <1>6 DEF StartupNext

\* However the application uses the log plugin before, during and after init:
\* once the manager is configured the plugin is what the last use wants, is
\* subscribed once, and meets the real tracer (configurePlugin, loadPlugin).
THEOREM LogPluginIsReady == StartupSpec => []LogPluginReady
<1>1. StartupInit => OrderInv /\ RecordsInv /\ ChoiceInv
  BY OrderAtStart, RecordsAtStart, ChoiceAtStart
<1>2. OrderInv /\ RecordsInv /\ ChoiceInv /\ [StartupNext]_startupVars =>
        (OrderInv /\ RecordsInv /\ ChoiceInv)'
  BY OrderSteps, RecordsSteps, ChoiceSteps
<1>3. OrderInv /\ RecordsInv /\ ChoiceInv => LogPluginReady
  <2> SUFFICES ASSUME RecordsInv, ChoiceInv PROVE LogPluginReady
    OBVIOUS
  <2>1. configured => plugin.enabled = LogShouldBeOn
    BY RememberedIsChosen DEF ChoiceInv
  <2>2. plugin.subscribed = (IF plugin.enabled THEN 1 ELSE 0)
    BY DEF RecordsInv, TracerBehind
  <2> QED  BY <2>1, <2>2 DEF RecordsInv, PluginAsChosen, LogPluginReady
<1> QED
  BY <1>1, <1>2, <1>3, PTL DEF StartupSpec

-----------------------------------------------------------------------------
(* Application security.                                                   *)


\* A client without listeners has not started; one that has keeps APM_TRACING
\* for good, so that withdrawing the WAF never stops its polls.
ClientStarted ==
    /\ listeners = {} => timer = "none"
    /\ listeners # {} =>
          HasClient /\ "APM_TRACING" \in listeners /\ timer \in {"armed", "fired"}
    /\ appsecOn /\ HasClient => listeners # {}

AppsecTyped ==
    /\ inFlight \in Nat
    /\ DOMAIN tags = Roots /\ DOMAIN named = Roots

\* The inductive invariant.
SecurityInv == AppsecTyped /\ ClientStarted /\ OnePollChain /\ WafAnnounced

LEMMA WafNames ==
    /\ "APM_TRACING" \notin WafProducts \cup {"kPreUpdate"}
    /\ "ASM_FEATURES" \notin WafProducts \cup {"kPreUpdate"}
    /\ "asm_activation" \notin WafCapabilities
    /\ WafCapabilities # {} /\ WafProducts # {}
BY DEF WafProducts, WafCapabilities

LEMMA SecurityAtStart == SecurityInit => SecurityInv
<1> SUFFICES ASSUME SecurityInit PROVE SecurityInv
  OBVIOUS
<1>1. AppsecTyped /\ ClientStarted
  BY DEF SecurityInit, AppsecTyped, ClientStarted
<1>2. OnePollChain
  BY DEF SecurityInit, OnePollChain
<1>3. WafAnnounced
  BY WafNames DEF SecurityInit, WafAnnounced
<1> QED
  BY <1>1, <1>2, <1>3 DEF SecurityInv

\* The calls that leave the client and the switch alone.
LEMMA ClientRests ==
    ASSUME SecurityInv,
           UNCHANGED <<security, appsecOn, capabilities, listeners, timer, inFlight>>,
           DOMAIN tags' = Roots, DOMAIN named' = Roots
    PROVE  SecurityInv'
BY DEF SecurityInv, AppsecTyped, ClientStarted, OnePollChain, WafAnnounced, HasClient

LEMMA EnableClientSteps ==
    ASSUME SecurityInv, EnableClient
    PROVE  SecurityInv'
<1>1. /\ UNCHANGED <<security, appsecOn, inFlight, tags, named>>
      /\ HasClient /\ listeners = {} /\ timer = "none" /\ timer' = "armed"
      /\ "APM_TRACING" \in listeners' /\ listeners' \subseteq {"APM_TRACING", "ASM_FEATURES"}
      /\ capabilities' \subseteq {"asm_activation"}
  BY DEF EnableClient, StartScheduler, spanVars, SecurityInv, ClientStarted
<1>2. ~appsecOn /\ inFlight = 0
  BY <1>1 DEF SecurityInv, ClientStarted, OnePollChain, AppsecTyped
<1>3. AppsecTyped' /\ ClientStarted'
  BY <1>1, <1>2 DEF SecurityInv, AppsecTyped, ClientStarted, HasClient
<1>4. OnePollChain'
  BY <1>1, <1>2 DEF OnePollChain
<1>5. WafAnnounced'
  BY <1>1, <1>2, WafNames DEF WafAnnounced
<1> QED
  BY <1>3, <1>4, <1>5 DEF SecurityInv

LEMMA EnableAppsecSteps ==
    ASSUME SecurityInv, EnableAppsec
    PROVE  SecurityInv'
<1>1. /\ UNCHANGED <<security, inFlight, tags, named>>
      /\ appsecOn' = TRUE /\ ~appsecOn /\ (HasClient => listeners # {}) /\ AnnounceWaf
  BY DEF EnableAppsec, spanVars
<1>2. CASE HasClient /\ ~security.custom
  <2>1. /\ capabilities' = capabilities \cup WafCapabilities
        /\ listeners' = listeners \cup (WafProducts \cup {"kPreUpdate"})
        /\ UNCHANGED timer
    BY <1>1, <1>2, WafNames
       DEF AnnounceWaf, ListenTo, StartScheduler, SecurityInv, ClientStarted
  <2>2. AppsecTyped' /\ ClientStarted'
    BY <1>1, <1>2, <2>1 DEF SecurityInv, AppsecTyped, ClientStarted, HasClient
  <2>3. OnePollChain'
    BY <1>1, <1>2, <2>1 DEF SecurityInv, OnePollChain
  <2>4. WafAnnounced'
    BY <1>1, <1>2, <2>1, WafNames DEF WafAnnounced, HasClient
  <2> QED
    BY <2>2, <2>3, <2>4 DEF SecurityInv
<1>3. CASE ~(HasClient /\ ~security.custom)
  <2>1. UNCHANGED <<capabilities, listeners, timer>>
    BY <1>1, <1>3 DEF AnnounceWaf
  <2> QED
    BY <1>1, <1>3, <2>1
       DEF SecurityInv, AppsecTyped, ClientStarted, OnePollChain, WafAnnounced, HasClient
<1> QED
  BY <1>2, <1>3

LEMMA EnableFailsSteps ==
    ASSUME SecurityInv, EnableFails
    PROVE  SecurityInv'
<1>1. /\ UNCHANGED <<security, appsecOn, inFlight, tags, named>>
      /\ ~appsecOn /\ (HasClient => listeners # {}) /\ WithdrawWaf
  BY DEF EnableFails, spanVars
<1>2. CASE HasClient
  <2>1. /\ capabilities' = capabilities \ WafCapabilities
        /\ listeners' = listeners \ (WafProducts \cup {"kPreUpdate"})
        /\ "APM_TRACING" \in listeners' /\ UNCHANGED timer
    BY <1>1, <1>2, WafNames DEF WithdrawWaf, IgnoreAll, SecurityInv, ClientStarted
  <2>2. AppsecTyped' /\ ClientStarted'
    BY <1>1, <1>2, <2>1 DEF SecurityInv, AppsecTyped, ClientStarted, HasClient
  <2>3. OnePollChain'
    BY <1>1, <1>2, <2>1 DEF SecurityInv, OnePollChain
  <2>4. WafAnnounced'
    BY <1>1, <2>1, WafNames DEF WafAnnounced
  <2> QED
    BY <2>2, <2>3, <2>4 DEF SecurityInv
<1>3. CASE ~HasClient
  <2>1. UNCHANGED <<capabilities, listeners, timer>>
    BY <1>1, <1>3 DEF WithdrawWaf
  <2> QED
    BY <1>1, <2>1, ClientRests DEF SecurityInv, AppsecTyped
<1> QED
  BY <1>2, <1>3

\* A timer that fires becomes a request, whose answer arms the timer.
LEMMA PollSteps ==
    ASSUME SecurityInv, Poll
    PROVE  SecurityInv'
<1>1. /\ UNCHANGED <<security, appsecOn, capabilities, listeners, tags, named>>
      /\ timer = "armed" /\ timer' = "fired" /\ inFlight' = inFlight + 1
  BY DEF Poll, spanVars
<1> QED
  BY <1>1 DEF SecurityInv, AppsecTyped, ClientStarted, OnePollChain, WafAnnounced, HasClient

LEMMA PollAnsweredSteps ==
    ASSUME SecurityInv, NEW answer, PollAnswered(answer)
    PROVE  SecurityInv'
<1>1. /\ UNCHANGED <<security, appsecOn, capabilities, listeners, tags, named>>
      /\ inFlight > 0 /\ timer' = "armed" /\ inFlight' = inFlight - 1
  BY DEF PollAnswered, spanVars
<1>2. listeners # {} /\ timer # "armed"
  BY <1>1 DEF SecurityInv, AppsecTyped, ClientStarted, OnePollChain
<1>3. AppsecTyped' /\ ClientStarted'
  BY <1>1, <1>2 DEF SecurityInv, AppsecTyped, ClientStarted, HasClient
<1>4. OnePollChain'
  BY <1>1, <1>2 DEF SecurityInv, AppsecTyped, OnePollChain
<1>5. WafAnnounced'
  BY <1>1 DEF SecurityInv, WafAnnounced, HasClient
<1> QED
  BY <1>3, <1>4, <1>5 DEF SecurityInv

\* What the application calls leaves the client alone and the roots what they are.
LEMMA UserCallsSteps ==
    ASSUME SecurityInv, NEW root, NEW user, UserCalls(root, user)
    PROVE  SecurityInv'
<1>1. UNCHANGED <<security, appsecOn, capabilities, listeners, timer, inFlight>>
  BY DEF UserCalls, TrackLogin, TrackFailure, SetUser, CheckUser, PassportVerify, clientVars
<1>2. DOMAIN tags' = DOMAIN tags /\ DOMAIN named' = DOMAIN named
  BY DEF UserCalls, TrackLogin, TrackFailure, SetUser, CheckUser, PassportVerify, PassportTracks
<1> QED
  BY <1>1, <1>2, ClientRests DEF SecurityInv, AppsecTyped

LEMMA RootsSteps ==
    ASSUME SecurityInv, NEW root,
           RequestStarts(root) \/ BlockRequest(root) \/ \E event : TrackCustom(root, event)
    PROVE  SecurityInv'
<1>1. UNCHANGED <<security, appsecOn, capabilities, listeners, timer, inFlight>>
  BY DEF RequestStarts, BlockRequest, TrackCustom, clientVars
<1>2. DOMAIN tags' = DOMAIN tags /\ DOMAIN named' = DOMAIN named
  BY DEF RequestStarts, BlockRequest, TrackCustom
<1> QED
  BY <1>1, <1>2, ClientRests DEF SecurityInv, AppsecTyped

\* Every step keeps the invariant.
LEMMA SecuritySteps == SecurityInv /\ [AppsecNext]_appsecVars => SecurityInv'
<1> SUFFICES ASSUME SecurityInv, [AppsecNext]_appsecVars PROVE SecurityInv'
  OBVIOUS
<1>1. CASE EnableClient
  BY <1>1, EnableClientSteps
<1>2. CASE EnableAppsec
  BY <1>2, EnableAppsecSteps
<1>3. CASE EnableFails
  BY <1>3, EnableFailsSteps
<1>4. CASE Poll
  BY <1>4, PollSteps
<1>5. CASE \E answer : PollAnswered(answer)
  BY <1>5, PollAnsweredSteps
<1>6. CASE \E root \in Roots : RequestStarts(root) \/ BlockRequest(root)
  BY <1>6, RootsSteps
<1>7. CASE \E root \in Roots : \E event : TrackCustom(root, event)
  BY <1>7, RootsSteps
<1>8. CASE \E root \in Roots, user \in Users : UserCalls(root, user)
  BY <1>8, UserCallsSteps
<1>9. CASE UNCHANGED appsecVars
  BY <1>9, ClientRests DEF appsecVars, clientVars, spanVars, SecurityInv, AppsecTyped
<1> QED
  BY <1>1, <1>2, <1>3, <1>4, <1>5, <1>6, <1>7, <1>8, <1>9 DEF AppsecNext

LEMMA SecurityInvariant == AppsecSpec => []SecurityInv
BY SecurityAtStart, SecuritySteps, PTL DEF AppsecSpec

\* However starts, failed starts and polls fall, the client polls in one chain:
\* withdrawing the WAF leaves APM_TRACING, so that no answer finds the client
\* stopped (scheduler.ts).
THEOREM PollsInOneChain == AppsecSpec => []OnePollChain
BY SecurityInvariant, PTL DEF SecurityInv

\* What the client announces of the WAF is the switch of application security,
\* whichever of the client and it fails to start (appsec/index.ts, enable).
THEOREM AnnouncementFollowsSwitch == AppsecSpec => []WafAnnounced
BY SecurityInvariant, PTL DEF SecurityInv

\* Both together: remote configuration as application security uses it.
THEOREM RemoteConfigurationIsKept == AppsecSpec => []RemoteConfigKept
BY PollsInOneChain, AnnouncementFollowsSwitch, PTL DEF RemoteConfigKept

-----------------------------------------------------------------------------
(* The user of a login.                                                    *)

LoginMark == Tag("sdk", "users.login.success", NoUser)

\* The user tags of a root are one, of the user the application named last.
NamesUser(root) ==
    /\ \E t \in tags[root] : t.kind = "usr"
    /\ \A t \in tags[root] : t.kind = "usr" => t.user = named[root]

LoginInv == \A root \in Roots : LoginMark \in tags[root] => NamesUser(root)

LEMMA TagIs ==
    ASSUME NEW kind, NEW event, NEW user
    PROVE  /\ Tag(kind, event, user).kind = kind
           /\ Tag(kind, event, user).event = event
           /\ Tag(kind, event, user).user = user
BY DEF Tag

\* Tags other than users and logins of the SDK disturb nothing.
LEMMA OtherTagsKeep ==
    ASSUME LoginInv, NEW root \in Roots, named'[root] = named[root],
           \A t \in tags'[root] \ tags[root] : t.kind # "usr" /\ t # LoginMark,
           \A t \in tags[root] \ tags'[root] : t.kind # "usr"
    PROVE  LoginMark \in tags'[root] => NamesUser(root)'
BY DEF LoginInv, NamesUser

\* A user that the application names is the one of the root.
LEMMA NamingKeeps ==
    ASSUME NEW root \in Roots, NEW id, NEW more,
           tags'[root] = WithUser(root, id) \cup more, named'[root] = id,
           \A t \in more : t.kind # "usr"
    PROVE  NamesUser(root)'
<1>1. Tag("usr", "", id).kind = "usr" /\ Tag("usr", "", id).user = id
  BY Zenon DEF Tag
<1>2. Tag("usr", "", id) \in tags'[root]
  BY DEF WithUser
<1>3. ASSUME NEW t \in tags'[root], t.kind = "usr" PROVE t = Tag("usr", "", id)
  BY <1>3 DEF WithUser
<1> QED  BY <1>1, <1>2, <1>3 DEF NamesUser

\* What trackEvent sets is of neither a user nor, but for the SDK's success, a
\* login of the SDK.
LEMMA TrackedTags ==
    ASSUME NEW set, NEW event, NEW mode, NEW t \in Tracked(set, event, mode) \ set,
           mode \in {"sdk", "safe", "extended"}
    PROVE  /\ t.kind \in {"track", mode} /\ t.event = event
           /\ t = LoginMark => mode = "sdk" /\ event = "users.login.success"
<1>1. t = Tag("track", event, NoUser) \/ t = Tag(mode, event, NoUser)
  BY DEF Tracked
<1>2. t.kind \in {"track", mode} /\ t.event = event
  BY <1>1, TagIs
<1>3. LoginMark.kind = "sdk" /\ LoginMark.event = "users.login.success"
  BY TagIs DEF LoginMark
<1> QED  BY <1>2, <1>3

\* A failed login leaves the user tags alone.
LEMMA FailedTags ==
    ASSUME NEW set, NEW event, NEW id
    PROVE  /\ \A t \in Failed(set, event, id) \ set : t.kind = "fields" /\ t # LoginMark
           /\ \A t \in set \ Failed(set, event, id) : t.kind = "fields"
<1>1. ASSUME NEW t \in Failed(set, event, id) \ set PROVE t.kind = "fields"
  <2>1. t = Tag("fields", event, id)
    BY <1>1 DEF Failed
  <2> QED  BY <2>1, TagIs
<1>2. LoginMark.kind = "sdk"
  BY TagIs DEF LoginMark
<1>3. \A t \in set \ Failed(set, event, id) : t.kind = "fields"
  BY DEF Failed
<1> QED  BY <1>1, <1>2, <1>3

\* The calls of the application and the logins that passport sees.
LEMMA UserCallsKeepLogin ==
    ASSUME AppsecTyped, LoginInv, NEW called \in Roots, NEW user, UserCalls(called, user),
           NEW root \in Roots
    PROVE  LoginMark \in tags'[root] => NamesUser(root)'
<1>1. CASE root # called
  <2>1. tags'[root] = tags[root] /\ named'[root] = named[root]
    BY <1>1 DEF AppsecTyped, UserCalls, TrackLogin, TrackFailure, SetUser, CheckUser,
                PassportVerify, PassportTracks
  <2> QED  BY <2>1, OtherTagsKeep
<1>2. CASE root = called /\ TrackLogin(called, user)
  <2> DEFINE more == {Tag("track", "users.login.success", NoUser),
                      Tag("sdk", "users.login.success", NoUser)}
  <2>1. tags'[root] = WithUser(root, user.id) \cup more /\ named'[root] = user.id
    BY <1>2 DEF AppsecTyped, TrackLogin, Tracked
  <2>2. \A t \in more : t.kind # "usr"
    <3>1. /\ Tag("track", "users.login.success", NoUser).kind = "track"
          /\ Tag("sdk", "users.login.success", NoUser).kind = "sdk"
      BY TagIs
    <3> QED  BY <3>1
  <2> HIDE DEF more
  <2> QED  BY <2>1, <2>2, NamingKeeps
<1>3. CASE root = called /\ TrackFailure(called, user)
  <2> DEFINE mid == Failed(tags[root], "users.login.failure", user.id)
  <2>1. tags'[root] = Tracked(mid, "users.login.failure", "sdk") /\ named'[root] = named[root]
    BY <1>3 DEF AppsecTyped, TrackFailure
  <2> HIDE DEF mid
  <2>2. \A t \in tags'[root] \ mid : t.kind # "usr" /\ t # LoginMark
    BY <2>1, TrackedTags
  <2>3. /\ \A t \in mid \ tags[root] : t.kind # "usr" /\ t # LoginMark
        /\ \A t \in tags[root] \ mid : t.kind # "usr"
    BY FailedTags DEF mid
  <2>4. mid \subseteq tags'[root]
    BY <2>1 DEF Tracked
  <2> QED  BY <2>1, <2>2, <2>3, <2>4, OtherTagsKeep
<1>4. CASE root = called /\ tags'[root] = WithUser(root, user.id) /\ named'[root] = user.id
  <2> DEFINE more == {}
  <2>1. tags'[root] = WithUser(root, user.id) \cup more /\ \A t \in more : t.kind # "usr"
    BY <1>4
  <2> HIDE DEF more
  <2> QED  BY <1>4, <2>1, NamingKeeps
<1>5. CASE tags' = tags /\ named' = named
  BY <1>5, OtherTagsKeep
<1>6. ASSUME NEW succeeded \in BOOLEAN, root = called, PassportVerify(called, user, succeeded)
      PROVE  LoginMark \in tags'[root] => NamesUser(root)'
  <2>1. CASE SdkCalled(root)
    <3>1. tags'[root] = tags[root] /\ named'[root] = named[root]
      BY <1>6, <2>1 DEF AppsecTyped, PassportVerify, PassportTracks
    <3> QED  BY <3>1, OtherTagsKeep
  <2>2. CASE ~SdkCalled(root)
    <3>1. LoginMark \notin tags[root]
      <4>1. LoginMark.kind = "sdk" /\ LoginMark.event = "users.login.success"
        BY TagIs DEF LoginMark
      <4> QED  BY <2>2, <4>1 DEF SdkCalled
    <3>2. security.tracking \in {"safe", "extended"}
      BY <1>6 DEF PassportVerify
    <3>3. CASE succeeded
      <4> DEFINE mid == WithUser(root, ParsedId(user))
      <4>1. tags'[root] = Tracked(mid, "users.login.success", security.tracking)
        BY <1>6, <2>2, <3>3 DEF AppsecTyped, PassportVerify, PassportTracks
      <4>2. LoginMark \notin mid
        <5>1. LoginMark.kind = "sdk"
          BY TagIs DEF LoginMark
        <5>2. Tag("usr", "", ParsedId(user)).kind = "usr"
          BY Zenon DEF Tag
        <5> QED  BY <3>1, <5>1, <5>2 DEF WithUser
      <4> HIDE DEF mid
      <4> QED  BY <3>2, <4>1, <4>2, TrackedTags
    <3>4. CASE ~succeeded
      <4> DEFINE mid == Failed(tags[root], "users.login.failure", ParsedId(user))
      <4>1. tags'[root] = Tracked(mid, "users.login.failure", security.tracking)
        BY <1>6, <2>2, <3>4 DEF AppsecTyped, PassportVerify, PassportTracks
      <4>2. LoginMark \notin mid
        BY <3>1, FailedTags
      <4> HIDE DEF mid
      <4> QED  BY <3>2, <4>1, <4>2, TrackedTags
    <3> QED  BY <3>3, <3>4
  <2> QED  BY <2>1, <2>2
<1>7. root = called /\ (SetUser(called, user) \/ CheckUser(called, user)) =>
        \/ tags'[root] = WithUser(root, user.id) /\ named'[root] = user.id
        \/ tags' = tags /\ named' = named
  BY DEF AppsecTyped, SetUser, CheckUser
<1> QED  BY <1>1, <1>2, <1>3, <1>4, <1>5, <1>6, <1>7 DEF UserCalls

\* The start and the blocking of a request, and the other events of the SDK.
LEMMA RootsKeepLogin ==
    ASSUME AppsecTyped, LoginInv, NEW called \in Roots,
           \/ RequestStarts(called) \/ BlockRequest(called)
           \/ \E event \in {"users.signup", "purchase"} : TrackCustom(called, event),
           NEW root \in Roots
    PROVE  LoginMark \in tags'[root] => NamesUser(root)'
<1>1. LoginMark.kind = "sdk"
  BY TagIs DEF LoginMark
<1>2. CASE RequestStarts(called) \/ BlockRequest(called)
  <2>1. /\ tags'[root] \subseteq tags[root] \cup {Tag("appsec", "", NoUser), Tag("blocked", "", NoUser)}
        /\ tags[root] \subseteq tags'[root] /\ named' = named
    BY <1>2 DEF AppsecTyped, RequestStarts, BlockRequest
  <2>2. Tag("appsec", "", NoUser).kind = "appsec" /\ Tag("blocked", "", NoUser).kind = "blocked"
    BY Zenon DEF Tag
  <2>3. \A t \in tags'[root] \ tags[root] : t.kind # "usr" /\ t # LoginMark
    BY <1>1, <2>1, <2>2
  <2> QED  BY <2>1, <2>3, OtherTagsKeep
<1>3. ASSUME NEW event \in {"users.signup", "purchase"}, TrackCustom(called, event)
      PROVE  LoginMark \in tags'[root] => NamesUser(root)'
  <2>1. /\ named' = named
        /\ tags'[root] = tags[root] \/ tags'[root] = Tracked(tags[root], event, "sdk")
    BY <1>3 DEF AppsecTyped, TrackCustom
  <2>2. \A t \in tags'[root] \ tags[root] : t.kind # "usr" /\ t # LoginMark
    BY <2>1, TrackedTags
  <2>3. tags[root] \subseteq tags'[root]
    BY <2>1 DEF Tracked
  <2> QED  BY <2>1, <2>2, <2>3, OtherTagsKeep
<1> QED  BY <1>2, <1>3

\* Once the application has reported a login through the SDK, the user of the
\* root span is the one it named last, for any requests, users and calls
\* (passport.ts, isSdkCalled; sdk/).
THEOREM LoginsNameUsers == AppsecSpec => []UserIsNamed
<1>1. SecurityInit => LoginInv
  BY DEF SecurityInit, LoginInv
<1>2. ASSUME AppsecTyped, LoginInv, [AppsecNext]_appsecVars PROVE LoginInv'
  <2>1. CASE EnableClient \/ EnableAppsec \/ EnableFails \/ Poll \/ \E answer : PollAnswered(answer)
    <3>1. UNCHANGED <<tags, named>>
      BY <2>1 DEF EnableClient, EnableAppsec, EnableFails, Poll, PollAnswered, spanVars
    <3> QED  BY <1>2, <3>1 DEF LoginInv, NamesUser
  <2>2. ASSUME NEW called \in Roots, RequestStarts(called) \/ BlockRequest(called) PROVE LoginInv'
    BY <1>2, <2>2, RootsKeepLogin DEF LoginInv
  <2>3. ASSUME NEW called \in Roots, NEW event \in {"users.signup", "purchase"},
               TrackCustom(called, event)
        PROVE  LoginInv'
    BY <1>2, <2>3, RootsKeepLogin DEF LoginInv
  <2>4. ASSUME NEW called \in Roots, NEW user \in Users, UserCalls(called, user) PROVE LoginInv'
    BY <1>2, <2>4, UserCallsKeepLogin DEF LoginInv
  <2>5. CASE UNCHANGED appsecVars
    BY <1>2, <2>5 DEF appsecVars, spanVars, LoginInv, NamesUser
  <2> QED  BY <1>2, <2>1, <2>2, <2>3, <2>4, <2>5 DEF AppsecNext
<1>3. SecurityInv => AppsecTyped
  BY DEF SecurityInv
<1>4. LoginInv => UserIsNamed
  BY DEF LoginInv, NamesUser, UserIsNamed, LoginMark
<1> QED  BY <1>1, <1>2, <1>3, <1>4, SecurityInvariant, PTL DEF AppsecSpec

-----------------------------------------------------------------------------
(* Redaction: runs of the text.                                            *)

\* The text of the positions a .. b-1.
IsRun(t, a, b) ==
    /\ t \in Seq(Int)
    /\ Len(t) = b - a
    /\ \A i \in 1 .. b - a : t[i] = a + i - 1

\* A bound of String.substring.
Bound(u, n) == Least(Positive(u), n)

\* A bound is in the text, is what it was if it is a place of the text, and grows
\* with what it bounds.
LEMMA BoundIs ==
    ASSUME NEW u \in Int, NEW n \in Nat
    PROVE  /\ Bound(u, n) \in 0 .. n
           /\ u \in 0 .. n => Bound(u, n) = u
           /\ u >= n => Bound(u, n) = n
           /\ u <= 0 => Bound(u, n) = 0
           /\ \A v \in Int : u <= v => Bound(u, n) <= Bound(v, n)
BY DEF Bound, Least, Positive

\* A place of the text bounds itself.
LEMMA BoundSame ==
    ASSUME NEW n \in Nat, NEW u \in 0 .. n
    PROVE  Bound(u, n) = u
BY DEF Bound, Least, Positive

\* What substring returns, for bounds in their order.
LEMMA SubIs ==
    ASSUME NEW S, NEW t \in Seq(S), NEW u \in Int, NEW v \in Int
    PROVE  /\ Sub(t, u, v) \in Seq(S)
           /\ u <= v => /\ Sub(t, u, v) = SubSeq(t, Bound(u, Len(t)) + 1, Bound(v, Len(t)))
                        /\ Len(Sub(t, u, v)) = Bound(v, Len(t)) - Bound(u, Len(t))
                        /\ \A i \in 1 .. Bound(v, Len(t)) - Bound(u, Len(t)) :
                              Sub(t, u, v)[i] = t[Bound(u, Len(t)) + i]
<1> DEFINE n == Len(t)
           x == Bound(u, n)
           y == Bound(v, n)
<1>0. n \in Nat
  OBVIOUS
<1> HIDE DEF n
<1>1. n \in Nat /\ x \in 0 .. n /\ y \in 0 .. n /\ (u <= v => x <= y)
  BY <1>0, BoundIs
<1>2. Sub(t, u, v) = SubSeq(t, Least(x, y) + 1, IF x < y THEN y ELSE x)
  BY Zenon DEF Sub, Bound, n
<1> HIDE DEF x, y
<1>3. \A a, b \in 0 .. n : /\ SubSeq(t, a + 1, b) \in Seq(S)
                           /\ a <= b => /\ Len(SubSeq(t, a + 1, b)) = b - a
                                        /\ \A i \in 1 .. b - a : SubSeq(t, a + 1, b)[i] = t[a + i]
  BY DEF n
<1>4. Least(x, y) \in 0 .. n /\ (IF x < y THEN y ELSE x) \in 0 .. n
  BY <1>1 DEF Least
<1>5. u <= v => Least(x, y) = x /\ (IF x < y THEN y ELSE x) = y
  BY <1>1 DEF Least
<1>6. Sub(t, u, v) \in Seq(S)
  BY <1>2, <1>3, <1>4
<1>7. u <= v => Sub(t, u, v) = SubSeq(t, x + 1, y)
  BY <1>2, <1>5
<1> QED  BY <1>1, <1>3, <1>6, <1>7 DEF x, y, n

\* What substring returns of a run is a run.
LEMMA SubOfRun ==
    ASSUME NEW a \in Int, NEW b \in Int, a <= b, NEW t, IsRun(t, a, b),
           NEW u \in Int, NEW v \in Int, u <= v
    PROVE  IsRun(Sub(t, u, v), a + Bound(u, b - a), a + Bound(v, b - a))
<1> DEFINE n == b - a
           x == Bound(u, n)
           y == Bound(v, n)
<1>1. t \in Seq(Int) /\ Len(t) = n /\ n \in Nat /\ \A i \in 1 .. n : t[i] = a + i - 1
  BY DEF IsRun
<1> HIDE DEF n
<1>2. x \in 0 .. n /\ y \in 0 .. n /\ x <= y
  BY <1>1, BoundIs
<1>3. /\ Sub(t, u, v) \in Seq(Int)
      /\ Len(Sub(t, u, v)) = y - x
      /\ \A i \in 1 .. y - x : Sub(t, u, v)[i] = t[x + i]
  <2>1. /\ Sub(t, u, v) \in Seq(Int)
        /\ Len(Sub(t, u, v)) = Bound(v, Len(t)) - Bound(u, Len(t))
        /\ \A i \in 1 .. Bound(v, Len(t)) - Bound(u, Len(t)) :
              Sub(t, u, v)[i] = t[Bound(u, Len(t)) + i]
    BY <1>1, SubIs
  <2> QED  BY <1>1, <2>1
<1> HIDE DEF x, y
<1>4. \A i \in 1 .. y - x : t[x + i] = a + x + i - 1
  BY <1>1, <1>2
<1>5. (a + y) - (a + x) = y - x
  BY <1>1, <1>2 DEF n
<1>6. IsRun(Sub(t, u, v), a + x, a + y)
  BY <1>1, <1>2, <1>3, <1>4, <1>5 DEF IsRun
<1> QED  BY <1>6 DEF x, y, n

\* The evidence is its positions.
LEMMA ValueIsRun == IsRun(Value, 0, Length)
<1>1. Length \in Nat
  BY ReportsAssumption
<1> QED  BY <1>1 DEF Value, IsRun

\* The text between two places of the evidence.
LEMMA TextIsRun ==
    ASSUME NEW a \in 0 .. Length, NEW b \in 0 .. Length, a <= b
    PROVE  IsRun(Sub(Value, a, b), a, b)
<1>1. Length \in Nat
  BY ReportsAssumption
<1>2. Bound(a, Length - 0) = a /\ Bound(b, Length - 0) = b
  BY <1>1, BoundIs
<1>3. IsRun(Sub(Value, a, b), 0 + Bound(a, Length - 0), 0 + Bound(b, Length - 0))
  BY <1>1, ValueIsRun, SubOfRun
<1> QED  BY <1>2, <1>3

-----------------------------------------------------------------------------
(* Redaction: the parts of a report.                                       *)

\* The parts of any report.
Parts == Seq([redacted : BOOLEAN, text : Seq(Int)])

\* The parts show just the positions S, in order.
Tells(parts, S) == parts \in Parts /\ InTextOrder(parts) /\ Shown(parts) = S

\* What is shown is a character of a part.
LEMMA ShownIs ==
    ASSUME NEW parts \in Parts, NEW p
    PROVE  p \in Shown(parts) <=>
              \E k \in DOMAIN parts : \E m \in DOMAIN parts[k].text : parts[k].text[m] = p
BY DEF Shown, ToSet

\* Parts that tell S, and parts that tell what comes after, tell both together.
LEMMA Joined ==
    ASSUME NEW P, NEW Q, NEW S, NEW T, Tells(P, S), Tells(Q, T),
           \A s \in S, t \in T : s < t
    PROVE  Tells(P \o Q, S \cup T)
<1> DEFINE R == P \o Q
           l == Len(P)
<1>1. P \in Parts /\ Q \in Parts
  BY DEF Tells
<1>2. /\ R \in Parts /\ DOMAIN P = 1 .. l /\ l \in Nat /\ Len(Q) \in Nat
      /\ DOMAIN Q = 1 .. Len(Q) /\ DOMAIN R = 1 .. l + Len(Q)
  BY <1>1 DEF Parts
<1>3. \A k \in DOMAIN R : \/ k \in DOMAIN P /\ R[k] = P[k]
                          \/ k > l /\ k - l \in DOMAIN Q /\ R[k] = Q[k - l]
  BY <1>1 DEF Parts
<1>4. /\ \A k \in DOMAIN P : k \in DOMAIN R /\ R[k] = P[k]
      /\ \A k \in DOMAIN Q : l + k \in DOMAIN R /\ R[l + k] = Q[k]
  BY <1>1 DEF Parts
<1> HIDE DEF R, l
<1>5. \A p : p \in Shown(R) <=> p \in Shown(P) \cup Shown(Q)
  <2> SUFFICES ASSUME NEW p PROVE p \in Shown(R) <=> p \in Shown(P) \/ p \in Shown(Q)
    OBVIOUS
  <2>1. ASSUME p \in Shown(R) PROVE p \in Shown(P) \/ p \in Shown(Q)
    <3>1. PICK k \in DOMAIN R : \E m \in DOMAIN R[k].text : R[k].text[m] = p
      BY <1>2, <2>1, ShownIs
    <3>2. CASE k \in DOMAIN P /\ R[k] = P[k]
      BY <1>1, <3>1, <3>2, ShownIs
    <3>3. CASE k - l \in DOMAIN Q /\ R[k] = Q[k - l]
      BY <1>1, <3>1, <3>3, ShownIs
    <3> QED  BY <1>3, <3>1, <3>2, <3>3
  <2>2. ASSUME p \in Shown(P) PROVE p \in Shown(R)
    <3>1. PICK k \in DOMAIN P : \E m \in DOMAIN P[k].text : P[k].text[m] = p
      BY <1>1, <2>2, ShownIs
    <3> QED  BY <1>2, <1>4, <3>1, ShownIs
  <2>3. ASSUME p \in Shown(Q) PROVE p \in Shown(R)
    <3>1. PICK k \in DOMAIN Q : \E m \in DOMAIN Q[k].text : Q[k].text[m] = p
      BY <1>1, <2>3, ShownIs
    <3> QED  BY <1>2, <1>4, <3>1, ShownIs
  <2> QED  BY <2>1, <2>2, <2>3
<1>6. InTextOrder(R)
  <2> SUFFICES ASSUME NEW j \in DOMAIN R, NEW k \in DOMAIN R,
                      NEW m \in DOMAIN R[j].text, NEW n \in DOMAIN R[k].text,
                      j < k \/ (j = k /\ m < n)
               PROVE  R[j].text[m] < R[k].text[n]
    BY DEF InTextOrder
  <2>1. InTextOrder(P) /\ InTextOrder(Q) /\ Shown(P) = S /\ Shown(Q) = T
    BY DEF Tells
  <2>2. j \in Int /\ k \in Int /\ l \in Int
    BY <1>2
  <2>3. CASE j \in DOMAIN P /\ R[j] = P[j] /\ k \in DOMAIN P /\ R[k] = P[k]
    BY <2>1, <2>3 DEF InTextOrder
  <2>4. CASE /\ j > l /\ j - l \in DOMAIN Q /\ R[j] = Q[j - l]
             /\ k > l /\ k - l \in DOMAIN Q /\ R[k] = Q[k - l]
    <3>1. j - l < k - l \/ (j - l = k - l /\ m < n)
      BY <2>2
    <3> QED  BY <2>1, <2>4, <3>1 DEF InTextOrder
  <2>5. CASE j \in DOMAIN P /\ R[j] = P[j] /\ k - l \in DOMAIN Q /\ R[k] = Q[k - l]
    <3>1. R[j].text[m] \in Shown(P) /\ R[k].text[n] \in Shown(Q)
      BY <1>1, <2>5, ShownIs
    <3> QED  BY <2>1, <3>1
  <2>6. ~(j > l /\ k \in DOMAIN P)
    BY <1>2, <2>2
  <2> QED  BY <1>3, <2>3, <2>4, <2>5, <2>6
<1> QED  BY <1>2, <1>5, <1>6 DEF Tells, R

\* A run that is not redacted tells its positions.
LEMMA ClearTells ==
    ASSUME NEW a \in Int, NEW b \in Int, a <= b, NEW t, IsRun(t, a, b)
    PROVE  Tells(Clear(t), a .. b - 1)
<1>1. t \in Seq(Int) /\ Len(t) = b - a /\ b - a \in Nat /\ DOMAIN t = 1 .. b - a
      /\ \A i \in 1 .. b - a : t[i] = a + i - 1
  BY DEF IsRun
<1>2. CASE t = <<>>
  <2>1. Clear(t) = <<>> /\ a .. b - 1 = {}
    BY <1>1, <1>2 DEF Clear
  <2> QED  BY <2>1 DEF Tells, Parts, InTextOrder, Shown
<1>3. CASE t # <<>>
  <2> DEFINE parts == Clear(t)
  <2>1. parts = <<[redacted |-> FALSE, text |-> t]>>
    BY <1>3 DEF Clear
  <2>2. parts \in Parts /\ DOMAIN parts = {1} /\ parts[1].text = t
    BY <1>1, <2>1 DEF Parts
  <2> HIDE DEF parts
  <2>3. InTextOrder(parts)
    <3>1. \A m, n \in DOMAIN t : m < n => t[m] < t[n]
      BY <1>1
    <3>2. \A j, k \in DOMAIN parts : j = 1 /\ k = 1 /\ parts[j].text = t /\ parts[k].text = t /\ ~(j < k)
      BY <2>2
    <3> QED  BY <3>1, <3>2, Zenon DEF InTextOrder
  <2>4. \A p : p \in Shown(parts) <=> p \in a .. b - 1
    <3>1. \A p \in a .. b - 1 : p - a + 1 \in 1 .. b - a /\ t[p - a + 1] = p
      BY <1>1
    <3>2. \A i \in 1 .. b - a : t[i] \in a .. b - 1
      BY <1>1
    <3>3. \A p : p \in Shown(parts) <=> \E m \in DOMAIN t : t[m] = p
      BY <2>2, ShownIs
    <3>4. DOMAIN t = 1 .. b - a
      BY <1>1
    <3> QED  BY <3>1, <3>2, <3>3, <3>4, Zenon
  <2>5. Shown(parts) = a .. b - 1
    BY <2>4
  <2> QED  BY <2>2, <2>3, <2>5 DEF Tells, parts
<1> QED  BY <1>2, <1>3

\* What is hidden tells nothing.
LEMMA HiddenTells ==
    ASSUME NEW n \in Nat
    PROVE  Tells([k \in 1 .. n |-> Hidden], {}) /\ Tells(<<Hidden>>, {})
<1>1. Hidden \in [redacted : BOOLEAN, text : Seq(Int)] /\ DOMAIN Hidden.text = {}
  BY DEF Hidden
<1>2. /\ [k \in 1 .. n |-> Hidden] \in Parts /\ <<Hidden>> \in Parts
      /\ \A k \in DOMAIN [i \in 1 .. n |-> Hidden] : [i \in 1 .. n |-> Hidden][k] = Hidden
      /\ \A k \in DOMAIN <<Hidden>> : <<Hidden>>[k] = Hidden
  BY <1>1 DEF Parts
<1>3. ASSUME NEW parts \in Parts, \A k \in DOMAIN parts : parts[k] = Hidden
      PROVE  Tells(parts, {})
  <2>1. Shown(parts) = {}
    BY <1>1, <1>3, ShownIs
  <2> QED  BY <1>1, <1>3, <2>1 DEF Tells, InTextOrder
<1> QED  BY <1>2, <1>3

-----------------------------------------------------------------------------
(* Redaction: hiding contexts.                                             *)

\* indexOf finds a piece that the source has.
LEMMA IndexIs ==
    ASSUME NEW source \in Seq(Int), NEW piece \in Seq(Int)
    PROVE  /\ IndexOf(source, piece) \in Int
           /\ \A k \in 0 .. Len(source) - Len(piece) :
                 SubSeq(source, k + 1, k + Len(piece)) = piece =>
                    IndexOf(source, piece) \in 0 .. Len(source) - Len(piece)
<1> DEFINE places == {k \in 0 .. Len(source) - Len(piece) :
                         SubSeq(source, k + 1, k + Len(piece)) = piece}
<1>1. Len(source) \in Nat /\ Len(piece) \in Nat
  OBVIOUS
<1>2. places \subseteq 0 .. Len(source) - Len(piece) /\ places \subseteq Nat
  BY <1>1
<1>3. IndexOf(source, piece) = IF places = {} THEN -1 ELSE Min(places)
  BY Zenon DEF IndexOf
<1>4. \A k \in 0 .. Len(source) - Len(piece) :
         SubSeq(source, k + 1, k + Len(piece)) = piece => places # {}
  OBVIOUS
<1> HIDE DEF places
<1>5. places # {} => Min(places) \in places
  BY <1>2, MinIs
<1>6. IndexOf(source, piece) \in Int
  <2>1. \A x \in places : x \in Int
    BY <1>2
  <2>2. places # {} => Min(places) \in Int
    BY <1>5, <2>1, Zenon
  <2> QED  BY <1>3, <2>2
<1>7. places # {} => IndexOf(source, piece) \in 0 .. Len(source) - Len(piece)
  BY <1>2, <1>3, <1>5
<1> QED  BY <1>4, <1>6, <1>7

\* The states of the loop of redactValue, and the contexts it goes through.
HideStates == [parts : Parts, text : Seq(Int), offset : Int, source : Seq(Int),
               placeholder : Seq(Int)]
ContextRange == [start : Int, end : Int]

\* What is added to the parts is parts.
LEMMA PartsTyped ==
    /\ \A t \in Seq(Int) : Clear(t) \in Parts
    /\ <<>> \in Parts /\ <<Hidden>> \in Parts
<1>1. ASSUME NEW t \in Seq(Int) PROVE Clear(t) \in Parts
  <2>1. <<[redacted |-> FALSE, text |-> t]>> \in Parts /\ <<>> \in Parts
    BY DEF Parts
  <2> QED  BY <2>1 DEF Clear
<1>2. Hidden \in [redacted : BOOLEAN, text : Seq(Int)]
  BY DEF Hidden
<1> QED  BY <1>1, <1>2 DEF Parts

\* One turn, for whatever state.
LEMMA HideTyped ==
    ASSUME NEW state \in HideStates, NEW context \in ContextRange
    PROVE  Hide(state, context) \in HideStates
<1> DEFINE text == Sub(state.text, context.start - state.offset, Len(state.text))
           before == Sub(state.text, 0, context.start - state.offset)
           ahead == context.start > 0
           rest == IF ahead THEN text ELSE state.text
           offset == IF ahead THEN context.start ELSE state.offset
           hidden == Sub(rest, context.start - offset, context.end - offset)
           place == IndexOf(state.source, hidden)
           length == IF place > -1
                     THEN Len(Sub(state.placeholder, place, place + Len(hidden)))
                     ELSE Len(Sub(state.placeholder, context.start, context.end))
           parts == state.parts \o (IF ahead THEN Clear(before) ELSE <<>>) \o <<Hidden>>
<1>1. Hide(state, context) = [state EXCEPT !.parts = parts, !.text = Sub(rest, length, Len(rest)),
                                           !.offset = offset + length]
  BY Zenon DEF Hide
<1>2. /\ state.parts \in Parts /\ state.text \in Seq(Int) /\ state.offset \in Int
      /\ state.source \in Seq(Int) /\ state.placeholder \in Seq(Int)
      /\ context.start \in Int /\ context.end \in Int
  BY DEF HideStates, ContextRange
<1> HIDE DEF parts, length
<1>3. Len(state.text) \in Int
  BY <1>2
<1>4. text \in Seq(Int) /\ before \in Seq(Int)
  BY <1>2, <1>3, SubIs
<1> HIDE DEF text, before
<1>5. rest \in Seq(Int) /\ offset \in Int
  BY <1>2, <1>4
<1> HIDE DEF rest, offset
<1>6. hidden \in Seq(Int)
  BY <1>2, <1>5, SubIs
<1> HIDE DEF hidden
<1>7. place \in Int /\ Len(hidden) \in Int
  BY <1>2, <1>6, IndexIs
<1> HIDE DEF place
<1>8. length \in Int
  <2>1. /\ Sub(state.placeholder, place, place + Len(hidden)) \in Seq(Int)
        /\ Sub(state.placeholder, context.start, context.end) \in Seq(Int)
    BY <1>2, <1>7, SubIs
  <2> QED  BY <2>1 DEF length
<1>9. Sub(rest, length, Len(rest)) \in Seq(Int)
  <2>1. Len(rest) \in Int
    BY <1>5
  <2> QED  BY <1>5, <1>8, <2>1, SubIs
<1>10. parts \in Parts
  <2>1. Clear(before) \in Parts /\ <<>> \in Parts /\ <<Hidden>> \in Parts
    BY <1>4, PartsTyped
  <2>2. \A P, Q \in Parts : P \o Q \in Parts
    BY DEF Parts
  <2> QED  BY <1>2, <2>1, <2>2 DEF parts
<1>11. offset + length \in Int
  BY <1>5, <1>8
<1>12. \A a \in Parts, t \in Seq(Int), o \in Int :
          [state EXCEPT !.parts = a, !.text = t, !.offset = o] \in HideStates
  BY DEF HideStates
<1> QED  BY <1>1, <1>9, <1>10, <1>11, <1>12

\* The source has every piece of the text c .. d-1.
HasPieces(source, c, d) ==
    \A x, y \in c .. d : x <= y =>
       \A t : IsRun(t, x, y) =>
          \E k \in 0 .. Len(source) - (y - x) : SubSeq(source, k + 1, k + (y - x)) = t

\* One turn, where the state is what is left of a text of the source: what the
\* context hides is as long as its placeholder.
LEMMA HideHides ==
    ASSUME NEW state \in HideStates, NEW context \in ContextRange,
           NEW c \in Int, NEW d \in Int, c <= d,
           HasPieces(state.source, c, d), state.placeholder = state.source,
           state.offset \in 0 .. d - c, IsRun(state.text, c + state.offset, d),
           context.start <= context.end, 0 <= context.end,
           context.start <= d - c,
           context.start >= state.offset \/ state.offset = 0,
           NEW S, S \subseteq Int, Tells(state.parts, S), \A p \in S : p < c + state.offset
    PROVE  LET next == Hide(state, context)
           IN  /\ next.source = state.source /\ next.placeholder = state.placeholder
               /\ next.offset = Least(context.end, d - c)
               /\ IsRun(next.text, c + next.offset, d)
               /\ Tells(next.parts, S \cup (c + state.offset .. c + context.start - 1))
<1> DEFINE o == state.offset
           n == d - c
           text == Sub(state.text, context.start - state.offset, Len(state.text))
           before == Sub(state.text, 0, context.start - state.offset)
           ahead == context.start > 0
           rest == IF ahead THEN text ELSE state.text
           offset == IF ahead THEN context.start ELSE state.offset
           hidden == Sub(rest, context.start - offset, context.end - offset)
           place == IndexOf(state.source, hidden)
           length == IF place > -1
                     THEN Len(Sub(state.placeholder, place, place + Len(hidden)))
                     ELSE Len(Sub(state.placeholder, context.start, context.end))
           parts == state.parts \o (IF ahead THEN Clear(before) ELSE <<>>) \o <<Hidden>>
           m == Least(context.end, n)
<1>1. Hide(state, context) = [state EXCEPT !.parts = parts, !.text = Sub(rest, length, Len(rest)),
                                           !.offset = offset + length]
  BY Zenon DEF Hide
<1>2. /\ state.parts \in Parts /\ state.text \in Seq(Int)
      /\ state.source \in Seq(Int)
      /\ context.start \in Int /\ context.end \in Int
      /\ n \in Nat /\ o \in 0 .. n /\ Len(state.text) = n - o
  BY DEF HideStates, ContextRange, IsRun
<1> HIDE DEF parts, length, text, before, rest, offset, hidden, place, n, o
<1>3. m \in 0 .. n /\ m <= context.end /\ (context.end <= n => m = context.end) /\ (context.end >= n => m = n)
  BY <1>2 DEF Least
<1> HIDE DEF m
<1>4. c + n = d /\ d - (c + o) = n - o
  BY <1>2 DEF n
\* What is before the context, and what is not.
<1>5. ahead => /\ IsRun(before, c + o, c + context.start)
               /\ IsRun(text, c + context.start, d)
  <2> SUFFICES ASSUME ahead
               PROVE  IsRun(before, c + o, c + context.start) /\ IsRun(text, c + context.start, d)
    OBVIOUS
  <2>1. context.start - o \in 0 .. n - o /\ n - o \in Nat
    BY <1>2 DEF n, o
  <2>2. /\ Bound(0, n - o) = 0 /\ Bound(context.start - o, n - o) = context.start - o
        /\ Bound(n - o, n - o) = n - o
    <3> DEFINE l == n - o
    <3>1. l \in Nat /\ 0 \in 0 .. l /\ l \in 0 .. l /\ context.start - o \in 0 .. l
      BY <2>1
    <3> HIDE DEF l
    <3>2. Bound(0, l) = 0 /\ Bound(l, l) = l /\ Bound(context.start - o, l) = context.start - o
      BY <3>1, BoundSame
    <3> QED  BY <3>2 DEF l
  <2>3. c + o \in Int /\ c + o <= d /\ IsRun(state.text, c + o, d)
    BY <1>2, <1>4 DEF o
  <2>4. IsRun(before, c + o + Bound(0, n - o), c + o + Bound(context.start - o, n - o))
    BY <1>2, <1>4, <2>1, <2>3, SubOfRun DEF before, o
  <2>5. IsRun(text, c + o + Bound(context.start - o, n - o), c + o + Bound(n - o, n - o))
    BY <1>2, <1>4, <2>1, <2>3, SubOfRun DEF text, o
  <2>6. /\ c + o + 0 = c + o /\ c + o + (context.start - o) = c + context.start
        /\ c + o + (n - o) = d
    BY <1>2, <1>4
  <2> QED  BY <2>2, <2>4, <2>5, <2>6
<1>6. offset \in 0 .. n /\ offset <= m /\ IsRun(rest, c + offset, d)
      /\ (ahead => offset = context.start) /\ (~ahead => offset = 0 /\ o = 0)
  <2>1. CASE ahead
    BY <1>2, <1>3, <1>5, <2>1 DEF offset, rest, n
  <2>2. CASE ~ahead
    BY <1>2, <1>3, <2>2 DEF offset, rest, o
  <2> QED  BY <2>1, <2>2
<1>6a. /\ offset \in Int /\ m \in Int /\ n \in Int /\ o \in Int /\ 0 <= offset /\ offset <= m /\ m <= n
       /\ context.start \in Int /\ context.end \in Int
       /\ context.start <= offset /\ offset <= context.end
       /\ (context.end <= n => m = context.end) /\ (context.end >= n => m = n)
  <2>1. context.start <= offset /\ offset <= context.end
    BY <1>2, <1>6
  <2> QED  BY <1>2, <1>3, <1>6, <2>1
<1>7. IsRun(hidden, c + offset, c + m)
  <2> DEFINE u == context.start - offset
             v == context.end - offset
             l == n - offset
  <2>1. u \in Int /\ v \in Int /\ u <= v /\ u <= 0 /\ l \in Nat
    BY <1>6a
  <2>1a. IF v <= l THEN v \in 0 .. l /\ v = m - offset ELSE v >= l /\ l = m - offset
    BY <1>6a
  <2> HIDE DEF u, v, l
  <2>2. Bound(u, l) = 0
    BY <2>1, BoundIs
  <2>3. Bound(v, l) = m - offset
    <3>1. (v \in 0 .. l => Bound(v, l) = v) /\ (v >= l => Bound(v, l) = l)
      BY <2>1, BoundIs
    <3> QED  BY <2>1a, <3>1
  <2>4. c + offset \in Int /\ c + offset <= d /\ d - (c + offset) = l
    BY <1>2, <1>4, <1>6 DEF l
  <2>5. IsRun(Sub(rest, u, v), c + offset + Bound(u, l), c + offset + Bound(v, l))
    BY <1>6, <2>1, <2>4, SubOfRun
  <2>6. c + offset + 0 = c + offset /\ c + offset + (m - offset) = c + m
    BY <1>2, <1>3, <1>6
  <2> QED  BY <2>2, <2>3, <2>5, <2>6 DEF hidden, u, v
<1>8. length = m - offset
  <2>1. hidden \in Seq(Int) /\ Len(hidden) = m - offset
    <3>1. (c + m) - (c + offset) = m - offset
      BY <1>3, <1>6
    <3> QED  BY <1>7, <3>1 DEF IsRun
  <2>2. c + offset \in c .. d /\ c + m \in c .. d /\ c + offset <= c + m
        /\ (c + m) - (c + offset) = m - offset
    BY <1>4, <1>6a
  <2>3. PICK k \in 0 .. Len(state.source) - (m - offset) :
           SubSeq(state.source, k + 1, k + (m - offset)) = hidden
    BY <1>7, <2>2 DEF HasPieces
  <2>4. place \in 0 .. Len(state.source) - (m - offset)
    <3>1. SubSeq(state.source, k + 1, k + Len(hidden)) = hidden
          /\ k \in 0 .. Len(state.source) - Len(hidden)
      BY <2>1, <2>3
    <3>2. IndexOf(state.source, hidden) \in 0 .. Len(state.source) - Len(hidden)
      BY <1>2, <2>1, <3>1, IndexIs
    <3> QED  BY <2>1, <3>2 DEF place
  <2> DEFINE l == Len(state.source)
             w == m - offset
  <2>5. l \in Nat /\ w \in Nat /\ place \in 0 .. l /\ place + w \in 0 .. l
    <3>1. l \in Nat /\ w \in Nat /\ place \in 0 .. l - w
      BY <1>2, <1>6a, <2>4
    <3> HIDE DEF l, w
    <3> QED  BY <3>1
  <2> HIDE DEF l, w
  <2>6. Bound(place, l) = place /\ Bound(place + w, l) = place + w
    BY <2>5, BoundSame
  <2>7. Len(Sub(state.source, place, place + w)) = (place + w) - place
    BY <1>2, <2>5, <2>6, SubIs DEF l
  <2>8. length = Len(Sub(state.source, place, place + w))
    BY <2>1, <2>5 DEF length, w
  <2> QED  BY <2>5, <2>7, <2>8 DEF w
<1>9. offset + length = m
  BY <1>3, <1>6, <1>8
<1>10. IsRun(Sub(rest, length, Len(rest)), c + m, d)
  <2> DEFINE l == n - offset
  <2>1. Len(rest) = l /\ l \in Nat /\ length \in 0 .. l
    <3>1. Len(rest) = d - (c + offset)
      BY <1>6 DEF IsRun
    <3>2. d - (c + offset) = l
      BY <1>4, <1>6a
    <3>3. l \in Nat
      BY <1>6a
    <3>4. length \in 0 .. l
      BY <1>6a, <1>8
    <3> QED  BY <3>1, <3>2, <3>3, <3>4
  <2>2. c + offset \in Int /\ c + offset <= d /\ d - (c + offset) = l
    BY <1>2, <1>4, <1>6
  <2>3. c + offset + length = c + m /\ c + offset + l = d
    <3>1. length \in Int
      BY <1>6a, <1>8
    <3>2. c + offset + length = c + m
      BY <1>6a, <1>9, <3>1
    <3>3. c + offset + l = d
      BY <1>4, <1>6a
    <3> QED  BY <3>2, <3>3
  <2> HIDE DEF l
  <2>4. Bound(length, l) = length /\ Bound(l, l) = l
    <3>1. l \in 0 .. l
      BY <2>1
    <3> QED  BY <2>1, <3>1, BoundSame
  <2>5. IsRun(Sub(rest, length, l), c + offset + Bound(length, l), c + offset + Bound(l, l))
    BY <1>6, <2>1, <2>2, SubOfRun
  <2> QED  BY <2>1, <2>3, <2>4, <2>5
<1>11. Tells(parts, S \cup (c + o .. c + context.start - 1))
  <2>1. Tells(<<Hidden>>, {})
    BY HiddenTells
  <2>2. CASE ahead
    <3>1. c + o \in Int /\ c + context.start \in Int /\ c + o <= c + context.start
      BY <1>2, <2>2 DEF o
    <3>2. Tells(Clear(before), c + o .. c + context.start - 1)
      <4> DEFINE a == c + o
                 b == c + context.start
      <4>1. a \in Int /\ b \in Int /\ a <= b /\ IsRun(before, a, b)
        BY <1>5, <2>2, <3>1
      <4>1a. b - 1 = c + context.start - 1
        BY <1>2
      <4> HIDE DEF a, b
      <4>2. Tells(Clear(before), a .. b - 1)
        BY <4>1, ClearTells
      <4> QED  BY <4>1a, <4>2 DEF a
    <3>3. \A p \in S, q \in c + o .. c + context.start - 1 : p < q
      <4>1. ASSUME NEW p \in S, NEW q \in c + o .. c + context.start - 1 PROVE p < q
        <5>1. p < c + o /\ p \in Int
          BY <1>2 DEF o
        <5> QED  BY <1>2, <3>1, <5>1
      <4> QED  BY <4>1
    <3>4. Tells(state.parts \o Clear(before), S \cup (c + o .. c + context.start - 1))
      BY <3>2, <3>3, Joined
    <3>5. Tells((state.parts \o Clear(before)) \o <<Hidden>>,
                (S \cup (c + o .. c + context.start - 1)) \cup {})
      BY <2>1, <3>4, Joined
    <3> QED  BY <2>2, <3>5 DEF parts
  <2>3. CASE ~ahead
    <3>1. c + o .. c + context.start - 1 = {}
      BY <1>2, <1>6, <2>3
    <3>2. state.parts \o <<>> = state.parts
      BY <1>2 DEF Parts
    <3>3. Tells(state.parts \o <<Hidden>>, S \cup {})
      BY <2>1, Joined
    <3> QED  BY <2>3, <3>1, <3>2, <3>3 DEF parts
  <2> QED  BY <2>2, <2>3
<1>12. /\ Hide(state, context).source = state.source
       /\ Hide(state, context).placeholder = state.placeholder
       /\ Hide(state, context).offset = m
       /\ Hide(state, context).text = Sub(rest, length, Len(rest))
       /\ Hide(state, context).parts = parts
  BY <1>1, <1>9 DEF HideStates
<1> QED  BY <1>10, <1>11, <1>12 DEF m, n, o

\* A list is gone through: its states, and the state after each turn.
LEMMA PartsAreSteps ==
    ASSUME NEW text \in Seq(Int), NEW source \in Seq(Int), NEW ranges \in Seq(ContextRange)
    PROVE  \E f \in [0 .. Len(ranges) -> HideStates] :
              /\ f[0] = Unhidden(text, source)
              /\ \A k \in 1 .. Len(ranges) : f[k] = Hide(f[k - 1], ranges[k])
              /\ PartsOf(text, source, ranges) =
                    f[Len(ranges)].parts \o Clear(f[Len(ranges)].text)
<1> DEFINE n == Len(ranges)
           base == Unhidden(text, source)
           step == [i \in 1 .. n |-> [s \in HideStates |-> Hide(s, ranges[i])]]
           Turns(g) == [k \in 0 .. n |-> IF k = 0 THEN base ELSE Hide(g[k - 1], ranges[k])]
           states == CHOOSE g : g = Turns(g)
<1>1. n \in Nat /\ \A i \in 1 .. n : ranges[i] \in ContextRange
  OBVIOUS
<1>2. base \in HideStates
  <2>1. (IF IndexOf(source, text) > -1 THEN source ELSE text) \in Seq(Int)
    OBVIOUS
  <2>2. <<>> \in Parts
    BY PartsTyped
  <2> QED  BY <2>1, <2>2 DEF Unhidden, HideStates
<1>3. step \in [1 .. n -> [HideStates -> HideStates]]
  BY <1>1, HideTyped
<1> HIDE DEF n, base, step
<1>4. PICK f : Runs(f, n, HideStates, base, step)
  BY <1>1, <1>2, <1>3, LoopExists
<1>5. /\ f \in [0 .. n -> HideStates] /\ f[0] = base
      /\ \A k \in 1 .. n : f[k] = Hide(f[k - 1], ranges[k])
  <2>1. f \in [0 .. n -> HideStates] /\ f[0] = base /\ \A i \in 1 .. n : f[i] = step[i][f[i - 1]]
    BY <1>4 DEF Runs
  <2>2. \A i \in 1 .. n : f[i - 1] \in HideStates
    BY <1>1, <2>1
  <2> QED  BY <2>1, <2>2 DEF step
<1>6. f = Turns(f)
  <2>1. ASSUME NEW k \in 0 .. n PROVE f[k] = IF k = 0 THEN base ELSE Hide(f[k - 1], ranges[k])
    <3>1. k # 0 => k \in 1 .. n
      BY <1>1
    <3> QED  BY <1>5, <3>1
  <2>2. f = [k \in 0 .. n |-> f[k]]
    BY <1>5
  <2> QED  BY <2>1, <2>2
<1>7. states = Turns(states)
  BY <1>6, Zenon
<1>8. PartsOf(text, source, ranges) = states[n].parts \o Clear(states[n].text)
  BY Zenon DEF PartsOf, n, base
<1>9. /\ states[0] = base
      /\ \A k \in 1 .. n : states[k] = Hide(states[k - 1], ranges[k])
  <2>1. \A k \in 0 .. n : states[k] = IF k = 0 THEN base ELSE Hide(states[k - 1], ranges[k])
    BY <1>7, Zenon
  <2>2. 0 \in 0 .. n /\ \A k \in 1 .. n : k \in 0 .. n /\ k # 0
    BY <1>1
  <2> QED  BY <2>1, <2>2, Zenon
<1> HIDE DEF states
<1> DEFINE good == {k \in 0 .. n : states[k] = f[k]}
<1>10. 0 \in good
  BY <1>1, <1>5, <1>9
<1>11. ASSUME NEW k \in 1 .. n, k - 1 \in good PROVE k \in good
  BY <1>1, <1>5, <1>9, <1>11
<1> HIDE DEF good
<1>12. \A k \in 0 .. n : k \in good
  BY <1>1, <1>10, <1>11, CountingUp
<1>13. states[n] = f[n]
  <2>1. n \in 0 .. n
    BY <1>1
  <2> QED  BY <1>12, <2>1 DEF good
<1> QED  BY <1>5, <1>8, <1>13 DEF n, base

\* What hides a text from c to d, for a source that has it: the contexts, in
\* their order, each of them from where it starts.
Hides(ranges, n) ==
    /\ ranges \in Seq(ContextRange)
    /\ \A k \in DOMAIN ranges :
          /\ ranges[k].start <= ranges[k].end /\ 0 <= ranges[k].end /\ ranges[k].start <= n
          /\ \A j \in 1 .. k - 1 : ranges[j].end <= ranges[k].start

\* The parts of a text that its source has tell what its contexts do not hide.
LEMMA PartsTold ==
    ASSUME NEW c \in Int, NEW d \in Int, c <= d, NEW text, IsRun(text, c, d),
           NEW source \in Seq(Int), HasPieces(source, c, d), NEW ranges, Hides(ranges, d - c)
    PROVE  Tells(PartsOf(text, source, ranges),
                 {p \in c .. d - 1 : \A k \in DOMAIN ranges : ~Holds(ranges[k], p - c)})
<1> DEFINE n == Len(ranges)
           l == d - c
<1>1. /\ n \in Nat /\ DOMAIN ranges = 1 .. n /\ l \in Nat /\ c + l = d
      /\ ranges \in Seq(ContextRange)
      /\ \A k \in 1 .. n :
            /\ ranges[k] \in ContextRange
            /\ ranges[k].start \in Int /\ ranges[k].end \in Int
            /\ ranges[k].start <= ranges[k].end /\ 0 <= ranges[k].end /\ ranges[k].start <= l
            /\ \A j \in 1 .. k - 1 : ranges[j].end <= ranges[k].start
  <2>1. /\ ranges \in Seq(ContextRange) /\ l \in Nat /\ c + l = d
        /\ \A k \in DOMAIN ranges :
              /\ ranges[k].start <= ranges[k].end /\ 0 <= ranges[k].end /\ ranges[k].start <= l
              /\ \A j \in 1 .. k - 1 : ranges[j].end <= ranges[k].start
    BY DEF Hides
  <2> HIDE DEF l
  <2>2. n \in Nat /\ DOMAIN ranges = 1 .. n /\ \A k \in 1 .. n : ranges[k] \in ContextRange
    BY <2>1
  <2>3. \A r \in ContextRange : r.start \in Int /\ r.end \in Int
    BY DEF ContextRange
  <2> HIDE DEF n
  <2> QED  BY <2>1, <2>2, <2>3
<1>2. text \in Seq(Int)
  BY DEF IsRun
<1>3. PICK f \in [0 .. n -> HideStates] :
         /\ f[0] = Unhidden(text, source)
         /\ \A k \in 1 .. n : f[k] = Hide(f[k - 1], ranges[k])
         /\ PartsOf(text, source, ranges) = f[n].parts \o Clear(f[n].text)
  BY <1>1, <1>2, PartsAreSteps, Zenon DEF n
<1> HIDE DEF n, l
<1> DEFINE Told(k) == {p \in c .. c + f[k].offset - 1 : \A j \in 1 .. k : ~Holds(ranges[j], p - c)}
           Good(k) == /\ f[k].source = source /\ f[k].placeholder = source
                      /\ f[k].offset \in 0 .. l
                      /\ IsRun(f[k].text, c + f[k].offset, d)
                      /\ \A j \in 1 .. k : ranges[j].end <= f[k].offset \/ f[k].offset = l
                      /\ \A j \in k + 1 .. n : f[k].offset = 0 \/ f[k].offset <= ranges[j].start
                      /\ Tells(f[k].parts, Told(k))
           good == {k \in 0 .. n : Good(k)}
<1>4. 0 \in good
  <2>1. IndexOf(source, text) > -1
    <3>1. c \in c .. d /\ d \in c .. d
      OBVIOUS
    <3>2. PICK k \in 0 .. Len(source) - (d - c) : SubSeq(source, k + 1, k + (d - c)) = text
      BY <3>1 DEF HasPieces
    <3>3. Len(text) = d - c
      BY DEF IsRun
    <3>4. IndexOf(source, text) \in 0 .. Len(source) - Len(text)
      BY <1>2, <3>2, <3>3, IndexIs
    <3> QED  BY <3>4
  <2>2. f[0] = [parts |-> <<>>, text |-> text, offset |-> 0, source |-> source,
                placeholder |-> source]
    BY <1>3, <2>1 DEF Unhidden
  <2>3. c + f[0].offset = c /\ c + f[0].offset - 1 = c - 1
    BY <2>2
  <2>4. Told(0) = {}
    BY <2>2
  <2>5. Tells(<<>>, {})
    BY PartsTyped DEF Tells, InTextOrder, Shown
  <2>6. IsRun(f[0].text, c + f[0].offset, d)
    BY <2>2, <2>3
  <2>7. Tells(f[0].parts, Told(0))
    <3>1. f[0].parts = <<>>
      BY <2>2
    <3> QED  BY <2>4, <2>5, <3>1, Zenon
  <2> HIDE DEF Told
  <2> QED  BY <1>1, <2>2, <2>6, <2>7
<1>5. ASSUME NEW k \in 1 .. n, k - 1 \in good PROVE k \in good
  <2> DEFINE s == f[k - 1]
             r == ranges[k]
             o == s.offset
             m == Least(r.end, l)
             S == Told(k - 1)
  <2>1. Good(k - 1) /\ k \in 0 .. n /\ k - 1 \in 0 .. n /\ k \in Nat
    BY <1>1, <1>5
  <2>2. s \in HideStates /\ r \in ContextRange /\ f[k] = Hide(s, r)
    BY <1>1, <1>3, <2>1
  <2>3. /\ r.start \in Int /\ r.end \in Int /\ r.start <= r.end /\ 0 <= r.end /\ r.start <= l
        /\ \A j \in 1 .. k - 1 : ranges[j].end <= r.start
    BY <1>1
  <2>4. /\ s.source = source /\ s.placeholder = source /\ o \in 0 .. l /\ IsRun(s.text, c + o, d)
        /\ (o = 0 \/ o <= r.start)
        /\ \A j \in 1 .. k - 1 : ranges[j].end <= o \/ o = l
        /\ Tells(s.parts, S)
    BY <2>1
  <2>5. S \subseteq Int /\ \A p \in S : p < c + o
    BY <2>4
  <2> HIDE DEF s, r, o, S
  <2>6. LET next == Hide(s, r)
        IN  /\ next.source = s.source /\ next.placeholder = s.placeholder
            /\ next.offset = m
            /\ IsRun(next.text, c + next.offset, d)
            /\ Tells(next.parts, S \cup (c + o .. c + r.start - 1))
    <3>1. /\ HasPieces(s.source, c, d) /\ s.placeholder = s.source
          /\ s.offset \in 0 .. d - c /\ IsRun(s.text, c + s.offset, d)
          /\ r.start <= r.end /\ 0 <= r.end /\ r.start <= d - c
          /\ r.start >= s.offset \/ s.offset = 0
      BY <1>1, <2>3, <2>4 DEF o, l
    <3>2. \A p \in S : p < c + s.offset
      BY <2>5 DEF o
    <3>3. Tells(s.parts, S)
      BY <2>4
    <3> QED  BY <2>2, <2>5, <3>1, <3>2, <3>3, HideHides, Zenon DEF l, o
  <2>7. /\ f[k].source = source /\ f[k].placeholder = source /\ f[k].offset = m
        /\ IsRun(f[k].text, c + m, d) /\ Tells(f[k].parts, S \cup (c + o .. c + r.start - 1))
    BY <2>2, <2>4, <2>6
  <2>8. m \in 0 .. l /\ m <= r.end /\ (r.end <= l => m = r.end) /\ (r.end >= l => m = l)
    BY <1>1, <2>3 DEF Least
  <2> HIDE DEF m
  <2>9. \A j \in 1 .. k : ranges[j].end <= m \/ m = l
    <3>1. \A j \in 1 .. k - 1 : ranges[j].end \in Int /\ ranges[j].end <= r.end
      BY <1>1, <2>3
    <3>2. r.end <= m \/ m = l
      BY <2>3, <2>8, <1>1
    <3>3. \A j \in 1 .. k : j \in 1 .. k - 1 \/ j = k
      BY <2>1
    <3> QED  BY <1>1, <2>3, <2>8, <3>1, <3>2, <3>3 DEF r
  <2>10. \A j \in k + 1 .. n : m <= ranges[j].start
    <3>1. \A j \in k + 1 .. n : j \in 1 .. n /\ k \in 1 .. j - 1
      BY <1>1, <2>1
    <3>2. \A j \in k + 1 .. n : r.end <= ranges[j].start /\ ranges[j].start \in Int
      BY <1>1, <3>1 DEF r
    <3> QED  BY <2>3, <2>8, <3>2
  <2>11. Told(k) = S \cup (c + o .. c + r.start - 1)
    <3>1. \A j \in 1 .. k : j \in 1 .. k - 1 \/ j = k
      BY <2>1
    <3>1a. \A j \in 1 .. k - 1 : j \in 1 .. k
      BY <2>1
    <3>2. c + f[k].offset - 1 = c + m - 1 /\ c + f[k - 1].offset - 1 = c + o - 1
      BY <2>7 DEF o, s
    <3>3. o <= m
      BY <2>3, <2>4, <2>8, <1>1
    <3>4. ASSUME NEW p \in Told(k) PROVE p \in S \cup (c + o .. c + r.start - 1)
      <4>1. p \in c .. c + m - 1 /\ ~Holds(r, p - c) /\ \A j \in 1 .. k - 1 : ~Holds(ranges[j], p - c)
        BY <2>1, <3>1a, <3>2 DEF r
      <4>2. CASE p <= c + o - 1
        <5>1. p \in c .. c + o - 1
          BY <2>4, <4>1, <4>2
        <5> QED  BY <3>2, <4>1, <5>1 DEF S
      <4>3. CASE p > c + o - 1
        <5>1. p - c < r.end /\ p \in Int
          BY <2>3, <2>8, <4>1
        <5>2. p - c < r.start
          BY <2>3, <4>1, <5>1 DEF Holds
        <5> QED  BY <2>3, <2>4, <4>3, <5>1, <5>2
      <4> QED  BY <2>4, <4>1, <4>2, <4>3
    <3>5. ASSUME NEW p \in S PROVE p \in Told(k)
      <4>1. p \in c .. c + o - 1 /\ \A j \in 1 .. k - 1 : ~Holds(ranges[j], p - c)
        BY <3>2 DEF S
      <4>2. p \in c .. c + m - 1
        BY <2>4, <2>8, <3>3, <4>1
      <4>3. ~Holds(r, p - c)
        BY <2>3, <2>4, <4>1 DEF Holds
      <4>4. \A j \in 1 .. k : ~Holds(ranges[j], p - c)
        BY <3>1, <4>1, <4>3 DEF r
      <4> QED  BY <3>2, <4>2, <4>4
    <3>6. ASSUME NEW p \in c + o .. c + r.start - 1 PROVE p \in Told(k)
      <4>1. p \in c .. c + m - 1 /\ p - c >= o /\ p - c < r.start /\ p - c \in Int
        BY <2>3, <2>4, <2>8, <1>1
      <4>2. ~Holds(r, p - c)
        BY <2>3, <4>1 DEF Holds
      <4>3. \A j \in 1 .. k - 1 : ~Holds(ranges[j], p - c)
        <5>1. \A j \in 1 .. k - 1 : ranges[j].end <= o /\ ranges[j].end \in Int
          <6>1. o < l
            BY <1>1, <2>3, <2>4, <4>1
          <6>2. \A j \in 1 .. k - 1 : ranges[j].end \in Int
            BY <1>1
          <6> QED  BY <2>4, <6>1, <6>2
        <5> QED  BY <2>4, <4>1, <5>1 DEF Holds
      <4>4. \A j \in 1 .. k : ~Holds(ranges[j], p - c)
        BY <3>1, <4>2, <4>3 DEF r
      <4> QED  BY <3>2, <4>1, <4>4
    <3> HIDE DEF Told
    <3> QED  BY <3>4, <3>5, <3>6
  <2>12. Tells(f[k].parts, Told(k))
    BY <2>7, <2>11
  <2> HIDE DEF Told
  <2> QED  BY <2>1, <2>7, <2>8, <2>9, <2>10, <2>12
<1> HIDE DEF good
<1>6. \A k \in 0 .. n : k \in good
  BY <1>1, <1>4, <1>5, CountingUp
<1> DEFINE o == f[n].offset
<1>7. Good(n)
  <2>1. n \in 0 .. n
    BY <1>1
  <2> QED  BY <1>6, <2>1 DEF good
<1>8. /\ o \in 0 .. l /\ IsRun(f[n].text, c + o, d)
      /\ \A j \in 1 .. n : ranges[j].end <= o \/ o = l
      /\ Tells(f[n].parts, Told(n))
  BY <1>7
<1>8a. \A p \in Told(n) : p \in c .. c + o - 1
  OBVIOUS
<1>8b. \A p : p \in Told(n) <=> p \in c .. c + o - 1 /\ \A j \in 1 .. n : ~Holds(ranges[j], p - c)
  OBVIOUS
<1> HIDE DEF o, Told
<1>9. Tells(Clear(f[n].text), c + o .. d - 1)
  <2>1. c + o \in Int /\ c + o <= d
    BY <1>1, <1>8
  <2> QED  BY <1>8, <2>1, ClearTells
<1>10. Tells(PartsOf(text, source, ranges), Told(n) \cup (c + o .. d - 1))
  <2>1. \A p \in Told(n), q \in c + o .. d - 1 : p < q
    BY <1>1, <1>8, <1>8a
  <2>2. Tells(f[n].parts \o Clear(f[n].text), Told(n) \cup (c + o .. d - 1))
    BY <1>8, <1>9, <2>1, Joined
  <2> QED  BY <1>3, <2>2
<1>11. Told(n) \cup (c + o .. d - 1) =
          {p \in c .. d - 1 : \A k \in DOMAIN ranges : ~Holds(ranges[k], p - c)}
  <2>1. ASSUME NEW p \in c + o .. d - 1 PROVE \A k \in 1 .. n : ~Holds(ranges[k], p - c)
    <3>1. o < l /\ p - c >= o /\ p - c \in Int /\ o \in Int
      BY <1>1, <1>8
    <3>2. \A k \in 1 .. n : ranges[k].end <= o /\ ranges[k].end \in Int
      BY <1>1, <1>8, <3>1
    <3> QED  BY <3>1, <3>2 DEF Holds
  <2>2. \A p \in c .. d - 1 : p \in c .. c + o - 1 \/ p \in c + o .. d - 1
    BY <1>1, <1>8
  <2>3. \A p : p \in c .. c + o - 1 \/ p \in c + o .. d - 1 => p \in c .. d - 1
    BY <1>1, <1>8
  <2>4. DOMAIN ranges = 1 .. n
    BY <1>1
  <2>5. \A p : p \in Told(n) \cup (c + o .. d - 1) <=>
               p \in c .. d - 1 /\ \A k \in 1 .. n : ~Holds(ranges[k], p - c)
    BY <1>8b, <2>1, <2>2, <2>3, Zenon
  <2> QED  BY <2>4, <2>5
<1> QED  BY <1>10, <1>11

\* Filled keeps the ranges that are not empty, in their order.
LEMMA FilledIs ==
    ASSUME NEW ranges \in Seq(TextRanges), Sorted(ranges)
    PROVE  /\ Filled(ranges) \in Seq(TextRanges)
           /\ Sorted(Filled(ranges))
           /\ Len(Filled(ranges)) <= Len(ranges)
           /\ \A j \in DOMAIN Filled(ranges) :
                 \E i \in DOMAIN ranges : Filled(ranges)[j] = ranges[i] /\ ranges[i].start # ranges[i].end
           /\ \A i \in DOMAIN ranges : ranges[i].start # ranges[i].end =>
                 \E j \in DOMAIN Filled(ranges) : Filled(ranges)[j] = ranges[i]
<1> DEFINE n == Len(ranges)
           Turn(i, s) == IF ranges[i].start = ranges[i].end THEN s ELSE Append(s, ranges[i])
           step == [i \in 1 .. n |-> [s \in Seq(TextRanges) |-> Turn(i, s)]]
           Turns(g) == [k \in 0 .. n |-> IF k = 0 THEN <<>>
                                         ELSE IF ranges[k].start = ranges[k].end THEN g[k - 1]
                                         ELSE Append(g[k - 1], ranges[k])]
           filled == CHOOSE g : g = Turns(g)
<1>1. n \in Nat /\ DOMAIN ranges = 1 .. n /\ \A i \in 1 .. n : ranges[i] \in TextRanges
  OBVIOUS
<1>2. step \in [1 .. n -> [Seq(TextRanges) -> Seq(TextRanges)]] /\ <<>> \in Seq(TextRanges)
  BY <1>1
<1> HIDE DEF n, step
<1>3. PICK f : Runs(f, n, Seq(TextRanges), <<>>, step)
  BY <1>1, <1>2, LoopExists
<1>4. /\ f \in [0 .. n -> Seq(TextRanges)] /\ f[0] = <<>>
      /\ \A k \in 1 .. n : f[k] = Turn(k, f[k - 1])
  <2>1. f \in [0 .. n -> Seq(TextRanges)] /\ f[0] = <<>> /\ \A i \in 1 .. n : f[i] = step[i][f[i - 1]]
    BY <1>3 DEF Runs
  <2>2. \A i \in 1 .. n : f[i - 1] \in Seq(TextRanges)
    BY <1>1, <2>1
  <2> QED  BY <2>1, <2>2 DEF step
<1>5. f = Turns(f)
  <2>1. ASSUME NEW k \in 0 .. n PROVE f[k] = IF k = 0 THEN <<>> ELSE Turn(k, f[k - 1])
    <3>1. k # 0 => k \in 1 .. n
      BY <1>1
    <3> HIDE DEF Turn
    <3> QED  BY <1>4, <3>1
  <2>2. f = [k \in 0 .. n |-> f[k]]
    BY <1>4
  <2> QED  BY <2>1, <2>2
<1>6. filled = Turns(filled)
  BY <1>5, Zenon
<1>7. Filled(ranges) = filled[n]
  BY Zenon DEF Filled, n
<1>8. filled[0] = <<>> /\ \A k \in 1 .. n : filled[k] = Turn(k, filled[k - 1])
  <2>1. \A k \in 0 .. n : filled[k] = IF k = 0 THEN <<>> ELSE Turn(k, filled[k - 1])
    BY <1>6, Zenon
  <2>2. 0 \in 0 .. n /\ \A k \in 1 .. n : k \in 0 .. n /\ k # 0
    BY <1>1
  <2> HIDE DEF Turn, filled
  <2> QED  BY <2>1, <2>2, Zenon
<1> HIDE DEF filled, Turn
<1> DEFINE s(k) == filled[k]
           Good(k) == /\ s(k) \in Seq(TextRanges)
                      /\ Len(s(k)) <= k
                      /\ \A j \in DOMAIN s(k) :
                            \E i \in 1 .. k : s(k)[j] = ranges[i] /\ ranges[i].start # ranges[i].end
                      /\ \A i \in 1 .. k : ranges[i].start # ranges[i].end =>
                            \E j \in DOMAIN s(k) : s(k)[j] = ranges[i]
                      /\ Sorted(s(k))
           good == {k \in 0 .. n : Good(k)}
<1>9. 0 \in good
  <2>1. s(0) = <<>> /\ 1 .. 0 = {}
    BY <1>8
  <2>2. Sorted(<<>>)
    BY DEF Sorted
  <2>3. Good(0)
    BY <2>1, <2>2
  <2> QED  BY <1>1, <2>3
<1>10. ASSUME NEW k \in 1 .. n, k - 1 \in good PROVE k \in good
  <2>1. Good(k - 1) /\ k \in 0 .. n /\ k \in Nat
    BY <1>1, <1>10
  <2> DEFINE b == s(k - 1)
             a == s(k)
             r == ranges[k]
  <2>2. /\ b \in Seq(TextRanges) /\ Len(b) <= k - 1 /\ Sorted(b)
        /\ \A j \in DOMAIN b : \E i \in 1 .. k - 1 : b[j] = ranges[i] /\ ranges[i].start # ranges[i].end
        /\ \A i \in 1 .. k - 1 : ranges[i].start # ranges[i].end => \E j \in DOMAIN b : b[j] = ranges[i]
    BY <2>1
  <2>3. a = IF r.start = r.end THEN b ELSE Append(b, r)
    BY <1>8 DEF Turn
  <2>4. r \in TextRanges /\ r.start \in Int /\ r.end \in Int /\ r.start <= r.end
    BY <1>1, ReportsAssumption DEF TextRanges, Sorted
  <2>5. \A i \in 1 .. k : i \in 1 .. k - 1 \/ i = k
    BY <2>1
  <2>5a. \A i \in 1 .. k - 1 : i \in 1 .. k
    BY <2>1
  <2>6. CASE r.start = r.end
    <3>1. a = b
      BY <2>3, <2>6
    <3> HIDE DEF a, b
    <3>2. Len(a) <= k
      BY <2>1, <2>2, <3>1
    <3>3. \A j \in DOMAIN a : \E i \in 1 .. k : a[j] = ranges[i] /\ ranges[i].start # ranges[i].end
      BY <2>2, <2>5a, <3>1, Zenon
    <3>4. \A i \in 1 .. k : ranges[i].start # ranges[i].end => \E j \in DOMAIN a : a[j] = ranges[i]
      BY <2>2, <2>5, <2>6, <3>1, Zenon DEF r
    <3>5. Good(k)
      BY <2>2, <3>1, <3>2, <3>3, <3>4, Zenon DEF a
    <3> QED  BY <2>1, <3>5
  <2>7. CASE r.start # r.end
    <3> HIDE DEF b
    <3>1. /\ a = Append(b, r) /\ a \in Seq(TextRanges) /\ Len(a) = Len(b) + 1 /\ Len(b) \in Nat
          /\ DOMAIN b = 1 .. Len(b) /\ DOMAIN a = 1 .. Len(b) + 1
          /\ \A j \in 1 .. Len(b) : a[j] = b[j]
          /\ a[Len(b) + 1] = r
      BY <2>2, <2>3, <2>4, <2>7
    <3>1a. \A j \in DOMAIN a : j \in DOMAIN b \/ j = Len(b) + 1
      BY <3>1
    <3>1b. \A j \in DOMAIN b : j \in DOMAIN a
      BY <3>1
    <3> HIDE DEF a
    <3>2. Len(a) <= k
      BY <2>1, <2>2, <3>1
    <3>3. \A j \in DOMAIN a : \E i \in 1 .. k : a[j] = ranges[i] /\ ranges[i].start # ranges[i].end
      <4> SUFFICES ASSUME NEW j \in DOMAIN a
                   PROVE \E i \in 1 .. k : a[j] = ranges[i] /\ ranges[i].start # ranges[i].end
        OBVIOUS
      <4>1. CASE j \in DOMAIN b
        BY <2>2, <2>5a, <3>1, <4>1
      <4>2. CASE j = Len(b) + 1
        <5>1. k \in 1 .. k
          BY <2>1
        <5> QED  BY <2>7, <3>1, <4>2, <5>1
      <4> QED  BY <3>1a, <4>1, <4>2
    <3>4. \A i \in 1 .. k : ranges[i].start # ranges[i].end => \E j \in DOMAIN a : a[j] = ranges[i]
      <4> SUFFICES ASSUME NEW i \in 1 .. k, ranges[i].start # ranges[i].end
                   PROVE \E j \in DOMAIN a : a[j] = ranges[i]
        OBVIOUS
      <4>1. CASE i \in 1 .. k - 1
        <5>1. PICK j \in DOMAIN b : b[j] = ranges[i]
          BY <2>2, <4>1
        <5> QED  BY <3>1, <3>1b, <5>1
      <4>2. CASE i = k
        <5>1. Len(b) + 1 \in DOMAIN a
          BY <3>1
        <5> QED  BY <3>1, <4>2, <5>1
      <4> QED  BY <2>5, <4>1, <4>2
    <3>5. Sorted(a)
      <4>1. ASSUME NEW j \in DOMAIN b PROVE b[j].end <= r.start
        <5>1. PICK i \in 1 .. k - 1 : b[j] = ranges[i]
          BY <2>2
        <5>2. ranges[i].end <= ranges[k].start
          BY <1>1, <5>1 DEF Sorted
        <5> QED  BY <5>1, <5>2
      <4>2. ASSUME NEW j \in DOMAIN a
            PROVE  a[j].start <= a[j].end /\ \A i \in 1 .. j - 1 : a[i].end <= a[j].start
        <5>1. CASE j \in DOMAIN b
          <6>1. b[j].start <= b[j].end /\ \A i \in 1 .. j - 1 : b[i].end <= b[j].start
            BY <2>2, <5>1 DEF Sorted
          <6>2. a[j] = b[j] /\ \A i \in 1 .. j - 1 : a[i] = b[i]
            BY <3>1, <5>1
          <6> QED  BY <6>1, <6>2
        <5>2. CASE j = Len(b) + 1
          <6>1. a[j] = r /\ \A i \in 1 .. j - 1 : i \in DOMAIN b /\ a[i] = b[i]
            BY <3>1, <5>2
          <6> QED  BY <2>4, <4>1, <6>1
        <5> QED  BY <3>1a, <5>1, <5>2
      <4> QED  BY <4>2 DEF Sorted
    <3>6. Good(k)
      BY <3>1, <3>2, <3>3, <3>4, <3>5, Zenon DEF a
    <3> QED  BY <2>1, <3>6
  <2> QED  BY <2>6, <2>7
<1> HIDE DEF good
<1>11. \A k \in 0 .. n : k \in good
  BY <1>1, <1>9, <1>10, CountingUp
<1>12. Good(n)
  <2>1. n \in 0 .. n
    BY <1>1
  <2> QED  BY <1>11, <2>1 DEF good
<1>13. DOMAIN ranges = 1 .. Len(ranges)
  OBVIOUS
<1> DEFINE F == Filled(ranges)
<1>14. /\ F \in Seq(TextRanges) /\ Len(F) <= n /\ Sorted(F)
       /\ \A j \in DOMAIN F : \E i \in 1 .. n : F[j] = ranges[i] /\ ranges[i].start # ranges[i].end
       /\ \A i \in 1 .. n : ranges[i].start # ranges[i].end => \E j \in DOMAIN F : F[j] = ranges[i]
  BY <1>7, <1>12, Zenon
<1> HIDE DEF F
<1>15. DOMAIN ranges = 1 .. n
  BY <1>13 DEF n
<1>16. /\ \A j \in DOMAIN F : \E i \in DOMAIN ranges : F[j] = ranges[i] /\ ranges[i].start # ranges[i].end
       /\ \A i \in DOMAIN ranges : ranges[i].start # ranges[i].end => \E j \in DOMAIN F : F[j] = ranges[i]
  BY <1>14, <1>15, Zenon
<1> QED  BY <1>14, <1>16, Zenon DEF F, n

\* Within counts the sensitive ranges that the tainted range contains, up to the first it does not.
LEMMA WithinIs ==
    ASSUME sensitive \in Seq(TextRanges)
    PROVE  /\ Within \in 0 .. Len(sensitive)
           /\ \A k \in 1 .. Within : contains(tainted[1], sensitive[k])
           /\ Within = Len(sensitive) \/ ~contains(tainted[1], sensitive[Within + 1])
<1> DEFINE n == Len(sensitive)
           stops == {k \in 0 .. n : k = n \/ ~contains(tainted[1], sensitive[k + 1])}
           m == Min(stops)
           Is(k) == /\ \A j \in 1 .. k : contains(tainted[1], sensitive[j])
                    /\ k = n \/ ~contains(tainted[1], sensitive[k + 1])
<1>1. n \in Nat
  OBVIOUS
<1> HIDE DEF n
<1>2. n \in stops /\ stops \subseteq Nat /\ stops \subseteq 0 .. n
  BY <1>1
<1>2a. \A k : k \in stops <=> k \in 0 .. n /\ (k = n \/ ~contains(tainted[1], sensitive[k + 1]))
  OBVIOUS
<1> HIDE DEF stops
<1>3. m \in stops /\ \A k \in stops : m <= k
  BY <1>2, MinIs
<1> HIDE DEF m
<1>4. m \in 0 .. n /\ (m = n \/ ~contains(tainted[1], sensitive[m + 1]))
  BY <1>2a, <1>3
<1>5. ASSUME NEW j \in 1 .. m PROVE contains(tainted[1], sensitive[j])
  <2>1. j - 1 \in 0 .. n /\ j - 1 # n /\ ~(m <= j - 1) /\ (j - 1) + 1 = j
    BY <1>1, <1>4
  <2>2. j - 1 \notin stops
    BY <1>3, <2>1
  <2> QED  BY <1>2a, <2>1, <2>2
<1>6. m \in 0 .. n /\ Is(m)
  BY <1>4, <1>5
<1> HIDE DEF Is
<1>7. \E k \in 0 .. n : Is(k)
  BY <1>6
<1>8. Within = CHOOSE k \in 0 .. n : Is(k)
  BY Zenon DEF Within, Is, n
<1>9. Within \in 0 .. n /\ Is(Within)
  BY <1>7, <1>8, Zenon
<1> QED  BY <1>9, Zenon DEF Is, n

-----------------------------------------------------------------------------
(* Redaction: the sources of a report.                                     *)

\* The sources of a report, and those that no evidence has redacted yet.
SourceRecords == [param : Params, text : Seq(Int), redacted : BOOLEAN, deleted : BOOLEAN]
Untouched(source) == ~source.redacted /\ ~source.deleted

\* A report keeps the sources it had, and has those of the vulnerability.
LEMMA KnownIs ==
    ASSUME sources \in Seq(SourceRecords), NEW news \in Seq(SourceRecords),
           \A k \in DOMAIN news : Untouched(news[k])
    PROVE  /\ Known(news) \in Seq(SourceRecords)
           /\ \A x \in DOMAIN Known(news) :
                 (x \in DOMAIN sources /\ Known(news)[x] = sources[x]) \/ Untouched(Known(news)[x])
           /\ \A k \in DOMAIN news : \E x \in DOMAIN Known(news) : SameSource(Known(news)[x], news[k])
<1> DEFINE n == Len(news)
           step == [i \in 1 .. n |-> [s \in Seq(SourceRecords) |-> Registered(s, news[i])]]
           Turns(g) == [k \in 0 .. n |-> IF k = 0 THEN sources ELSE Registered(g[k - 1], news[k])]
           known == CHOOSE g : g = Turns(g)
<1>1. n \in Nat /\ DOMAIN news = 1 .. n /\ \A i \in 1 .. n : news[i] \in SourceRecords
  OBVIOUS
<1>2. step \in [1 .. n -> [Seq(SourceRecords) -> Seq(SourceRecords)]]
  <2>1. \A i \in 1 .. n, s \in Seq(SourceRecords) : Registered(s, news[i]) \in Seq(SourceRecords)
    BY <1>1 DEF Registered
  <2> QED  BY <2>1
<1> HIDE DEF n, step
<1>3. PICK f : Runs(f, n, Seq(SourceRecords), sources, step)
  BY <1>1, <1>2, LoopExists
<1>4. /\ f \in [0 .. n -> Seq(SourceRecords)] /\ f[0] = sources
      /\ \A k \in 1 .. n : f[k] = Registered(f[k - 1], news[k])
  <2>1. f \in [0 .. n -> Seq(SourceRecords)] /\ f[0] = sources /\ \A i \in 1 .. n : f[i] = step[i][f[i - 1]]
    BY <1>3 DEF Runs
  <2>2. \A i \in 1 .. n : f[i - 1] \in Seq(SourceRecords)
    BY <1>1, <2>1
  <2> QED  BY <2>1, <2>2 DEF step
<1>5. f = Turns(f)
  <2>1. ASSUME NEW k \in 0 .. n PROVE f[k] = IF k = 0 THEN sources ELSE Registered(f[k - 1], news[k])
    <3>1. k # 0 => k \in 1 .. n
      BY <1>1
    <3> QED  BY <1>4, <3>1
  <2>2. f = [k \in 0 .. n |-> f[k]]
    BY <1>4
  <2> QED  BY <2>1, <2>2
<1>6. known = Turns(known)
  BY <1>5, Zenon
<1>7. Known(news) = known[n]
  BY Zenon DEF Known, n
<1>8. known[0] = sources /\ \A k \in 1 .. n : known[k] = Registered(known[k - 1], news[k])
  <2>1. \A k \in 0 .. n : known[k] = IF k = 0 THEN sources ELSE Registered(known[k - 1], news[k])
    BY <1>6, Zenon
  <2>2. 0 \in 0 .. n /\ \A k \in 1 .. n : k \in 0 .. n /\ k # 0
    BY <1>1
  <2> HIDE DEF known
  <2> QED  BY <2>1, <2>2, Zenon
<1> HIDE DEF known
<1> DEFINE Good(k) == /\ known[k] \in Seq(SourceRecords)
                      /\ \A x \in DOMAIN known[k] :
                            (x \in DOMAIN sources /\ known[k][x] = sources[x]) \/ Untouched(known[k][x])
                      /\ \A i \in 1 .. k : \E x \in DOMAIN known[k] : SameSource(known[k][x], news[i])
           good == {k \in 0 .. n : Good(k)}
<1>9. 0 \in good
  <2>1. known[0] = sources /\ 1 .. 0 = {}
    BY <1>8
  <2> QED  BY <1>1, <2>1
<1>10. ASSUME NEW k \in 1 .. n, k - 1 \in good PROVE k \in good
  <2> DEFINE b == known[k - 1]
             a == known[k]
             new == news[k]
  <2>1. Good(k - 1) /\ k \in 0 .. n /\ k \in Nat
    BY <1>1, <1>10
  <2>2. /\ b \in Seq(SourceRecords)
        /\ \A x \in DOMAIN b : (x \in DOMAIN sources /\ b[x] = sources[x]) \/ Untouched(b[x])
        /\ \A i \in 1 .. k - 1 : \E x \in DOMAIN b : SameSource(b[x], news[i])
    BY <2>1
  <2>3. a = Registered(b, new)
    BY <1>8
  <2>4. \A i \in 1 .. k : i \in 1 .. k - 1 \/ i = k
    BY <2>1
  <2>5. Untouched(new) /\ new \in SourceRecords
    BY <1>1
  <2> HIDE DEF a, b
  <2>6. CASE \E x \in DOMAIN b : SameSource(b[x], new)
    <3>1. a = b
      BY <2>3, <2>6, Zenon DEF Registered
    <3>2. \A i \in 1 .. k : \E x \in DOMAIN a : SameSource(a[x], news[i])
      BY <2>2, <2>4, <2>6, <3>1, Zenon
    <3>3. Good(k)
      BY <2>2, <3>1, <3>2, Zenon DEF a
    <3> QED  BY <2>1, <3>3
  <2>7. CASE ~\E x \in DOMAIN b : SameSource(b[x], new)
    <3>1. a = Append(b, new)
      BY <2>3, <2>7, Zenon DEF Registered
    <3> HIDE DEF new
    <3>2. /\ a \in Seq(SourceRecords) /\ Len(b) \in Nat
          /\ DOMAIN b = 1 .. Len(b) /\ DOMAIN a = 1 .. Len(b) + 1
          /\ \A j \in 1 .. Len(b) : a[j] = b[j]
          /\ a[Len(b) + 1] = new
      BY <2>2, <2>5, <3>1
    <3>3. /\ \A j \in DOMAIN a : j \in DOMAIN b \/ j = Len(b) + 1
          /\ \A j \in DOMAIN b : j \in DOMAIN a
          /\ Len(b) + 1 \in DOMAIN a
      BY <3>2
    <3>4. \A x \in DOMAIN a : (x \in DOMAIN sources /\ a[x] = sources[x]) \/ Untouched(a[x])
      BY <2>2, <2>5, <3>2, <3>3
    <3>5. SameSource(a[Len(b) + 1], news[k])
      BY <2>5, <3>2 DEF SameSource, Untouched, new
    <3>6. \A i \in 1 .. k : \E x \in DOMAIN a : SameSource(a[x], news[i])
      <4> SUFFICES ASSUME NEW i \in 1 .. k PROVE \E x \in DOMAIN a : SameSource(a[x], news[i])
        OBVIOUS
      <4>1. CASE i = k
        BY <3>3, <3>5, <4>1
      <4>2. CASE i \in 1 .. k - 1
        <5>1. PICK x \in DOMAIN b : SameSource(b[x], news[i])
          BY <2>2, <4>2
        <5> QED  BY <3>2, <3>3, <5>1
      <4> QED  BY <2>4, <4>1, <4>2
    <3>7. Good(k)
      BY <3>2, <3>4, <3>6, Zenon DEF a
    <3> QED  BY <2>1, <3>7
  <2> QED  BY <2>6, <2>7
<1> HIDE DEF good
<1>11. \A k \in 0 .. n : k \in good
  BY <1>1, <1>9, <1>10, CountingUp
<1>12. Good(n)
  <2>1. n \in 0 .. n
    BY <1>1
  <2> QED  BY <1>11, <2>1 DEF good
<1> QED  BY <1>1, <1>7, <1>12, Zenon

\* Where a report has a source, for one that it has.
LEMMA PlaceIs ==
    ASSUME NEW known \in Seq(SourceRecords), NEW new,
           \E x \in DOMAIN known : SameSource(known[x], new)
    PROVE  PlaceOf(known, new) \in DOMAIN known /\ SameSource(known[PlaceOf(known, new)], new)
<1> DEFINE places == {k \in DOMAIN known : SameSource(known[k], new)}
<1>1. places \subseteq Nat /\ places # {}
  OBVIOUS
<1> HIDE DEF places
<1>2. Min(places) \in places
  BY <1>1, MinIs
<1>3. PlaceOf(known, new) = Min(places)
  BY Zenon DEF PlaceOf, places
<1> QED  BY <1>2, <1>3 DEF places

\* What the invariant relates: the evidence, what is left of its ranges, the sources.
AllKept == \A k \in DOMAIN evidence.params : evidence.params[k].kept
Gone == Len(evidence.ranges) - Len(tainted)
NoneLeft == \A x \in DOMAIN sources : sources[x].redacted => sources[x].deleted

\* A position of a sensitive range of the evidence, of one that is left to go
\* through, and of a context that a sensitive range has left to the next tainted range.
Sensitive(p) == \E k \in DOMAIN evidence.sensitive : Holds(evidence.sensitive[k], p)
Left(p) == \E k \in DOMAIN sensitive : Holds(sensitive[k], p)
Carries(p) ==
    /\ tainted # <<>> /\ p < tainted[1].end
    /\ \E k \in DOMAIN contexts[SourceIndex] :
          Holds(contexts[SourceIndex][k], p - tainted[1].start)

\* The evidence, once its sources are registered.
EvidenceTyped ==
    /\ evidence.ranges \in Seq(TextRanges) /\ Sorted(evidence.ranges)
    /\ evidence.sensitive \in Seq(TextRanges) /\ Sorted(evidence.sensitive)
    /\ evidence.params \in Seq(Params) /\ Len(evidence.params) = Len(evidence.ranges)
    /\ evidence.indexes \in [DOMAIN evidence.ranges -> DOMAIN sources]

\* What is left of the tainted ranges is the end of those of the evidence.
LoopTyped ==
    /\ at \in 0 .. Length /\ start \in 0 .. at
    /\ tainted \in Seq(TextRanges) /\ Len(tainted) <= Len(evidence.ranges)
    /\ \A j \in DOMAIN tainted : tainted[j] = evidence.ranges[Gone + j]
    /\ sensitive \in Seq(TextRanges) /\ Sorted(sensitive)
    /\ contexts \in [DOMAIN sources -> Seq(ContextRange)]
    /\ redactedSources \subseteq DOMAIN sources

\* Each range has the source of its parameter, and a source that is redacted
\* has been deleted before or is one of this evidence.
SourcesTheirs ==
    /\ \A k \in DOMAIN evidence.ranges :
          /\ sources[evidence.indexes[k]].param = evidence.params[k]
          /\ sources[evidence.indexes[k]].text = SourceText(evidence.params[k], evidence.ranges[k])
          /\ ~sources[evidence.indexes[k]].deleted
    /\ \A x \in DOMAIN sources :
          sources[x].redacted /\ ~sources[x].deleted => x \in redactedSources

\* What is left is at the place of the loop or after it, what is gone before it.
InPlace ==
    /\ \A j \in DOMAIN tainted : at <= tainted[j].start
    /\ \A j \in DOMAIN sensitive : at <= sensitive[j].start
    /\ \A k \in 1 .. Gone : evidence.ranges[k].end <= start

\* What is sensitive from here on is in a range that is left, or carried.
Covered == \A p \in at .. Length - 1 : Sensitive(p) <=> Left(p) \/ Carries(p)

\* Only the source of a tainted range that comes next has a context already, and
\* it is one: the rest of a sensitive range that began before it.
Carried ==
    \A x \in DOMAIN sources : contexts[x] # <<>> =>
        /\ tainted # <<>> /\ tainted[1].start = at /\ x = SourceIndex /\ x \in redactedSources
        /\ Len(contexts[x]) = 1
        /\ contexts[x][1].start < 0 /\ 0 < contexts[x][1].end
        /\ \A j \in DOMAIN sensitive :
              \/ sensitive[j].start >= tainted[1].end
              \/ sensitive[j].start >= tainted[1].start + contexts[x][1].end

\* A range that is gone with a secret in it has its source redacted.
SecretsFound ==
    \A k \in 1 .. Gone :
        (\E p \in 0 .. Length - 1 : Holds(evidence.ranges[k], p) /\ Secret(p)) =>
            evidence.indexes[k] \in redactedSources

\* If the sources have the evidence as it is, the parts so far tell what is not
\* secret up to start, and from there to the place of the loop nothing is secret.
ToldSoFar ==
    AllKept =>
        /\ Tells(valueParts, {p \in 0 .. start - 1 : ~Secret(p)})
        /\ \A p \in start .. at - 1 : ~Secret(p)

\* The invariant of the loop.
LoopInv ==
    /\ EvidenceTyped /\ LoopTyped /\ SourcesTheirs /\ InPlace /\ Covered /\ Carried /\ SecretsFound
    /\ ToldSoFar

\* Between evidences no source is left redacted that still has its value.
RedactionInv ==
    /\ formatted \in Nat
    /\ sources \in Seq(SourceRecords)
    /\ phase \in {"idle", "loop", "done"}
    /\ phase # "loop" => NoneLeft
    /\ phase = "loop" => LoopInv
    /\ EvidenceScrubbed

\* A range of the text, with its bounds.
LEMMA TextRangesAre ==
    /\ Length \in Nat
    /\ \A r \in TextRanges : r.start \in 0 .. Length /\ r.end \in 0 .. Length
                             /\ r.start \in Int /\ r.end \in Int
BY ReportsAssumption DEF TextRanges

\* The invariant holds at the start.
LEMMA RedactionStarts == FormatInit => RedactionInv
<1> SUFFICES ASSUME FormatInit PROVE RedactionInv
  OBVIOUS
<1>1. formatted = 0 /\ sources = <<>> /\ phase = "idle"
  BY DEF FormatInit
<1>2. EvidenceScrubbed
  BY <1>1 DEF EvidenceScrubbed
<1>3. NoneLeft
  BY <1>1 DEF NoneLeft
<1> QED  BY <1>1, <1>2, <1>3 DEF RedactionInv

\* A step that leaves the formatter alone keeps it.
LEMMA RedactionStutters == RedactionInv /\ UNCHANGED formatVars => RedactionInv'
<1> SUFFICES ASSUME RedactionInv, UNCHANGED formatVars PROVE RedactionInv'
  OBVIOUS
<1> QED
  BY DEF RedactionInv, formatVars, LoopInv, NoneLeft, EvidenceTyped, LoopTyped, SourcesTheirs,
         InPlace, Covered, Carried, SecretsFound, ToldSoFar, EvidenceScrubbed, Secret, AllKept,
         Gone, Sensitive, Left, Carries, SourceIndex, Place

\* What the loop has before a turn.
LEMMA InLoop ==
    ASSUME RedactionInv, phase = "loop"
    PROVE  LoopInv /\ sources \in Seq(SourceRecords) /\ formatted \in Nat
BY DEF RedactionInv

\* The tainted range that comes next is one of the evidence.
LEMMA NextIs ==
    ASSUME LoopInv
    PROVE  /\ Gone \in 0 .. Len(evidence.ranges) /\ DOMAIN evidence.ranges = 1 .. Len(evidence.ranges)
           /\ Len(tainted) \in Nat /\ DOMAIN tainted = 1 .. Len(tainted)
           /\ Gone + Len(tainted) = Len(evidence.ranges)
           /\ \A j \in DOMAIN tainted : Gone + j \in DOMAIN evidence.ranges
           /\ \A k \in DOMAIN evidence.ranges : k \in 1 .. Gone \/ k - Gone \in DOMAIN tainted
           /\ tainted # <<>> =>
                 /\ 1 \in DOMAIN tainted /\ Place = Gone + 1 /\ Place \in DOMAIN evidence.ranges
                 /\ tainted[1] = evidence.ranges[Place] /\ tainted[1] \in TextRanges
                 /\ tainted[1].start <= tainted[1].end
                 /\ SourceIndex \in DOMAIN sources
                 /\ \A j \in DOMAIN tainted : j # 1 => tainted[1].end <= tainted[j].start
<1>1. /\ evidence.ranges \in Seq(TextRanges) /\ tainted \in Seq(TextRanges)
      /\ Len(tainted) <= Len(evidence.ranges)
      /\ \A j \in DOMAIN tainted : tainted[j] = evidence.ranges[Gone + j]
      /\ evidence.indexes \in [DOMAIN evidence.ranges -> DOMAIN sources]
      /\ Sorted(evidence.ranges)
  BY DEF LoopInv, EvidenceTyped, LoopTyped
<1>2. /\ Len(tainted) \in Nat /\ DOMAIN tainted = 1 .. Len(tainted)
      /\ Len(evidence.ranges) \in Nat /\ DOMAIN evidence.ranges = 1 .. Len(evidence.ranges)
  BY <1>1
<1>3. /\ Gone \in 0 .. Len(evidence.ranges)
      /\ Gone + Len(tainted) = Len(evidence.ranges)
      /\ \A j \in DOMAIN tainted : Gone + j \in DOMAIN evidence.ranges
      /\ \A k \in DOMAIN evidence.ranges : k \in 1 .. Gone \/ k - Gone \in DOMAIN tainted
      /\ Place = Gone + 1
  BY <1>1, <1>2 DEF Gone, Place
<1>4. ASSUME tainted # <<>>
      PROVE  /\ 1 \in DOMAIN tainted /\ Place \in DOMAIN evidence.ranges
             /\ tainted[1] = evidence.ranges[Place] /\ tainted[1] \in TextRanges
             /\ tainted[1].start <= tainted[1].end
             /\ SourceIndex \in DOMAIN sources
             /\ \A j \in DOMAIN tainted : j # 1 => tainted[1].end <= tainted[j].start
  <2>1. 1 \in DOMAIN tainted
    BY <1>1, <1>4
  <2>2. Place \in DOMAIN evidence.ranges /\ tainted[1] = evidence.ranges[Place]
        /\ tainted[1] \in TextRanges
    BY <1>1, <1>3, <2>1
  <2>3. SourceIndex \in DOMAIN sources
    BY <1>1, <2>2 DEF SourceIndex
  <2>4. tainted[1].start <= tainted[1].end
    BY <1>1, <2>2 DEF Sorted
  <2>5. ASSUME NEW j \in DOMAIN tainted, j # 1 PROVE tainted[1].end <= tainted[j].start
    <3>1. Gone + j \in DOMAIN evidence.ranges /\ Place \in 1 .. (Gone + j) - 1
          /\ tainted[j] = evidence.ranges[Gone + j]
      BY <1>1, <1>2, <1>3, <2>5
    <3> QED  BY <1>1, <2>2, <3>1 DEF Sorted
  <2> QED  BY <2>1, <2>2, <2>3, <2>4, <2>5
<1> QED  BY <1>2, <1>3, <1>4

\* A turn at which nothing starts keeps it.
LEMMA PlainKeeps == RedactionInv /\ PlainTurn => RedactionInv'
<1> SUFFICES ASSUME RedactionInv, PlainTurn PROVE RedactionInv'
  OBVIOUS
<1>1. /\ phase = "loop" /\ at < Length
      /\ ~(tainted # <<>> /\ tainted[1].start = at) /\ ~(sensitive # <<>> /\ sensitive[1].start = at)
      /\ at' = at + 1
      /\ UNCHANGED <<formatted, sources, phase, evidence, start, tainted, sensitive, contexts,
                     redactedSources, valueParts>>
  BY DEF PlainTurn
<1>2. LoopInv /\ sources \in Seq(SourceRecords) /\ formatted \in Nat
  BY <1>1, InLoop
<1>3. EvidenceTyped /\ LoopTyped /\ SourcesTheirs /\ InPlace /\ Covered /\ Carried /\ SecretsFound
      /\ ToldSoFar
  BY <1>2 DEF LoopInv
<1>4. at \in 0 .. Length /\ at \in Int /\ start \in 0 .. at /\ start \in Int /\ Length \in Nat
  BY <1>3, ReportsAssumption DEF LoopTyped
<1>5. \A j \in DOMAIN tainted : at < tainted[j].start /\ tainted[j].start \in Int
  <2> SUFFICES ASSUME NEW j \in DOMAIN tainted PROVE at < tainted[j].start /\ tainted[j].start \in Int
    OBVIOUS
  <2>1. tainted # <<>> /\ tainted[j] \in TextRanges /\ at <= tainted[j].start
    BY <1>3 DEF LoopTyped, InPlace
  <2>2. at <= tainted[1].start /\ tainted[1] \in TextRanges /\ tainted[1].start <= tainted[1].end
        /\ (j # 1 => tainted[1].end <= tainted[j].start)
    BY <1>2, <1>3, <2>1, NextIs DEF InPlace
  <2>3. tainted[1].start # at
    BY <1>1, <2>1
  <2> QED  BY <1>4, <2>1, <2>2, <2>3, TextRangesAre
<1>6. \A j \in DOMAIN sensitive : at < sensitive[j].start /\ sensitive[j].start \in Int
  <2> SUFFICES ASSUME NEW j \in DOMAIN sensitive PROVE at < sensitive[j].start /\ sensitive[j].start \in Int
    OBVIOUS
  <2>1. sensitive \in Seq(TextRanges) /\ Sorted(sensitive) /\ at <= sensitive[j].start
    BY <1>3 DEF LoopTyped, InPlace
  <2>2. /\ sensitive # <<>> /\ sensitive[j] \in TextRanges /\ 1 \in DOMAIN sensitive
        /\ sensitive[1] \in TextRanges /\ (j # 1 => 1 \in 1 .. j - 1)
    BY <2>1
  <2>3. at <= sensitive[1].start /\ sensitive[1].start <= sensitive[1].end
        /\ (j # 1 => sensitive[1].end <= sensitive[j].start)
    BY <1>3, <2>1, <2>2 DEF Sorted, InPlace
  <2> QED  BY <1>1, <1>4, <2>2, <2>3, TextRangesAre
<1>7. \A x \in DOMAIN sources : contexts[x] = <<>>
  BY <1>1, <1>3 DEF Carried
<1>8. ~Secret(at)
  <2>1. ~Left(at)
    BY <1>4, <1>6 DEF Left, Holds
  <2>2. ~Carries(at)
    BY <1>2, <1>7, NextIs DEF Carries
  <2>3. ~Sensitive(at)
    BY <1>1, <1>3, <1>4, <2>1, <2>2 DEF Covered
  <2>4. ASSUME NEW k \in DOMAIN evidence.ranges PROVE ~Holds(evidence.ranges[k], at)
    <3>1. CASE k \in 1 .. Gone
      <4>1. evidence.ranges[k].end <= start /\ evidence.ranges[k] \in TextRanges
        BY <1>3, <2>4, <3>1 DEF InPlace, EvidenceTyped
      <4> QED  BY <1>4, <4>1, TextRangesAre DEF Holds
    <3>2. CASE k - Gone \in DOMAIN tainted
      <4>1. Gone + (k - Gone) = k
        BY <1>2, NextIs
      <4>2. tainted[k - Gone] = evidence.ranges[k]
        BY <1>3, <3>2, <4>1 DEF LoopTyped
      <4> QED  BY <1>4, <1>5, <3>2, <4>2 DEF Holds
    <3> QED  BY <1>2, <2>4, <3>1, <3>2, NextIs
  <2> QED  BY <2>3, <2>4 DEF Secret, Sensitive
<1>9. EvidenceTyped' /\ SourcesTheirs'
  BY <1>1, <1>3 DEF EvidenceTyped, SourcesTheirs
<1>10. LoopTyped'
  BY <1>1, <1>3, <1>4 DEF LoopTyped, Gone
<1>11. InPlace'
  BY <1>1, <1>3, <1>4, <1>5, <1>6 DEF InPlace, Gone
<1>12. Covered'
  <2>1. \A p \in at + 1 .. Length - 1 : p \in at .. Length - 1
    BY <1>4
  <2> QED  BY <1>1, <1>3, <2>1 DEF Covered, Sensitive, Left, Carries, SourceIndex, Place
<1>13. Carried'
  BY <1>1, <1>7 DEF Carried
<1>14. SecretsFound'
  BY <1>1, <1>3 DEF SecretsFound, Gone, Secret
<1>15. ToldSoFar'
  <2>1. \A p \in start .. (at + 1) - 1 : p \in start .. at - 1 \/ p = at
    BY <1>4
  <2>2. \A p : Secret(p)' <=> Secret(p)
    BY <1>1 DEF Secret
  <2>3. AllKept' <=> AllKept
    BY <1>1 DEF AllKept
  <2> QED  BY <1>1, <1>3, <1>8, <2>1, <2>2, <2>3 DEF ToldSoFar
<1>16. LoopInv'
  BY <1>9, <1>10, <1>11, <1>12, <1>13, <1>14, <1>15 DEF LoopInv
<1>17. EvidenceScrubbed'
  BY <1>1 DEF EvidenceScrubbed
<1> QED  BY <1>1, <1>2, <1>16, <1>17 DEF RedactionInv

\* The return of the parts keeps it.
LEMMA ReturnKeeps == RedactionInv /\ Return => RedactionInv'
<1> SUFFICES ASSUME RedactionInv, Return PROVE RedactionInv'
  OBVIOUS
<1>1. phase = "done" /\ phase' = "idle" /\ UNCHANGED <<formatted, sources>>
  BY DEF Return
<1>2. EvidenceScrubbed'
  BY <1>1 DEF EvidenceScrubbed
<1> QED  BY <1>1, <1>2 DEF RedactionInv, NoneLeft

\* The text of a source is a text.
LEMMA SourceTexts ==
    ASSUME NEW param \in Params, NEW range \in TextRanges
    PROVE  SourceText(param, range) \in Seq(Int)
<1>1. Value \in Seq(Int)
  BY ValueIsRun DEF IsRun
<1>2. param.before \in Seq(Int) /\ range.start \in Int /\ range.start + 1 \in Int /\ range.end \in Int
  BY TextRangesAre DEF Params
<1>3. Sub(Value, range.start, range.end) \in Seq(Int) /\ Sub(Value, range.start + 1, range.end) \in Seq(Int)
  BY <1>1, <1>2, SubIs
<1> QED  BY <1>2, <1>3 DEF SourceText

\* The start of an evidence keeps it.
LEMMA BeginKeeps ==
    ASSUME RedactionInv, phase = "idle", formatted < Len(Reports),
           NEW e \in Reports[formatted + 1], Begin(e)
    PROVE  RedactionInv'
<1> DEFINE news == [k \in DOMAIN e.ranges |->
                      [param |-> e.params[k], text |-> SourceText(e.params[k], e.ranges[k]),
                       redacted |-> FALSE, deleted |-> FALSE]]
           all == Known(news)
           indexes == [k \in DOMAIN news |-> PlaceOf(all, news[k])]
<1>1. /\ phase' = "loop" /\ formatted' = formatted + 1 /\ sources' = all
      /\ evidence' = [ranges |-> e.ranges, sensitive |-> e.sensitive, params |-> e.params,
                      indexes |-> indexes]
      /\ at' = 0 /\ start' = 0 /\ tainted' = e.ranges /\ sensitive' = e.sensitive
      /\ contexts' = [k \in DOMAIN all |-> <<>>]
      /\ redactedSources' = {} /\ valueParts' = <<>>
  BY Zenon DEF Begin
<1>2. formatted \in Nat /\ sources \in Seq(SourceRecords) /\ NoneLeft
  BY DEF RedactionInv
<1>3. /\ e.ranges \in Seq(TextRanges) /\ Sorted(e.ranges)
      /\ e.sensitive \in Seq(TextRanges) /\ Sorted(e.sensitive)
      /\ e.params \in Seq(Params) /\ Len(e.params) = Len(e.ranges)
  <2>1. formatted + 1 \in DOMAIN Reports
    BY <1>2, ReportsAssumption
  <2>2. e \in [ranges : Seq(TextRanges), sensitive : Seq(TextRanges), params : Seq(Params)]
    BY <2>1, ReportsAssumption
  <2> QED  BY <2>1, <2>2, ReportsAssumption
<1> DEFINE n == Len(e.ranges)
<1>4. /\ n \in Nat /\ DOMAIN e.ranges = 1 .. n /\ DOMAIN e.params = 1 .. n
      /\ \A k \in 1 .. n : e.ranges[k] \in TextRanges /\ e.params[k] \in Params
  BY <1>3
<1> HIDE DEF n
<1>5. /\ news \in Seq(SourceRecords) /\ DOMAIN news = 1 .. n
      /\ \A k \in 1 .. n : /\ news[k].param = e.params[k]
                           /\ news[k].text = SourceText(e.params[k], e.ranges[k])
                           /\ Untouched(news[k])
  <2>1. \A k \in 1 .. n : news[k] \in SourceRecords
    BY <1>4, SourceTexts DEF SourceRecords
  <2>2. \A k \in 1 .. n : /\ news[k].param = e.params[k]
                          /\ news[k].text = SourceText(e.params[k], e.ranges[k])
                          /\ Untouched(news[k])
    BY <1>4 DEF Untouched
  <2>3. news \in [1 .. n -> SourceRecords]
    BY <1>4, <2>1
  <2> HIDE DEF news
  <2> QED  BY <1>4, <2>2, <2>3
<1> HIDE DEF news
<1>6. /\ all \in Seq(SourceRecords)
      /\ \A x \in DOMAIN all : (x \in DOMAIN sources /\ all[x] = sources[x]) \/ Untouched(all[x])
      /\ \A k \in 1 .. n : \E x \in DOMAIN all : SameSource(all[x], news[k])
  BY <1>2, <1>5, KnownIs
<1> HIDE DEF all
<1>7. \A k \in 1 .. n : indexes[k] \in DOMAIN all /\ SameSource(all[indexes[k]], news[k])
  BY <1>5, <1>6, PlaceIs
<1>8. DOMAIN indexes = 1 .. n /\ indexes = [k \in 1 .. n |-> indexes[k]]
  BY <1>5
<1> HIDE DEF indexes
<1>9. EvidenceTyped'
  <2>1. indexes \in [1 .. n -> DOMAIN all]
    BY <1>7, <1>8
  <2> QED  BY <1>1, <1>3, <1>4, <2>1 DEF EvidenceTyped
<1>10. /\ Gone' = 0 /\ evidence'.ranges = e.ranges /\ evidence'.sensitive = e.sensitive
       /\ evidence'.params = e.params /\ evidence'.indexes = indexes
  BY <1>1, <1>4 DEF Gone, n
<1>11. LoopTyped'
  <2>1. contexts' \in [DOMAIN sources' -> Seq(ContextRange)]
    <3>1. <<>> \in Seq(ContextRange)
      OBVIOUS
    <3> QED  BY <1>1, <3>1
  <2>2. \A j \in DOMAIN tainted' : tainted'[j] = evidence'.ranges[Gone' + j]
    BY <1>1, <1>4, <1>10
  <2>3. at' \in 0 .. Length /\ start' \in 0 .. at'
    BY <1>1, ReportsAssumption
  <2>4. tainted' \in Seq(TextRanges) /\ Len(tainted') <= Len(evidence'.ranges)
    BY <1>1, <1>3, <1>4, <1>10 DEF n
  <2> QED  BY <1>1, <1>3, <2>1, <2>2, <2>3, <2>4 DEF LoopTyped
<1>12. SourcesTheirs'
  <2>1. \A k \in 1 .. n : /\ all[indexes[k]].param = e.params[k]
                          /\ all[indexes[k]].text = SourceText(e.params[k], e.ranges[k])
                          /\ ~all[indexes[k]].deleted
    BY <1>5, <1>7 DEF SameSource
  <2>2. \A x \in DOMAIN all : ~(all[x].redacted /\ ~all[x].deleted)
    BY <1>2, <1>6 DEF NoneLeft, Untouched
  <2> QED  BY <1>1, <1>4, <1>10, <2>1, <2>2 DEF SourcesTheirs
<1>13. InPlace'
  <2>1. \A j \in DOMAIN e.ranges : 0 <= e.ranges[j].start
    BY <1>4, TextRangesAre
  <2>2. \A j \in DOMAIN e.sensitive : 0 <= e.sensitive[j].start
    BY <1>3, TextRangesAre
  <2> QED  BY <1>1, <1>10, <2>1, <2>2 DEF InPlace
<1>14. \A x \in DOMAIN all : contexts'[x] = <<>>
  BY <1>1
<1>15. Covered'
  <2>1. \A p : ~Carries(p)'
    <3>1. tainted' # <<>> => SourceIndex' \in DOMAIN all
      <4> SUFFICES ASSUME e.ranges # <<>> PROVE SourceIndex' \in DOMAIN all
        BY <1>1
      <4>1. n >= 1 /\ Place' = 1
        BY <1>1, <1>3, <1>4, <1>10 DEF n, Place
      <4> QED  BY <1>4, <1>7, <1>10, <4>1 DEF SourceIndex
    <3> QED  BY <1>14, <3>1 DEF Carries
  <2>2. \A p : Sensitive(p)' <=> Left(p)'
    BY <1>1, <1>10 DEF Sensitive, Left
  <2> QED  BY <2>1, <2>2 DEF Covered
<1>16. Carried'
  BY <1>1, <1>14 DEF Carried
<1>17. SecretsFound'
  BY <1>10 DEF SecretsFound
<1>18. ToldSoFar'
  <2>1. Tells(<<>>, {})
    BY PartsTyped DEF Tells, InTextOrder, Shown
  <2>2. {p \in 0 .. start' - 1 : ~Secret(p)'} = {} /\ start' .. at' - 1 = {}
    BY <1>1
  <2> QED  BY <1>1, <2>1, <2>2 DEF ToldSoFar
<1>19. LoopInv'
  BY <1>9, <1>11, <1>12, <1>13, <1>15, <1>16, <1>17, <1>18 DEF LoopInv
<1>20. EvidenceScrubbed'
  BY <1>1 DEF EvidenceScrubbed
<1> QED  BY <1>1, <1>2, <1>6, <1>19, <1>20 DEF RedactionInv

\* The end of the loop keeps it: the sources that are redacted lose their value.
LEMMA FinishKeeps == RedactionInv /\ Finish => RedactionInv'
<1> SUFFICES ASSUME RedactionInv, Finish PROVE RedactionInv'
  OBVIOUS
<1>1. /\ phase = "loop" /\ at >= Length /\ phase' = "done"
      /\ sources' = [k \in DOMAIN sources |->
                       IF k \in redactedSources THEN [sources[k] EXCEPT !.deleted = TRUE] ELSE sources[k]]
      /\ valueParts' = valueParts \o Clear(Sub(Value, start, Length))
      /\ UNCHANGED <<formatted, evidence>>
  BY DEF Finish
<1>2. LoopInv /\ sources \in Seq(SourceRecords) /\ formatted \in Nat
  BY <1>1, InLoop
<1>3. EvidenceTyped /\ LoopTyped /\ SourcesTheirs /\ InPlace /\ Covered /\ Carried /\ SecretsFound
      /\ ToldSoFar
  BY <1>2 DEF LoopInv
<1>4. at = Length /\ start \in 0 .. Length /\ start \in Int /\ Length \in Nat
      /\ redactedSources \subseteq DOMAIN sources
  BY <1>1, <1>3, ReportsAssumption DEF LoopTyped
<1>5. /\ sources' \in Seq(SourceRecords)
      /\ \A x \in DOMAIN sources : /\ x \in DOMAIN sources'
                                   /\ x \in redactedSources => sources'[x].deleted
      /\ NoneLeft'
  <2>1. \A x \in DOMAIN sources : sources[x] \in SourceRecords
    BY <1>2
  <2>2. \A r \in SourceRecords : /\ [r EXCEPT !.deleted = TRUE] \in SourceRecords
                                 /\ [r EXCEPT !.deleted = TRUE].deleted
    BY DEF SourceRecords
  <2>3. DOMAIN sources = 1 .. Len(sources) /\ Len(sources) \in Nat
    BY <1>2
  <2>4. sources' \in [1 .. Len(sources) -> SourceRecords]
    BY <1>1, <2>1, <2>2, <2>3
  <2>5. sources' \in Seq(SourceRecords)
    BY <2>3, <2>4
  <2>6. \A x \in DOMAIN sources : /\ x \in DOMAIN sources'
                                  /\ x \in redactedSources => sources'[x].deleted
                                  /\ x \notin redactedSources => sources'[x] = sources[x]
    BY <1>1, <2>1, <2>2
  <2>7. DOMAIN sources' = DOMAIN sources
    BY <1>1
  <2>8. NoneLeft'
    BY <1>3, <2>6, <2>7 DEF NoneLeft, SourcesTheirs
  <2> QED  BY <2>5, <2>6, <2>8
<1>6. \A p : Secret(p)' <=> Secret(p)
  BY <1>1 DEF Secret
<1>7. ASSUME AllKept
      PROVE  Tells(valueParts', {p \in 0 .. Length - 1 : ~Secret(p)})
  <2>1. Tells(valueParts, {p \in 0 .. start - 1 : ~Secret(p)}) /\ \A p \in start .. Length - 1 : ~Secret(p)
    BY <1>3, <1>4, <1>7 DEF ToldSoFar
  <2>2. Tells(Clear(Sub(Value, start, Length)), start .. Length - 1)
    <3>1. Length \in 0 .. Length /\ Length \in Int /\ start <= Length
      BY <1>4
    <3>2. IsRun(Sub(Value, start, Length), start, Length)
      BY <1>4, <3>1, TextIsRun
    <3> QED  BY <1>4, <3>1, <3>2, ClearTells
  <2> DEFINE S == {p \in 0 .. start - 1 : ~Secret(p)}
             T == start .. Length - 1
  <2>3. \A p \in S, q \in T : p < q
    BY <1>4
  <2>4. \A p : p \in S \cup T <=> p \in {q \in 0 .. Length - 1 : ~Secret(q)}
    <3>1. \A p \in 0 .. Length - 1 : p \in 0 .. start - 1 \/ p \in T
      BY <1>4
    <3>2. \A p : p \in 0 .. start - 1 \/ p \in T => p \in 0 .. Length - 1
      BY <1>4
    <3> QED  BY <2>1, <3>1, <3>2
  <2>5. S \cup T = {p \in 0 .. Length - 1 : ~Secret(p)}
    BY <2>4
  <2> HIDE DEF S, T
  <2>6. Tells(valueParts', S \cup T)
    BY <1>1, <2>1, <2>2, <2>3, Joined DEF S, T
  <2> QED  BY <2>5, <2>6
<1>8. ASSUME NEW k \in DOMAIN evidence.ranges, NEW p \in 0 .. Length - 1,
             Holds(evidence.ranges[k], p), Secret(p)
      PROVE  sources'[evidence.indexes[k]].deleted
  <2>1. CASE k \in 1 .. Gone
    <3>1. evidence.indexes[k] \in redactedSources
      BY <1>3, <1>8, <2>1 DEF SecretsFound
    <3> QED  BY <1>4, <1>5, <3>1
  <2>2. CASE k - Gone \in DOMAIN tainted
    <3>1. Gone + (k - Gone) = k
      BY <1>2, <1>8, NextIs
    <3>2. tainted[k - Gone] = evidence.ranges[k] /\ at <= tainted[k - Gone].start
          /\ tainted[k - Gone] \in TextRanges
      BY <1>3, <2>2, <3>1 DEF LoopTyped, InPlace
    <3>3. FALSE
      BY <1>4, <1>8, <3>2, TextRangesAre DEF Holds
    <3> QED  BY <3>3
  <2> QED  BY <1>2, <1>8, <2>1, <2>2, NextIs
<1>9. EvidenceScrubbed'
  <2> SUFFICES ASSUME AllKept'
               PROVE  /\ Shown(valueParts') = {p \in 0 .. Length - 1 : ~Secret(p)'}
                      /\ InTextOrder(valueParts')
                      /\ \A k \in DOMAIN evidence'.ranges :
                            (\E p \in 0 .. Length - 1 : Holds(evidence'.ranges[k], p) /\ Secret(p)') =>
                                sources'[evidence'.indexes[k]].deleted
    BY DEF EvidenceScrubbed, AllKept
  <2>1. AllKept
    BY <1>1 DEF AllKept
  <2>2. Shown(valueParts') = {p \in 0 .. Length - 1 : ~Secret(p)} /\ InTextOrder(valueParts')
    BY <1>7, <2>1 DEF Tells
  <2>3. {p \in 0 .. Length - 1 : ~Secret(p)} = {p \in 0 .. Length - 1 : ~Secret(p)'}
    BY <1>6
  <2> QED  BY <1>1, <1>6, <1>8, <2>2, <2>3
<1> QED  BY <1>1, <1>2, <1>5, <1>9 DEF RedactionInv

\* A position of some range of a list.
HoldsSome(ranges, p) == \E k \in DOMAIN ranges : Holds(ranges[k], p)

\* What the first range of a list has, and what the others have.
LEMMA TailIs ==
    ASSUME NEW q \in Seq(TextRanges), Sorted(q), q # <<>>
    PROVE  /\ 1 \in DOMAIN q /\ q[1] \in TextRanges /\ q[1].start <= q[1].end
           /\ Tail(q) \in Seq(TextRanges) /\ Sorted(Tail(q))
           /\ \A j \in DOMAIN Tail(q) : q[1].end <= Tail(q)[j].start
           /\ \A p : HoldsSome(q, p) <=> Holds(q[1], p) \/ HoldsSome(Tail(q), p)
<1> DEFINE r == Tail(q)
           n == Len(q)
<1>1. /\ n \in Nat /\ n >= 1 /\ DOMAIN q = 1 .. n /\ r \in Seq(TextRanges)
      /\ DOMAIN r = 1 .. n - 1 /\ \A j \in 1 .. n - 1 : r[j] = q[j + 1]
      /\ q[1] \in TextRanges
  OBVIOUS
<1> HIDE DEF r, n
<1>2. /\ 1 \in DOMAIN q /\ \A j \in DOMAIN r : j + 1 \in DOMAIN q /\ r[j] = q[j + 1] /\ 1 \in 1 .. (j + 1) - 1
  BY <1>1
<1>3. \A j \in DOMAIN q : j = 1 \/ (j - 1 \in DOMAIN r /\ r[j - 1] = q[j])
  BY <1>1
<1>4. q[1].start <= q[1].end /\ \A j \in DOMAIN r : q[1].end <= r[j].start
  BY <1>2 DEF Sorted
<1>5. Sorted(r)
  <2>1. ASSUME NEW k \in DOMAIN r
        PROVE  r[k].start <= r[k].end /\ \A j \in 1 .. k - 1 : r[j].end <= r[k].start
    <3>1. \A j \in 1 .. k - 1 : j \in DOMAIN r /\ j + 1 \in 1 .. (k + 1) - 1
      BY <1>1
    <3> QED  BY <1>2, <3>1 DEF Sorted
  <2> QED  BY <2>1 DEF Sorted
<1>6. \A p : HoldsSome(q, p) <=> Holds(q[1], p) \/ HoldsSome(r, p)
  BY <1>2, <1>3 DEF HoldsSome
<1> QED  BY <1>1, <1>2, <1>4, <1>5, <1>6 DEF r

\* A range put in front of a list holds its positions besides those of the list.
LEMMA PushIs ==
    ASSUME NEW r \in TextRanges, r.start <= r.end, NEW q \in Seq(TextRanges), Sorted(q),
           \A j \in DOMAIN q : r.end <= q[j].start
    PROVE  /\ <<r>> \o q \in Seq(TextRanges) /\ Sorted(<<r>> \o q)
           /\ \A j \in DOMAIN (<<r>> \o q) :
                 (<<r>> \o q)[j] = r \/ \E i \in DOMAIN q : (<<r>> \o q)[j] = q[i]
           /\ \A p : HoldsSome(<<r>> \o q, p) <=> Holds(r, p) \/ HoldsSome(q, p)
<1> DEFINE s == <<r>> \o q
           n == Len(q)
<1>1. /\ n \in Nat /\ DOMAIN q = 1 .. n /\ s \in Seq(TextRanges) /\ DOMAIN s = 1 .. n + 1
      /\ s[1] = r /\ \A j \in 1 .. n : s[j + 1] = q[j]
  OBVIOUS
<1> HIDE DEF s, n
<1>2. /\ 1 \in DOMAIN s /\ \A j \in DOMAIN q : j + 1 \in DOMAIN s /\ s[j + 1] = q[j]
  BY <1>1
<1>3. \A j \in DOMAIN s : j = 1 \/ (j - 1 \in DOMAIN q /\ s[j] = q[j - 1])
  <2> SUFFICES ASSUME NEW j \in DOMAIN s, j # 1 PROVE j - 1 \in DOMAIN q /\ s[j] = q[j - 1]
    OBVIOUS
  <2>1. j - 1 \in 1 .. n /\ (j - 1) + 1 = j
    BY <1>1
  <2> QED  BY <1>1, <2>1
<1>4. Sorted(s)
  <2>1. ASSUME NEW k \in DOMAIN s
        PROVE  s[k].start <= s[k].end /\ \A j \in 1 .. k - 1 : s[j].end <= s[k].start
    <3>1. CASE k = 1
      BY <1>1, <3>1
    <3>2. CASE k - 1 \in DOMAIN q /\ s[k] = q[k - 1]
      <4>1. q[k - 1].start <= q[k - 1].end /\ \A i \in 1 .. (k - 1) - 1 : q[i].end <= q[k - 1].start
        BY <3>2 DEF Sorted
      <4>2. ASSUME NEW j \in 1 .. k - 1 PROVE s[j].end <= s[k].start
        <5>1. j \in DOMAIN s /\ (j = 1 \/ j - 1 \in 1 .. (k - 1) - 1)
          BY <1>1, <4>2
        <5> QED  BY <1>1, <1>3, <3>2, <4>1, <5>1
      <4> QED  BY <3>2, <4>1, <4>2
    <3> QED  BY <1>3, <3>1, <3>2
  <2> QED  BY <2>1 DEF Sorted
<1>5. \A p : HoldsSome(s, p) <=> Holds(r, p) \/ HoldsSome(q, p)
  BY <1>1, <1>2, <1>3 DEF HoldsSome
<1> QED  BY <1>1, <1>3, <1>4, <1>5 DEF s

\* The text of the program before the turn is told.
LEMMA ToldToHere ==
    ASSUME LoopInv, AllKept
    PROVE  Tells(valueParts \o Clear(Sub(Value, start, at)), {p \in 0 .. at - 1 : ~Secret(p)})
<1>1. at \in 0 .. Length /\ at \in Int /\ start \in 0 .. at /\ start \in Int /\ Length \in Nat
  BY ReportsAssumption DEF LoopInv, LoopTyped
<1> DEFINE S == {p \in 0 .. start - 1 : ~Secret(p)}
           T == start .. at - 1
<1>2. Tells(valueParts, S) /\ \A p \in T : ~Secret(p)
  BY DEF LoopInv, ToldSoFar
<1>3. Tells(Clear(Sub(Value, start, at)), T)
  <2>1. start \in 0 .. Length /\ start <= at
    BY <1>1
  <2>2. IsRun(Sub(Value, start, at), start, at)
    BY <1>1, <2>1, TextIsRun
  <2> QED  BY <1>1, <2>1, <2>2, ClearTells
<1>4. \A p \in S, q \in T : p < q
  BY <1>1
<1>5. \A p : p \in S \cup T <=> p \in {q \in 0 .. at - 1 : ~Secret(q)}
  <2>1. \A p \in 0 .. at - 1 : p \in 0 .. start - 1 \/ p \in T
    BY <1>1
  <2>2. \A p : p \in 0 .. start - 1 \/ p \in T => p \in 0 .. at - 1
    BY <1>1
  <2> QED  BY <1>2, <2>1, <2>2
<1>6. S \cup T = {p \in 0 .. at - 1 : ~Secret(p)}
  BY <1>5
<1> HIDE DEF S, T
<1>7. Tells(valueParts \o Clear(Sub(Value, start, at)), S \cup T)
  BY <1>2, <1>3, <1>4, Joined
<1> QED  BY <1>6, <1>7

\* A turn at which a sensitive range starts keeps it.
LEMMA SensitiveKeeps == RedactionInv /\ SensitiveTurn => RedactionInv'
<1> SUFFICES ASSUME RedactionInv, SensitiveTurn PROVE RedactionInv'
  OBVIOUS
<1> DEFINE t == tainted[1]
           s == sensitive[1]
           x == SourceIndex
           reaches == tainted # <<>> /\ intersects(s, t)
           over == reaches /\ t.end < s.end
           entries == IF reaches THEN remove(s, t) ELSE <<s>>
           m == IF reaches THEN t.start ELSE s.end
           rest == [start |-> t.end, end |-> s.end]
<1>1. /\ phase = "loop" /\ at < Length
      /\ ~(tainted # <<>> /\ t.start = at) /\ sensitive # <<>> /\ s.start = at
      /\ valueParts' = Append(valueParts \o Clear(Sub(Value, start, at)), Hidden)
      /\ at' = entries[1].end /\ start' = entries[1].end
      /\ sensitive' = Tail(entries) \o Tail(sensitive)
      /\ reaches => /\ RedactSource(x, <<s>>)
                    /\ contexts' = [contexts EXCEPT ![x] = Append(@, Relative(s))]
      /\ ~reaches => UNCHANGED <<redactedSources, sources, contexts>>
      /\ UNCHANGED <<formatted, phase, evidence, tainted>>
  BY DEF SensitiveTurn
<1>2. LoopInv /\ sources \in Seq(SourceRecords) /\ formatted \in Nat
  BY <1>1, InLoop
<1>3. EvidenceTyped /\ LoopTyped /\ SourcesTheirs /\ InPlace /\ Covered /\ Carried /\ SecretsFound
      /\ ToldSoFar
  BY <1>2 DEF LoopInv
<1>4. at \in 0 .. Length /\ at \in Int /\ start \in 0 .. at /\ start \in Int /\ Length \in Nat
  BY <1>3, ReportsAssumption DEF LoopTyped
<1>5. /\ s \in TextRanges /\ s.start \in Int /\ s.end \in 0 .. Length /\ s.end \in Int
      /\ s.start <= s.end
      /\ Tail(sensitive) \in Seq(TextRanges) /\ Sorted(Tail(sensitive))
      /\ \A j \in DOMAIN Tail(sensitive) : s.end <= Tail(sensitive)[j].start
      /\ \A p : Left(p) <=> Holds(s, p) \/ HoldsSome(Tail(sensitive), p)
  <2>1. sensitive \in Seq(TextRanges) /\ Sorted(sensitive)
    BY <1>3 DEF LoopTyped
  <2>2. \A p : Left(p) <=> HoldsSome(sensitive, p)
    BY DEF Left, HoldsSome
  <2> QED  BY <1>1, <2>1, <2>2, TailIs, TextRangesAre
<1>6. tainted # <<>> =>
         /\ t \in TextRanges /\ t.start \in 0 .. Length /\ t.end \in 0 .. Length
         /\ t.start \in Int /\ t.end \in Int /\ t.start <= t.end /\ at < t.start
         /\ x \in DOMAIN sources /\ \A j \in DOMAIN tainted : t.start <= tainted[j].start
  <2> SUFFICES ASSUME tainted # <<>>
               PROVE  /\ t \in TextRanges /\ t.start \in 0 .. Length /\ t.end \in 0 .. Length
                      /\ t.start \in Int /\ t.end \in Int /\ t.start <= t.end /\ at < t.start
                      /\ x \in DOMAIN sources /\ \A j \in DOMAIN tainted : t.start <= tainted[j].start
    OBVIOUS
  <2>1. /\ 1 \in DOMAIN tainted /\ t \in TextRanges /\ t.start <= t.end /\ x \in DOMAIN sources
        /\ \A j \in DOMAIN tainted : j # 1 => t.end <= tainted[j].start
    BY <1>2, NextIs
  <2>2. /\ t.start \in 0 .. Length /\ t.end \in 0 .. Length /\ t.start \in Int /\ t.end \in Int
        /\ at <= t.start
    BY <1>3, <2>1, TextRangesAre DEF InPlace
  <2>3. \A j \in DOMAIN tainted : tainted[j].start \in Int
    BY <1>3, TextRangesAre DEF LoopTyped
  <2>4. at < t.start
    <3>1. t.start # at
      BY <1>1
    <3> QED  BY <1>4, <2>2, <3>1
  <2>5. \A j \in DOMAIN tainted : t.start <= tainted[j].start
    BY <2>1, <2>2, <2>3
  <2> QED  BY <2>1, <2>2, <2>4, <2>5
<1>7. /\ reaches => tainted # <<>> /\ t.start < s.end
      /\ ~reaches /\ tainted # <<>> => s.end <= t.start
  BY <1>1, <1>4, <1>5, <1>6 DEF intersects
<1> HIDE DEF t, s, x, reaches
<1>8. at' = m /\ start' = m /\ sensitive' = (IF over THEN <<rest>> ELSE <<>>) \o Tail(sensitive)
  <2>1. CASE ~reaches
    BY <1>1, <1>5, <2>1
  <2>2. CASE reaches
    <3>1. ~contains(t, s) /\ t.start > s.start /\ intersects(s, t)
      BY <1>1, <1>4, <1>5, <1>6, <1>7, <2>2 DEF contains, reaches
    <3>2. entries = <<[start |-> s.start, end |-> t.start]>> \o (IF over THEN <<rest>> ELSE <<>>)
      BY <2>2, <3>1 DEF remove
    <3> DEFINE first == [start |-> s.start, end |-> t.start]
    <3>3. CASE over
      <4>1. entries = <<first, rest>>
        BY <3>2, <3>3
      <4>1a. first.end = t.start
        OBVIOUS
      <4> HIDE DEF entries, first, rest
      <4>2. entries[1] = first /\ Tail(entries) = <<rest>>
        BY <4>1
      <4> QED  BY <1>1, <2>2, <3>3, <4>1a, <4>2
    <3>4. CASE ~over
      <4>1. entries = <<first>>
        BY <3>2, <3>4
      <4>1a. first.end = t.start
        OBVIOUS
      <4> HIDE DEF entries, first, rest
      <4>2. entries[1] = first /\ Tail(entries) = <<>>
        BY <4>1
      <4> QED  BY <1>1, <2>2, <3>4, <4>1a, <4>2
    <3> QED  BY <3>3, <3>4
  <2> QED  BY <2>1, <2>2
<1>9. m \in at .. Length /\ m \in Int /\ m <= s.end
  BY <1>1, <1>4, <1>5, <1>6, <1>7
<1>10. over => /\ rest \in TextRanges /\ rest.start = t.end /\ rest.end = s.end /\ rest.start <= rest.end
  BY <1>5, <1>6, <1>7 DEF TextRanges
<1> HIDE DEF over
<1>10a. over => reaches /\ t.end < s.end
  BY DEF over
<1>10b. reaches /\ ~over => s.end <= t.end
  BY <1>5, <1>6, <1>7 DEF over
<1> HIDE DEF entries, m, rest
<1>11. /\ sensitive' \in Seq(TextRanges) /\ Sorted(sensitive')
       /\ \A j \in DOMAIN sensitive' :
             sensitive'[j].start \in Int
             /\ (s.end <= sensitive'[j].start \/ (over /\ sensitive'[j].start = t.end))
       /\ \A p : Left(p)' <=> (over /\ Holds(rest, p)) \/ HoldsSome(Tail(sensitive), p)
  <2>1. \A p : Left(p)' <=> HoldsSome(sensitive', p)
    BY DEF Left, HoldsSome
  <2>2. CASE over
    <3>1. sensitive' = <<rest>> \o Tail(sensitive)
      BY <1>8, <2>2
    <3>2. /\ sensitive' \in Seq(TextRanges) /\ Sorted(sensitive')
          /\ \A j \in DOMAIN sensitive' :
                sensitive'[j] = rest \/ \E i \in DOMAIN Tail(sensitive) : sensitive'[j] = Tail(sensitive)[i]
          /\ \A p : HoldsSome(sensitive', p) <=> Holds(rest, p) \/ HoldsSome(Tail(sensitive), p)
      <4>1. /\ rest \in TextRanges /\ rest.start <= rest.end
            /\ \A j \in DOMAIN Tail(sensitive) : rest.end <= Tail(sensitive)[j].start
        BY <1>5, <1>10, <2>2
      <4> DEFINE q == Tail(sensitive)
      <4>2. q \in Seq(TextRanges) /\ Sorted(q) /\ \A j \in DOMAIN q : rest.end <= q[j].start
        BY <1>5, <4>1
      <4> HIDE DEF q
      <4>3. /\ <<rest>> \o q \in Seq(TextRanges) /\ Sorted(<<rest>> \o q)
            /\ \A j \in DOMAIN (<<rest>> \o q) :
                  (<<rest>> \o q)[j] = rest \/ \E i \in DOMAIN q : (<<rest>> \o q)[j] = q[i]
            /\ \A p : HoldsSome(<<rest>> \o q, p) <=> Holds(rest, p) \/ HoldsSome(q, p)
        BY <4>1, <4>2, PushIs
      <4> QED  BY <3>1, <4>3, Zenon DEF q
    <3>3. \A j \in DOMAIN sensitive' : sensitive'[j].start \in Int
      BY <3>2, TextRangesAre
    <3> QED  BY <1>5, <1>10, <2>1, <2>2, <3>2, <3>3
  <2>3. CASE ~over
    <3>1. sensitive' = Tail(sensitive)
      BY <1>5, <1>8, <2>3
    <3>2. \A j \in DOMAIN sensitive' : sensitive'[j].start \in Int
      BY <1>5, <3>1, TextRangesAre
    <3> QED  BY <1>5, <2>1, <2>3, <3>1, <3>2
  <2> QED  BY <2>2, <2>3
<1>12. \A y \in DOMAIN sources : contexts[y] = <<>>
  BY <1>1, <1>3 DEF Carried, t
<1>13. /\ DOMAIN sources' = DOMAIN sources /\ sources' \in Seq(SourceRecords)
       /\ redactedSources \subseteq redactedSources' /\ redactedSources' \subseteq DOMAIN sources
       /\ reaches => x \in redactedSources'
       /\ \A y \in DOMAIN sources :
             /\ sources'[y].param = sources[y].param /\ sources'[y].text = sources[y].text
             /\ sources'[y].deleted = sources[y].deleted
             /\ sources'[y].redacted /\ ~sources'[y].deleted => y \in redactedSources'
  <2>1. CASE ~reaches
    BY <1>1, <1>2, <1>3, <2>1 DEF SourcesTheirs, LoopTyped
  <2>2. CASE reaches
    <3>1. x \in DOMAIN sources
      BY <1>6, <1>7, <2>2
    <3>2. /\ redactedSources' = IF ~sources[x].redacted THEN redactedSources \cup {x} ELSE redactedSources
          /\ sources' = [sources EXCEPT ![x].redacted = TRUE]
      BY <1>1, <2>2 DEF RedactSource
    <3>3. ~sources[x].deleted
      <4>1. Place \in DOMAIN evidence.ranges
        BY <1>2, <1>7, <2>2, NextIs
      <4> QED  BY <1>3, <4>1 DEF SourcesTheirs, SourceIndex, x
    <3>4. x \in redactedSources'
      BY <1>3, <3>1, <3>2, <3>3 DEF SourcesTheirs
    <3>5. /\ DOMAIN sources = 1 .. Len(sources) /\ Len(sources) \in Nat
          /\ \A y \in DOMAIN sources : sources[y] \in SourceRecords
      BY <1>2
    <3>6. \A r \in SourceRecords :
             LET q == [r EXCEPT !.redacted = TRUE]
             IN  q \in SourceRecords /\ q.param = r.param /\ q.text = r.text /\ q.deleted = r.deleted
      BY DEF SourceRecords
    <3>7. \A y \in DOMAIN sources : sources'[y] = IF y = x THEN [sources[x] EXCEPT !.redacted = TRUE]
                                                  ELSE sources[y]
      BY <3>1, <3>2
    <3>8. sources' \in [1 .. Len(sources) -> SourceRecords]
      BY <3>1, <3>2, <3>5, <3>6
    <3>9. DOMAIN sources' = DOMAIN sources /\ sources' \in Seq(SourceRecords)
      BY <3>5, <3>8
    <3>10. \A y \in DOMAIN sources :
             /\ sources'[y].param = sources[y].param /\ sources'[y].text = sources[y].text
             /\ sources'[y].deleted = sources[y].deleted
             /\ y # x => sources'[y].redacted = sources[y].redacted
      BY <3>5, <3>6, <3>7
    <3>11. redactedSources \subseteq redactedSources' /\ redactedSources' \subseteq DOMAIN sources
      BY <1>3, <3>1, <3>2 DEF LoopTyped
    <3>12. \A y \in DOMAIN sources : sources'[y].redacted /\ ~sources'[y].deleted => y \in redactedSources'
      BY <1>3, <3>4, <3>10, <3>11 DEF SourcesTheirs
    <3> QED  BY <3>4, <3>9, <3>10, <3>11, <3>12
  <2> QED  BY <2>1, <2>2
<1> DEFINE context == [start |-> s.start - t.start, end |-> s.end - t.start]
<1>14. /\ contexts' \in [DOMAIN sources -> Seq(ContextRange)]
       /\ \A y \in DOMAIN sources : contexts'[y] = IF reaches /\ y = x THEN <<context>> ELSE <<>>
  <2>1. contexts \in [DOMAIN sources -> Seq(ContextRange)]
    BY <1>3 DEF LoopTyped
  <2>2. CASE ~reaches
    BY <1>1, <1>12, <2>1, <2>2
  <2>3. CASE reaches
    <3>1. x \in DOMAIN sources /\ contexts[x] = <<>>
      BY <1>6, <1>7, <1>12, <2>3
    <3>2. Relative(s) = context
      BY DEF Relative, t
    <3>3. context \in ContextRange
      BY <1>5, <1>6, <1>7, <2>3 DEF ContextRange
    <3> HIDE DEF context
    <3>4. contexts' = [contexts EXCEPT ![x] = <<context>>]
      BY <1>1, <2>3, <3>1, <3>2
    <3>5. <<context>> \in Seq(ContextRange)
      BY <3>3
    <3> QED  BY <1>12, <2>1, <2>3, <3>1, <3>4, <3>5
  <2> QED  BY <2>2, <2>3
<1> HIDE DEF context
<1>14a. reaches => /\ context.start = s.start - t.start /\ context.end = s.end - t.start
                   /\ context.start < 0 /\ 0 < context.end
  BY <1>1, <1>4, <1>5, <1>6, <1>7 DEF context
<1>15. EvidenceTyped'
  BY <1>1, <1>3, <1>13 DEF EvidenceTyped
<1>16. LoopTyped'
  <2>1. at' \in 0 .. Length /\ start' \in 0 .. at'
    BY <1>4, <1>8, <1>9
  <2> QED  BY <1>1, <1>3, <1>11, <1>13, <1>14, <2>1 DEF LoopTyped, Gone
<1>17. SourcesTheirs'
  <2>1. \A k \in DOMAIN evidence.ranges : evidence.indexes[k] \in DOMAIN sources
    BY <1>3 DEF EvidenceTyped
  <2> QED  BY <1>1, <1>3, <1>13, <2>1 DEF SourcesTheirs
<1>18. InPlace'
  <2>1. \A j \in DOMAIN tainted : m <= tainted[j].start
    <3> SUFFICES ASSUME NEW j \in DOMAIN tainted PROVE m <= tainted[j].start
      OBVIOUS
    <3>1. tainted # <<>> /\ tainted[j].start \in Int
      BY <1>3, TextRangesAre DEF LoopTyped
    <3>2. m <= t.start
      BY <1>5, <1>6, <1>7, <3>1 DEF m
    <3> QED  BY <1>6, <1>9, <3>1, <3>2
  <2>2. \A j \in DOMAIN sensitive' : m <= sensitive'[j].start
    <3> SUFFICES ASSUME NEW j \in DOMAIN sensitive' PROVE m <= sensitive'[j].start
      OBVIOUS
    <3>1. over => m <= t.end
      BY <1>6, <1>7, <1>10a DEF m
    <3>2. sensitive'[j].start \in Int /\ (s.end <= sensitive'[j].start \/ (over /\ sensitive'[j].start = t.end))
      BY <1>11
    <3> QED  BY <1>5, <1>9, <3>1, <3>2
  <2>3. \A k \in 1 .. Gone : evidence.ranges[k].end <= m
    <3> SUFFICES ASSUME NEW k \in 1 .. Gone PROVE evidence.ranges[k].end <= m
      OBVIOUS
    <3>1. k \in DOMAIN evidence.ranges
      BY <1>2, NextIs
    <3>2. evidence.ranges[k].end <= start /\ evidence.ranges[k].end \in Int
      BY <1>3, <3>1, TextRangesAre DEF InPlace, EvidenceTyped
    <3> QED  BY <1>4, <1>9, <3>2
  <2> QED  BY <1>1, <1>8, <2>1, <2>2, <2>3 DEF InPlace, Gone
<1>19. \A p : Carries(p)' <=> reaches /\ p < t.end /\ Holds(context, p - t.start)
  <2>1. x' = x /\ SourceIndex' = x /\ tainted' = tainted
    BY <1>1 DEF x, SourceIndex, Place
  <2>2. CASE reaches
    <3>1. tainted # <<>> /\ contexts'[x] = <<context>>
      BY <1>6, <1>7, <1>14, <2>2
    <3>2. DOMAIN contexts'[x] = {1} /\ contexts'[x][1] = context
      BY <3>1
    <3> QED  BY <2>1, <2>2, <3>1, <3>2 DEF Carries, t
  <2>3. CASE ~reaches
    <3>1. tainted # <<>> => contexts'[x] = <<>>
      BY <1>6, <1>14, <2>3
    <3> QED  BY <2>1, <2>3, <3>1 DEF Carries
  <2> QED  BY <2>2, <2>3
<1>20. Covered'
  <2> SUFFICES ASSUME NEW p \in m .. Length - 1 PROVE (Sensitive(p) <=> Left(p) \/ Carries(p))'
    BY <1>8 DEF Covered
  <2>1. p \in at .. Length - 1 /\ p \in Int /\ p >= m /\ at <= p
    BY <1>4, <1>9
  <2>2. Sensitive(p)' <=> Sensitive(p)
    BY <1>1 DEF Sensitive
  <2>3. ~Carries(p)
    BY <1>6, <1>12 DEF Carries, x, t
  <2>4. Sensitive(p) <=> Holds(s, p) \/ HoldsSome(Tail(sensitive), p)
    BY <1>3, <1>5, <2>1, <2>3 DEF Covered
  <2>5. Holds(s, p) <=> p < s.end
    BY <1>1, <1>4, <1>5, <2>1 DEF Holds
  <2>6. (over /\ Holds(rest, p)) \/ (reaches /\ p < t.end /\ Holds(context, p - t.start)) <=> p < s.end
    <3>1. CASE ~reaches
      BY <1>5, <1>10a, <2>1, <3>1 DEF m
    <3>2. CASE reaches
      <4>1. /\ t.start \in Int /\ t.end \in Int /\ s.end \in Int /\ s.start \in Int /\ t.start <= t.end
            /\ s.start = at
        BY <1>1, <1>5, <1>6, <1>7, <3>2
      <4>2. p >= t.start
        BY <2>1, <3>2 DEF m
      <4>3. Holds(context, p - t.start) <=> p < s.end
        BY <1>14a, <2>1, <3>2, <4>1 DEF Holds
      <4>4. CASE over
        <5>1. Holds(rest, p) <=> t.end <= p /\ p < s.end
          BY <1>10, <4>4 DEF Holds
        <5> QED  BY <2>1, <3>2, <4>1, <4>3, <4>4, <5>1
      <4>5. CASE ~over
        <5>1. s.end <= t.end
          BY <1>10b, <3>2, <4>5
        <5> QED  BY <2>1, <3>2, <4>1, <4>3, <4>5, <5>1
      <4> QED  BY <4>4, <4>5
    <3> QED  BY <3>1, <3>2
  <2> QED  BY <1>11, <1>19, <2>2, <2>4, <2>5, <2>6
<1>21. Carried'
  <2> SUFFICES ASSUME NEW y \in DOMAIN sources, contexts'[y] # <<>>
               PROVE  /\ tainted' # <<>> /\ tainted'[1].start = at' /\ y = SourceIndex' /\ y \in redactedSources'
                      /\ Len(contexts'[y]) = 1
                      /\ contexts'[y][1].start < 0 /\ 0 < contexts'[y][1].end
                      /\ \A j \in DOMAIN sensitive' :
                            \/ sensitive'[j].start >= tainted'[1].end
                            \/ sensitive'[j].start >= tainted'[1].start + contexts'[y][1].end
    BY <1>13 DEF Carried
  <2>1. reaches /\ y = x /\ contexts'[y] = <<context>>
    BY <1>14
  <2>2. tainted' = tainted /\ tainted'[1] = t /\ SourceIndex' = x
    BY <1>1 DEF t, x, SourceIndex, Place
  <2>3. tainted # <<>> /\ at' = t.start
    BY <1>7, <1>8, <2>1 DEF m
  <2>4. Len(contexts'[y]) = 1 /\ contexts'[y][1] = context
    BY <2>1
  <2>5. t.start + context.end = s.end
    BY <1>5, <1>6, <1>7, <1>14a, <2>1
  <2>6. \A j \in DOMAIN sensitive' : sensitive'[j].start >= t.end \/ sensitive'[j].start >= s.end
    BY <1>5, <1>6, <1>7, <1>11, <2>1
  <2> QED  BY <1>13, <1>14a, <2>1, <2>2, <2>3, <2>4, <2>5, <2>6
<1>22. SecretsFound'
  <2>1. \A p : Secret(p)' <=> Secret(p)
    BY <1>1 DEF Secret
  <2> QED  BY <1>1, <1>3, <1>13, <2>1 DEF SecretsFound, Gone
<1>23. ToldSoFar'
  <2>1. \A p : Secret(p)' <=> Secret(p)
    BY <1>1 DEF Secret
  <2> SUFFICES ASSUME AllKept
               PROVE  Tells(valueParts', {p \in 0 .. m - 1 : ~Secret(p)'})
    <3>1. AllKept' <=> AllKept
      BY <1>1 DEF AllKept
    <3>2. start' .. at' - 1 = {}
      BY <1>8, <1>9
    <3> QED  BY <1>8, <3>1, <3>2 DEF ToldSoFar
  <2> DEFINE told == valueParts \o Clear(Sub(Value, start, at))
             S == {p \in 0 .. at - 1 : ~Secret(p)}
  <2>2. Tells(told, S)
    BY <1>2, ToldToHere
  <2>3. Tells(<<Hidden>>, {})
    BY HiddenTells
  <2>4. valueParts' = told \o <<Hidden>>
    <3>1. told \in Parts
      BY <2>2 DEF Tells
    <3> HIDE DEF told
    <3>2. Append(told, Hidden) = told \o <<Hidden>>
      BY <3>1 DEF Parts
    <3> QED  BY <1>1, <3>2 DEF told
  <2>5. \A p \in at .. m - 1 : Secret(p)
    <3> SUFFICES ASSUME NEW p \in at .. m - 1 PROVE Secret(p)
      OBVIOUS
    <3>1. p \in at .. Length - 1 /\ Holds(s, p)
      BY <1>1, <1>4, <1>5, <1>9 DEF Holds
    <3>2. Sensitive(p)
      BY <1>3, <1>5, <3>1 DEF Covered
    <3> QED  BY <3>2 DEF Sensitive, Secret
  <2>6. S \cup {} = {p \in 0 .. m - 1 : ~Secret(p)'}
    <3>1. \A p \in 0 .. m - 1 : p \in 0 .. at - 1 \/ p \in at .. m - 1
      BY <1>4, <1>9
    <3>2. \A p \in 0 .. at - 1 : p \in 0 .. m - 1
      BY <1>4, <1>9
    <3> QED  BY <2>1, <2>5, <3>1, <3>2
  <2> HIDE DEF told, S
  <2>7. Tells(told \o <<Hidden>>, S \cup {})
    BY <2>2, <2>3, Joined
  <2> QED  BY <2>4, <2>6, <2>7
<1>24. LoopInv'
  BY <1>15, <1>16, <1>17, <1>18, <1>20, <1>21, <1>22, <1>23 DEF LoopInv
<1>25. EvidenceScrubbed'
  BY <1>1 DEF EvidenceScrubbed
<1> QED  BY <1>1, <1>2, <1>13, <1>24, <1>25 DEF RedactionInv

\* A list of ranges cut in two.
LEMMA SplitIs ==
    ASSUME NEW q \in Seq(TextRanges), Sorted(q), NEW n \in 0 .. Len(q)
    PROVE  LET a == SubSeq(q, 1, n)
               b == SubSeq(q, n + 1, Len(q))
           IN  /\ a \in Seq(TextRanges) /\ Sorted(a) /\ b \in Seq(TextRanges) /\ Sorted(b)
               /\ DOMAIN a = 1 .. n /\ \A k \in 1 .. n : a[k] = q[k]
               /\ b # <<>> => n # Len(q) /\ b[1] = q[n + 1]
               /\ \A j \in DOMAIN a, k \in DOMAIN b : a[j].end <= b[k].start
               /\ \A k \in DOMAIN b : \E i \in DOMAIN q : b[k] = q[i]
               /\ \A p : HoldsSome(q, p) <=> HoldsSome(a, p) \/ HoldsSome(b, p)
<1> DEFINE a == SubSeq(q, 1, n)
           b == SubSeq(q, n + 1, Len(q))
           l == Len(q)
<1>1. /\ l \in Nat /\ n \in 0 .. l /\ DOMAIN q = 1 .. l
      /\ a \in Seq(TextRanges) /\ DOMAIN a = 1 .. n /\ \A k \in 1 .. n : a[k] = q[k]
      /\ b \in Seq(TextRanges) /\ DOMAIN b = 1 .. l - n /\ \A k \in 1 .. l - n : b[k] = q[n + k]
      /\ Len(b) = l - n
  <2>1. l \in Nat /\ n \in 0 .. l /\ DOMAIN q = 1 .. l /\ q \in [1 .. l -> TextRanges]
    OBVIOUS
  <2>2. /\ a = [k \in 1 .. n |-> q[k]] /\ Len(a) = n
        /\ b = [k \in 1 .. l - n |-> q[n + k]] /\ Len(b) = l - n
    <3>2. a \in Seq(TextRanges) /\ Len(a) = n /\ \A k \in 1 .. n : a[k] = q[k]
      OBVIOUS
    <3>3. b \in Seq(TextRanges) /\ Len(b) = l - n /\ \A k \in 1 .. l - n : b[k] = q[n + k]
      OBVIOUS
    <3> HIDE DEF a, b, l
    <3> QED  BY <2>1, <3>2, <3>3
  <2> HIDE DEF a, b, l
  <2>3. /\ \A k \in 1 .. n : q[k] \in TextRanges
        /\ \A k \in 1 .. l - n : q[n + k] \in TextRanges
    BY <2>1
  <2>4. a \in Seq(TextRanges) /\ DOMAIN a = 1 .. n /\ \A k \in 1 .. n : a[k] = q[k]
    BY <2>1, <2>2, <2>3
  <2>5. l - n \in Nat
    BY <2>1
  <2>6. b \in Seq(TextRanges) /\ DOMAIN b = 1 .. l - n /\ \A k \in 1 .. l - n : b[k] = q[n + k]
    BY <2>2, <2>3, <2>5
  <2> QED  BY <2>1, <2>2, <2>4, <2>6
<1> HIDE DEF a, b, l
<1>2. /\ \A k \in DOMAIN a : k \in DOMAIN q /\ a[k] = q[k]
      /\ \A k \in DOMAIN b : n + k \in DOMAIN q /\ b[k] = q[n + k]
      /\ \A k \in DOMAIN q : k \in DOMAIN a \/ (k - n \in DOMAIN b /\ b[k - n] = q[k])
  <2>1. \A k \in 1 .. l : k \in 1 .. n \/ (k - n \in 1 .. l - n /\ n + (k - n) = k)
    BY <1>1
  <2>2. \A k \in 1 .. l - n : n + k \in 1 .. l
    BY <1>1
  <2>3. \A k \in 1 .. n : k \in 1 .. l
    BY <1>1
  <2> QED  BY <1>1, <2>1, <2>2, <2>3
<1>3. Sorted(a)
  <2>1. \A k \in DOMAIN a : \A j \in 1 .. k - 1 : j \in DOMAIN a
    BY <1>1
  <2> QED  BY <1>2, <2>1 DEF Sorted
<1>4. Sorted(b)
  <2>1. \A k \in DOMAIN b : \A j \in 1 .. k - 1 : j \in DOMAIN b /\ n + j \in 1 .. (n + k) - 1
    BY <1>1
  <2> QED  BY <1>2, <2>1 DEF Sorted
<1>5. b # <<>> => n # l /\ b[1] = q[n + 1]
  <2> SUFFICES ASSUME b # <<>> PROVE n # l /\ b[1] = q[n + 1]
    OBVIOUS
  <2>1. Len(b) # 0
    BY <1>1
  <2> QED  BY <1>1, <2>1
<1>6. \A j \in DOMAIN a, k \in DOMAIN b : a[j].end <= b[k].start
  <2>1. \A j \in DOMAIN a, k \in DOMAIN b : j \in 1 .. (n + k) - 1
    BY <1>1
  <2> QED  BY <1>2, <2>1 DEF Sorted
<1>7. \A p : HoldsSome(q, p) <=> HoldsSome(a, p) \/ HoldsSome(b, p)
  BY <1>2 DEF HoldsSome
<1>8. \A k \in DOMAIN b : \E i \in DOMAIN q : b[k] = q[i]
  BY <1>2
<1> QED  BY <1>1, <1>3, <1>4, <1>5, <1>6, <1>7, <1>8 DEF a, b, l

\* What the tainted range takes of the sensitive ranges, and what it leaves.
Cut == Filled(Inside) \o (IF Crossing THEN <<After[1]>> ELSE <<>>)
Rest == IF Crossing THEN remove(After[1], tainted[1]) \o Tail(After) ELSE After

\* A tainted range has the sensitive ranges up to its end, and leaves those from
\* its end on.
LEMMA CutIs ==
    ASSUME LoopInv, tainted # <<>>, tainted[1].start = at
    PROVE  LET t == tainted[1]
           IN  /\ Cut \in Seq(TextRanges) /\ Sorted(Cut)
               /\ \A k \in DOMAIN Cut : /\ t.start <= Cut[k].start /\ Cut[k].start < t.end
                                        /\ \E j \in DOMAIN sensitive : Cut[k] = sensitive[j]
               /\ \A p \in Int : p < t.end => (HoldsSome(Cut, p) <=> Left(p))
               /\ Rest \in Seq(TextRanges) /\ Sorted(Rest)
               /\ \A k \in DOMAIN Rest : t.end <= Rest[k].start
               /\ \A p \in Int : p >= t.end => (HoldsSome(Rest, p) <=> Left(p))
               /\ Len(Inside) - Len(Filled(Inside)) \in Nat
<1> DEFINE t == tainted[1]
           n == Within
           F == Filled(Inside)
           c == After[1]
<1>1. /\ sensitive \in Seq(TextRanges) /\ Sorted(sensitive)
      /\ \A j \in DOMAIN sensitive : at <= sensitive[j].start
  BY DEF LoopInv, LoopTyped, InPlace
<1>2. /\ t \in TextRanges /\ t.start \in Int /\ t.end \in Int /\ t.start <= t.end /\ t.start = at
      /\ t.end \in 0 .. Length
  BY NextIs, TextRangesAre
<1>3. /\ n \in 0 .. Len(sensitive)
      /\ \A k \in 1 .. n : contains(t, sensitive[k])
      /\ n = Len(sensitive) \/ ~contains(t, sensitive[n + 1])
  BY <1>1, WithinIs
<1>4. /\ Inside \in Seq(TextRanges) /\ Sorted(Inside) /\ After \in Seq(TextRanges) /\ Sorted(After)
      /\ DOMAIN Inside = 1 .. n /\ \A k \in 1 .. n : Inside[k] = sensitive[k]
      /\ After # <<>> => n # Len(sensitive) /\ After[1] = sensitive[n + 1]
      /\ \A j \in DOMAIN Inside, k \in DOMAIN After : Inside[j].end <= After[k].start
      /\ \A k \in DOMAIN After : \E i \in DOMAIN sensitive : After[k] = sensitive[i]
      /\ \A p : HoldsSome(sensitive, p) <=> HoldsSome(Inside, p) \/ HoldsSome(After, p)
  BY <1>1, <1>3, SplitIs, Zenon DEF Inside, After
<1>5. \A p : Left(p) <=> HoldsSome(Inside, p) \/ HoldsSome(After, p)
  BY <1>4 DEF Left, HoldsSome
<1> HIDE DEF t, n, F, c
\* What is inside.
<1>6. \A k \in DOMAIN Inside : /\ Inside[k] \in TextRanges
                               /\ Inside[k].start \in Int /\ Inside[k].end \in Int
                               /\ Inside[k].start <= Inside[k].end
                               /\ t.start <= Inside[k].start /\ Inside[k].end <= t.end
  BY <1>3, <1>4, TextRangesAre DEF contains, Sorted
<1>7. /\ F \in Seq(TextRanges) /\ Sorted(F) /\ Len(F) <= Len(Inside)
      /\ \A j \in DOMAIN F : \E i \in DOMAIN Inside : F[j] = Inside[i] /\ Inside[i].start # Inside[i].end
      /\ \A i \in DOMAIN Inside : Inside[i].start # Inside[i].end => \E j \in DOMAIN F : F[j] = Inside[i]
  BY <1>4, FilledIs DEF F
<1>8. \A p \in Int : HoldsSome(F, p) <=> HoldsSome(Inside, p)
  <2> SUFFICES ASSUME NEW p \in Int PROVE HoldsSome(F, p) <=> HoldsSome(Inside, p)
    OBVIOUS
  <2>1. HoldsSome(F, p) => HoldsSome(Inside, p)
    BY <1>7 DEF HoldsSome
  <2>2. \A i \in DOMAIN Inside : Holds(Inside[i], p) => Inside[i].start # Inside[i].end
    BY <1>6 DEF Holds
  <2> QED  BY <1>7, <2>1, <2>2 DEF HoldsSome
<1>9. \A j \in DOMAIN F : /\ F[j] \in TextRanges /\ t.start <= F[j].start /\ F[j].start < t.end
                          /\ F[j].end <= t.end /\ F[j].start <= F[j].end
                          /\ \A k \in DOMAIN After : F[j].end <= After[k].start
                          /\ \E i \in DOMAIN sensitive : F[j] = sensitive[i]
  <2> SUFFICES ASSUME NEW j \in DOMAIN F
               PROVE  /\ F[j] \in TextRanges /\ t.start <= F[j].start /\ F[j].start < t.end
                      /\ F[j].end <= t.end /\ F[j].start <= F[j].end
                      /\ \A k \in DOMAIN After : F[j].end <= After[k].start
                      /\ \E i \in DOMAIN sensitive : F[j] = sensitive[i]
    OBVIOUS
  <2>1. PICK i \in DOMAIN Inside : F[j] = Inside[i] /\ Inside[i].start # Inside[i].end
    BY <1>7
  <2>2. i \in DOMAIN sensitive /\ Inside[i] = sensitive[i]
    BY <1>1, <1>3, <1>4, <2>1
  <2> QED  BY <1>2, <1>4, <1>6, <2>1, <2>2
\* What is after it.
<1>10. ASSUME After # <<>>
       PROVE  /\ 1 \in DOMAIN After /\ c \in TextRanges /\ c.start \in Int /\ c.end \in Int
              /\ c.start <= c.end /\ t.start <= c.start /\ t.end < c.end
              /\ Tail(After) \in Seq(TextRanges) /\ Sorted(Tail(After))
              /\ \A j \in DOMAIN Tail(After) : c.end <= Tail(After)[j].start
              /\ \A p : HoldsSome(After, p) <=> Holds(c, p) \/ HoldsSome(Tail(After), p)
  <2>1. /\ 1 \in DOMAIN After /\ c \in TextRanges /\ c.start <= c.end
        /\ Tail(After) \in Seq(TextRanges) /\ Sorted(Tail(After))
        /\ \A j \in DOMAIN Tail(After) : c.end <= Tail(After)[j].start
        /\ \A p : HoldsSome(After, p) <=> Holds(c, p) \/ HoldsSome(Tail(After), p)
    BY <1>4, <1>10, TailIs DEF c
  <2>2. c.start \in Int /\ c.end \in Int
    BY <2>1, TextRangesAre
  <2>3. t.start <= c.start
    <3>1. PICK i \in DOMAIN sensitive : c = sensitive[i]
      BY <1>4, <2>1 DEF c
    <3> QED  BY <1>1, <1>2, <3>1
  <2>4. ~contains(t, c)
    BY <1>3, <1>4, <1>10 DEF c
  <2> QED  BY <1>2, <2>1, <2>2, <2>3, <2>4 DEF contains
<1>11. Crossing => After # <<>> /\ c.start < t.end
  BY DEF Crossing, intersects, c, t
<1>12. ~Crossing /\ After # <<>> => t.end <= c.start
  BY <1>2, <1>10 DEF Crossing, intersects, c, t
<1>13. \A p \in Int : ~Crossing /\ p < t.end => ~HoldsSome(After, p)
  <2> SUFFICES ASSUME NEW p \in Int, ~Crossing, p < t.end, NEW k \in DOMAIN After PROVE ~Holds(After[k], p)
    BY DEF HoldsSome
  <2>1. After # <<>>
    BY <1>4
  <2>2. After[k] \in TextRanges /\ After[k].start \in Int
    BY <1>4, TextRangesAre
  <2>3. k = 1 \/ c.end <= After[k].start
    BY <1>4, <1>10, <2>1 DEF Sorted, c
  <2> QED  BY <1>2, <1>10, <1>12, <2>1, <2>2, <2>3 DEF Holds, c
<1>14. \A p \in Int : Crossing /\ p < t.end => ~HoldsSome(Tail(After), p)
  <2> SUFFICES ASSUME NEW p \in Int, Crossing, p < t.end, NEW k \in DOMAIN Tail(After)
               PROVE  ~Holds(Tail(After)[k], p)
    BY DEF HoldsSome
  <2>1. Tail(After)[k] \in TextRanges /\ Tail(After)[k].start \in Int /\ c.end <= Tail(After)[k].start
    BY <1>10, <1>11, TextRangesAre
  <2> QED  BY <1>2, <1>10, <1>11, <2>1 DEF Holds
<1>15. \A p \in Int : p >= t.end => ~HoldsSome(Inside, p)
  BY <1>2, <1>6 DEF HoldsSome, Holds
\* The cut.
<1>16. /\ Cut \in Seq(TextRanges) /\ Sorted(Cut)
       /\ \A k \in DOMAIN Cut : /\ t.start <= Cut[k].start /\ Cut[k].start < t.end
                                /\ \E j \in DOMAIN sensitive : Cut[k] = sensitive[j]
       /\ \A p \in Int : p < t.end => (HoldsSome(Cut, p) <=> Left(p))
  <2>1. CASE ~Crossing
    <3>1. Cut = F
      BY <1>7, <2>1 DEF Cut, F
    <3> QED  BY <1>5, <1>7, <1>8, <1>9, <1>13, <2>1, <3>1
  <2>2. CASE Crossing
    <3> DEFINE l == Len(F)
               d == F \o <<c>>
    <3>1. Cut = d
      BY <2>2 DEF Cut, F, c
    <3>2. c \in TextRanges
      BY <1>10, <1>11, <2>2
    <3>3. /\ l \in Nat /\ DOMAIN F = 1 .. l /\ d \in Seq(TextRanges) /\ DOMAIN d = 1 .. l + 1
          /\ \A k \in 1 .. l : d[k] = F[k]
          /\ d[l + 1] = c
      BY <1>7, <3>2
    <3> HIDE DEF l, d
    <3>4. /\ \A k \in DOMAIN d : k \in DOMAIN F \/ k = l + 1
          /\ \A k \in DOMAIN F : k \in DOMAIN d /\ d[k] = F[k]
          /\ l + 1 \in DOMAIN d
      BY <3>3
    <3>5. \A k \in DOMAIN F : F[k].end <= c.start
      BY <1>9, <1>10, <1>11, <2>2 DEF c
    <3>6. Sorted(d)
      <4>1. ASSUME NEW k \in DOMAIN d
            PROVE  d[k].start <= d[k].end /\ \A j \in 1 .. k - 1 : d[j].end <= d[k].start
        <5>1. CASE k \in DOMAIN F
          <6>1. \A j \in 1 .. k - 1 : j \in DOMAIN F
            BY <3>3, <5>1
          <6> QED  BY <1>7, <3>4, <5>1, <6>1 DEF Sorted
        <5>2. CASE k = l + 1
          <6>1. \A j \in 1 .. k - 1 : j \in DOMAIN F
            BY <3>3, <5>2
          <6> QED  BY <1>10, <1>11, <2>2, <3>3, <3>4, <3>5, <5>2, <6>1
        <5> QED  BY <3>4, <5>1, <5>2
      <4> QED  BY <4>1 DEF Sorted
    <3>7. \A k \in DOMAIN d : /\ t.start <= d[k].start /\ d[k].start < t.end
                              /\ \E j \in DOMAIN sensitive : d[k] = sensitive[j]
      <4> SUFFICES ASSUME NEW k \in DOMAIN d
                   PROVE  /\ t.start <= d[k].start /\ d[k].start < t.end
                          /\ \E j \in DOMAIN sensitive : d[k] = sensitive[j]
        OBVIOUS
      <4>1. CASE k \in DOMAIN F
        BY <1>9, <3>4, <4>1
      <4>2. CASE k = l + 1
        <5>1. \E j \in DOMAIN sensitive : c = sensitive[j]
          BY <1>4, <1>10, <1>11, <2>2 DEF c
        <5> QED  BY <1>10, <1>11, <2>2, <3>3, <4>2, <5>1
      <4> QED  BY <3>4, <4>1, <4>2
    <3>8. \A p \in Int : p < t.end => (HoldsSome(d, p) <=> Left(p))
      <4> SUFFICES ASSUME NEW p \in Int, p < t.end PROVE HoldsSome(d, p) <=> Left(p)
        OBVIOUS
      <4>1. HoldsSome(d, p) <=> HoldsSome(F, p) \/ Holds(c, p)
        BY <3>3, <3>4 DEF HoldsSome
      <4>2. HoldsSome(After, p) <=> Holds(c, p)
        BY <1>10, <1>11, <1>14, <2>2
      <4> QED  BY <1>5, <1>8, <4>1, <4>2
    <3> QED  BY <3>1, <3>3, <3>6, <3>7, <3>8
  <2> QED  BY <2>1, <2>2
\* The rest.
<1>17. /\ Rest \in Seq(TextRanges) /\ Sorted(Rest)
       /\ \A k \in DOMAIN Rest : t.end <= Rest[k].start
       /\ \A p \in Int : p >= t.end => (HoldsSome(Rest, p) <=> Left(p))
  <2>1. CASE ~Crossing
    <3>1. Rest = After
      BY <2>1 DEF Rest
    <3>2. \A k \in DOMAIN After : t.end <= After[k].start
      <4> SUFFICES ASSUME NEW k \in DOMAIN After PROVE t.end <= After[k].start
        OBVIOUS
      <4>1. After # <<>>
        BY <1>4
      <4>2. After[k].start \in Int
        BY <1>4, TextRangesAre
      <4>3. k = 1 \/ c.end <= After[k].start
        BY <1>4, <1>10, <4>1 DEF Sorted, c
      <4> QED  BY <1>2, <1>10, <1>12, <2>1, <4>1, <4>2, <4>3 DEF c
    <3> QED  BY <1>4, <1>5, <1>15, <3>1, <3>2
  <2>2. CASE Crossing
    <3> DEFINE r == [start |-> t.end, end |-> c.end]
               q == Tail(After)
    <3>1. r \in TextRanges /\ r.start = t.end /\ r.end = c.end /\ r.start <= r.end
      <4>1. c.end \in 0 .. Length
        BY <1>10, <1>11, <2>2, TextRangesAre
      <4> QED  BY <1>2, <1>10, <1>11, <2>2, <4>1 DEF TextRanges
    <3>2. remove(c, t) = <<r>>
      <4>1. intersects(c, t) /\ ~contains(t, c) /\ ~(t.start > c.start) /\ t.end < c.end
        BY <1>2, <1>10, <1>11, <2>2 DEF Crossing, contains, c, t
      <4>2. remove(c, t) = <<>> \o <<r>>
        BY <4>1 DEF remove
      <4> HIDE DEF r
      <4> QED  BY <3>1, <4>2
    <3> HIDE DEF r
    <3>3. Rest = <<r>> \o q
      BY <2>2, <3>2 DEF Rest, c, t
    <3>4. q \in Seq(TextRanges) /\ Sorted(q) /\ \A j \in DOMAIN q : r.end <= q[j].start
      BY <1>10, <1>11, <2>2, <3>1
    <3> HIDE DEF q
    <3>5. /\ <<r>> \o q \in Seq(TextRanges) /\ Sorted(<<r>> \o q)
          /\ \A j \in DOMAIN (<<r>> \o q) :
                (<<r>> \o q)[j] = r \/ \E i \in DOMAIN q : (<<r>> \o q)[j] = q[i]
          /\ \A p : HoldsSome(<<r>> \o q, p) <=> Holds(r, p) \/ HoldsSome(q, p)
      BY <3>1, <3>4, PushIs
    <3>6. /\ Rest \in Seq(TextRanges) /\ Sorted(Rest)
          /\ \A j \in DOMAIN Rest : Rest[j] = r \/ \E i \in DOMAIN q : Rest[j] = q[i]
          /\ \A p : HoldsSome(Rest, p) <=> Holds(r, p) \/ HoldsSome(q, p)
      BY <3>3, <3>5, Zenon
    <3>7. \A k \in DOMAIN Rest : t.end <= Rest[k].start
      <4> SUFFICES ASSUME NEW k \in DOMAIN Rest PROVE t.end <= Rest[k].start
        OBVIOUS
      <4>1. CASE Rest[k] = r
        BY <1>2, <3>1, <4>1
      <4>2. CASE \E i \in DOMAIN q : Rest[k] = q[i]
        <5>1. PICK i \in DOMAIN q : Rest[k] = q[i]
          BY <4>2
        <5>2. q[i].start \in Int /\ c.end <= q[i].start /\ c.end \in Int /\ t.end < c.end
          BY <1>10, <1>11, <2>2, <3>1, <3>4, TextRangesAre
        <5> QED  BY <1>2, <5>1, <5>2
      <4> QED  BY <3>6, <4>1, <4>2
    <3>8. \A p \in Int : p >= t.end => (HoldsSome(Rest, p) <=> Left(p))
      <4> SUFFICES ASSUME NEW p \in Int, p >= t.end PROVE HoldsSome(Rest, p) <=> Left(p)
        OBVIOUS
      <4>1. Holds(r, p) <=> Holds(c, p)
        BY <1>2, <1>10, <1>11, <2>2, <3>1 DEF Holds
      <4>2. HoldsSome(After, p) <=> Holds(c, p) \/ HoldsSome(q, p)
        BY <1>10, <1>11, <2>2 DEF q
      <4> QED  BY <1>5, <1>15, <3>6, <4>1, <4>2
    <3> QED  BY <3>6, <3>7, <3>8
  <2> QED  BY <2>1, <2>2
<1>18. Len(Inside) - Len(Filled(Inside)) \in Nat
  BY <1>4, <1>7 DEF F
<1> QED  BY <1>16, <1>17, <1>18, Zenon DEF t

\* A turn at which a tainted range starts: its source, the contexts to hide, and
\* what it adds.
Turning == LoopInv /\ sources \in Seq(SourceRecords) /\ tainted # <<>> /\ tainted[1].start = at
TurnSource == sources[SourceIndex]
TurnHides == contexts[SourceIndex] \o [k \in DOMAIN Cut |-> Relative(Cut[k])]
TurnRedacted ==
    redactedSources \cup
      (IF (Cut # <<>> \/ TurnSource.param.sensible) /\ ~TurnSource.redacted THEN {SourceIndex} ELSE {})
TurnParts ==
    IF SourceIndex \notin TurnRedacted THEN Clear(Sub(Value, at, tainted[1].end))
    ELSE IF TurnSource.param.sensible THEN <<Hidden>>
    ELSE PartsOf(Sub(Value, at, tainted[1].end), TurnSource.text, TurnHides)

\* What a turn has before it.
LEMMA TurnIs ==
    ASSUME Turning
    PROVE  LET t == tainted[1]
           IN  /\ t \in TextRanges /\ t.start \in Int /\ t.end \in Int /\ t.start \in 0 .. Length
               /\ t.end \in 0 .. Length /\ t.start <= t.end /\ t.start = at
               /\ Place \in DOMAIN evidence.ranges /\ evidence.ranges[Place] = t
               /\ SourceIndex \in DOMAIN sources /\ TurnSource \in SourceRecords
               /\ TurnSource.param = evidence.params[Place]
               /\ TurnSource.text = SourceText(evidence.params[Place], t)
               /\ ~TurnSource.deleted
               /\ contexts[SourceIndex] \in Seq(ContextRange)
               /\ redactedSources \subseteq DOMAIN sources
<1>1. LoopInv /\ tainted # <<>> /\ tainted[1].start = at /\ sources \in Seq(SourceRecords)
  BY DEF Turning
<1>2. /\ Place \in DOMAIN evidence.ranges /\ tainted[1] = evidence.ranges[Place]
      /\ tainted[1] \in TextRanges /\ tainted[1].start <= tainted[1].end /\ SourceIndex \in DOMAIN sources
  BY <1>1, NextIs
<1>3. TurnSource \in SourceRecords
  BY <1>1, <1>2 DEF TurnSource
<1>4. /\ TurnSource.param = evidence.params[Place]
      /\ TurnSource.text = SourceText(evidence.params[Place], tainted[1])
      /\ ~TurnSource.deleted
  BY <1>1, <1>2 DEF LoopInv, SourcesTheirs, TurnSource, SourceIndex
<1>5. contexts[SourceIndex] \in Seq(ContextRange) /\ redactedSources \subseteq DOMAIN sources
  BY <1>1, <1>2 DEF LoopInv, LoopTyped
<1> QED  BY <1>1, <1>2, <1>3, <1>4, <1>5, TextRangesAre

\* What is hidden of a tainted range is what is sensitive of it.
LEMMA TurnHidesIs ==
    ASSUME Turning
    PROVE  LET t == tainted[1]
           IN  /\ Hides(TurnHides, t.end - t.start)
               /\ TurnHides \in Seq(ContextRange)
               /\ \A p \in t.start .. t.end - 1 :
                     Sensitive(p) <=> \E k \in DOMAIN TurnHides : Holds(TurnHides[k], p - t.start)
               /\ Cut = <<>> /\ contexts[SourceIndex] = <<>> => TurnHides = <<>>
<1> DEFINE t == tainted[1]
           x == SourceIndex
           h == contexts[x]
           rel == [k \in DOMAIN Cut |-> Relative(Cut[k])]
           l == t.end - t.start
<1>1. LoopInv /\ tainted # <<>> /\ tainted[1].start = at /\ sources \in Seq(SourceRecords)
  BY DEF Turning
<1>2. /\ t \in TextRanges /\ t.start \in Int /\ t.end \in Int /\ t.start <= t.end /\ t.start = at
      /\ t.end \in 0 .. Length /\ t.start \in 0 .. Length
      /\ x \in DOMAIN sources /\ h \in Seq(ContextRange)
  BY TurnIs
<1>3. /\ Cut \in Seq(TextRanges) /\ Sorted(Cut)
      /\ \A k \in DOMAIN Cut : /\ t.start <= Cut[k].start /\ Cut[k].start < t.end
                               /\ \E j \in DOMAIN sensitive : Cut[k] = sensitive[j]
      /\ \A p \in Int : p < t.end => (HoldsSome(Cut, p) <=> Left(p))
  BY <1>1, CutIs
<1>4. h # <<>> => /\ Len(h) = 1 /\ h[1].start < 0 /\ 0 < h[1].end
                  /\ \A j \in DOMAIN sensitive :
                        sensitive[j].start >= t.end \/ sensitive[j].start >= t.start + h[1].end
  BY <1>1, <1>2 DEF LoopInv, Carried
<1>5. \A p \in Int : p < t.end => (Carries(p) <=> \E k \in DOMAIN h : Holds(h[k], p - t.start))
  BY <1>1 DEF Carries
<1>6. \A p \in at .. Length - 1 : Sensitive(p) <=> Left(p) \/ Carries(p)
  BY <1>1 DEF LoopInv, Covered
<1> HIDE DEF t, x, h
<1> DEFINE n == Len(Cut)
<1>7. n \in Nat /\ DOMAIN Cut = 1 .. n /\ \A k \in 1 .. n : Cut[k] \in TextRanges
  BY <1>3
<1> HIDE DEF n
<1>8. \A k \in 1 .. n : /\ rel[k] \in ContextRange
                        /\ rel[k].start = Cut[k].start - t.start /\ rel[k].end = Cut[k].end - t.start
                        /\ Cut[k].start \in Int /\ Cut[k].end \in Int
  <2> SUFFICES ASSUME NEW k \in 1 .. n
               PROVE  /\ rel[k] \in ContextRange
                      /\ rel[k].start = Cut[k].start - t.start /\ rel[k].end = Cut[k].end - t.start
                      /\ Cut[k].start \in Int /\ Cut[k].end \in Int
    OBVIOUS
  <2>1. Cut[k].start \in Int /\ Cut[k].end \in Int
    BY <1>7, TextRangesAre
  <2>2. rel[k] = [start |-> Cut[k].start - t.start, end |-> Cut[k].end - t.start]
    BY <1>7 DEF Relative, t
  <2> HIDE DEF rel
  <2> QED  BY <1>2, <2>1, <2>2 DEF ContextRange
<1>9. rel \in Seq(ContextRange) /\ DOMAIN rel = 1 .. n /\ Len(rel) = n
  <2>1. rel \in [1 .. n -> ContextRange]
    BY <1>7, <1>8
  <2> HIDE DEF rel
  <2>2. rel \in Seq(ContextRange)
    BY <1>7, <2>1
  <2> QED  BY <1>7, <2>1, <2>2
<1> HIDE DEF rel
<1>10. l \in Int /\ l = t.end - t.start
  BY <1>2
<1> HIDE DEF l
<1>11. Hides(rel, l)
  <2>1. ASSUME NEW k \in 1 .. n
        PROVE  /\ rel[k].start <= rel[k].end /\ 0 <= rel[k].end /\ rel[k].start <= l /\ 0 <= rel[k].start
               /\ \A j \in 1 .. k - 1 : rel[j].end <= rel[k].start
    <3>1. Cut[k].start <= Cut[k].end /\ t.start <= Cut[k].start /\ Cut[k].start < t.end
      BY <1>3, <1>7 DEF Sorted
    <3>2. ASSUME NEW j \in 1 .. k - 1 PROVE rel[j].end <= rel[k].start
      <4>1. j \in 1 .. n /\ Cut[j].end <= Cut[k].start
        BY <1>3, <1>7 DEF Sorted
      <4>2. Cut[j].end \in Int /\ Cut[k].start \in Int /\ rel[j].end = Cut[j].end - t.start
            /\ rel[k].start = Cut[k].start - t.start
        BY <1>8, <4>1
      <4> QED  BY <1>2, <4>1, <4>2
    <3> QED  BY <1>2, <1>8, <1>10, <3>1, <3>2
  <2> QED  BY <1>9, <2>1 DEF Hides
<1>12. \A p \in t.start .. t.end - 1 : Left(p) <=> \E k \in 1 .. n : Holds(rel[k], p - t.start)
  <2> SUFFICES ASSUME NEW p \in t.start .. t.end - 1
               PROVE  Left(p) <=> \E k \in 1 .. n : Holds(rel[k], p - t.start)
    OBVIOUS
  <2>1. p \in Int /\ p < t.end
    BY <1>2
  <2>2. \A k \in 1 .. n : Holds(rel[k], p - t.start) <=> Holds(Cut[k], p)
    BY <1>2, <1>8, <2>1 DEF Holds
  <2>3. Left(p) <=> HoldsSome(Cut, p)
    BY <1>3, <2>1
  <2> QED  BY <1>7, <2>2, <2>3 DEF HoldsSome
<1>13. \A p \in t.start .. t.end - 1 :
          Sensitive(p) <=> \/ \E k \in 1 .. n : Holds(rel[k], p - t.start)
                           \/ \E k \in DOMAIN h : Holds(h[k], p - t.start)
  <2> SUFFICES ASSUME NEW p \in t.start .. t.end - 1
               PROVE  Sensitive(p) <=> \/ \E k \in 1 .. n : Holds(rel[k], p - t.start)
                                       \/ \E k \in DOMAIN h : Holds(h[k], p - t.start)
    OBVIOUS
  <2>1. p \in Int /\ p < t.end /\ p \in at .. Length - 1
    BY <1>2, ReportsAssumption
  <2> QED  BY <1>5, <1>6, <1>12, <2>1
<1>14. TurnHides = h \o rel
  BY DEF TurnHides, h, rel, x
<1>15. CASE h = <<>>
  <2>1. TurnHides = rel
    BY <1>9, <1>14, <1>15
  <2>2. n = 0 => rel = <<>>
    BY <1>9
  <2>3. Cut = <<>> => n = 0
    BY <1>7
  <2>4. \A p \in t.start .. t.end - 1 :
           Sensitive(p) <=> \E k \in DOMAIN TurnHides : Holds(TurnHides[k], p - t.start)
    BY <1>9, <1>13, <1>15, <2>1
  <2> QED  BY <1>9, <1>10, <1>11, <2>1, <2>2, <2>3, <2>4 DEF t
<1>16. CASE h # <<>>
  <2> DEFINE c == h[1]
             s == <<c>> \o rel
  <2>1. c \in ContextRange /\ h = <<c>> /\ DOMAIN h = {1}
    BY <1>2, <1>4, <1>16
  <2>2. c.start \in Int /\ c.end \in Int /\ c.start < 0 /\ 0 < c.end
    BY <1>4, <1>16, <2>1 DEF ContextRange
  <2>3. \A j \in DOMAIN sensitive :
           sensitive[j].start >= t.end \/ sensitive[j].start >= t.start + c.end
    BY <1>4, <1>16
  <2> HIDE DEF c
  <2>4. TurnHides = s
    BY <1>14, <2>1
  <2>5. /\ s \in Seq(ContextRange) /\ DOMAIN s = 1 .. n + 1
        /\ s[1] = c /\ \A k \in 1 .. n : s[k + 1] = rel[k]
    BY <1>7, <1>9, <2>1
  <2> HIDE DEF s
  <2>6. /\ 1 \in DOMAIN s /\ \A k \in 1 .. n : k + 1 \in DOMAIN s /\ s[k + 1] = rel[k]
        /\ \A k \in DOMAIN s : k = 1 \/ (k - 1 \in 1 .. n /\ s[k] = rel[k - 1])
    <3>1. \A k \in DOMAIN s : k = 1 \/ (k - 1 \in 1 .. n /\ (k - 1) + 1 = k)
      BY <1>7, <2>5
    <3> QED  BY <1>7, <2>5, <3>1
  <2>7. \A k \in 1 .. n : c.end <= rel[k].start
    <3> SUFFICES ASSUME NEW k \in 1 .. n PROVE c.end <= rel[k].start
      OBVIOUS
    <3>1. k \in DOMAIN Cut /\ Cut[k].start < t.end
      BY <1>3, <1>7
    <3>2. PICK j \in DOMAIN sensitive : Cut[k] = sensitive[j]
      BY <1>3, <3>1
    <3>3. Cut[k].start >= t.end \/ Cut[k].start >= t.start + c.end
      BY <2>3, <3>2
    <3> QED  BY <1>2, <1>8, <2>2, <3>1, <3>3
  <2>8. Hides(s, l)
    <3>1. ASSUME NEW k \in DOMAIN s
          PROVE  /\ s[k].start <= s[k].end /\ 0 <= s[k].end /\ s[k].start <= l
                 /\ \A j \in 1 .. k - 1 : s[j].end <= s[k].start
      <4>1. CASE k = 1
        BY <1>2, <1>10, <2>2, <2>5, <4>1
      <4>2. CASE k - 1 \in 1 .. n /\ s[k] = rel[k - 1]
        <5>1. /\ rel[k - 1].start <= rel[k - 1].end /\ 0 <= rel[k - 1].end /\ rel[k - 1].start <= l
              /\ \A j \in 1 .. (k - 1) - 1 : rel[j].end <= rel[k - 1].start
          BY <1>9, <1>11, <4>2 DEF Hides
        <5>2. ASSUME NEW j \in 1 .. k - 1 PROVE s[j].end <= s[k].start
          <6>1. j \in DOMAIN s /\ (j = 1 \/ j - 1 \in 1 .. (k - 1) - 1)
            BY <1>7, <2>5, <4>2
          <6>2. CASE j = 1
            BY <2>5, <2>7, <4>2, <6>2
          <6>3. CASE j # 1
            BY <2>6, <4>2, <5>1, <6>1, <6>3
          <6> QED  BY <6>2, <6>3
        <5> QED  BY <4>2, <5>1, <5>2
      <4> QED  BY <2>6, <4>1, <4>2
    <3> QED  BY <2>5, <3>1 DEF Hides
  <2>9. \A p \in t.start .. t.end - 1 : Sensitive(p) <=> \E k \in DOMAIN s : Holds(s[k], p - t.start)
    <3> SUFFICES ASSUME NEW p \in t.start .. t.end - 1
                 PROVE Sensitive(p) <=> \E k \in DOMAIN s : Holds(s[k], p - t.start)
      OBVIOUS
    <3>1. (\E k \in DOMAIN h : Holds(h[k], p - t.start)) <=> Holds(c, p - t.start)
      BY <2>1 DEF c
    <3>2. (\E k \in DOMAIN s : Holds(s[k], p - t.start)) <=>
             Holds(c, p - t.start) \/ \E k \in 1 .. n : Holds(rel[k], p - t.start)
      BY <2>5, <2>6
    <3> QED  BY <1>13, <3>1, <3>2
  <2> QED  BY <1>10, <1>16, <2>4, <2>5, <2>8, <2>9 DEF t, h, x
<1> QED  BY <1>15, <1>16

\* What is secret of a tainted range is what is sensitive of it, or all of it if
\* its source is sensible.
LEMMA TurnSecrets ==
    ASSUME Turning
    PROVE  \A p \in tainted[1].start .. tainted[1].end - 1 :
              Secret(p) <=> Sensitive(p) \/ TurnSource.param.sensible
<1> DEFINE t == tainted[1]
           R == evidence.ranges
<1>1. /\ LoopInv /\ R \in Seq(TextRanges) /\ Sorted(R)
  BY DEF Turning, LoopInv, EvidenceTyped
<1>2. /\ t.start \in Int /\ t.end \in Int
      /\ Place \in DOMAIN R /\ R[Place] = t /\ TurnSource.param = evidence.params[Place]
  BY TurnIs
<1> SUFFICES ASSUME NEW p \in t.start .. t.end - 1
             PROVE  Secret(p) <=> Sensitive(p) \/ evidence.params[Place].sensible
  BY <1>2
<1>3. p \in Int /\ Holds(R[Place], p)
  BY <1>2 DEF Holds
<1>4. \A k \in DOMAIN R : Holds(R[k], p) => k = Place
  <2> SUFFICES ASSUME NEW k \in DOMAIN R, Holds(R[k], p), k # Place PROVE FALSE
    OBVIOUS
  <2>1. R[k].start \in Int /\ R[k].end \in Int /\ R[Place].start \in Int /\ R[Place].end \in Int
    BY <1>1, <1>2, TextRangesAre
  <2>2. k \in 1 .. Place - 1 \/ Place \in 1 .. k - 1
    BY <1>1, <1>2
  <2>3. R[k].end <= R[Place].start \/ R[Place].end <= R[k].start
    BY <1>1, <1>2, <2>2 DEF Sorted
  <2> QED  BY <1>3, <2>1, <2>3 DEF Holds
<1> QED  BY <1>2, <1>3, <1>4 DEF Secret, Sensitive

\* A source with what is secret of the range is redacted.
LEMMA TurnRedacts ==
    ASSUME Turning
    PROVE  /\ redactedSources \subseteq TurnRedacted /\ TurnRedacted \subseteq DOMAIN sources
           /\ \A x \in TurnRedacted : x # SourceIndex => x \in redactedSources
           /\ SourceIndex \notin TurnRedacted =>
                 Cut = <<>> /\ ~TurnSource.param.sensible /\ contexts[SourceIndex] = <<>>
                 /\ ~TurnSource.redacted
           /\ Cut # <<>> \/ TurnSource.param.sensible => SourceIndex \in TurnRedacted
<1>1. SourceIndex \in DOMAIN sources /\ ~TurnSource.deleted /\ redactedSources \subseteq DOMAIN sources
  BY TurnIs
<1>2. TurnSource.redacted => SourceIndex \in redactedSources
  BY <1>1 DEF Turning, LoopInv, SourcesTheirs, TurnSource
<1>3. contexts[SourceIndex] # <<>> => SourceIndex \in redactedSources
  BY <1>1 DEF Turning, LoopInv, Carried
<1> QED  BY <1>1, <1>2, <1>3 DEF TurnRedacted

\* A text after another.
LEMMA TextAfter ==
    ASSUME NEW first \in Seq(Int), NEW second \in Seq(Int)
    PROVE  /\ Len(first) \in Nat /\ first \o second \in Seq(Int)
           /\ Len(first \o second) = Len(first) + Len(second)
           /\ \A i \in 1 .. Len(second) : (first \o second)[Len(first) + i] = second[i]
<1>1. Len(first) \in Nat /\ Len(second) \in Nat
  OBVIOUS
<1>2. first \o second \in Seq(Int) /\ Len(first \o second) = Len(first) + Len(second)
  OBVIOUS
<1>3. ASSUME NEW i \in 1 .. Len(second)
      PROVE  (first \o second)[Len(first) + i] = second[i]
  <2>1. Len(first) + i \in 1 .. Len(first) + Len(second) /\ ~(Len(first) + i <= Len(first))
        /\ (Len(first) + i) - Len(first) = i
    BY <1>1
  <2> QED  BY <2>1, SMTT(15)
<1> QED  BY <1>1, <1>2, <1>3

\* A text that a source has as it is, it has piece by piece.
LEMMA KeptHasPieces ==
    ASSUME NEW param \in Params, param.kept, NEW range \in TextRanges, range.start <= range.end
    PROVE  HasPieces(SourceText(param, range), range.start, range.end)
<1> DEFINE c == range.start
           d == range.end
           b == param.before
           v == Sub(Value, c, d)
           s == b \o v
           l == Len(b)
<1>1. c \in 0 .. Length /\ d \in 0 .. Length /\ c \in Int /\ d \in Int /\ c <= d /\ b \in Seq(Int)
  BY TextRangesAre DEF Params
<1>2. SourceText(param, range) = s
  BY DEF SourceText
<1>3. v \in Seq(Int) /\ Len(v) = d - c /\ \A i \in 1 .. d - c : v[i] = c + i - 1
  BY <1>1, TextIsRun DEF IsRun
<1> HIDE DEF c, d, b, v
<1>4. /\ l \in Nat /\ s \in Seq(Int) /\ Len(s) = l + (d - c)
      /\ \A i \in 1 .. d - c : s[l + i] = v[i]
  <2>1. b \in Seq(Int) /\ v \in Seq(Int) /\ Len(v) = d - c
    BY <1>1, <1>3
  <2>2. /\ l \in Nat /\ s \in Seq(Int) /\ Len(s) = l + Len(v)
        /\ \A i \in 1 .. Len(v) : s[l + i] = v[i]
    BY <2>1, TextAfter
  <2> QED  BY <2>1, <2>2
<1> HIDE DEF l, s
<1>5. ASSUME NEW x \in c .. d, NEW y \in c .. d, x <= y, NEW t, IsRun(t, x, y)
      PROVE  \E k \in 0 .. Len(s) - (y - x) : SubSeq(s, k + 1, k + (y - x)) = t
  <2> DEFINE k == l + (x - c)
             n == y - x
  <2>1. /\ k \in Nat /\ n \in Nat /\ k \in 0 .. Len(s) - n /\ k + n <= Len(s)
        /\ x \in Int /\ y \in Int
    <3>1. /\ x \in Int /\ y \in Int /\ c <= x /\ x <= y /\ y <= d /\ c \in Int /\ d \in Int
          /\ l \in Nat /\ Len(s) = l + (d - c)
      BY <1>1, <1>4, <1>5
    <3> QED  BY <3>1
  <2>2. t \in Seq(Int) /\ Len(t) = n /\ \A i \in 1 .. n : t[i] = x + i - 1
    BY <1>5 DEF IsRun
  <2>3. \A i \in 1 .. n : s[k + i] = x + i - 1
    <3> SUFFICES ASSUME NEW i \in 1 .. n PROVE s[k + i] = x + i - 1
      OBVIOUS
    <3>1. (x - c) + i \in 1 .. d - c /\ k + i = l + ((x - c) + i)
      BY <1>1, <1>4
    <3>2. s[k + i] = v[(x - c) + i] /\ v[(x - c) + i] = c + ((x - c) + i) - 1
      BY <1>3, <1>4, <3>1
    <3> QED  BY <1>1, <2>1, <3>2
  <2> HIDE DEF k, n
  <2> DEFINE u == SubSeq(s, k + 1, k + n)
  <2>4. u \in Seq(Int) /\ Len(u) = n /\ \A i \in 1 .. n : u[i] = s[k + i]
    BY <1>4, <2>1
  <2> HIDE DEF u
  <2>5. u = t
    <3>1. u \in [1 .. n -> Int] /\ t \in [1 .. n -> Int]
      BY <2>2, <2>4
    <3>2. \A i \in 1 .. n : u[i] = t[i]
      BY <2>2, <2>3, <2>4
    <3>3. u = [i \in 1 .. n |-> u[i]] /\ t = [i \in 1 .. n |-> t[i]]
      BY <3>1
    <3>4. [i \in 1 .. n |-> u[i]] = [i \in 1 .. n |-> t[i]]
      BY <3>2, Zenon
    <3> QED  BY <3>3, <3>4, Zenon
  <2>6. SubSeq(s, k + 1, k + (y - x)) = t /\ k \in 0 .. Len(s) - (y - x)
    BY <2>1, <2>5 DEF u, n
  <2> QED  BY <2>6
<1>6. HasPieces(s, c, d)
  BY <1>5 DEF HasPieces
<1> QED  BY <1>2, <1>6 DEF c, d

\* The parts of a tainted range tell what of it is not secret.
LEMMA TurnTells ==
    ASSUME Turning, AllKept
    PROVE  Tells(TurnParts, {p \in at .. tainted[1].end - 1 : ~Secret(p)})
<1> DEFINE c == tainted[1].start
           d == tainted[1].end
           text == Sub(Value, c, d)
           source == TurnSource
           S == {p \in c .. d - 1 : ~Secret(p)}
<1>1. /\ tainted[1] \in TextRanges /\ c \in Int /\ d \in Int /\ c \in 0 .. Length /\ d \in 0 .. Length
      /\ c <= d /\ c = at /\ Place \in DOMAIN evidence.ranges /\ source \in SourceRecords
      /\ source.param = evidence.params[Place]
      /\ source.text = SourceText(evidence.params[Place], tainted[1])
  BY TurnIs
<1>2. IsRun(text, c, d)
  BY <1>1, TextIsRun
<1>3. \A p \in c .. d - 1 : Secret(p) <=> Sensitive(p) \/ source.param.sensible
  BY TurnSecrets
<1>4. /\ Hides(TurnHides, d - c)
      /\ \A p \in c .. d - 1 :
            Sensitive(p) <=> \E k \in DOMAIN TurnHides : Holds(TurnHides[k], p - c)
      /\ Cut = <<>> /\ contexts[SourceIndex] = <<>> => TurnHides = <<>>
  BY TurnHidesIs
<1>5. SourceIndex \notin TurnRedacted =>
         Cut = <<>> /\ ~source.param.sensible /\ contexts[SourceIndex] = <<>>
  BY TurnRedacts
<1>6. TurnParts = IF SourceIndex \notin TurnRedacted THEN Clear(text)
                  ELSE IF source.param.sensible THEN <<Hidden>>
                  ELSE PartsOf(text, source.text, TurnHides)
  BY <1>1 DEF TurnParts
<1>7. Place \in DOMAIN evidence.params /\ evidence.params[Place] \in Params
      /\ evidence.params[Place].kept
  <2>1. evidence.params \in Seq(Params) /\ Len(evidence.params) = Len(evidence.ranges)
        /\ evidence.ranges \in Seq(TextRanges)
    BY DEF Turning, LoopInv, EvidenceTyped
  <2>2. Place \in DOMAIN evidence.params
    BY <1>1, <2>1
  <2> QED  BY <2>1, <2>2 DEF AllKept
<1>8. HasPieces(source.text, c, d) /\ source.text \in Seq(Int)
  <2>1. HasPieces(SourceText(evidence.params[Place], tainted[1]), c, d)
    BY <1>1, <1>7, KeptHasPieces
  <2> QED  BY <1>1, <2>1 DEF SourceRecords
<1> HIDE DEF c, d, text, source
<1>9. CASE SourceIndex \notin TurnRedacted
  <2>1. TurnHides = <<>>
    BY <1>4, <1>5, <1>9
  <2>2. \A p \in c .. d - 1 : ~Secret(p)
    BY <1>3, <1>4, <1>5, <1>9, <2>1
  <2>3. S = c .. d - 1
    BY <2>2
  <2>4. Tells(Clear(text), c .. d - 1)
    BY <1>1, <1>2, ClearTells
  <2> QED  BY <1>1, <1>6, <1>9, <2>3, <2>4 DEF d
<1>10. CASE SourceIndex \in TurnRedacted /\ source.param.sensible
  <2>1. S = {}
    BY <1>3, <1>10
  <2>2. Tells(<<Hidden>>, {})
    BY HiddenTells
  <2> QED  BY <1>1, <1>6, <1>10, <2>1, <2>2 DEF d
<1>11. CASE SourceIndex \in TurnRedacted /\ ~source.param.sensible
  <2>1. Tells(PartsOf(text, source.text, TurnHides),
              {p \in c .. d - 1 : \A k \in DOMAIN TurnHides : ~Holds(TurnHides[k], p - c)})
    BY <1>1, <1>2, <1>4, <1>8, PartsTold
  <2>2. S = {p \in c .. d - 1 : \A k \in DOMAIN TurnHides : ~Holds(TurnHides[k], p - c)}
    BY <1>3, <1>4, <1>11
  <2> QED  BY <1>1, <1>6, <1>11, <2>1, <2>2 DEF d
<1> QED  BY <1>9, <1>10, <1>11

\* A turn at which a tainted range starts keeps it.
LEMMA TaintedKeeps == RedactionInv /\ TaintedTurn => RedactionInv'
<1> SUFFICES ASSUME RedactionInv, TaintedTurn PROVE RedactionInv'
  OBVIOUS
<1> DEFINE t == tainted[1]
           x == SourceIndex
           hidden == [k \in 1 .. Len(Inside) - Len(Filled(Inside)) |-> Hidden]
           told == valueParts \o Clear(Sub(Value, start, at))
<1>1. /\ phase = "loop" /\ at < Length /\ tainted # <<>> /\ t.start = at
      /\ valueParts' = (told \o hidden) \o TurnParts
      /\ redactedSources' = TurnRedacted
      /\ sources' = IF Cut # <<>> \/ TurnSource.param.sensible
                    THEN [sources EXCEPT ![x].redacted = TRUE] ELSE sources
      /\ contexts' = [contexts EXCEPT ![x] = IF x \in TurnRedacted THEN <<>> ELSE TurnHides]
      /\ sensitive' = Rest
      /\ at' = t.end /\ start' = t.end /\ tainted' = Tail(tainted)
      /\ UNCHANGED <<formatted, phase, evidence>>
  BY Zenon DEF TaintedTurn, TurnParts, TurnRedacted, TurnSource, TurnHides, Cut, Rest
<1>2. LoopInv /\ sources \in Seq(SourceRecords) /\ formatted \in Nat
  BY <1>1, InLoop
<1>3. Turning
  BY <1>1, <1>2 DEF Turning
<1>4. EvidenceTyped /\ LoopTyped /\ SourcesTheirs /\ InPlace /\ Covered /\ Carried /\ SecretsFound
      /\ ToldSoFar
  BY <1>2 DEF LoopInv
<1>5. at \in 0 .. Length /\ at \in Int /\ start \in 0 .. at /\ start \in Int /\ Length \in Nat
  BY <1>4, ReportsAssumption DEF LoopTyped
<1>6. /\ t \in TextRanges /\ t.start \in Int /\ t.end \in Int /\ t.start \in 0 .. Length
      /\ t.end \in 0 .. Length /\ t.start <= t.end /\ t.start = at
      /\ Place \in DOMAIN evidence.ranges /\ evidence.ranges[Place] = t
      /\ x \in DOMAIN sources /\ TurnSource \in SourceRecords /\ TurnSource = sources[x]
      /\ ~TurnSource.deleted
      /\ contexts[x] \in Seq(ContextRange)
  BY <1>3, TurnIs DEF TurnSource
<1>7. /\ Gone \in 0 .. Len(evidence.ranges) /\ DOMAIN evidence.ranges = 1 .. Len(evidence.ranges)
      /\ Len(tainted) \in Nat /\ DOMAIN tainted = 1 .. Len(tainted)
      /\ Gone + Len(tainted) = Len(evidence.ranges)
      /\ Place = Gone + 1
      /\ \A j \in DOMAIN tainted : j # 1 => t.end <= tainted[j].start
  BY <1>1, <1>2, NextIs
<1>8. /\ Rest \in Seq(TextRanges) /\ Sorted(Rest)
      /\ \A k \in DOMAIN Rest : t.end <= Rest[k].start
      /\ \A p \in Int : p >= t.end => (HoldsSome(Rest, p) <=> Left(p))
      /\ Len(Inside) - Len(Filled(Inside)) \in Nat
  BY <1>1, <1>2, CutIs
<1>9. /\ redactedSources \subseteq TurnRedacted /\ TurnRedacted \subseteq DOMAIN sources
      /\ x \notin TurnRedacted =>
            Cut = <<>> /\ ~TurnSource.param.sensible /\ contexts[x] = <<>> /\ ~TurnSource.redacted
      /\ Cut # <<>> \/ TurnSource.param.sensible => x \in TurnRedacted
  BY <1>3, TurnRedacts
<1>10. Cut = <<>> /\ contexts[x] = <<>> => TurnHides = <<>>
  BY <1>3, TurnHidesIs
<1> HIDE DEF t, x, hidden, told
<1>11. /\ tainted' \in Seq(TextRanges) /\ Len(tainted') = Len(tainted) - 1
       /\ DOMAIN tainted' = 1 .. Len(tainted) - 1
       /\ \A j \in DOMAIN tainted' : j + 1 \in DOMAIN tainted /\ j + 1 # 1 /\ tainted'[j] = tainted[j + 1]
       /\ Gone' = Gone + 1
  <2>1. tainted \in Seq(TextRanges)
    BY <1>4 DEF LoopTyped
  <2>2. /\ tainted' \in Seq(TextRanges) /\ Len(tainted') = Len(tainted) - 1
        /\ DOMAIN tainted' = 1 .. Len(tainted) - 1
        /\ \A j \in 1 .. Len(tainted) - 1 : tainted'[j] = tainted[j + 1]
    BY <1>1, <2>1
  <2>3. \A j \in 1 .. Len(tainted) - 1 : j + 1 \in DOMAIN tainted /\ j + 1 # 1
    BY <1>7
  <2>4. Gone' = Gone + 1
    BY <1>1, <1>7, <2>2 DEF Gone
  <2> QED  BY <2>2, <2>3, <2>4
<1>12. /\ contexts' \in [DOMAIN sources -> Seq(ContextRange)]
       /\ \A y \in DOMAIN sources : contexts'[y] = <<>>
  <2>1. contexts \in [DOMAIN sources -> Seq(ContextRange)]
    BY <1>4 DEF LoopTyped
  <2>2. contexts' = [contexts EXCEPT ![x] = <<>>]
    BY <1>1, <1>9, <1>10
  <2>3. \A y \in DOMAIN sources : y # x => contexts[y] = <<>>
    BY <1>4 DEF Carried, x
  <2>4. <<>> \in Seq(ContextRange)
    OBVIOUS
  <2> QED  BY <1>6, <2>1, <2>2, <2>3, <2>4
<1>13. /\ DOMAIN sources' = DOMAIN sources /\ sources' \in Seq(SourceRecords)
       /\ \A y \in DOMAIN sources :
             /\ sources'[y].param = sources[y].param /\ sources'[y].text = sources[y].text
             /\ sources'[y].deleted = sources[y].deleted
             /\ sources'[y].redacted /\ ~sources'[y].deleted => y \in TurnRedacted
  <2>1. \A y \in DOMAIN sources : sources[y].redacted /\ ~sources[y].deleted => y \in TurnRedacted
    BY <1>4, <1>9 DEF SourcesTheirs
  <2>2. CASE Cut # <<>> \/ TurnSource.param.sensible
    <3>1. sources' = [sources EXCEPT ![x].redacted = TRUE]
      BY <1>1, <2>2
    <3>2. /\ DOMAIN sources = 1 .. Len(sources) /\ Len(sources) \in Nat
          /\ \A y \in DOMAIN sources : sources[y] \in SourceRecords
      BY <1>2
    <3>3. \A r \in SourceRecords :
             LET q == [r EXCEPT !.redacted = TRUE]
             IN  q \in SourceRecords /\ q.param = r.param /\ q.text = r.text /\ q.deleted = r.deleted
      BY DEF SourceRecords
    <3>4. \A y \in DOMAIN sources : sources'[y] = IF y = x THEN [sources[x] EXCEPT !.redacted = TRUE]
                                                  ELSE sources[y]
      BY <1>6, <3>1
    <3>5. sources' \in [1 .. Len(sources) -> SourceRecords]
      BY <1>6, <3>1, <3>2, <3>3
    <3>6. DOMAIN sources' = DOMAIN sources /\ sources' \in Seq(SourceRecords)
      BY <3>2, <3>5
    <3>7. \A y \in DOMAIN sources :
             /\ sources'[y].param = sources[y].param /\ sources'[y].text = sources[y].text
             /\ sources'[y].deleted = sources[y].deleted
             /\ y # x => sources'[y].redacted = sources[y].redacted
      BY <3>2, <3>3, <3>4
    <3> QED  BY <1>9, <2>1, <2>2, <3>6, <3>7
  <2>3. CASE ~(Cut # <<>> \/ TurnSource.param.sensible)
    BY <1>1, <1>2, <2>1, <2>3
  <2> QED  BY <2>2, <2>3
<1>14. EvidenceTyped'
  BY <1>1, <1>4, <1>13 DEF EvidenceTyped
<1>15. LoopTyped'
  <2>1. at' \in 0 .. Length /\ start' \in 0 .. at'
    BY <1>1, <1>6
  <2>2. \A j \in DOMAIN tainted' : tainted'[j] = evidence'.ranges[Gone' + j]
    <3> SUFFICES ASSUME NEW j \in DOMAIN tainted' PROVE tainted'[j] = evidence.ranges[(Gone + 1) + j]
      BY <1>1, <1>11
    <3>1. tainted[j + 1] = evidence.ranges[Gone + (j + 1)]
      BY <1>4, <1>11 DEF LoopTyped
    <3>2. Gone + (j + 1) = (Gone + 1) + j
      BY <1>7, <1>11
    <3> QED  BY <1>11, <3>1, <3>2
  <2>3. Len(tainted') <= Len(evidence'.ranges)
    BY <1>1, <1>7, <1>11
  <2> QED  BY <1>1, <1>8, <1>9, <1>11, <1>12, <1>13, <2>1, <2>2, <2>3 DEF LoopTyped
<1>16. SourcesTheirs'
  <2>1. \A k \in DOMAIN evidence.ranges : evidence.indexes[k] \in DOMAIN sources
    BY <1>4 DEF EvidenceTyped
  <2> QED  BY <1>1, <1>4, <1>13, <2>1 DEF SourcesTheirs
<1>17. InPlace'
  <2>1. \A j \in DOMAIN tainted' : t.end <= tainted'[j].start
    BY <1>7, <1>11
  <2>2. \A k \in 1 .. Gone + 1 : evidence.ranges[k].end <= t.end
    <3> SUFFICES ASSUME NEW k \in 1 .. Gone + 1 PROVE evidence.ranges[k].end <= t.end
      OBVIOUS
    <3>1. CASE k = Place
      BY <1>6, <3>1
    <3>2. CASE k \in 1 .. Gone
      <4>1. k \in DOMAIN evidence.ranges
        BY <1>7, <3>2
      <4>2. evidence.ranges[k].end <= start /\ evidence.ranges[k].end \in Int
        BY <1>4, <3>2, <4>1, TextRangesAre DEF InPlace, EvidenceTyped
      <4> QED  BY <1>5, <1>6, <4>2
    <3> QED  BY <1>7, <3>1, <3>2
  <2> QED  BY <1>1, <1>8, <1>11, <2>1, <2>2 DEF InPlace
<1>18. \A p : ~Carries(p)'
  <2>1. tainted' # <<>> => SourceIndex' \in DOMAIN sources
    <3> SUFFICES ASSUME tainted' # <<>> PROVE SourceIndex' \in DOMAIN sources
      OBVIOUS
    <3>1. Len(tainted') # 0
      BY <1>11
    <3>2. Place' = Len(evidence.ranges) - Len(tainted') + 1
      BY <1>1 DEF Place
    <3>3. Place' \in DOMAIN evidence.ranges
      BY <1>7, <1>11, <3>1, <3>2
    <3>4. SourceIndex' = evidence.indexes[Place']
      BY <1>1 DEF SourceIndex
    <3> QED  BY <1>4, <3>3, <3>4 DEF EvidenceTyped
  <2> QED  BY <1>12, <2>1 DEF Carries
<1>19. Covered'
  <2> SUFFICES ASSUME NEW p \in t.end .. Length - 1 PROVE (Sensitive(p) <=> Left(p) \/ Carries(p))'
    BY <1>1 DEF Covered
  <2>1. p \in at .. Length - 1 /\ p \in Int /\ p >= t.end
    BY <1>5, <1>6
  <2>2. Sensitive(p)' <=> Sensitive(p)
    BY <1>1 DEF Sensitive
  <2>3. ~Carries(p)
    BY <1>6, <2>1 DEF Carries, t
  <2>4. Left(p)' <=> HoldsSome(Rest, p)
    BY <1>1 DEF Left, HoldsSome
  <2> QED  BY <1>4, <1>8, <1>18, <2>1, <2>2, <2>3, <2>4 DEF Covered
<1>20. Carried'
  BY <1>12, <1>13 DEF Carried
<1>21. \A p : Secret(p)' <=> Secret(p)
  BY <1>1 DEF Secret
<1>22. SecretsFound'
  <2> SUFFICES ASSUME NEW k \in 1 .. Gone + 1, NEW p \in 0 .. Length - 1,
                      Holds(evidence.ranges[k], p), Secret(p)
               PROVE  evidence.indexes[k] \in TurnRedacted
    BY <1>1, <1>11, <1>21 DEF SecretsFound
  <2>1. CASE k \in 1 .. Gone
    BY <1>4, <1>9, <2>1 DEF SecretsFound
  <2>2. CASE k = Place
    <3>1. p \in t.start .. t.end - 1
      BY <1>6, <2>2 DEF Holds
    <3>2. Sensitive(p) \/ TurnSource.param.sensible
      BY <1>3, <3>1, TurnSecrets DEF t
    <3>3. Sensitive(p) => TurnHides # <<>>
      <4>1. Sensitive(p) <=> \E j \in DOMAIN TurnHides : Holds(TurnHides[j], p - t.start)
        BY <1>3, <3>1, TurnHidesIs DEF t
      <4> QED  BY <4>1
    <3>4. x \in TurnRedacted
      BY <1>9, <1>10, <3>2, <3>3
    <3> QED  BY <2>2, <3>4 DEF x, SourceIndex
  <2> QED  BY <1>7, <2>1, <2>2
<1>23. ToldSoFar'
  <2> SUFFICES ASSUME AllKept
               PROVE  Tells(valueParts', {p \in 0 .. t.end - 1 : ~Secret(p)'})
    <3>1. AllKept' <=> AllKept
      BY <1>1 DEF AllKept
    <3>2. start' .. at' - 1 = {}
      BY <1>1, <1>6
    <3> QED  BY <1>1, <3>1, <3>2 DEF ToldSoFar
  <2> DEFINE S == {p \in 0 .. at - 1 : ~Secret(p)}
             T == {p \in at .. t.end - 1 : ~Secret(p)}
  <2>1. Tells(told, S)
    BY <1>2, ToldToHere DEF told
  <2>2. Tells(hidden, {})
    BY <1>8, HiddenTells DEF hidden
  <2>3. Tells(TurnParts, T)
    BY <1>3, TurnTells DEF t
  <2>4. \A p \in S \cup {}, q \in T : p < q
    BY <1>5, <1>6
  <2>5. (S \cup {}) \cup T = {p \in 0 .. t.end - 1 : ~Secret(p)'}
    <3>1. \A p \in 0 .. t.end - 1 : p \in 0 .. at - 1 \/ p \in at .. t.end - 1
      BY <1>5, <1>6
    <3>2. \A p : p \in 0 .. at - 1 \/ p \in at .. t.end - 1 => p \in 0 .. t.end - 1
      BY <1>5, <1>6
    <3> QED  BY <1>21, <3>1, <3>2
  <2> HIDE DEF S, T
  <2>6. Tells(told \o hidden, S \cup {})
    BY <2>1, <2>2, Joined
  <2>7. Tells((told \o hidden) \o TurnParts, (S \cup {}) \cup T)
    BY <2>3, <2>4, <2>6, Joined
  <2> QED  BY <1>1, <2>5, <2>7
<1>24. LoopInv'
  BY <1>14, <1>15, <1>16, <1>17, <1>19, <1>20, <1>22, <1>23 DEF LoopInv
<1>25. EvidenceScrubbed'
  BY <1>1 DEF EvidenceScrubbed
<1> QED  BY <1>1, <1>2, <1>13, <1>24, <1>25 DEF RedactionInv

\* Every step keeps it.
LEMMA RedactionKeeps == RedactionInv /\ [FormatNext]_formatVars => RedactionInv'
<1> SUFFICES ASSUME RedactionInv, [FormatNext]_formatVars PROVE RedactionInv'
  OBVIOUS
<1>1. CASE phase = "idle" /\ formatted < Len(Reports) /\ \E e \in Reports[formatted + 1] : Begin(e)
  BY <1>1, BeginKeeps
<1>2. CASE TaintedTurn
  BY <1>2, TaintedKeeps
<1>3. CASE SensitiveTurn
  BY <1>3, SensitiveKeeps
<1>4. CASE PlainTurn
  BY <1>4, PlainKeeps
<1>5. CASE Finish
  BY <1>5, FinishKeeps
<1>6. CASE Return
  BY <1>6, ReturnKeeps
<1>7. CASE UNCHANGED formatVars
  BY <1>7, RedactionStutters
<1> QED  BY <1>1, <1>2, <1>3, <1>4, <1>5, <1>6, <1>7 DEF FormatNext

\* What the redaction of an evidence promises, for any reports, any tainted and
\* sensitive ranges and any shared sources: the formatter (vulnerabilities-formatter,
\* sensitive-handler.ts) returns parts that show the text but what is secret, all of
\* it and in its order, and a source of a range with a secret leaves with no value,
\* whenever the sources have the text that they taint.
THEOREM EvidenceIsScrubbed == FormatSpec => []EvidenceScrubbed
<1>1. RedactionInv => EvidenceScrubbed
  BY DEF RedactionInv
<1> QED  BY <1>1, RedactionStarts, RedactionKeeps, PTL DEF FormatSpec

-----------------------------------------------------------------------------
(* Side by side.                                                           *)

\* A step of Security is a step of one of its parts, or leaves them alone.
LEMMA PartsAreTheirs == PartsSpec => StartupSpec /\ Spec /\ FormatSpec /\ AppsecSpec
<1>1. PartsInit => StartupInit /\ Init /\ FormatInit /\ SecurityInit
  BY DEF PartsInit
<1>2. ASSUME [PartsNext]_partVars
      PROVE  /\ [StartupNext]_startupVars /\ [Next]_vars
             /\ [FormatNext]_formatVars /\ [AppsecNext]_appsecVars
  <2>1. CASE PartsNext
    BY <2>1, Zenon DEF PartsNext, OfStartup, OfIast, OfRedaction, OfAppSec
  <2>2. CASE UNCHANGED partVars
    BY <2>2, Zenon DEF partVars
  <2> QED  BY <1>2, <2>1, <2>2
<1> QED  BY <1>1, <1>2, PTL DEF PartsSpec, StartupSpec, Spec, FormatSpec, AppsecSpec

\* The start, IAST with its redaction, and application security keep side by side
\* what each keeps alone.
THEOREM PartsAreKept ==
    PartsSpec => /\ [](StartsInOrder /\ RecordsMeetTracer /\ LogPluginReady)
                 /\ []IastAddsUp
                 /\ []EvidenceScrubbed
                 /\ []RemoteConfigKept /\ []UserIsNamed
BY StartsAreInOrder, HandledRecordsMeetTracer, LogPluginIsReady, SlotsAndCountsAddUp,
   EvidenceIsScrubbed, RemoteConfigurationIsKept, LoginsNameUsers, PartsAreTheirs, PTL
=============================================================================
