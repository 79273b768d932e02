-------------------------------- MODULE Iast --------------------------------
(***************************************************************************)
(* Interactive security testing: which requests are analysed, how many     *)
(* vulnerabilities each may detect, how they are reported at the end of    *)
(* the request, and how the metrics of a request reach telemetry.          *)
(*                                                                         *)
(* The IAST context of a request is one object that its async store and    *)
(* its web context both refer to.  It is live until the end of the request *)
(* empties it; a store may go on referring to the emptied object.          *)
(* A vulnerability stands for its type and hash, the key of deduplication. *)
(*                                                                         *)
(* An event on the channel of a sink takes one token, whatever it finds:   *)
(* nothing where the location is excluded, several vulnerabilities where   *)
(* the cookies of a header have several weaknesses.                        *)
(***************************************************************************)
EXTENDS Integers, FiniteSetsExt, SequencesExt

CONSTANTS
    Requests,      \* the incoming requests of a behaviour
    Vulns,         \* type and hash of the vulnerabilities there are
    MaxConcurrent, \* maxConcurrentRequests, 2 by default
    MaxOps,        \* maxContextOperations, 2 by default
    MaxEnds,       \* bound: how often the end of a request is published
    MaxOutside     \* bound: analyses outside of a live request

ASSUME IastAssumption ==
    /\ IsFiniteSet(Requests)
    /\ MaxConcurrent \in Nat /\ MaxOps \in Nat
    /\ MaxEnds \in Nat \ {0} /\ MaxOutside \in Nat

VARIABLES
    available,     \* availableRequest
    started,       \* the requests whose start was published
    ends,          \* request -> where its end was published: "own" store or "none"
    live,          \* the requests with a live IAST context
    inStore,       \* the requests whose store refers to their context
    inTop,         \* the requests whose web context refers to it
    tokens,        \* request -> its tokens for REPORT_VULNERABILITY
    found,         \* request -> what its events have put in its context, in order
    globalTokens,  \* the tokens of GLOBAL_OCE_CONTEXT
    hashes,        \* VULNERABILITY_HASHES
    outside,       \* how many analyses there were outside of a live request
    reports,       \* vulnerability -> its reports since the cache was cleared
    detected,      \* the vulnerabilities that were ever added
    reported,      \* the vulnerabilities that were ever reported
    counts,        \* request -> executed.sink in its own namespace
    globalCount,   \* executed.sink in the global namespace
    executed,      \* how often executed.sink was increased
    sentCount      \* how much of it telemetry has sent

quotaVars == <<available, live, inStore, inTop, tokens, globalTokens>>
reportVars == <<found, hashes, reports, detected, reported>>
metricVars == <<counts, globalCount, executed, sentCount>>
vars == <<started, ends, outside, quotaVars, reportVars, metricVars>>

Init ==
    /\ available = MaxConcurrent
    /\ started = {}
    /\ ends = [r \in Requests |-> <<>>]
    /\ live = {} /\ inStore = {} /\ inTop = {}
    /\ tokens = [r \in Requests |-> 0]
    /\ found = [r \in Requests |-> <<>>]
    /\ globalTokens = MaxOps
    /\ hashes = {}
    /\ outside = 0
    /\ reports = [v \in Vulns |-> 0]
    /\ detected = {} /\ reported = {}
    /\ counts = [r \in Requests |-> 0]
    /\ globalCount = 0 /\ executed = 0 /\ sentCount = 0

-----------------------------------------------------------------------------
\* acquireRequest: a slot is free and the id of the root span is sampled.
Acquired(sampled) == sampled /\ available > 0

\* onIncomingHttpRequestStart.
RequestStart(r, sampled) ==
    /\ r \notin started
    /\ started' = started \cup {r}
    /\ IF Acquired(sampled)
       THEN /\ available' = available - 1
            /\ live' = live \cup {r}
            /\ inStore' = inStore \cup {r}
            /\ inTop' = inTop \cup {r}
            /\ tokens' = [tokens EXCEPT ![r] = MaxOps]
       ELSE UNCHANGED <<available, live, inStore, inTop, tokens>>
    /\ UNCHANGED <<ends, outside, globalTokens, reportVars, metricVars>>

\* A variant of Fresh: the cache is not asked.
FreshUncached(vs) == vs

\* deduplicateVulnerabilities: each key once, and none that is in the cache.
Fresh(vs) == vs \ hashes

\* sendVulnerabilities.
Send(vs) ==
    /\ hashes' = hashes \cup vs
    /\ reports' = [v \in Vulns |-> reports[v] + IF v \in Fresh(vs) THEN 1 ELSE 0]
    /\ reported' = reported \cup Fresh(vs)

\* A variant of Quota: reading the tokens does not take one.
QuotaUntouched(r) == tokens[r] > 0 /\ UNCHANGED tokens

\* hasQuota of a live request.
Quota(r) == tokens[r] > 0 /\ tokens' = [tokens EXCEPT ![r] = @ - 1]

\* The telemetry handler of an analyser's subscription.
CountIn(r) ==
    /\ executed' = executed + 1
    /\ counts' = [counts EXCEPT ![r] = @ + 1]
    /\ UNCHANGED <<globalCount, sentCount>>
CountGlobally ==
    /\ executed' = executed + 1
    /\ globalCount' = globalCount + 1
    /\ UNCHANGED <<counts, sentCount>>

\* Analyzer.analyze in the store of a live request: a token is taken before the
\* location is known, and what is not excluded waits in the context for the end
\* of the request.  The cookies of one header share the location and the token.
Analyze(r, vs) ==
    /\ r \in live \cap inStore
    /\ Quota(r)
    /\ found' = [found EXCEPT ![r] = Append(@, vs)]
    /\ detected' = detected \cup vs
    /\ CountIn(r)
    /\ UNCHANGED <<started, ends, outside, available, live, inStore, inTop, globalTokens,
                   hashes, reports, reported>>

\* The same without a token left, or of a value that is not vulnerable: counted.
AnalyzeInVain(r) ==
    /\ r \in live \cap inStore
    /\ outside < MaxOutside /\ outside' = outside + 1
    /\ CountIn(r)
    /\ UNCHANGED <<started, ends, quotaVars, reportVars>>

\* Analyzer.analyze where there is no store, or one that refers to an emptied
\* context: the global tokens, and a span of its own for each vulnerability.
AnalyzeOutside(vs) ==
    /\ outside < MaxOutside /\ outside' = outside + 1
    /\ IF globalTokens > 0
       THEN /\ globalTokens' = globalTokens - 1
            /\ detected' = detected \cup vs
            /\ Send(vs)
       ELSE UNCHANGED <<globalTokens, detected, hashes, reports, reported>>
    /\ CountGlobally
    /\ UNCHANGED <<started, ends, available, live, inStore, inTop, tokens, found>>

\* Analyzer.analyze in the store of a request that is not analysed, or whose
\* end was published in that store: only counted.
AnalyzeUnsampled(r) ==
    /\ r \in started \ inStore
    /\ outside < MaxOutside /\ outside' = outside + 1
    /\ CountGlobally
    /\ UNCHANGED <<started, ends, quotaVars, reportVars>>

-----------------------------------------------------------------------------
\* finalizeRequestNamespace and merge, of what was counted up to the end: that
\* the headers of the response were looked at is the last of it.
MergeCounts(r) ==
    /\ executed' = executed + 1
    /\ globalCount' = globalCount + counts[r] + 1
    /\ counts' = [counts EXCEPT ![r] = 0]
    /\ UNCHANGED sentCount

\* What waits in the context of a request.
Waiting(r) == UNION ToSet(found[r])

\* A variant of Deliver: the context is emptied before it is read.
DeliverEmptied(r, headers) ==
    /\ detected' = detected \cup headers
    /\ Send(headers)
    /\ found' = [found EXCEPT ![r] = <<>>]
    /\ MergeCounts(r)

\* What the end of a request does with a live context before emptying it.  The
\* analysers of missing headers hear of it first, take no token, and add what
\* they find to the context or, without a store, send it on spans of their own.
Deliver(r, headers) ==
    /\ detected' = detected \cup headers
    /\ Send(Waiting(r) \cup headers)
    /\ found' = [found EXCEPT ![r] = <<>>]
    /\ MergeCounts(r)

\* getIastContext: in the store, or else in the web context.
Referred(r, where) == (where = "own" /\ r \in inStore) \/ r \in inTop

\* A variant of CleanedTop: the web context goes on referring to the object.
CleanedTopNever(r) == inTop

\* cleanIastContext: the web context no longer refers to the object.
CleanedTop(r) == inTop \ {r}

\* releaseRequest.
Released == available' = IF available < MaxConcurrent THEN available + 1 ELSE available

\* onIncomingHttpRequestEnd and cleanIastContext, which empties the context it
\* was given, cleans the references it can reach and says if there was one.  An
\* end without a store leaves the emptied object in the store, where a later
\* one finds it.
RequestEnd(r, where, headers) ==
    /\ r \in started
    /\ Len(ends[r]) < MaxEnds
    /\ ends' = [ends EXCEPT ![r] = Append(@, where)]
    /\ inStore' = IF where = "own" THEN inStore \ {r} ELSE inStore
    /\ inTop' = CleanedTop(r)
    /\ IF Referred(r, where)
       THEN live' = live \ {r} /\ Released
       ELSE UNCHANGED <<live, available>>
    /\ IF Referred(r, where) /\ r \in live
       THEN Deliver(r, headers)
       ELSE UNCHANGED <<reportVars, metricVars>>
    /\ UNCHANGED <<started, outside, tokens, globalTokens>>

\* The interval of startGlobalContext.
ResetGlobalContext ==
    /\ globalTokens' = MaxOps
    /\ UNCHANGED <<started, ends, outside, available, live, inStore, inTop, tokens,
                   reportVars, metricVars>>

\* The interval of startClearCacheTimer; the count of reports starts anew.
ClearCache ==
    /\ hashes' = {}
    /\ reports' = [v \in Vulns |-> 0]
    /\ UNCHANGED <<started, ends, outside, quotaVars, found, detected, reported, metricVars>>

\* NamespaceManager.send of the IAST namespace, which it then clears.
SendMetrics ==
    /\ sentCount' = sentCount + globalCount
    /\ globalCount' = 0
    /\ UNCHANGED <<started, ends, outside, quotaVars, reportVars, counts, executed>>

Next ==
    \/ \E r \in Requests :
         \/ \E sampled \in BOOLEAN : RequestStart(r, sampled)
         \/ \E vs \in SUBSET Vulns : Analyze(r, vs)
         \/ AnalyzeInVain(r) \/ AnalyzeUnsampled(r)
         \/ \E where \in {"own", "none"}, headers \in SUBSET Vulns :
               RequestEnd(r, where, headers)
    \/ \E vs \in SUBSET Vulns : AnalyzeOutside(vs)
    \/ ResetGlobalContext \/ ClearCache \/ SendMetrics

Spec == Init /\ [][Next]_vars

-----------------------------------------------------------------------------
(***************************************************************************)
(* Properties.                                                             *)
(***************************************************************************)
\* Every variable has its type; no counter leaves its range.
TypeOK ==
    /\ available \in 0..MaxConcurrent
    /\ started \subseteq Requests
    /\ \A r \in Requests : ends[r] \in UNION {[1..n -> {"own", "none"}] : n \in 0..MaxEnds}
    /\ live \subseteq Requests /\ inStore \subseteq Requests /\ inTop \subseteq Requests
    /\ tokens \in [Requests -> 0..MaxOps]
    /\ \A r \in Requests : found[r] \in UNION {[1..n -> SUBSET Vulns] : n \in 0..MaxOps}
    /\ globalTokens \in 0..MaxOps
    /\ hashes \subseteq Vulns
    /\ outside \in 0..MaxOutside
    /\ reports \in [Vulns -> Nat]
    /\ detected \subseteq Vulns /\ reported \subseteq Vulns
    /\ counts \in [Requests -> Nat]
    /\ globalCount \in Nat /\ executed \in Nat /\ sentCount \in Nat

\* The requests whose end came without a store first, and in the store later.
ReleasedAnew ==
    {r \in Requests : "own" \in ToSet(ends[r]) /\ Head(ends[r]) = "none"}

\* The free slots and the requests under analysis add up to the limit: no slot
\* leaks, however often and wherever the end of a request is published, and none
\* is given back twice but for a request whose end comes without a store and
\* then in it (the TODO of iast-context.ts); each such request may let one more
\* than maxConcurrentRequests be analysed.
SlotsAddUp ==
    /\ MaxConcurrent <= available + Cardinality(live)
    /\ available + Cardinality(live) <= MaxConcurrent + Cardinality(ReleasedAnew)

\* In a request at most maxContextOperations events report, each of which was
\* paid with one token of this request, whatever the event then found and
\* whatever other requests and analyses outside of one take meanwhile.
QuotaKept ==
    \A r \in live : Len(found[r]) + tokens[r] = MaxOps

\* Between two clearings of the cache a vulnerability is reported at most once,
\* by whichever requests and analyses detect it.
ReportedOnce == \A v \in Vulns : reports[v] <= 1

\* A vulnerability that was added has been reported or waits in the context of a
\* live request: what the events of a request, the analysers that hear of its
\* end and analyses outside of one add is never dropped.
NothingDropped == detected \subseteq reported \cup UNION {Waiting(r) : r \in live}

\* Every increase of a metric is in the namespace of a live request, in the
\* global one, or sent.
LiveIncreases == UNION {{r} \X (1..counts[r]) : r \in live}
CountsConserved == executed = sentCount + globalCount + Cardinality(LiveIncreases)

\* The slots and the metrics of the requests add up, in states of their type.
IastAddsUp == TypeOK /\ SlotsAddUp /\ CountsConserved
=============================================================================
