---------------------------- MODULE RequestsProofs ----------------------------
(***************************************************************************)
(* Requests: types, the counter and the answers, for any set of requests   *)
(* and any limit.                                                          *)
(***************************************************************************)
EXTENDS Requests, FiniteSetTheorems, TLAPS

\* How many attempts a request has made in each phase, and which can have
\* been received.
AttemptsOf(r) ==
    /\ phase[r] = "new" => sent[r] = 0
    /\ phase[r] \in {"first", "retry"} => sent[r] = 1
    /\ phase[r] \in {"second", "failed"} => sent[r] = 2
    /\ phase[r] = "discarded" => sent[r] < 2
    /\ phase[r] \in {"body", "answered", "refused", "mute"} => sent[r] \in received[r]
    /\ received[r] \subseteq 1..sent[r]

Attempts == \A r \in Requests : AttemptsOf(r)

IndInv == TypeOK /\ SlotsAreFetches /\ Attempts

\* The pending fetches are finitely many, as the requests are.
LEMMA InFlightFinite ==
    /\ IsFiniteSet(InFlight)
    /\ Cardinality(InFlight) \in Nat
  BY FS_Subset, FS_CardinalityType, RequestsAssumption DEF RequestsAssumption, InFlight

\* A fetch that begins takes one slot.
LEMMA OneMore ==
    ASSUME NEW r \in Requests, r \notin InFlight, InFlight' = InFlight \cup {r}
    PROVE  Cardinality(InFlight)' = Cardinality(InFlight) + 1
  BY FS_AddElement, InFlightFinite

\* A fetch that ends gives one slot back.
LEMMA OneLess ==
    ASSUME NEW r \in Requests, r \in InFlight, InFlight' = InFlight \ {r}
    PROVE  Cardinality(InFlight)' = Cardinality(InFlight) - 1
  BY FS_RemoveElement, InFlightFinite

\* An attempt takes a slot exactly when it becomes a pending fetch
\* (makeRequest up to its first await).
LEMMA AttemptStep ==
    ASSUME IndInv, NEW r \in Requests, r \notin InFlight, NEW attempt \in Fetching,
           phase' = [phase EXCEPT ![r] = Attempted(attempt)],
           activeRequests' = activeRequests + Taken
    PROVE  /\ SlotsAreFetches'
           /\ activeRequests' \in 0..MaxActiveRequests
           /\ phase' \in [Requests -> Phases]
<1> USE DEF IndInv, TypeOK, Fetching
<1>1. CASE isWritable
  <2>1. InFlight' = InFlight \cup {r}
    BY <1>1 DEF InFlight, Attempted
  <2>2. Cardinality(InFlight)' = Cardinality(InFlight) + 1
    BY <2>1, OneMore
  <2> QED
    BY <1>1, <2>2, RequestsAssumption
    DEF RequestsAssumption, SlotsAreFetches, isWritable, Taken, Attempted, Phases
<1>2. CASE ~isWritable
  <2>1. InFlight' = InFlight
    BY <1>2 DEF InFlight, Attempted
  <2> QED
    BY <1>2, <2>1 DEF SlotsAreFetches, Taken, Attempted, Phases, Settled
<1> QED  BY <1>1, <1>2

\* A fetch that ends leaves its slot, whatever follows it.
LEMMA EndStep ==
    ASSUME IndInv, NEW r \in Requests, r \in InFlight, NEW next \in Phases \ Fetching,
           phase' = [phase EXCEPT ![r] = next],
           activeRequests' = activeRequests - 1
    PROVE  /\ SlotsAreFetches'
           /\ activeRequests' \in 0..MaxActiveRequests
           /\ phase' \in [Requests -> Phases]
<1>1. InFlight' = InFlight \ {r}
  BY DEF IndInv, TypeOK, InFlight
<1>2. Cardinality(InFlight)' = Cardinality(InFlight) - 1
  BY <1>1, OneLess
<1>3. Cardinality(InFlight)' \in Nat
  <2>1. IsFiniteSet(InFlight \ {r})
    BY InFlightFinite, FS_Subset
  <2> QED  BY <1>1, <2>1, FS_CardinalityType
<1> QED
  BY <1>2, <1>3, RequestsAssumption DEF IndInv, TypeOK, SlotsAreFetches, RequestsAssumption

\* A request made by the callback of one that failed: the slots add up.
LEMMA GiveUpStep ==
    ASSUME IndInv, NEW r \in Requests, GiveUp(r)
    PROVE  /\ SlotsAreFetches'
           /\ activeRequests' \in 0..MaxActiveRequests
           /\ phase' \in [Requests -> Phases]
           /\ Attempts'
           /\ sent' \in [Requests -> 0..2]
<1> USE DEF IndInv, TypeOK
<1>1. PICK next \in {{}} \cup {{n} : n \in {m \in Requests : phase[m] = "new"}} :
        /\ phase' = [x \in Requests |-> IF x = r THEN "failed"
                                        ELSE IF x \in next THEN Attempted("first")
                                        ELSE phase[x]]
        /\ sent' = [x \in Requests |-> IF x \in next
                                       THEN IF next = {} THEN 0 ELSE Taken
                                       ELSE sent[x]]
        /\ activeRequests' = activeRequests + (IF next = {} THEN 0 ELSE Taken) - 1
  BY DEF GiveUp
<1>2. phase[r] = "second" /\ received' = received /\ r \notin next
  BY <1>1 DEF GiveUp
<1>3. Attempts' /\ sent' \in [Requests -> 0..2]
  <2> SUFFICES ASSUME NEW x \in Requests
               PROVE  AttemptsOf(x)' /\ sent'[x] \in 0..2
    BY <1>1 DEF Attempts
  <2>1. AttemptsOf(x)
    BY DEF Attempts
  <2>2. CASE x = r
    BY <1>1, <1>2, <2>1, <2>2 DEF AttemptsOf
  <2>3. CASE x \in next
    <3>1. phase[x] = "new" /\ next # {} /\ x # r
      BY <1>2, <2>3
    <3>2. sent'[x] = Taken /\ phase'[x] = Attempted("first")
      BY <1>1, <2>3, <3>1
    <3> QED  BY <1>2, <2>1, <3>1, <3>2 DEF AttemptsOf, Attempted, Taken
  <2>4. CASE x # r /\ x \notin next
    BY <1>1, <1>2, <2>1, <2>4 DEF AttemptsOf
  <2> QED  BY <2>2, <2>3, <2>4
<1>4. phase' \in [Requests -> Phases]
  BY <1>1 DEF Phases, Settled, Fetching, Attempted
<1>5. r \in InFlight
  BY <1>2 DEF InFlight, Fetching
<1>6. CASE next = {} \/ ~isWritable
  <2>1. InFlight' = InFlight \ {r}
    BY <1>1, <1>2, <1>6 DEF InFlight, Fetching, Attempted
  <2>2. Cardinality(InFlight)' = Cardinality(InFlight) - 1
    BY <1>5, <2>1, OneLess
  <2>3. activeRequests' = activeRequests - 1
    BY <1>1, <1>6 DEF Taken
  <2>4. Cardinality(InFlight) # 0
    BY <1>5, InFlightFinite, FS_EmptySet
  <2> QED
    BY <1>3, <1>4, <2>2, <2>3, <2>4, RequestsAssumption, InFlightFinite
    DEF SlotsAreFetches, RequestsAssumption
<1>7. CASE next # {} /\ isWritable
  <2>1. PICK n \in Requests : next = {n} /\ phase[n] = "new"
    BY <1>1, <1>7
  <2>2. InFlight' = (InFlight \cup {n}) \ {r}
    BY <1>1, <1>2, <1>7, <2>1 DEF InFlight, Fetching, Attempted
  <2>3. n \notin InFlight /\ n # r
    BY <1>2, <2>1 DEF InFlight, Fetching
  <2>4. /\ IsFiniteSet(InFlight \cup {n})
        /\ Cardinality(InFlight \cup {n}) = Cardinality(InFlight) + 1
    BY <2>3, InFlightFinite, FS_AddElement
  <2>5. Cardinality(InFlight)' = Cardinality(InFlight)
    <3>1. r \in InFlight \cup {n}
      BY <1>5
    <3>2. Cardinality((InFlight \cup {n}) \ {r}) = Cardinality(InFlight \cup {n}) - 1
      BY <2>4, <3>1, FS_RemoveElement
    <3> QED  BY <2>2, <2>4, <3>2, InFlightFinite
  <2>6. activeRequests' = activeRequests
    BY <1>1, <1>7, RequestsAssumption DEF Taken, RequestsAssumption
  <2> QED
    BY <1>3, <1>4, <2>5, <2>6 DEF SlotsAreFetches
<1> QED  BY <1>3, <1>4, <1>6, <1>7

\* No request has been made at first, and no slot is taken.
LEMMA IndInvInit == Init => IndInv
<1> SUFFICES ASSUME Init PROVE IndInv
  OBVIOUS
<1>1. InFlight = {}
  BY DEF Init, InFlight, Fetching
<1> QED
  BY <1>1, FS_EmptySet, RequestsAssumption
  DEF Init, IndInv, TypeOK, Phases, SlotsAreFetches, Attempts, AttemptsOf, RequestsAssumption

\* Every turn of the event loop, and the network, keep the invariant.
LEMMA IndInvStep == IndInv /\ [Next]_requestVars => IndInv'
<1> SUFFICES ASSUME IndInv, [Next]_requestVars PROVE IndInv'
  OBVIOUS
<1> USE DEF IndInv, TypeOK
<1>1. ASSUME NEW r \in Requests, Request(r) PROVE IndInv'
  <2>1. r \notin InFlight
    BY <1>1 DEF Request, InFlight, Fetching
  <2>2. SlotsAreFetches' /\ activeRequests' \in 0..MaxActiveRequests /\ phase' \in [Requests -> Phases]
    BY <1>1, <2>1, AttemptStep DEF Request, Fetching
  <2> QED
    BY <1>1, <2>2 DEF Request, Attempts, AttemptsOf, Attempted, Taken
<1>2. ASSUME NEW r \in Requests, Headers(r) PROVE IndInv'
  <2>1. SlotsAreFetches' /\ activeRequests' \in 0..MaxActiveRequests /\ phase' \in [Requests -> Phases]
    BY <1>2, EndStep DEF Headers, InFlight, Fetching, Waiting, Phases
  <2> QED
    BY <1>2, <2>1 DEF Headers, Attempts, AttemptsOf
<1>3. ASSUME NEW r \in Requests, Fail(r) PROVE IndInv'
  <2>1. SlotsAreFetches' /\ activeRequests' \in 0..MaxActiveRequests /\ phase' \in [Requests -> Phases]
    BY <1>3, EndStep DEF Fail, InFlight, Fetching, Waiting, Phases
  <2> QED
    BY <1>3, <2>1 DEF Fail, Attempts, AttemptsOf
<1>4. ASSUME NEW r \in Requests, Retry(r) PROVE IndInv'
  <2>1. r \notin InFlight
    BY <1>4 DEF Retry, InFlight, Fetching
  <2>2. SlotsAreFetches' /\ activeRequests' \in 0..MaxActiveRequests /\ phase' \in [Requests -> Phases]
    BY <1>4, <2>1, AttemptStep DEF Retry, Fetching
  <2> QED
    BY <1>4, <2>2 DEF Retry, Attempts, AttemptsOf, Attempted, Taken
<1>5. ASSUME NEW r \in Requests, GiveUp(r) PROVE IndInv'
  BY <1>5, GiveUpStep DEF GiveUp
<1>6. ASSUME NEW r \in Requests, Answer(r) \/ Refuse(r) \/ LoseBody(r) PROVE IndInv'
  <2>1. InFlight' = InFlight
    BY <1>6 DEF Answer, Refuse, LoseBody, InFlight, Fetching
  <2> QED
    BY <1>6, <2>1
    DEF Answer, Refuse, LoseBody, Attempts, AttemptsOf, SlotsAreFetches, Phases, Settled
<1>7. ASSUME NEW r \in Requests, Deliver(r) PROVE IndInv'
  <2>1. InFlight' = InFlight
    BY <1>7 DEF Deliver, InFlight
  <2> QED
    BY <1>7, <2>1 DEF Deliver, Attempts, AttemptsOf, SlotsAreFetches
<1>8. CASE UNCHANGED requestVars
  BY <1>8 DEF requestVars, Attempts, AttemptsOf, SlotsAreFetches, InFlight
<1> QED  BY <1>1, <1>2, <1>3, <1>4, <1>5, <1>6, <1>7, <1>8 DEF Next

\* The inductive invariant of the requests holds in every reachable state.
THEOREM Inductive == Spec => []IndInv
<1> QED  BY IndInvInit, IndInvStep, PTL DEF Spec

\* With no fetch pending the counter is zero, and requests can be made.
LEMMA IdleIsWritable ==
    ASSUME IndInv, \A r \in Requests : phase[r] \notin Fetching
    PROVE  activeRequests = 0 /\ isWritable
<1>1. InFlight = {}
  BY DEF InFlight
<1> QED
  BY <1>1, FS_EmptySet, RequestsAssumption
  DEF IndInv, SlotsAreFetches, isWritable, RequestsAssumption

\* The counter of active requests never exceeds its limit nor falls below
\* zero, and no request is attempted more than twice.
THEOREM RequestsTyped == Spec => []TypeOK
<1>1. IndInv => TypeOK
  BY DEF IndInv
<1> QED  BY <1>1, Inductive, PTL

\* However requests start, fail, are retried, discarded or made from
\* callbacks, the counter is the number of pending fetches.
THEOREM CounterIsExact == Spec => []SlotsAreFetches
<1>1. IndInv => SlotsAreFetches
  BY DEF IndInv
<1> QED  BY <1>1, Inductive, PTL

\* An answer is always the answer to an attempt the agent has received.
THEOREM AnswersAreReal == Spec => []AnsweredWasReceived
<1>1. ASSUME IndInv, NEW r \in Requests
      PROVE  /\ phase[r] \in {"body", "answered", "refused", "mute"} => sent[r] \in received[r]
             /\ phase[r] = "discarded" /\ received[r] # {} => sent[r] = 1
             /\ phase[r] = "failed" => sent[r] = 2
  BY <1>1 DEF IndInv, TypeOK, Attempts, AttemptsOf
<1>2. IndInv => AnsweredWasReceived
  BY <1>1 DEF AnsweredWasReceived
<1> QED  BY <1>2, Inductive, PTL
=============================================================================
