------------------------------- MODULE Requests -------------------------------
(***************************************************************************)
(* exporters/common/request.ts: the requests a process makes to the agent, *)
(* at most maxActiveRequests of them at a time.  A request past the limit  *)
(* is discarded; one whose fetch is rejected, by an error or by its        *)
(* two-second timeout, is made once more.                                  *)
(*                                                                         *)
(* The turns of the event loop are the actions.  The network is external:  *)
(* what a fetch has put on the wire may arrive late, after the attempt was *)
(* given up, or never.                                                     *)
(***************************************************************************)
EXTENDS Integers, FiniteSets

CONSTANTS
    Requests,          \* bound: the calls of request() in a behaviour
    MaxActiveRequests  \* maxActiveRequests, 8 in the code

ASSUME RequestsAssumption == IsFiniteSet(Requests) /\ MaxActiveRequests \in Nat \ {0}

VARIABLES
    activeRequests,  \* the module's counter
    phase,           \* request -> how far it has come
    sent,            \* request -> how many of its attempts called fetch
    received         \* request -> the attempts the agent has received

requestVars == <<activeRequests, phase, sent, received>>

\* A fetch is pending; its answer's body is awaited, or a retry is scheduled;
\* the callback has been called, or, if the body was lost, never will be.
Fetching == {"first", "second"}
Waiting == {"retry", "body"}
Settled == {"answered", "refused", "failed", "discarded"}
Phases == {"new", "mute"} \cup Fetching \cup Waiting \cup Settled

InFlight == {r \in Requests : phase[r] \in Fetching}

Init ==
    /\ activeRequests = 0
    /\ phase = [r \in Requests |-> "new"]
    /\ sent = [r \in Requests |-> 0]
    /\ received = [r \in Requests |-> {}]

-----------------------------------------------------------------------------
isWritable == activeRequests < MaxActiveRequests

\* A variant of Attempted: the slot is taken, whatever becomes of the attempt.
AttemptedAnyway(attempt) == attempt

\* makeRequest up to its first await: the attempt is under way, or discarded.
Attempted(attempt) == IF isWritable THEN attempt ELSE "discarded"
Taken == IF isWritable THEN 1 ELSE 0

\* request(), called from a turn in which no request is failing.
Request(r) ==
    /\ phase[r] = "new"
    /\ phase' = [phase EXCEPT ![r] = Attempted("first")]
    /\ activeRequests' = activeRequests + Taken
    /\ sent' = [sent EXCEPT ![r] = Taken]
    /\ UNCHANGED received

\* A variant of Headers: the slot is kept for the body, and then forgotten.
HeadersKeepingSlot(r) ==
    /\ phase[r] \in Fetching
    /\ sent[r] \in received[r]
    /\ phase' = [phase EXCEPT ![r] = "body"]
    /\ UNCHANGED <<activeRequests, sent, received>>

\* The response's headers arrive: onResponse starts to read the body and is
\* not awaited, so the request no longer counts as active.
Headers(r) ==
    /\ phase[r] \in Fetching
    /\ sent[r] \in received[r]
    /\ phase' = [phase EXCEPT ![r] = "body"]
    /\ activeRequests' = activeRequests - 1
    /\ UNCHANGED <<sent, received>>

\* A variant of Fail: no retry is scheduled, and no callback called.
FailWithoutRetry(r) ==
    /\ phase[r] = "first"
    /\ phase' = [phase EXCEPT ![r] = "forgotten"]
    /\ activeRequests' = activeRequests - 1
    /\ UNCHANGED <<sent, received>>

\* The first fetch is rejected: the second attempt waits for a timer.
Fail(r) ==
    /\ phase[r] = "first"
    /\ phase' = [phase EXCEPT ![r] = "retry"]
    /\ activeRequests' = activeRequests - 1
    /\ UNCHANGED <<sent, received>>

Retry(r) ==
    /\ phase[r] = "retry"
    /\ phase' = [phase EXCEPT ![r] = Attempted("second")]
    /\ activeRequests' = activeRequests + Taken
    /\ sent' = [sent EXCEPT ![r] = @ + Taken]
    /\ UNCHANGED received

\* A variant of GiveUp: every rejected fetch is made again.
GiveUpRetries(r) ==
    /\ phase[r] = "second"
    /\ phase' = [phase EXCEPT ![r] = "retry"]
    /\ activeRequests' = activeRequests - 1
    /\ UNCHANGED <<sent, received>>

\* The second fetch is rejected: the callback runs before the finally block
\* gives the slot back, so that a request the callback makes, if it makes one,
\* finds the slot of the failed one still taken.
GiveUp(r) ==
    /\ phase[r] = "second"
    /\ \E next \in {{}} \cup {{n} : n \in {m \in Requests : phase[m] = "new"}} :
          LET calls == IF next = {} THEN 0 ELSE Taken
          IN /\ phase' = [x \in Requests |->
                            IF x = r THEN "failed"
                            ELSE IF x \in next THEN Attempted("first")
                            ELSE phase[x]]
             /\ sent' = [x \in Requests |-> IF x \in next THEN calls ELSE sent[x]]
             /\ activeRequests' = activeRequests + calls - 1
    /\ UNCHANGED received

\* The body has been read: the callback gets it, or an error if the status is
\* not one of success; an error of the agent is not retried.
Answer(r) ==
    /\ phase[r] = "body"
    /\ phase' = [phase EXCEPT ![r] = "answered"]
    /\ UNCHANGED <<activeRequests, sent, received>>

Refuse(r) ==
    /\ phase[r] = "body"
    /\ phase' = [phase EXCEPT ![r] = "refused"]
    /\ UNCHANGED <<activeRequests, sent, received>>

\* Reading the body fails, as when the timeout strikes during it: onResponse
\* is rejected and nobody handles that.
LoseBody(r) ==
    /\ phase[r] = "body"
    /\ phase' = [phase EXCEPT ![r] = "mute"]
    /\ UNCHANGED <<activeRequests, sent, received>>

\* The network: an attempt arrives at the agent, in time or late.
Deliver(r) ==
    /\ \E a \in 1..sent[r] :
          /\ a \notin received[r]
          /\ received' = [received EXCEPT ![r] = @ \cup {a}]
    /\ UNCHANGED <<activeRequests, phase, sent>>

Next ==
    \E r \in Requests :
        \/ Request(r)
        \/ Headers(r)
        \/ Fail(r)
        \/ Retry(r)
        \/ GiveUp(r)
        \/ Answer(r)
        \/ Refuse(r)
        \/ LoseBody(r)
        \/ Deliver(r)

Spec == Init /\ [][Next]_requestVars

\* A fetch ends because its signal aborts it; that of the body does, too; and
\* the timer of the retry fires.  Nothing makes the agent receive or answer.
Fairness ==
    \A r \in Requests :
        /\ WF_requestVars(Headers(r) \/ Fail(r) \/ GiveUp(r))
        /\ WF_requestVars(Answer(r) \/ Refuse(r) \/ LoseBody(r))
        /\ WF_requestVars(Retry(r))

FairSpec == Spec /\ Fairness

-----------------------------------------------------------------------------
TypeOK ==
    /\ activeRequests \in 0..MaxActiveRequests
    /\ phase \in [Requests -> Phases]
    /\ sent \in [Requests -> 0..2]
    /\ received \in [Requests -> SUBSET (1..2)]

\* Every slot taken is that of a pending fetch, and every pending fetch has
\* one, through retries, discards and requests made from a callback: the
\* counter neither leaks nor is given back twice.
SlotsAreFetches == activeRequests = Cardinality(InFlight)

\* A request is only reported as answered if the agent has received the very
\* attempt that is reported; and one discarded before its first attempt never
\* reaches the agent at all.
AnsweredWasReceived ==
    \A r \in Requests :
        /\ phase[r] \in {"body", "answered", "refused", "mute"} => sent[r] \in received[r]
        /\ phase[r] = "discarded" /\ received[r] # {} => sent[r] = 1
        /\ phase[r] = "failed" => sent[r] = 2

\* Every request made settles, unless the body of its answer is lost.
RequestsEnd == \A r \in Requests : phase[r] # "new" ~> phase[r] \in Settled \cup {"mute"}
=============================================================================
