---------------------------- MODULE AgentExporter ----------------------------
(***************************************************************************)
(* The way of a chunk from exporter.export to the agent: AgentExporter,    *)
(* its Writer and the buffer of the encoder, over the requests of the      *)
(* process (module Requests), which other parts of it make, too.           *)
(*                                                                         *)
(* Chunks are numbered in the order they are exported.  A request of the   *)
(* writer is named after one of the chunks of its payload.                 *)
(***************************************************************************)
EXTENDS Integers, FiniteSets

CONSTANTS
    MaxChunks,          \* bound: chunks exported in a behaviour
    Others,             \* bound: requests made by other parts of the process
    MaxActiveRequests,  \* maxActiveRequests, 8 in the code
    SoftLimit,          \* the encoder's limit, in chunks
    Intervals           \* what flushInterval may be: "zero", "positive", "negative"

ASSUME ChunksAssumption == MaxChunks \in Nat /\ SoftLimit \in Nat

ASSUME OthersAssumption ==
    IsFiniteSet(Others) /\ Others \cap Int = {} /\ MaxActiveRequests \in Nat \ {0}

ASSUME IntervalsAssumption == Intervals \subseteq {"zero", "positive", "negative"}

Chunks == 1..MaxChunks

VARIABLES
    interval,  \* flushInterval of this process's configuration
    exported,  \* how many chunks export() has been called with
    buffer,    \* the chunks in the encoder's buffer
    dropped,   \* the chunks discarded before any request was made for them
    payload,   \* the writer's request -> the chunks in its payload
    timer,     \* AgentExporter._timer is set
    rates,     \* the request whose answer set the sampler's rates; 0, built in
    up,        \* the process runs
    activeRequests, phase, sent, received

Net == INSTANCE Requests WITH Requests <- Chunks \cup Others

writerVars == <<buffer, dropped, payload>>
netVars == <<activeRequests, phase, sent, received>>
vars == <<interval, exported, writerVars, timer, rates, up, netVars>>

Init ==
    /\ interval \in Intervals
    /\ exported = 0
    /\ buffer = {}
    /\ dropped = {}
    /\ payload = [c \in Chunks |-> {}]
    /\ timer = FALSE
    /\ rates = 0
    /\ up = TRUE
    /\ Net!Init

-----------------------------------------------------------------------------
NameOf(buf) == CHOOSE c \in buf : TRUE

\* A variant of Send: the buffer is not reset, only one chunk removed from it.
SendWithoutReset(buf) ==
    IF buf = {}
    THEN UNCHANGED <<payload, netVars>> /\ buffer' = {}
    ELSE /\ Net!Request(NameOf(buf))
         /\ payload' = [payload EXCEPT ![NameOf(buf)] = buf]
         /\ buffer' = buf \ {NameOf(buf)}

\* makePayload and _sendPayload, if there is anything to send.
Send(buf) ==
    IF buf = {}
    THEN UNCHANGED <<payload, netVars>> /\ buffer' = {}
    ELSE /\ Net!Request(NameOf(buf))
         /\ payload' = [payload EXCEPT ![NameOf(buf)] = buf]
         /\ buffer' = {}

\* A variant of Flush: what cannot be sent stays in the buffer.
FlushKeepsBuffer(buf, refused) ==
    IF Net!isWritable
    THEN Send(buf) /\ dropped' = dropped \cup refused
    ELSE /\ buffer' = buf
         /\ dropped' = dropped \cup refused
         /\ UNCHANGED <<payload, netVars>>

\* Writer.flush, with buf in the encoder and `refused` by append just before:
\* at the limit of active requests the buffer is discarded.
Flush(buf, refused) ==
    IF Net!isWritable
    THEN Send(buf) /\ dropped' = dropped \cup refused
    ELSE /\ buffer' = {}
         /\ dropped' = dropped \cup refused \cup buf
         /\ UNCHANGED <<payload, netVars>>

\* Writer.append and AgentEncoder.encode, which flushes a buffer that is over
\* its limit; then export() flushes, or sees to it that a timer will.  A second
\* flush in the same call finds the buffer empty.
Export ==
    LET c == exported + 1
        buf == IF Net!isWritable THEN buffer \cup {c} ELSE buffer
        refused == IF Net!isWritable THEN {} ELSE {c}
        overLimit == Net!isWritable /\ Cardinality(buf) > SoftLimit
    IN /\ up
       /\ exported < MaxChunks
       /\ exported' = c
       /\ IF overLimit \/ interval = "zero"
          THEN Flush(buf, refused)
          ELSE /\ buffer' = buf
               /\ dropped' = dropped \cup refused
               /\ UNCHANGED <<payload, netVars>>
       /\ timer' = (timer \/ interval = "positive")
       /\ UNCHANGED <<interval, rates, up>>

\* exporter.flush, called by the application.
ManualFlush ==
    /\ up
    /\ Flush(buffer, {})
    /\ UNCHANGED <<interval, exported, timer, rates, up>>

\* The timer of export() fires.
FlushTimer ==
    /\ up
    /\ timer
    /\ Flush(buffer, {})
    /\ timer' = FALSE
    /\ UNCHANGED <<interval, exported, rates, up>>

\* The event loop has nothing left to do, an unref'd timer aside: beforeunload
\* is dispatched, the buffer flushed, and the process ends.
Unload ==
    /\ up
    /\ \A r \in Chunks \cup Others : phase[r] \notin Net!Fetching \cup Net!Waiting
    /\ Flush(buffer, {})
    /\ up' = FALSE
    /\ UNCHANGED <<interval, exported, timer, rates>>

\* Another part of the process makes a request.
OtherRequest(r) ==
    /\ up
    /\ Net!Request(r)
    /\ UNCHANGED <<interval, exported, writerVars, timer, rates, up>>

\* A request is under way.  A callback of the writer makes no request.
Proceed(r) ==
    /\ up
    /\ \/ Net!Headers(r)
       \/ Net!Fail(r)
       \/ Net!Retry(r)
       \/ /\ Net!GiveUp(r)
          /\ \A c \in Chunks : phase[c] = "new" => phase'[c] = "new"
          /\ r \in Chunks => \A o \in Others : phase'[o] = phase[o]
    /\ UNCHANGED <<interval, exported, writerVars, timer, rates, up>>

\* The end of a request that was answered.  The writer takes the rates of a
\* successful answer: an answer may have them, not have them, which resets the
\* sampler, or not be one that can be read.
Answered(r) ==
    /\ up
    /\ \/ /\ Net!Answer(r)
          /\ IF r \in Chunks THEN rates' \in {r, 0, rates} ELSE UNCHANGED rates
       \/ /\ Net!Refuse(r) \/ Net!LoseBody(r)
          /\ UNCHANGED rates
    /\ UNCHANGED <<interval, exported, writerVars, timer, up>>

\* Also after the end of the process: what is on the wire may still arrive.
Deliver(r) ==
    /\ Net!Deliver(r)
    /\ UNCHANGED <<interval, exported, writerVars, timer, rates, up>>

Next ==
    \/ Export
    \/ ManualFlush
    \/ FlushTimer
    \/ Unload
    \/ \E r \in Others : OtherRequest(r)
    \/ \E r \in Chunks \cup Others : Proceed(r)
    \/ \E r \in Chunks \cup Others : Answered(r)
    \/ \E r \in Chunks \cup Others : Deliver(r)

Spec == Init /\ [][Next]_vars

\* Timers fire, and a fetch or the reading of a body ends or is aborted.
FairSpec ==
    /\ Spec
    /\ WF_vars(FlushTimer)
    /\ \A r \in Chunks \cup Others : WF_vars(Proceed(r)) /\ WF_vars(Answered(r))

-----------------------------------------------------------------------------
TypeOK ==
    /\ interval \in Intervals
    /\ exported \in 0..MaxChunks
    /\ buffer \subseteq Chunks
    /\ dropped \subseteq Chunks
    /\ payload \in [Chunks -> SUBSET Chunks]
    /\ timer \in BOOLEAN
    /\ rates \in 0..MaxChunks
    /\ up \in BOOLEAN
    /\ Net!TypeOK

SlotsAreFetches == Net!SlotsAreFetches

\* No chunk is lost without trace or sent in two payloads: every chunk exported
\* is in the buffer, was dropped, or is in one payload, and nothing else is.
EachChunkOnce ==
    /\ \A c \in 1..exported :
          LET in == {r \in Chunks : c \in payload[r]}
          IN \/ c \in buffer \ dropped /\ in = {}
             \/ c \in dropped \ buffer /\ in = {}
             \/ c \notin buffer \cup dropped /\ \E r \in Chunks : in = {r}
    /\ buffer \cup dropped \cup UNION {payload[r] : r \in Chunks} \subseteq 1..exported

\* What is in the buffer is due: with a positive interval a timer is set, with
\* none nothing stays, and the buffer never holds more than its limit.
BufferIsDue ==
    /\ buffer # {} /\ up /\ interval = "positive" => timer
    /\ interval = "zero" => buffer = {}
    /\ Cardinality(buffer) <= SoftLimit

\* The sampler's rates, unless built in, are the answer to a payload the agent
\* has received and accepted.
RatesAreAnswered == rates # 0 => phase[rates] = "answered" /\ received[rates] # {}

\* The process ends with its buffer in a request: the limit of active requests
\* cannot be reached then.
UnloadSends == [][up /\ ~up' => buffer' = {} /\ dropped' = dropped]_vars

\* Seen from the application and the agent, the exporter is a channel that may
\* drop a chunk or deliver it twice, and does nothing worse.
Copies(c) ==
    Cardinality(UNION {{r} \X received[r] : r \in {x \in Chunks : c \in payload[x]}})

Delivery == INSTANCE LossyDelivery WITH
    offered <- 1..exported,
    lost <- dropped,
    copies <- [c \in Chunks |-> Copies(c)]

DeliversAsPromised == Delivery!Spec

\* As long as the process runs, a chunk exported does not stay in it: it is
\* dropped, or its request ends; but with a negative interval nothing sets a
\* timer, and the buffer waits for the limit or for the application.
ChunksLeave ==
    \A c \in Chunks :
        interval # "negative" /\ c <= exported ~>
            \/ ~up
            \/ c \in dropped
            \/ \E r \in Chunks : c \in payload[r] /\ phase[r] \in Net!Settled \cup {"mute"}
=============================================================================
