-------------------------- MODULE AgentExporterProofs --------------------------
(***************************************************************************)
(* AgentExporter: every chunk is in one place, and the exporter implements *)
(* the lossy channel, for any numbers of chunks and other requests, any    *)
(* limits and any flush interval.                                          *)
(***************************************************************************)
EXTENDS AgentExporter, FiniteSetTheorems, TLAPS

NetProofs == INSTANCE RequestsProofs WITH Requests <- Chunks \cup Others

Users == Chunks \cup Others

\* The writer's requests: one is made exactly for a payload, and named after
\* a chunk in it.
Carry ==
    \A r \in Chunks : /\ phase[r] = "new" <=> payload[r] = {}
                      /\ payload[r] # {} => r \in payload[r]

\* Where the chunks are.
Placed(c) == c \in buffer \/ c \in dropped \/ \E r \in Chunks : c \in payload[r]

Partition ==
    /\ buffer \cap dropped = {}
    /\ \A r \in Chunks : payload[r] \cap (buffer \cup dropped) = {}
    /\ \A r, q \in Chunks : r # q => payload[r] \cap payload[q] = {}
    /\ \A c \in Chunks : c <= exported <=> Placed(c)

Typed ==
    /\ interval \in Intervals
    /\ exported \in 0..MaxChunks
    /\ buffer \subseteq Chunks
    /\ dropped \subseteq Chunks
    /\ payload \in [Chunks -> SUBSET Chunks]
    /\ timer \in BOOLEAN
    /\ rates \in 0..MaxChunks
    /\ up \in BOOLEAN

IndInv == Typed /\ NetProofs!IndInv /\ Carry /\ Partition /\ BufferIsDue /\ RatesAreAnswered

\* What Requests assumes of its constants holds here.
LEMMA NetAssumption == NetProofs!RequestsAssumption
<1>1. IsFiniteSet(Chunks)
  BY FS_Interval, ChunksAssumption DEF ChunksAssumption, Chunks
<1>2. IsFiniteSet(Others)
  BY OthersAssumption DEF OthersAssumption
<1>3. IsFiniteSet(Chunks \cup Others)
  BY <1>1, <1>2, FS_Union
<1> QED
  BY <1>3, OthersAssumption
  DEF OthersAssumption, NetProofs!RequestsAssumption, NetProofs!IsFiniteSet, IsFiniteSet

\* A step of one request is a step of the requests.
LEMMA SameNext == Net!Next => NetProofs!Next
  BY DEF Net!Next, NetProofs!Next, Net!Request, NetProofs!Request,
         Net!Headers, NetProofs!Headers, Net!Fail, NetProofs!Fail,
         Net!Retry, NetProofs!Retry, Net!GiveUp, NetProofs!GiveUp,
         Net!Answer, NetProofs!Answer, Net!Refuse, NetProofs!Refuse,
         Net!LoseBody, NetProofs!LoseBody, Net!Deliver, NetProofs!Deliver,
         Net!Fetching, NetProofs!Fetching, Net!Attempted, NetProofs!Attempted,
         Net!Taken, NetProofs!Taken, Net!isWritable, NetProofs!isWritable

\* The requests' own invariant is kept by whatever the exporter does with them.
LEMMA NetStep ==
    ASSUME NetProofs!IndInv, Net!Next \/ UNCHANGED netVars
    PROVE  NetProofs!IndInv'
<1>1. [NetProofs!Next]_(NetProofs!requestVars)
  BY SameNext DEF netVars, NetProofs!requestVars
<1> QED  BY <1>1, NetProofs!IndInvStep, NetAssumption

\* Facts about requests the exporter's proof needs: types, and that nothing of
\* a request not yet made has been received.
LEMMA NetFacts ==
    ASSUME NetProofs!IndInv
    PROVE  /\ Net!TypeOK /\ Net!SlotsAreFetches
           /\ phase \in [Users -> Net!Phases]
           /\ sent \in [Users -> 0..2]
           /\ received \in [Users -> SUBSET (1..2)]
           /\ \A r \in Users : phase[r] = "new" => sent[r] = 0 /\ received[r] = {}
           /\ \A r \in Users : phase[r] = "body" => received[r] # {}
<1> USE DEF Users
<1>1. Net!TypeOK
  BY DEF NetProofs!IndInv, NetProofs!TypeOK, Net!TypeOK, NetProofs!Phases, Net!Phases,
         NetProofs!Fetching, Net!Fetching, NetProofs!Waiting, Net!Waiting,
         NetProofs!Settled, Net!Settled
<1>2. Net!SlotsAreFetches
  BY DEF NetProofs!IndInv, NetProofs!SlotsAreFetches, Net!SlotsAreFetches,
         NetProofs!InFlight, Net!InFlight, NetProofs!Fetching, Net!Fetching,
         NetProofs!Cardinality, Net!Cardinality
<1>3. \A r \in Users : NetProofs!AttemptsOf(r)
  BY DEF NetProofs!IndInv, NetProofs!Attempts
<1> QED
  BY <1>1, <1>2, <1>3 DEF Net!TypeOK, NetProofs!AttemptsOf

-----------------------------------------------------------------------------
(* What Export, the flushes and Unload do to the chunks, with `fresh` and   *)
(* `refused` what append has just put into the buffer, or discarded.        *)
Keeps(fresh, refused) ==
    /\ buffer' = buffer \cup fresh
    /\ dropped' = dropped \cup refused
    /\ UNCHANGED <<payload, netVars>>

Loses(fresh, refused) ==
    /\ buffer' = {}
    /\ dropped' = dropped \cup refused \cup buffer \cup fresh
    /\ UNCHANGED <<payload, netVars>>

Ships(r, fresh, refused) ==
    /\ r \in buffer \cup fresh
    /\ Net!Request(r)
    /\ payload' = [payload EXCEPT ![r] = buffer \cup fresh]
    /\ buffer' = {}
    /\ dropped' = dropped \cup refused

Moves(fresh, refused) ==
    \/ Keeps(fresh, refused)
    \/ Loses(fresh, refused)
    \/ \E r \in buffer \cup fresh : Ships(r, fresh, refused)

\* One of the two sets of a call is empty, the other at most the chunk exported.
Call(fresh, refused) ==
    /\ fresh \cap refused = {}
    /\ \/ exported' = exported /\ fresh = {} /\ refused = {}
       \/ /\ exported < MaxChunks
          /\ exported' = exported + 1
          /\ fresh \cup refused = {exported + 1}

\* The shapes of Writer.flush.
LEMMA FlushMoves ==
    ASSUME NEW fresh, NEW refused, Flush(buffer \cup fresh, refused)
    PROVE  /\ buffer' = {}
           /\ Moves(fresh, refused)
           /\ Net!isWritable => dropped' = dropped \cup refused
<1>1. CASE ~Net!isWritable
  BY <1>1 DEF Flush, Moves, Loses
<1>2. CASE Net!isWritable /\ buffer \cup fresh = {}
  BY <1>2 DEF Flush, Send, Moves, Keeps
<1>3. CASE Net!isWritable /\ buffer \cup fresh # {}
  <2>1. NameOf(buffer \cup fresh) \in buffer \cup fresh
    BY <1>3 DEF NameOf
  <2>2. Ships(NameOf(buffer \cup fresh), fresh, refused)
    BY <1>3, <2>1 DEF Flush, Send, Ships
  <2> QED  BY <1>3, <2>1, <2>2 DEF Moves, Ships
<1> QED  BY <1>1, <1>2, <1>3

\* The exporter's own calls move chunks, and leave the rates alone.
OwnCall == Export \/ ManualFlush \/ FlushTimer \/ Unload

LEMMA CallMoves ==
    ASSUME Typed, OwnCall
    PROVE  \E fresh, refused \in SUBSET Chunks :
              Call(fresh, refused) /\ Moves(fresh, refused) /\ rates' = rates
<1>1. CASE Export
  <2> DEFINE c == exported + 1
             fresh == IF Net!isWritable THEN {c} ELSE {}
             refused == IF Net!isWritable THEN {} ELSE {c}
  <2>1. /\ exported < MaxChunks /\ exported' = c /\ rates' = rates
        /\ IF (Net!isWritable /\ Cardinality(buffer \cup fresh) > SoftLimit) \/ interval = "zero"
           THEN Flush(buffer \cup fresh, refused)
           ELSE Keeps(fresh, refused)
    <3>1. (IF Net!isWritable THEN buffer \cup {c} ELSE buffer) = buffer \cup fresh
      OBVIOUS
    <3> QED  BY <1>1, <3>1 DEF Export, Keeps
  <2>2. c \in Chunks
    BY <2>1, ChunksAssumption DEF Typed, Chunks, ChunksAssumption
  <2>3. fresh \in SUBSET Chunks /\ refused \in SUBSET Chunks /\ Call(fresh, refused)
    BY <2>1, <2>2 DEF Call
  <2>4. Moves(fresh, refused)
    <3> HIDE DEF fresh, refused
    <3> QED  BY <2>1, FlushMoves DEF Moves
  <2> HIDE DEF fresh, refused
  <2> QED  BY <2>1, <2>3, <2>4
<1>2. CASE ManualFlush \/ FlushTimer \/ Unload
  <2>1. Flush(buffer \cup {}, {}) /\ exported' = exported /\ rates' = rates
    BY <1>2 DEF ManualFlush, FlushTimer, Unload
  <2>2. Call({}, {}) /\ Moves({}, {})
    BY <2>1, FlushMoves DEF Call
  <2> QED  BY <2>1, <2>2
<1> QED  BY <1>1, <1>2 DEF OwnCall

\* Any other step is one of the requests: it leaves the chunks where they are
\* and makes no request of the writer, and only an answer changes the rates.
NetCall ==
    \/ \E r \in Others : OtherRequest(r)
    \/ \E r \in Users : Proceed(r) \/ Answered(r) \/ Deliver(r)

Unmoved ==
    /\ UNCHANGED <<interval, exported, writerVars, timer>>
    /\ Net!Next
    /\ \A c \in Chunks : phase[c] = "new" <=> phase'[c] = "new"
    /\ \A c \in Chunks : phase[c] = "answered" => phase'[c] = "answered" /\ received[c] \subseteq received'[c]
    /\ \/ rates' \in {0, rates}
       \/ /\ rates' \in Chunks
          /\ phase'[rates'] = "answered" /\ received'[rates'] # {}

LEMMA NetCallUnmoved ==
    ASSUME Typed, NetProofs!IndInv, NetCall
    PROVE  Unmoved
<1> USE DEF Users
<1>0. /\ phase \in [Users -> Net!Phases]
      /\ received \in [Users -> SUBSET (1..2)]
      /\ \A r \in Users : phase[r] = "body" => received[r] # {}
      /\ Chunks \cap Others = {}
  BY NetFacts, OthersAssumption DEF Chunks, OthersAssumption
<1>1. ASSUME NEW r \in Others, OtherRequest(r) PROVE Unmoved
  BY <1>0, <1>1 DEF OtherRequest, Net!Request, Net!Next, Unmoved
<1>2. ASSUME NEW r \in Users, Proceed(r) PROVE Unmoved
  <2>1. CASE Net!Headers(r)
    BY <1>0, <1>2, <2>1 DEF Proceed, Net!Headers, Net!Next, Net!Fetching, Unmoved
  <2>2. CASE Net!Fail(r)
    BY <1>0, <1>2, <2>2 DEF Proceed, Net!Fail, Net!Next, Unmoved
  <2>3. CASE Net!Retry(r)
    BY <1>0, <1>2, <2>3 DEF Proceed, Net!Retry, Net!Next, Net!Attempted, Unmoved
  <2>4. CASE /\ Net!GiveUp(r)
             /\ \A c \in Chunks : phase[c] = "new" => phase'[c] = "new"
    BY <1>0, <1>2, <2>4 DEF Proceed, Net!GiveUp, Net!Next, Unmoved
  <2> QED  BY <1>2, <2>1, <2>2, <2>3, <2>4 DEF Proceed
<1>3. ASSUME NEW r \in Users, Answered(r) PROVE Unmoved
  <2>1. CASE Net!Answer(r)
    <3>1. received' = received /\ received[r] # {} /\ phase' = [phase EXCEPT ![r] = "answered"]
      BY <1>0, <2>1 DEF Net!Answer
    <3>2. \/ rates' \in {0, rates}
          \/ r \in Chunks /\ rates' = r
      BY <1>3, <2>1 DEF Answered, Net!Answer, Net!Refuse, Net!LoseBody
    <3> QED
      BY <1>0, <1>3, <2>1, <3>1, <3>2 DEF Answered, Net!Answer, Net!Next, Unmoved
  <2>2. CASE Net!Refuse(r) \/ Net!LoseBody(r)
    <3>1. rates' = rates
      BY <1>0, <1>3, <2>2 DEF Answered, Net!Answer, Net!Refuse, Net!LoseBody
    <3> QED
      BY <1>0, <1>3, <2>2, <3>1 DEF Answered, Net!Refuse, Net!LoseBody, Net!Next, Unmoved
  <2> QED  BY <1>3, <2>1, <2>2 DEF Answered
<1>4. ASSUME NEW r \in Users, Deliver(r) PROVE Unmoved
  BY <1>0, <1>4 DEF Deliver, Net!Deliver, Net!Next, Unmoved
<1> QED  BY <1>1, <1>2, <1>3, <1>4 DEF NetCall

\* Every step is of one of these kinds.
LEMMA NextKinds == Next => OwnCall \/ NetCall
  BY DEF Next, OwnCall, NetCall, Users

-----------------------------------------------------------------------------
\* The requests' invariant, when the exporter calls request() or does not.
LEMMA MoveNet ==
    ASSUME NetProofs!IndInv, NEW fresh, NEW refused, buffer \cup fresh \subseteq Chunks,
           Moves(fresh, refused)
    PROVE  NetProofs!IndInv'
<1>1. CASE UNCHANGED netVars
  BY <1>1, NetStep
<1>2. ASSUME NEW r \in Chunks, Net!Request(r)
      PROVE  NetProofs!IndInv'
  BY <1>2, NetStep DEF Net!Next
<1> QED  BY <1>1, <1>2 DEF Moves, Keeps, Loses, Ships

\* A call keeps the chunks in one place each and the payloads with their
\* requests; it changes no request but the one it makes.
LEMMA MoveStep ==
    ASSUME Typed, NetProofs!IndInv, Carry, Partition,
           NEW fresh \in SUBSET Chunks, NEW refused \in SUBSET Chunks,
           Call(fresh, refused), Moves(fresh, refused)
    PROVE  Carry' /\ Partition'
<1>0. /\ phase \in [Users -> Net!Phases]
      /\ exported \in Nat /\ Chunks \subseteq Users /\ Chunks \subseteq Nat
  BY NetFacts DEF Typed, Chunks, Users
<1>1. \A c \in fresh \cup refused : ~Placed(c)
  <2>1. \A c \in fresh \cup refused : c \in Chunks /\ c > exported
    BY <1>0 DEF Call
  <2> QED  BY <1>0, <2>1 DEF Partition
<1>2. \A c \in Chunks : c <= exported' <=> c <= exported \/ c \in fresh \cup refused
  BY <1>0 DEF Call
<1>3. fresh \cap refused = {}
  BY DEF Call
<1>4. CASE Keeps(fresh, refused)
  <2>1. Carry'
    BY <1>4 DEF Keeps, Carry, netVars
  <2>2. \A c \in Chunks : Placed(c)' <=> Placed(c) \/ c \in fresh \cup refused
    BY <1>4 DEF Keeps, Placed
  <2> QED
    BY <1>1, <1>2, <1>3, <1>4, <2>1, <2>2 DEF Keeps, Partition, Placed, Typed
<1>5. CASE Loses(fresh, refused)
  <2>1. Carry'
    BY <1>5 DEF Loses, Carry, netVars
  <2>2. \A c \in Chunks : Placed(c)' <=> Placed(c) \/ c \in fresh \cup refused
    BY <1>5 DEF Loses, Placed
  <2> QED
    BY <1>1, <1>2, <1>5, <2>1, <2>2 DEF Loses, Partition, Placed, Typed
<1>6. ASSUME NEW r \in buffer \cup fresh, Ships(r, fresh, refused)
      PROVE  Carry' /\ Partition'
  <2>0. r \in Chunks /\ phase[r] = "new" /\ payload[r] = {}
    BY <1>6 DEF Ships, Typed, Carry, Net!Request
  <2>1. /\ payload' = [payload EXCEPT ![r] = buffer \cup fresh]
        /\ buffer' = {} /\ dropped' = dropped \cup refused
    BY <1>6 DEF Ships
  <2>2. /\ payload'[r] = buffer \cup fresh
        /\ \A q \in Chunks : q # r => payload'[q] = payload[q]
    BY <2>0, <2>1 DEF Typed
  <2>3. \A q \in Users : phase'[q] = "new" <=> phase[q] = "new" /\ q # r
    BY <1>0, <1>6, <2>0 DEF Ships, Net!Request, Net!Attempted
  <2>4. Carry'
    BY <1>0, <1>6, <2>0, <2>2, <2>3 DEF Carry
  <2>5. \A c \in Chunks : Placed(c)' <=> Placed(c) \/ c \in fresh \cup refused
    BY <2>0, <2>1, <2>2 DEF Placed
  <2>6. \A q \in Chunks : payload'[q] \cap (buffer' \cup dropped') = {}
    BY <1>1, <1>3, <2>1, <2>2 DEF Partition, Placed
  <2>7. \A q, u \in Chunks : q # u => payload'[q] \cap payload'[u] = {}
    BY <1>1, <2>1, <2>2 DEF Partition, Placed
  <2> QED
    BY <1>2, <2>1, <2>4, <2>5, <2>6, <2>7 DEF Partition
<1> QED  BY <1>4, <1>5, <1>6 DEF Moves

\* A call keeps the rates' request as it is.
LEMMA MoveRates ==
    ASSUME Typed, NetProofs!IndInv, RatesAreAnswered, NEW fresh, NEW refused,
           buffer \cup fresh \subseteq Chunks, Moves(fresh, refused), rates' = rates
    PROVE  RatesAreAnswered'
<1>0. phase \in [Users -> Net!Phases] /\ Chunks \subseteq Users
      /\ (rates # 0 => rates \in Chunks)
  BY NetFacts DEF Users, Typed, Chunks
<1>1. CASE UNCHANGED netVars
  BY <1>1 DEF netVars, RatesAreAnswered
<1>2. ASSUME NEW r \in Chunks, Net!Request(r)
      PROVE  RatesAreAnswered'
  BY <1>0, <1>2 DEF Net!Request, RatesAreAnswered
<1> QED  BY <1>1, <1>2 DEF Moves, Keeps, Loses, Ships

\* The buffer after any step: within its limit, and due.
LEMMA BufferStep ==
    ASSUME Typed, BufferIsDue, Next
    PROVE  BufferIsDue'
<1>1. Cardinality({}) = 0 /\ SoftLimit \in Nat
  BY FS_EmptySet, ChunksAssumption DEF ChunksAssumption
<1>2. ASSUME buffer' = {} PROVE BufferIsDue'
  BY <1>1, <1>2 DEF BufferIsDue
<1>3. CASE Export
  <2>1. CASE buffer' = {}
    BY <1>2, <2>1
  <2>2. CASE buffer' # {}
    <3> DEFINE buf == IF Net!isWritable THEN buffer \cup {exported + 1} ELSE buffer
    <3>1. ~(Net!isWritable /\ Cardinality(buf) > SoftLimit) /\ interval # "zero" /\ buffer' = buf
      BY <1>3, <2>2 DEF Export, Flush, Send
    <3>2. Cardinality(buf) <= SoftLimit
      <4>1. CASE ~Net!isWritable
        BY <4>1 DEF BufferIsDue
      <4>2. CASE Net!isWritable
        <5>1. IsFiniteSet(buf)
          <6>1. IsFiniteSet(Chunks)
            BY FS_Interval, ChunksAssumption DEF ChunksAssumption, Chunks
          <6>2. IsFiniteSet(buffer)
            BY <6>1, FS_Subset DEF Typed
          <6> QED  BY <6>2, FS_AddElement
        <5>2. Cardinality(buf) \in Nat
          BY <5>1, FS_CardinalityType
        <5> QED  BY <1>1, <3>1, <4>2, <5>2
      <4> QED  BY <4>1, <4>2
    <3>3. timer' = (timer \/ interval = "positive") /\ interval' = interval
      BY <1>3 DEF Export
    <3> QED  BY <3>1, <3>2, <3>3 DEF BufferIsDue
  <2> QED  BY <2>1, <2>2
<1>4. CASE ManualFlush \/ FlushTimer \/ Unload
  BY <1>2, <1>4 DEF ManualFlush, FlushTimer, Unload, Flush, Send
<1>5. CASE NetCall
  BY <1>5 DEF NetCall, OtherRequest, Proceed, Answered, Deliver, writerVars, BufferIsDue
<1> QED  BY <1>3, <1>4, <1>5, NextKinds DEF OwnCall

\* The types of what the exporter keeps.
LEMMA TypedStep ==
    ASSUME Typed, NetProofs!IndInv, Next
    PROVE  Typed'
<1> USE DEF Typed
<1>1. CASE OwnCall
  <2>1. PICK fresh, refused \in SUBSET Chunks : Call(fresh, refused) /\ Moves(fresh, refused) /\ rates' = rates
    BY <1>1, CallMoves
  <2>2. exported' \in 0..MaxChunks
    BY <2>1, ChunksAssumption DEF Call, ChunksAssumption
  <2>3. buffer' \subseteq Chunks /\ dropped' \subseteq Chunks /\ payload' \in [Chunks -> SUBSET Chunks]
    BY <2>1 DEF Moves, Keeps, Loses, Ships
  <2>4. timer' \in BOOLEAN /\ up' \in BOOLEAN /\ interval' \in Intervals
    BY <1>1 DEF OwnCall, Export, ManualFlush, FlushTimer, Unload
  <2> QED  BY <2>1, <2>2, <2>3, <2>4
<1>2. CASE NetCall
  <2>1. up' \in BOOLEAN
    BY <1>2 DEF NetCall, OtherRequest, Proceed, Answered, Deliver
  <2>2. Unmoved
    BY <1>2, NetCallUnmoved
  <2>3. rates' \in 0..MaxChunks
    BY <2>2, ChunksAssumption DEF Unmoved, Chunks, ChunksAssumption
  <2>4. UNCHANGED <<interval, exported, buffer, dropped, payload, timer>>
    BY <2>2 DEF Unmoved, writerVars
  <2> QED  BY <2>1, <2>3, <2>4
<1> QED  BY <1>1, <1>2, NextKinds

\* The invariant holds before anything is exported.
LEMMA IndInvInit == Init => IndInv
<1> SUFFICES ASSUME Init PROVE IndInv
  OBVIOUS
<1>1. NetProofs!IndInv
  <2>1. NetProofs!Init
    BY DEF Init, Net!Init, NetProofs!Init
  <2> QED  BY <2>1, NetProofs!IndInvInit, NetAssumption
<1>2. Typed /\ RatesAreAnswered
  <2>1. exported \in 0..MaxChunks /\ rates \in 0..MaxChunks /\ rates = 0
    BY ChunksAssumption DEF Init, ChunksAssumption
  <2>2. timer \in BOOLEAN /\ up \in BOOLEAN
    BY DEF Init
  <2> QED  BY <2>1, <2>2 DEF Init, Typed, RatesAreAnswered
<1>3. Carry /\ Partition
  BY DEF Init, Net!Init, Carry, Partition, Placed, Chunks
<1>4. BufferIsDue
  BY FS_EmptySet, ChunksAssumption DEF Init, BufferIsDue, ChunksAssumption
<1> QED  BY <1>1, <1>2, <1>3, <1>4 DEF IndInv

\* Every step keeps the invariant.
LEMMA IndInvStep == IndInv /\ [Next]_vars => IndInv'
<1> SUFFICES ASSUME IndInv, [Next]_vars PROVE IndInv'
  OBVIOUS
<1> USE DEF IndInv
<1>1. CASE OwnCall /\ Next
  <2>1. PICK fresh, refused \in SUBSET Chunks : Call(fresh, refused) /\ Moves(fresh, refused) /\ rates' = rates
    BY <1>1, CallMoves
  <2>2. buffer \cup fresh \subseteq Chunks
    BY DEF Typed
  <2> QED
    BY <1>1, <2>1, <2>2, MoveNet, MoveStep, MoveRates, BufferStep, TypedStep
<1>2. CASE NetCall /\ Next
  <2>1. Unmoved
    BY <1>2, NetCallUnmoved
  <2>2. NetProofs!IndInv'
    BY <2>1, NetStep DEF Unmoved
  <2>3. Carry' /\ Partition'
    BY <2>1 DEF Unmoved, writerVars, Carry, Partition, Placed
  <2>4. RatesAreAnswered'
    BY <2>1 DEF Unmoved, Typed, Chunks, RatesAreAnswered
  <2> QED  BY <1>2, <2>2, <2>3, <2>4, BufferStep, TypedStep
<1>3. CASE UNCHANGED vars
  <2>1. NetProofs!IndInv'
    BY <1>3, NetStep DEF vars
  <2> QED
    BY <1>3, <2>1
    DEF vars, writerVars, netVars, Typed, Carry, Partition, Placed, BufferIsDue, RatesAreAnswered
<1> QED  BY <1>1, <1>2, <1>3, NextKinds

\* The invariant behind the theorems below holds in every reachable state.
THEOREM Inductive == Spec => []IndInv
<1> QED  BY IndInvInit, IndInvStep, PTL DEF Spec

\* Every variable of the exporter and of its requests stays in its type.
THEOREM ExporterTyped == Spec => []TypeOK
<1>1. IndInv => TypeOK
  BY NetFacts DEF IndInv, Typed, TypeOK
<1> QED  BY <1>1, Inductive, PTL

\* The counter of active requests is exact under the exporter's use of it.
THEOREM CounterIsExact == Spec => []SlotsAreFetches
<1>1. IndInv => SlotsAreFetches
  BY NetFacts DEF IndInv, SlotsAreFetches
<1> QED  BY <1>1, Inductive, PTL

\* The exporter neither loses a chunk unnoticed nor puts it in two payloads.
THEOREM ChunksAreKept == Spec => []EachChunkOnce
<1>1. ASSUME IndInv, NEW c \in 1..exported
      PROVE  LET in == {r \in Chunks : c \in payload[r]}
             IN \/ c \in buffer \ dropped /\ in = {}
                \/ c \in dropped \ buffer /\ in = {}
                \/ c \notin buffer \cup dropped /\ \E r \in Chunks : in = {r}
  <2>1. c \in Chunks /\ Placed(c)
    BY <1>1, ChunksAssumption DEF IndInv, Typed, Partition, Chunks, ChunksAssumption
  <2>2. CASE c \in buffer \cup dropped
    <3>1. {r \in Chunks : c \in payload[r]} = {}
      BY <1>1, <2>2 DEF IndInv, Partition
    <3> QED  BY <1>1, <2>2, <3>1 DEF IndInv, Partition
  <2>3. CASE c \notin buffer \cup dropped
    <3>1. PICK r \in Chunks : c \in payload[r]
      BY <2>1, <2>3 DEF Placed
    <3>2. {q \in Chunks : c \in payload[q]} = {r}
      BY <1>1, <3>1 DEF IndInv, Partition
    <3> QED  BY <2>3, <3>2
  <2> QED  BY <2>2, <2>3
<1>2. ASSUME IndInv
      PROVE  buffer \cup dropped \cup UNION {payload[r] : r \in Chunks} \subseteq 1..exported
  <2> SUFFICES ASSUME NEW c \in buffer \cup dropped \cup UNION {payload[r] : r \in Chunks}
               PROVE  c \in 1..exported
    OBVIOUS
  <2>1. c \in Chunks /\ Placed(c)
    BY <1>2 DEF IndInv, Typed, Placed
  <2>2. c <= exported
    BY <1>2, <2>1 DEF IndInv, Partition
  <2> QED
    BY <1>2, <2>1, <2>2 DEF IndInv, Typed, Chunks
<1>3. IndInv => EachChunkOnce
  BY <1>1, <1>2 DEF EachChunkOnce
<1> QED  BY <1>3, Inductive, PTL

\* A chunk in the buffer always has a flush coming, whatever the interval.
THEOREM BufferIsAlwaysDue == Spec => []BufferIsDue
<1>1. IndInv => BufferIsDue
  BY DEF IndInv
<1> QED  BY <1>1, Inductive, PTL

\* The sampler's rates only ever come from an answer of the agent.
THEOREM RatesAreReal == Spec => []RatesAreAnswered
<1>1. IndInv => RatesAreAnswered
  BY DEF IndInv
<1> QED  BY <1>1, Inductive, PTL

\* The flush at beforeunload is never refused by the limit.
THEOREM UnloadIsNeverRefused == Spec => UnloadSends
<1>1. ASSUME IndInv, [Next]_vars, up, ~up'
      PROVE  buffer' = {} /\ dropped' = dropped
  <2>1. Unload
    BY <1>1
    DEF Next, vars, Export, ManualFlush, FlushTimer, OtherRequest, Proceed, Answered, Deliver
  <2>2. \A r \in Chunks \cup Others : phase[r] \notin NetProofs!Fetching
    BY <2>1 DEF Unload, Net!Fetching, NetProofs!Fetching
  <2>3. Net!isWritable
    BY <1>1, <2>2, NetProofs!IdleIsWritable, NetAssumption
    DEF IndInv, NetProofs!isWritable, Net!isWritable
  <2>4. Flush(buffer \cup {}, {})
    BY <2>1 DEF Unload
  <2> QED  BY <2>3, <2>4, FlushMoves
<1> QED  BY <1>1, Inductive, PTL DEF Spec, UnloadSends

-----------------------------------------------------------------------------
(* The exporter implements LossyDelivery.                                   *)

\* The copies of a chunk that have arrived, as pairs of request and attempt.
Arrived(c) == UNION {{r} \X received[r] : r \in {x \in Chunks : c \in payload[x]}}

\* A chunk in no payload has no copies.
LEMMA NoCopies ==
    ASSUME NEW c, \A r \in Chunks : c \notin payload[r]
    PROVE  Arrived(c) = {} /\ Copies(c) = 0
<1>1. Arrived(c) = {}
  BY DEF Arrived
<1> QED  BY <1>1, FS_EmptySet DEF Arrived, Copies

\* The exporter's calls are offers and drops of chunks never sent.
LEMMA MoveImplements ==
    ASSUME IndInv, NEW fresh \in SUBSET Chunks, NEW refused \in SUBSET Chunks,
           Call(fresh, refused), Moves(fresh, refused)
    PROVE  [Delivery!Next]_(Delivery!deliveryVars)
<1> USE DEF IndInv
<1>1. \A c \in Chunks : Copies(c)' = Copies(c)
  <2> SUFFICES ASSUME NEW c \in Chunks PROVE Arrived(c)' = Arrived(c)
    BY DEF Copies, Arrived
  <2>1. CASE UNCHANGED <<payload, netVars>>
    BY <2>1 DEF netVars, Arrived
  <2>2. ASSUME NEW r \in buffer \cup fresh, Ships(r, fresh, refused)
        PROVE  Arrived(c)' = Arrived(c)
    <3>1. r \in Chunks /\ phase[r] = "new" /\ payload[r] = {} /\ received' = received
      BY <2>2 DEF Ships, Typed, Carry, Net!Request
    <3>2. received[r] = {}
      BY <3>1, NetFacts DEF Users
    <3>3. \A q \in Chunks : q # r => payload'[q] = payload[q]
      BY <2>2 DEF Ships, Typed
    <3>4. \A q \in Chunks : c \in payload'[q] /\ q # r <=> c \in payload[q]
      BY <3>1, <3>3
    <3> QED  BY <3>1, <3>2, <3>4 DEF Arrived
  <2> QED  BY <2>1, <2>2 DEF Moves, Keeps, Loses
<1>2. [c \in Chunks |-> Copies(c)]' = [c \in Chunks |-> Copies(c)]
  BY <1>1
<1> DEFINE out == dropped' \ dropped
<1>3. dropped' = dropped \cup out /\ out \subseteq buffer \cup fresh \cup refused
  BY DEF Moves, Keeps, Loses, Ships
<1>4. \A c \in out : c \in Chunks /\ c <= exported' /\ c \notin dropped /\ Copies(c) = 0
  <2> SUFFICES ASSUME NEW c \in out
               PROVE  c \in Chunks /\ c <= exported' /\ c \notin dropped /\ Copies(c) = 0
    OBVIOUS
  <2>1. c \in Chunks /\ c \notin dropped
    BY <1>3 DEF Typed
  <2>2. CASE c \in buffer
    <3>1. c <= exported /\ \A r \in Chunks : c \notin payload[r]
      BY <2>1, <2>2 DEF Partition, Placed
    <3> QED  BY <2>1, <3>1, NoCopies DEF Call, Typed, Chunks
  <2>3. CASE c \in fresh \cup refused
    <3>1. c = exported + 1 /\ exported' = c
      BY <2>3 DEF Call
    <3>2. ~Placed(c)
      BY <2>1, <3>1 DEF Partition, Typed
    <3> QED  BY <2>1, <3>1, <3>2, NoCopies DEF Placed, Chunks
  <2> QED  BY <1>3, <2>2, <2>3
<1>5. CASE exported' = exported
  <2>1. out \subseteq {x \in (1..exported) \ dropped : [c \in Chunks |-> Copies(c)][x] = 0}
    <3> SUFFICES ASSUME NEW c \in out
                 PROVE  c \in 1..exported /\ c \notin dropped /\ [x \in Chunks |-> Copies(x)][c] = 0
      OBVIOUS
    <3>1. c \in Chunks /\ c <= exported /\ c \notin dropped /\ Copies(c) = 0
      BY <1>4, <1>5
    <3> QED  BY <3>1 DEF Typed, Chunks
  <2>2. out \in SUBSET Chunks
    BY <1>4
  <2>3. Delivery!Drop(out)
    BY <1>2, <1>3, <1>5, <2>1 DEF Delivery!Drop
  <2> QED  BY <2>2, <2>3 DEF Delivery!Next
<1>6. CASE exported' = exported + 1 /\ exported < MaxChunks
  <2>1. /\ exported + 1 \in Chunks \ (1..exported)
        /\ 1..exported' = 1..exported \cup {exported + 1}
    BY <1>6, ChunksAssumption DEF Typed, Chunks, ChunksAssumption
  <2>2. out \subseteq {x \in (1..exported') \ dropped : [c \in Chunks |-> Copies(c)][x] = 0}
    <3> SUFFICES ASSUME NEW c \in out
                 PROVE  c \in 1..exported' /\ c \notin dropped /\ [x \in Chunks |-> Copies(x)][c] = 0
      OBVIOUS
    <3>1. c \in Chunks /\ c <= exported' /\ c \notin dropped /\ Copies(c) = 0
      BY <1>4
    <3> QED  BY <1>6, <3>1 DEF Typed, Chunks
  <2>3. Delivery!Offer(exported + 1)
    BY <1>2, <1>3, <2>1, <2>2 DEF Delivery!Offer
  <2> QED  BY <2>1, <2>3 DEF Delivery!Next
<1> QED  BY <1>5, <1>6 DEF Call

\* The arrival of one attempt of the writer is the delivery of its payload.
LEMMA ArrivalImplements ==
    ASSUME IndInv, NEW r \in Chunks, Deliver(r)
    PROVE  Delivery!Deliver(payload[r])
<1> USE DEF IndInv
<1>1. PICK a \in 1..sent[r] : a \notin received[r] /\ received' = [received EXCEPT ![r] = @ \cup {a}]
  BY DEF Deliver, Net!Deliver
<1>2. /\ a \in 1..2 /\ received[r] \subseteq 1..2
      /\ \A q \in Chunks : received'[q] = IF q = r THEN received[r] \cup {a} ELSE received[q]
      /\ UNCHANGED <<exported, dropped, payload>>
  BY <1>1, NetFacts DEF Deliver, writerVars, Users
<1>3. ASSUME NEW c \in Chunks, c \in payload[r]
      PROVE  Copies(c) < 2 /\ Copies(c)' = Copies(c) + 1 /\ c \in 1..exported /\ c \notin dropped
  <2>1. c \in 1..exported /\ c \notin dropped
    BY <1>3 DEF Partition, Placed, Typed, Chunks
  <2>2. {x \in Chunks : c \in payload[x]} = {r}
    BY <1>3 DEF Partition
  <2>3. Arrived(c) = {r} \X received[r] /\ Arrived(c)' = Arrived(c) \cup {<<r, a>>}
    BY <1>2, <2>2 DEF Arrived
  <2>4. <<r, a>> \notin Arrived(c)
    BY <1>1, <2>3
  <2>5. PICK b \in 1..2 : received[r] \subseteq {b}
    BY <1>1, <1>2
  <2>6. Arrived(c) \subseteq {<<r, b>>}
    BY <2>3, <2>5
  <2>7. IsFiniteSet({<<r, b>>}) /\ Cardinality({<<r, b>>}) = 1
    BY FS_Singleton
  <2>8. IsFiniteSet(Arrived(c)) /\ Cardinality(Arrived(c)) <= 1 /\ Cardinality(Arrived(c)) \in Nat
    BY <2>6, <2>7, FS_Subset, FS_CardinalityType
  <2>9. Cardinality(Arrived(c) \cup {<<r, a>>}) = Cardinality(Arrived(c)) + 1
    BY <2>4, <2>8, FS_AddElement
  <2>10. Copies(c) = Cardinality(Arrived(c)) /\ Copies(c)' = Cardinality(Arrived(c)')
    BY DEF Copies, Arrived
  <2> QED  BY <2>1, <2>3, <2>8, <2>9, <2>10
<1>4. ASSUME NEW c \in Chunks, c \notin payload[r]
      PROVE  Copies(c)' = Copies(c)
  <2>1. Arrived(c)' = Arrived(c)
    BY <1>2, <1>4 DEF Arrived
  <2> QED  BY <2>1 DEF Copies, Arrived
<1>5. payload[r] \subseteq Chunks
  BY DEF Typed
<1>6. [c \in Chunks |-> Copies(c)]' =
        [c \in Chunks |-> IF c \in payload[r] THEN [x \in Chunks |-> Copies(x)][c] + 1
                                              ELSE [x \in Chunks |-> Copies(x)][c]]
  BY <1>3, <1>4
<1>7. payload[r] \subseteq {x \in (1..exported) \ dropped : [c \in Chunks |-> Copies(c)][x] < 2}
  BY <1>3, <1>5
<1>8. 1..exported' = 1..exported /\ dropped' = dropped
  BY <1>2
<1> QED  BY <1>6, <1>7, <1>8 DEF Delivery!Deliver

\* Every other step of the requests is invisible.
LEMMA QuietImplements ==
    ASSUME UNCHANGED <<exported, dropped, payload>>,
           \A r \in Chunks : received'[r] = received[r]
    PROVE  UNCHANGED Delivery!deliveryVars
<1>1. \A c \in Chunks : Copies(c)' = Copies(c)
  BY DEF Copies
<1>2. [c \in Chunks |-> Copies(c)]' = [c \in Chunks |-> Copies(c)]
  BY <1>1
<1> QED  BY <1>2 DEF Delivery!deliveryVars

\* Whatever the limits, intervals, failures and retries, the exporter is a
\* channel that drops a chunk before sending it, or delivers it at most twice.
THEOREM ExporterImplementsChannel == Spec => DeliversAsPromised
<1>1. Init => Delivery!Init
  <2> SUFFICES ASSUME Init PROVE Delivery!Init
    OBVIOUS
  <2>1. \A c \in Chunks : Copies(c) = 0
    BY NoCopies DEF Init
  <2>2. 1..exported = {} /\ dropped = {}
    BY DEF Init
  <2> QED  BY <2>1, <2>2 DEF Delivery!Init
<1>2. IndInv /\ [Next]_vars => [Delivery!Next]_(Delivery!deliveryVars)
  <2> SUFFICES ASSUME IndInv, [Next]_vars PROVE [Delivery!Next]_(Delivery!deliveryVars)
    OBVIOUS
  <2>1. CASE OwnCall
    <3>1. PICK fresh, refused \in SUBSET Chunks : Call(fresh, refused) /\ Moves(fresh, refused)
      BY <2>1, CallMoves DEF IndInv
    <3> QED  BY <3>1, MoveImplements
  <2>2. ASSUME NEW r \in Chunks, Deliver(r) PROVE [Delivery!Next]_(Delivery!deliveryVars)
    <3>1. payload[r] \in SUBSET Chunks
      BY DEF IndInv, Typed
    <3> QED  BY <2>2, <3>1, ArrivalImplements DEF Delivery!Next
  <2>3. ASSUME NEW r \in Others, Deliver(r) PROVE [Delivery!Next]_(Delivery!deliveryVars)
    <3>1. \A c \in Chunks : received'[c] = received[c]
      <4>1. r \notin Chunks
        BY OthersAssumption DEF OthersAssumption, Chunks
      <4>2. received \in [Users -> SUBSET (1..2)]
        BY NetFacts DEF IndInv
      <4> QED  BY <2>3, <4>1, <4>2 DEF Deliver, Net!Deliver, Users
    <3> QED  BY <2>3, <3>1, QuietImplements DEF Deliver, writerVars
  <2>4. ASSUME NEW r \in Users, Proceed(r) \/ Answered(r)
        PROVE  [Delivery!Next]_(Delivery!deliveryVars)
    <3>1. received' = received
      BY <2>4 DEF Proceed, Answered, Net!Headers, Net!Fail, Net!Retry, Net!GiveUp,
                  Net!Answer, Net!Refuse, Net!LoseBody
    <3> QED  BY <2>4, <3>1, QuietImplements DEF Proceed, Answered, writerVars
  <2>5. ASSUME NEW r \in Others, OtherRequest(r) PROVE [Delivery!Next]_(Delivery!deliveryVars)
    <3>1. received' = received
      BY <2>5 DEF OtherRequest, Net!Request
    <3> QED  BY <2>5, <3>1, QuietImplements DEF OtherRequest, writerVars
  <2>6. CASE UNCHANGED vars
    BY <2>6, QuietImplements DEF vars, writerVars, netVars
  <2> QED
    BY <2>1, <2>2, <2>3, <2>4, <2>5, <2>6, NextKinds DEF NetCall, Users
<1> QED  BY <1>1, <1>2, Inductive, PTL DEF Spec, DeliversAsPromised, Delivery!Spec
=============================================================================
