----------------------------- MODULE DataStreams -----------------------------
(***************************************************************************)
(* datastreams/*.ts: the pathway of a message through queues, counted in   *)
(* points by checkpoint and bucket of time, and sent at intervals.         *)
(*                                                                         *)
(* An edge is a list of tags, of which one gives the direction.  A hash is *)
(* the edge and parent hash it was computed from.                          *)
(***************************************************************************)
EXTENDS Integers, Sequences, FiniteSets

CONSTANTS
    Edges,      \* edge tags
    Direction,  \* edge -> "in" or "out"
    Received,   \* hashes decoded from messages of other services
    BucketSize, \* bucketSizeNs
    MaxTime,    \* bound: the clock
    MaxPoints   \* bound: checkpoints

ASSUME StreamsAssumption ==
    /\ {"entry"} \cap (Edges \cup Received) = {} /\ Edges \cap Received = {}
    /\ Direction \in [Edges -> {"in", "out"}]
    /\ BucketSize \in Nat \ {0} /\ MaxTime \in Nat /\ MaxPoints \in Nat

VARIABLES
    now,       \* the clock
    pathway,   \* the data streams context of the running job, or NoPathway
    hashes,    \* the cache of computePathwayHash: key -> hash
    set,       \* the checkpoints set, in order
    buckets,   \* the buckets: <<bucket, hash>> -> number of latencies
    flushed    \* what the flushed payloads counted: <<bucket, hash>> -> number

streamsVars == <<now, pathway, hashes, set, buckets, flushed>>

\* ENTRY_PARENT_HASH and what stands for an absent context or direction.
Entry == [edge |-> "entry"]
NoPathway == [none |-> TRUE]
External(h) == [edge |-> h, external |-> TRUE]

-----------------------------------------------------------------------------
(* pathway.ts                                                              *)

\* parentHash.toString(): a hash computed here is an ArrayBuffer, whose text
\* does not tell which.
TextOf(parent) == IF "parent" \in DOMAIN parent THEN "[object ArrayBuffer]" ELSE parent.edge

\* computePathwayHash, which looks in the cache first.
HashOf(edge, parent) ==
    LET key == <<edge, TextOf(parent)>>
    IN IF key \in DOMAIN hashes THEN hashes[key] ELSE [edge |-> edge, parent |-> parent.edge]

-----------------------------------------------------------------------------
(* processor.ts                                                            *)

StreamsInit ==
    /\ now = 0
    /\ pathway = NoPathway
    /\ hashes = <<>>
    /\ set = <<>>
    /\ buckets = <<>>
    /\ flushed = <<>>

CountOf(counts, key) == IF key \in DOMAIN counts THEN counts[key] ELSE 0

Add(counts, key, n) ==
    [k \in DOMAIN counts \cup {key} |-> CountOf(counts, k) + (IF k = key THEN n ELSE 0)]

\* The start of a pathway, for a job without a context.
NewPathway == [parent |-> Entry, pathwayStart |-> now, edgeStart |-> now,
               oppositeHash |-> Entry, oppositeStart |-> now]

\* A variant of Sibling: every produce of a loop is a child of the one before.
SiblingAsChild ==
    [parent |-> pathway.hash, pathwayStart |-> pathway.pathwayStart, edgeStart |-> pathway.edgeStart,
     oppositeHash |-> pathway.oppositeHash, oppositeStart |-> pathway.oppositeStart]

\* A second edge of the same direction: the pathway goes on from where the
\* direction last changed, or starts again when it never did.
Sibling ==
    [parent |-> pathway.oppositeHash,
     pathwayStart |-> IF pathway.oppositeHash = Entry THEN now ELSE pathway.pathwayStart,
     edgeStart |-> IF pathway.oppositeHash = Entry THEN now ELSE pathway.oppositeStart,
     oppositeHash |-> pathway.oppositeHash,
     oppositeStart |-> pathway.oppositeStart]

\* The direction changes: here is where a later sibling goes on from.
Turn == [parent |-> pathway.hash, pathwayStart |-> pathway.pathwayStart,
         edgeStart |-> pathway.edgeStart,
         oppositeHash |-> pathway.hash, oppositeStart |-> pathway.edgeStart]

Place(edge) ==
    CASE pathway = NoPathway -> NewPathway
      [] pathway # NoPathway /\ pathway.direction = Direction[edge] -> Sibling
      [] OTHER -> Turn

\* setCheckpoint and recordCheckpoint, and the context tracer.ts stores.
SetCheckpoint(edge) ==
    LET place == Place(edge)
        hash == HashOf(edge, place.parent)
        bucket == now - (now % BucketSize)
    IN /\ Len(set) < MaxPoints
       /\ hashes' = [k \in DOMAIN hashes \cup {<<edge, TextOf(place.parent)>>} |->
                       IF k \in DOMAIN hashes THEN hashes[k] ELSE hash]
       /\ set' = Append(set, [edge |-> edge, hash |-> hash, parent |-> place.parent, bucket |-> bucket,
                              edgeLatency |-> now - place.edgeStart,
                              pathwayLatency |-> now - place.pathwayStart])
       /\ buckets' = Add(buckets, <<bucket, hash>>, 1)
       /\ pathway' = [hash |-> hash, direction |-> Direction[edge],
                      pathwayStart |-> place.pathwayStart, edgeStart |-> place.edgeStart,
                      oppositeHash |-> place.oppositeHash, oppositeStart |-> place.oppositeStart]
       /\ UNCHANGED <<now, flushed>>

\* decodePathwayContext: the context of a message, without a direction and
\* without an opposite hash.
Decode(h, pathwayStart, edgeStart) ==
    /\ pathwayStart \leq edgeStart
    /\ pathway' = [hash |-> External(h), direction |-> "none", pathwayStart |-> pathwayStart,
                   edgeStart |-> edgeStart, oppositeHash |-> Entry, oppositeStart |-> now]
    /\ UNCHANGED <<now, hashes, set, buckets, flushed>>

\* Another job, with a context of its own.
Forget ==
    /\ pathway # NoPathway
    /\ pathway' = NoPathway
    /\ UNCHANGED <<now, hashes, set, buckets, flushed>>

\* onInterval: the payload is sent or, at the limit of requests, discarded.
Drain ==
    /\ flushed' = [k \in DOMAIN flushed \cup DOMAIN buckets |->
                     CountOf(flushed, k) + CountOf(buckets, k)]
    /\ buckets' = <<>>
    /\ UNCHANGED <<now, pathway, hashes, set>>

Tick ==
    /\ now < MaxTime
    /\ now' = now + 1
    /\ UNCHANGED <<pathway, hashes, set, buckets, flushed>>

StreamsNext ==
    \/ \E edge \in Edges : SetCheckpoint(edge)
    \/ \E h \in Received, a, b \in 0 .. now : Decode(h, a, b)
    \/ Forget
    \/ Drain
    \/ Tick

StreamsSpec == StreamsInit /\ [][StreamsNext]_streamsVars

-----------------------------------------------------------------------------
(* Properties.                                                             *)

\* A service that produces (or consumes) again and again does not make its
\* pathway longer: the parent of a checkpoint is of the other direction, and
\* its latencies are nested (the branches of setCheckpoint).
PathwayTurns ==
    \A k \in DOMAIN set :
        /\ set[k].parent.edge \in Edges => Direction[set[k].parent.edge] # Direction[set[k].edge]
        /\ 0 \leq set[k].edgeLatency /\ set[k].edgeLatency \leq set[k].pathwayLatency

\* Every checkpoint is counted once in the bucket of its time, whenever an
\* interval cuts that bucket in two (recordCheckpoint, _serializeBuckets).
PointsOnce ==
    \A key \in {<<set[k].bucket, set[k].hash>> : k \in DOMAIN set} :
        CountOf(buckets, key) + CountOf(flushed, key)
        = Cardinality({k \in DOMAIN set : set[k].bucket = key[1] /\ set[k].hash = key[2]})
=============================================================================
