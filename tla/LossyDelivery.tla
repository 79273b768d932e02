----------------------------- MODULE LossyDelivery -----------------------------
(***************************************************************************)
(* What the agent exporter promises of the chunks it is given: each        *)
(* reaches the agent once, twice, or not at all; with others it was batched *)
(* with; and not at all if it was dropped, which is settled before any     *)
(* attempt to send it.                                                     *)
(***************************************************************************)
EXTENDS Integers

CONSTANT Chunks

VARIABLES
    offered,  \* the chunks given to the exporter
    lost,     \* those it has dropped
    copies    \* chunk -> how many times the agent has received it

deliveryVars == <<offered, lost, copies>>

Init ==
    /\ offered = {}
    /\ lost = {}
    /\ copies = [c \in Chunks |-> 0]

\* The exporter is given a chunk, and may drop it and others it has not sent.
Offer(c) ==
    /\ c \in Chunks \ offered
    /\ offered' = offered \cup {c}
    /\ \E out \in SUBSET {x \in offered' \ lost : copies[x] = 0} : lost' = lost \cup out
    /\ UNCHANGED copies

Drop(out) ==
    /\ out \subseteq {x \in offered \ lost : copies[x] = 0}
    /\ lost' = lost \cup out
    /\ UNCHANGED <<offered, copies>>

\* The agent receives a batch of chunks, for the first or the second time.
Deliver(batch) ==
    /\ batch \subseteq {x \in offered \ lost : copies[x] < 2}
    /\ copies' = [c \in Chunks |-> IF c \in batch THEN copies[c] + 1 ELSE copies[c]]
    /\ UNCHANGED <<offered, lost>>

Next ==
    \/ \E c \in Chunks : Offer(c)
    \/ \E out \in SUBSET Chunks : Drop(out)
    \/ \E batch \in SUBSET Chunks : Deliver(batch)

Spec == Init /\ [][Next]_deliveryVars
=============================================================================
