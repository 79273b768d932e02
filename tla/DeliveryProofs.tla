---------------------------- MODULE DeliveryProofs ----------------------------
(***************************************************************************)
(* What the process sends is accounted for, for any numbers of logs,       *)
(* flushes, increments and spans: a log is in one flush or in the queue, in*)
(* the order the logs came; the callback of a flush is called once unless  *)
(* it has thrown; an increment is in one place until it is delivered or    *)
(* lost; the gauges of the spans are their numbers.                        *)
(***************************************************************************)
EXTENDS Delivery, RequestsProofs, FiniteSetTheorems, TLAPS

-----------------------------------------------------------------------------
(* The external logger.                                                    *)

Batch == UNION {[1..n -> 1..MaxLogs] : n \in 0..Limit}
Words == [word : {"ok", "error"}, threw : BOOLEAN]
FlushRecords ==
    [logs : Batch, own : BOOLEAN, stage : Stages, failed : BOOLEAN, calls : Seq(Words)]

\* A callback that waits for its outcome has not been called, and one that the
\* catch-handler will call has thrown if it was.
CalledAsFar(flush) ==
    /\ flush.stage \in {"tellOk", "tellError", "fetching"} => flush.calls = <<>>
    /\ flush.stage = "catch" =>
          Len(flush.calls) \leq 1 /\ (Len(flush.calls) = 1 => flush.calls[1].threw)
    /\ flush.stage = "done" =>
          Len(flush.calls) \leq 2 /\ (Len(flush.calls) = 2 => flush.calls[1].threw)

\* The inductive invariant.
LoggerInv ==
    /\ LoggerTypeOK /\ EveryLogOnce
    /\ flushes \in Seq(FlushRecords)
    /\ \A f \in DOMAIN flushes : CalledAsFar(flushes[f])

LEMMA LoggerAtStart == LoggerInit => LoggerInv
<1> SUFFICES ASSUME LoggerInit PROVE LoggerInv
  OBVIOUS
<1>1. queue = <<>> /\ flushes = <<>> /\ enqueued = 0
  BY DEF LoggerInit
<1>2. queue \in Batch
  BY <1>1, LoggerAssumption DEF Batch
<1>3. LoggerTypeOK
  BY <1>1, <1>2, LoggerAssumption DEF LoggerInit, LoggerTypeOK, Batch
<1>4. EveryLogOnce
  BY <1>1 DEF EveryLogOnce, Places, Batches, LogAt
<1> QED
  BY <1>1, <1>3, <1>4 DEF LoggerInv

\* The batches: one of each flush, and the queue.
BatchesOf(fs, q) == Append([f \in DOMAIN fs |-> fs[f].logs], q)

LEMMA BatchesAre ==
    ASSUME NEW fs \in Seq(FlushRecords), NEW q
    PROVE  /\ DOMAIN BatchesOf(fs, q) = 1 .. Len(fs) + 1 /\ Len(fs) \in Nat
           /\ \A f \in 1 .. Len(fs) : BatchesOf(fs, q)[f] = fs[f].logs
           /\ BatchesOf(fs, q)[Len(fs) + 1] = q
<1> DEFINE logs == [f \in DOMAIN fs |-> fs[f].logs]
<1>1. DOMAIN fs = 1 .. Len(fs) /\ Len(fs) \in Nat
  OBVIOUS
<1>2. logs \in Seq(Batch)
  <2>1. \A f \in 1 .. Len(fs) : fs[f] \in FlushRecords
    OBVIOUS
  <2>2. \A flush \in FlushRecords : flush.logs \in Batch
    BY DEF FlushRecords
  <2> QED
    BY <1>1, <2>1, <2>2
<1>3. Len(logs) = Len(fs) /\ \A f \in 1 .. Len(fs) : logs[f] = fs[f].logs
  BY <1>1
<1> HIDE DEF logs
<1>4. DOMAIN Append(logs, q) = 1 .. Len(logs) + 1
      /\ Append(logs, q)[Len(logs) + 1] = q
      /\ \A f \in 1 .. Len(logs) : Append(logs, q)[f] = logs[f]
  BY <1>2
<1> QED
  BY <1>1, <1>3, <1>4 DEF logs, BatchesOf

\* What is at a place in the next state.
LaterAt(place) == Batches'[place[1]][place[2]]

\* A log is added at the last place: every log still is in one place.
LEMMA OneLogMore ==
    ASSUME EveryLogOnce, enqueued \in Nat, enqueued' = enqueued + 1,
           NEW new \in Places', Places' = Places \cup {new},
           \A p \in Places : LaterAt(p) = LogAt(p) /\ Earlier(p, new) /\ ~Earlier(new, p),
           LaterAt(new) = enqueued', ~Earlier(new, new)
    PROVE  EveryLogOnce'
<1>1. \A l \in 1..enqueued' : \E p \in Places' : LaterAt(p) = l
  <2> SUFFICES ASSUME NEW l \in 1..enqueued' PROVE \E p \in Places' : LaterAt(p) = l
    OBVIOUS
  <2>1. l \in 1..enqueued \/ l = enqueued'
    OBVIOUS
  <2> QED
    BY <2>1 DEF EveryLogOnce
<1>2. \A p \in Places' : LaterAt(p) \in 1..enqueued'
  BY DEF EveryLogOnce
<1>3. \A p, q \in Places' : Earlier(p, q) => LaterAt(p) < LaterAt(q)
  <2> SUFFICES ASSUME NEW p \in Places', NEW q \in Places', Earlier(p, q)
               PROVE  LaterAt(p) < LaterAt(q)
    OBVIOUS
  <2>1. CASE p \in Places /\ q \in Places
    BY <2>1 DEF EveryLogOnce
  <2>2. CASE p \in Places /\ q = new
    BY <2>2 DEF EveryLogOnce
  <2> QED
    BY <2>1, <2>2
<1> QED
  BY <1>1, <1>2, <1>3 DEF EveryLogOnce, Earlier, LaterAt, LogAt

LEMMA NoLogMore ==
    ASSUME EveryLogOnce, UNCHANGED enqueued, Places' = Places,
           \A p \in Places : LaterAt(p) = LogAt(p)
    PROVE  EveryLogOnce'
BY DEF EveryLogOnce, Earlier, LaterAt, LogAt

\* The queue becomes a flush.
LEMMA FlushStarts ==
    ASSUME LoggerInv, NEW own \in BOOLEAN, flushes' = Append(flushes, Started(queue, own))
    PROVE  /\ flushes' \in Seq(FlushRecords)
           /\ \A f \in DOMAIN flushes' : CalledAsFar(flushes'[f])
           /\ Len(flushes') = Len(flushes) + 1
           /\ \A f \in 1 .. Len(flushes) : flushes'[f] = flushes[f]
           /\ flushes'[Len(flushes) + 1].logs = queue
<1> DEFINE new == Started(queue, own)
           stage == CASE queue = <<>> -> "tellOk"
                      [] \E i \in DOMAIN queue : queue[i] \in Unencodable -> "tellError"
                      [] OTHER -> "fetching"
<1>1. stage \in {"tellOk", "tellError", "fetching"}
  OBVIOUS
<1>2. new = [logs |-> queue, own |-> own, stage |-> stage, failed |-> FALSE, calls |-> <<>>]
  BY DEF Started
<1> HIDE DEF new, stage
<1>3. new.calls = <<>> /\ new.logs = queue /\ new.stage \in {"tellOk", "tellError", "fetching"}
  BY <1>1, <1>2
<1>4. new \in FlushRecords
  <2>1. queue \in Batch
    BY DEF LoggerInv, LoggerTypeOK, Batch
  <2>2. stage \in Stages
    BY <1>1 DEF Stages
  <2>3. <<>> \in Seq(Words)
    OBVIOUS
  <2> QED
    BY <1>2, <2>1, <2>2, <2>3 DEF FlushRecords
<1>5. CalledAsFar(new)
  BY <1>3 DEF CalledAsFar
<1>6. /\ Append(flushes, new) \in Seq(FlushRecords)
      /\ Len(Append(flushes, new)) = Len(flushes) + 1
      /\ \A f \in 1 .. Len(flushes) : Append(flushes, new)[f] = flushes[f]
      /\ Append(flushes, new)[Len(flushes) + 1] = new
      /\ Len(flushes) \in Nat
      /\ DOMAIN Append(flushes, new) = 1 .. Len(flushes) + 1
      /\ DOMAIN flushes = 1 .. Len(flushes)
  BY <1>4 DEF LoggerInv
<1>7. flushes' = Append(flushes, new)
  BY DEF new
<1>8. ASSUME NEW f \in DOMAIN flushes' PROVE CalledAsFar(flushes'[f])
  <2>1. f \in DOMAIN flushes \/ f = Len(flushes) + 1
    BY <1>6, <1>7
  <2> QED
    BY <1>5, <1>6, <1>7, <2>1 DEF LoggerInv
<1> QED
  BY <1>3, <1>6, <1>7, <1>8

\* A flush takes the whole queue, and a new one begins with `first`, nothing or
\* the log that is being enqueued.
LEMMA QueueTaken ==
    ASSUME LoggerInv, NEW own \in BOOLEAN, flushes' = Append(flushes, Started(queue, own)),
           \/ queue' = <<>> /\ enqueued' = enqueued
           \/ queue' = <<enqueued'>> /\ enqueued' = enqueued + 1
    PROVE  EveryLogOnce'
<1>1. /\ flushes \in Seq(FlushRecords) /\ flushes' \in Seq(FlushRecords)
      /\ Len(flushes') = Len(flushes) + 1 /\ Len(flushes) \in Nat
      /\ \A f \in 1 .. Len(flushes) : flushes'[f] = flushes[f]
      /\ flushes'[Len(flushes) + 1].logs = queue
      /\ enqueued \in Nat /\ EveryLogOnce
  <2>1. flushes \in Seq(FlushRecords) /\ Len(flushes) \in Nat /\ enqueued \in Nat /\ EveryLogOnce
    BY DEF LoggerInv, LoggerTypeOK
  <2> QED
    BY <2>1, FlushStarts, Zenon
<1> DEFINE n == Len(flushes)
<1>2. /\ DOMAIN Batches = 1 .. n + 1
      /\ \A f \in 1 .. n : Batches[f] = flushes[f].logs
      /\ Batches[n + 1] = queue
  BY <1>1, BatchesAre DEF Batches, BatchesOf
<1>3. /\ DOMAIN Batches' = 1 .. n + 2
      /\ \A f \in 1 .. n + 1 : Batches'[f] = flushes'[f].logs
      /\ Batches'[n + 2] = queue'
  <2>1. /\ DOMAIN Batches' = 1 .. Len(flushes') + 1
        /\ \A f \in 1 .. Len(flushes') : Batches'[f] = flushes'[f].logs
        /\ Batches'[Len(flushes') + 1] = queue'
    BY <1>1, BatchesAre DEF Batches, BatchesOf
  <2> QED
    BY <1>1, <2>1
<1> HIDE DEF n
<1>4. \A b \in 1 .. n + 1 : Batches'[b] = Batches[b]
  BY <1>1, <1>2, <1>3 DEF n
<1>5. n \in Nat
  BY <1>1 DEF n
<1>6. \A p \in Places : /\ p[1] \in 1 .. n + 1 /\ LaterAt(p) = LogAt(p)
                        /\ p = <<p[1], p[2]>> /\ p[2] \in DOMAIN Batches[p[1]]
  BY <1>2, <1>4, <1>5 DEF Places, LogAt, LaterAt
<1>7. CASE queue' = <<>> /\ enqueued' = enqueued
  <2>1. Places' = Places
    BY <1>2, <1>3, <1>4, <1>5, <1>7 DEF Places
  <2> QED
    BY <1>1, <1>6, <1>7, <2>1, NoLogMore
<1>8. CASE queue' = <<enqueued'>> /\ enqueued' = enqueued + 1
  <2> DEFINE new == <<n + 2, 1>>
  <2>1. DOMAIN Batches'[n + 2] = {1} /\ Batches'[n + 2][1] = enqueued'
    BY <1>3, <1>8
  <2>2. Places' = Places \cup {new} /\ new \in Places'
    BY <1>2, <1>3, <1>4, <1>5, <2>1 DEF Places
  <2>3. LaterAt(new) = enqueued' /\ ~Earlier(new, new)
    BY <1>5, <2>1 DEF LogAt, LaterAt, Earlier
  <2>4. \A p \in Places : Earlier(p, new) /\ ~Earlier(new, p)
    BY <1>5, <1>6 DEF Earlier
  <2> HIDE DEF new
  <2> QED
    BY <1>1, <1>6, <1>8, <2>2, <2>3, <2>4, OneLogMore
<1> QED
  BY <1>7, <1>8

\* A log joins the queue.
LEMMA QueueGrows ==
    ASSUME LoggerInv, enqueued' = enqueued + 1, queue' = Append(queue, enqueued'),
           flushes' = flushes
    PROVE  EveryLogOnce'
<1>1. flushes \in Seq(FlushRecords) /\ Len(flushes) \in Nat /\ enqueued \in Nat /\ EveryLogOnce
  BY DEF LoggerInv, LoggerTypeOK
<1> DEFINE n == Len(flushes)
           m == Len(queue)
<1>2. /\ DOMAIN Batches = 1 .. n + 1
      /\ \A f \in 1 .. n : Batches[f] = flushes[f].logs
      /\ Batches[n + 1] = queue
  BY <1>1, BatchesAre DEF Batches, BatchesOf
<1>3. /\ DOMAIN Batches' = 1 .. n + 1
      /\ \A f \in 1 .. n : Batches'[f] = flushes[f].logs
      /\ Batches'[n + 1] = queue'
  BY <1>1, BatchesAre DEF Batches, BatchesOf
<1>4. /\ DOMAIN queue = 1 .. m /\ m \in Nat
      /\ DOMAIN queue' = 1 .. m + 1 /\ queue'[m + 1] = enqueued'
      /\ \A i \in 1 .. m : queue'[i] = queue[i]
  <2>1. queue \in Seq(1..MaxLogs)
    BY LoggerAssumption DEF LoggerInv, LoggerTypeOK
  <2> QED
    BY <2>1
<1> HIDE DEF n, m
<1>5. n \in Nat
  BY <1>1 DEF n
<1> DEFINE new == <<n + 1, m + 1>>
<1>6. \A p \in Places : /\ p = <<p[1], p[2]>> /\ p[1] \in 1 .. n + 1
                        /\ p[2] \in DOMAIN Batches[p[1]]
  BY <1>2 DEF Places
<1>7. \A p \in Places : LaterAt(p) = LogAt(p) /\ Earlier(p, new) /\ ~Earlier(new, p)
  <2> SUFFICES ASSUME NEW p \in Places
               PROVE  LaterAt(p) = LogAt(p) /\ Earlier(p, new) /\ ~Earlier(new, p)
    OBVIOUS
  <2>1. CASE p[1] \in 1 .. n
    BY <1>2, <1>3, <1>5, <1>6, <2>1 DEF LogAt, LaterAt, Earlier
  <2>2. CASE p[1] = n + 1
    <3>1. p[2] \in 1 .. m
      BY <1>2, <1>4, <1>6, <2>2
    <3>2. LaterAt(p) = LogAt(p)
      BY <1>2, <1>3, <1>4, <2>2, <3>1 DEF LogAt, LaterAt
    <3> QED
      BY <1>4, <1>5, <2>2, <3>1, <3>2 DEF Earlier
  <2> QED
    BY <1>5, <1>6, <2>1, <2>2
<1>8. Places' = Places \cup {new} /\ new \in Places'
  <2>1. \A b \in 1 .. n : Batches'[b] = Batches[b]
    BY <1>2, <1>3
  <2>2. DOMAIN Batches'[n + 1] = DOMAIN Batches[n + 1] \cup {m + 1}
    BY <1>2, <1>3, <1>4
  <2>3. \A b, i : <<b, i>> \in Places <=> b \in 1 .. n + 1 /\ i \in DOMAIN Batches[b]
    BY <1>2 DEF Places
  <2>4. \A b, i : <<b, i>> \in Places' <=> b \in 1 .. n + 1 /\ i \in DOMAIN Batches'[b]
    BY <1>3 DEF Places
  <2>5. \A p \in Places' : p = <<p[1], p[2]>>
    BY DEF Places
  <2>6. new \in Places'
    BY <1>5, <2>2, <2>4
  <2>7. Places \subseteq Places'
    BY <1>5, <1>6, <2>1, <2>2, <2>3, <2>4
  <2>8. ASSUME NEW p \in Places', p # new PROVE p \in Places
    BY <1>5, <2>1, <2>2, <2>3, <2>4, <2>5, <2>8
  <2> QED
    BY <2>6, <2>7, <2>8
<1>9. LaterAt(new) = enqueued' /\ ~Earlier(new, new)
  BY <1>3, <1>4, <1>5 DEF LogAt, LaterAt, Earlier
<1> HIDE DEF new
<1> QED
  BY <1>1, <1>7, <1>8, <1>9, OneLogMore

LEMMA FlushesTyped ==
    ASSUME NEW fs \in Seq(FlushRecords), NEW f \in DOMAIN fs
    PROVE  /\ fs[f].logs \in UNION {[1..n -> 1..MaxLogs] : n \in 0..Limit}
           /\ fs[f].stage \in Stages
           /\ fs[f].calls \in Seq([word : {"ok", "error"}, threw : BOOLEAN])
           /\ fs[f].own \in BOOLEAN /\ fs[f].failed \in BOOLEAN
<1>1. fs[f] \in FlushRecords
  OBVIOUS
<1> QED
  BY <1>1, Zenon DEF FlushRecords, Batch, Words

LEMMA AppendTyped ==
    ASSUME NEW S, NEW seq \in Seq(S), NEW new \in S
    PROVE  Append(seq, new) \in [1..Len(seq) + 1 -> S]
<1>1. Append(seq, new) \in Seq(S) /\ Len(Append(seq, new)) = Len(seq) + 1
  OBVIOUS
<1>2. \A more \in Seq(S) : more \in [1..Len(more) -> S]
  OBVIOUS
<1> QED
  BY <1>1, <1>2, Zenon

LEMMA QueueTyped ==
    ASSUME LoggerTypeOK
    PROVE  queue \in Batch /\ queue \in Seq(1..MaxLogs) /\ Len(queue) \in 0..Limit
<1>1. PICK n \in 0..Limit : queue \in [1..n -> 1..MaxLogs]
  BY DEF LoggerTypeOK
<1>2. Len(queue) = n /\ queue \in Seq(1..MaxLogs)
  BY <1>1, LoggerAssumption
<1> QED
  BY <1>1, <1>2 DEF Batch

LEMMA ShortBatches ==
    /\ <<>> \in Batch
    /\ \A l \in 1..MaxLogs : <<l>> \in Batch
<1>1. <<>> \in [1..0 -> 1..MaxLogs] /\ \A l \in 1..MaxLogs : <<l>> \in [1..1 -> 1..MaxLogs]
  OBVIOUS
<1>2. 0 \in 0..Limit /\ 1 \in 0..Limit
  BY LoggerAssumption
<1> QED
  BY <1>1, <1>2, Zenon DEF Batch

LEMMA EnqueueSteps == LoggerInv /\ Enqueue => LoggerInv'
<1> SUFFICES ASSUME LoggerInv, Enqueue PROVE LoggerInv'
  OBVIOUS
<1>1. /\ enqueued \in Nat /\ enqueued' = enqueued + 1
      /\ enqueued' \in 1..MaxLogs /\ enqueued' \in 0..MaxLogs
  BY LoggerAssumption DEF LoggerInv, LoggerTypeOK, Enqueue
<1>2. queue \in Seq(1..MaxLogs) /\ Len(queue) \in 0..Limit
  BY QueueTyped DEF LoggerInv
<1>3. CASE Len(queue) >= Limit
  <2>1. flushes' = Append(flushes, Started(queue, FALSE)) /\ queue' = <<enqueued'>>
    BY <1>3 DEF Enqueue
  <2>2. queue' \in Batch
    BY <1>1, <2>1, ShortBatches
  <2>3. flushes' \in Seq(FlushRecords) /\ \A f \in DOMAIN flushes' : CalledAsFar(flushes'[f])
    BY <2>1, FlushStarts
  <2>4. EveryLogOnce'
    BY <1>1, <2>1, QueueTaken
  <2>5. LoggerTypeOK'
    BY <1>1, <2>2, <2>3, FlushesTyped, Zenon
       DEF LoggerInv, LoggerTypeOK, Enqueue, Batch
  <2> QED
    BY <2>3, <2>4, <2>5 DEF LoggerInv
<1>4. CASE ~(Len(queue) >= Limit)
  <2>1. flushes' = flushes /\ queue' = Append(queue, enqueued')
    BY <1>4 DEF Enqueue
  <2>2. queue' \in Batch
    <3>1. Len(queue) + 1 \in 0..Limit
      BY <1>2, <1>4, LoggerAssumption
    <3>2. queue' \in [1..Len(queue) + 1 -> 1..MaxLogs]
      BY <1>1, <1>2, <2>1, AppendTyped, Zenon
    <3> QED
      BY <3>1, <3>2, Zenon DEF Batch
  <2>3. EveryLogOnce'
    BY <1>1, <2>1, QueueGrows
  <2>4. LoggerTypeOK'
    BY <1>1, <2>1, <2>2, Zenon DEF LoggerInv, LoggerTypeOK, Enqueue, Batch
  <2> QED
    BY <2>1, <2>3, <2>4 DEF LoggerInv
<1> QED
  BY <1>3, <1>4

\* flush, whoever calls it.
LEMMA TakeSteps ==
    ASSUME LoggerInv, NEW own \in BOOLEAN, TakeQueue(own), UNCHANGED <<enqueued, up>>,
           asked' \in 0..MaxFlushes, timer' \in BOOLEAN
    PROVE  LoggerInv'
<1>1. flushes' = Append(flushes, Started(queue, own)) /\ queue' = <<>>
  BY DEF TakeQueue
<1>2. queue' \in Batch
  BY <1>1, ShortBatches
<1>3. flushes' \in Seq(FlushRecords) /\ \A f \in DOMAIN flushes' : CalledAsFar(flushes'[f])
  BY <1>1, FlushStarts
<1>4. EveryLogOnce'
  BY <1>1, QueueTaken
<1>5. LoggerTypeOK'
  BY <1>2, <1>3, FlushesTyped, Zenon DEF LoggerInv, LoggerTypeOK, Batch
<1> QED
  BY <1>3, <1>4, <1>5 DEF LoggerInv

\* What happens to the flush f leaves its logs where they are.
LEMMA FlushSteps ==
    ASSUME LoggerInv, NEW f \in DOMAIN flushes, NEW changed \in FlushRecords,
           flushes' = [flushes EXCEPT ![f] = changed], changed.logs = flushes[f].logs,
           CalledAsFar(changed), up' \in BOOLEAN, UNCHANGED <<enqueued, queue, asked, timer>>
    PROVE  LoggerInv'
<1>1. flushes \in Seq(FlushRecords) /\ EveryLogOnce
  BY DEF LoggerInv
<1>2. /\ flushes' \in Seq(FlushRecords) /\ Len(flushes') = Len(flushes)
      /\ DOMAIN flushes' = DOMAIN flushes
      /\ \A g \in DOMAIN flushes : flushes'[g] = IF g = f THEN changed ELSE flushes[g]
  BY <1>1
<1>3. Batches' = Batches
  <2>1. \A g \in DOMAIN flushes : flushes'[g].logs = flushes[g].logs
    BY <1>2
  <2>2. [g \in DOMAIN flushes' |-> flushes'[g].logs] = [g \in DOMAIN flushes |-> flushes[g].logs]
    BY <1>2, <2>1
  <2> QED
    BY <2>2, Zenon DEF Batches
<1>4. EveryLogOnce'
  BY <1>1, <1>3 DEF EveryLogOnce, Places, LogAt, Earlier
<1>5. \A g \in DOMAIN flushes' : CalledAsFar(flushes'[g])
  BY <1>2 DEF LoggerInv
<1>6. LoggerTypeOK'
  BY <1>2, FlushesTyped, Zenon DEF LoggerInv, LoggerTypeOK
<1> QED
  BY <1>2, <1>4, <1>5, <1>6 DEF LoggerInv

\* The callback is told something.
LEMMA TellSteps ==
    ASSUME LoggerInv, NEW f \in DOMAIN flushes, NEW word \in {"ok", "error"},
           NEW throws \in BOOLEAN, NEW next \in {"catch", "end"}, Tell(f, word, throws, next),
           \/ flushes[f].stage \in {"tellOk", "tellError", "fetching"}
           \/ flushes[f].stage = "catch" /\ next = "end"
    PROVE  LoggerInv'
<1> DEFINE flush == flushes[f]
           call == [word |-> word, threw |-> throws]
           stage == IF throws /\ next # "end" THEN next ELSE "done"
           changed == [flush EXCEPT !.calls = Append(@, call), !.stage = stage]
<1>1. flush \in FlushRecords /\ CalledAsFar(flush)
  BY DEF LoggerInv
<1>2. flushes' = [flushes EXCEPT ![f] = changed]
  BY Zenon DEF Tell
<1>3. call \in Words /\ (call.threw <=> throws)
  BY DEF Words
<1>4. stage \in {"catch", "done"} /\ (stage = "catch" => throws /\ next = "catch")
  OBVIOUS
<1> HIDE DEF flush, call, stage
<1>5. flush.calls \in Seq(Words) /\ Append(flush.calls, call) \in Seq(Words)
  BY <1>1, <1>3 DEF FlushRecords
<1>6. /\ changed \in FlushRecords /\ changed.logs = flush.logs
      /\ changed.calls = Append(flush.calls, call) /\ changed.stage = stage
  BY <1>1, <1>4, <1>5 DEF FlushRecords, Stages
<1> HIDE DEF changed
<1>7. CalledAsFar(changed)
  <2>1. CASE flush.stage \in {"tellOk", "tellError", "fetching"}
    <3>1. flush.calls = <<>>
      BY <1>1, <2>1 DEF CalledAsFar
    <3>2. changed.calls = <<call>>
      BY <1>6, <3>1
    <3> QED
      BY <1>3, <1>4, <1>6, <3>2 DEF CalledAsFar
  <2>2. CASE flush.stage = "catch" /\ next = "end"
    <3>1. Len(flush.calls) \leq 1 /\ (Len(flush.calls) = 1 => flush.calls[1].threw) /\ stage = "done"
      BY <1>1, <1>4, <2>2 DEF CalledAsFar
    <3>2. Len(changed.calls) = Len(flush.calls) + 1 /\ Len(flush.calls) \in Nat
      BY <1>5, <1>6
    <3>3. Len(flush.calls) = 1 => changed.calls[1] = flush.calls[1]
      BY <1>5, <1>6
    <3>4. Len(changed.calls) \leq 2
      BY <3>1, <3>2
    <3>5. Len(changed.calls) = 2 => changed.calls[1].threw
      <4>1. Len(changed.calls) = 2 => Len(flush.calls) = 1
        <5>1. \A n \in Nat : n + 1 = 2 => n = 1
          OBVIOUS
        <5> QED
          BY <3>2, <5>1, Zenon
      <4> QED
        BY <3>1, <3>3, <4>1, Zenon
    <3> QED
      BY <1>6, <3>1, <3>4, <3>5, Zenon DEF CalledAsFar
  <2> QED
    BY <2>1, <2>2 DEF flush
<1>8. up' \in BOOLEAN /\ UNCHANGED <<enqueued, queue, asked, timer>>
  BY DEF Tell
<1> QED
  BY <1>2, <1>6, <1>7, <1>8, FlushSteps DEF flush

LEMMA SettleSteps ==
    ASSUME LoggerInv, NEW f \in DOMAIN flushes, Settle(f)
    PROVE  LoggerInv'
<1>1. CASE FetchFails(f)
  <2> DEFINE changed == [flushes[f] EXCEPT !.stage = "catch", !.failed = TRUE]
  <2>1. flushes[f] \in FlushRecords /\ CalledAsFar(flushes[f]) /\ flushes[f].stage = "fetching"
    BY <1>1 DEF LoggerInv, FetchFails
  <2>2. /\ flushes' = [flushes EXCEPT ![f] = changed]
        /\ UNCHANGED <<enqueued, queue, asked, timer, up>>
    BY <1>1 DEF FetchFails
  <2>3. changed \in FlushRecords /\ changed.logs = flushes[f].logs
    BY <2>1 DEF FlushRecords, Stages
  <2>4. changed.calls = <<>> /\ changed.stage = "catch"
    BY <2>1 DEF CalledAsFar, FlushRecords
  <2> HIDE DEF changed
  <2>5. CalledAsFar(changed)
    BY <2>4 DEF CalledAsFar
  <2>6. up \in BOOLEAN
    BY DEF LoggerInv, LoggerTypeOK
  <2> QED
    BY <2>2, <2>3, <2>5, <2>6, FlushSteps
<1>2. ASSUME NEW throws \in BOOLEAN,
             Microtask(f, throws) \/ Accept(f, throws) \/ Reject(f, throws) \/ Catch(f, throws)
      PROVE  LoggerInv'
  BY <1>2, TellSteps DEF Microtask, Accept, Reject, Catch
<1> QED
  BY <1>1, <1>2 DEF Settle

LEMMA LoggerSteps == LoggerInv /\ [LoggerNext]_loggerVars => LoggerInv'
<1> SUFFICES ASSUME LoggerInv, [LoggerNext]_loggerVars PROVE LoggerInv'
  OBVIOUS
<1>1. CASE Log \/ Enqueue
  BY <1>1, EnqueueSteps DEF Log
<1>2. CASE ManualFlush
  <2>1. asked' \in 0..MaxFlushes
    BY <1>2, LoggerAssumption DEF ManualFlush, LoggerInv, LoggerTypeOK
  <2> QED
    BY <1>2, <2>1, TakeSteps DEF ManualFlush, LoggerInv, LoggerTypeOK
<1>3. CASE IntervalFlush
  BY <1>3, TakeSteps DEF IntervalFlush, LoggerInv, LoggerTypeOK
<1>4. CASE Shutdown
  BY <1>4, TakeSteps DEF Shutdown, LoggerInv, LoggerTypeOK
<1>5. CASE \E f \in DOMAIN flushes : Settle(f)
  BY <1>5, SettleSteps
<1>6. CASE UNCHANGED loggerVars
  <2>1. UNCHANGED loggerVars
    BY <1>6
  <2>2. EveryLogOnce'
    <3>1. Batches' = Batches
      BY <2>1, Zenon DEF loggerVars, Batches
    <3> QED
      BY <2>1, <3>1 DEF loggerVars, LoggerInv, EveryLogOnce, Places, LogAt, Earlier
  <2>3. LoggerTypeOK'
    BY <2>1, Zenon DEF loggerVars, LoggerInv, LoggerTypeOK
  <2> QED
    BY <2>1, <2>2, <2>3, Zenon DEF loggerVars, LoggerInv
<1> QED
  BY <1>1, <1>2, <1>3, <1>4, <1>5, <1>6 DEF LoggerNext

\* A log is in exactly one flush or in the queue, in the order in which the
\* logs came, and no queue or request outgrows the limit; a flush calls back a
\* second time only after its first call threw, and never a third time
\* (external-logger/src/index.ts enqueue, flush, shutdown).
THEOREM LogsAreAccounted == LoggerSpec => []LogsAccounted
<1>1. LoggerInv => LogsAccounted
  <2> SUFFICES ASSUME LoggerInv PROVE OneCallUnlessThrown
    BY DEF LoggerInv, LogsAccounted
  <2> SUFFICES ASSUME NEW f \in DOMAIN flushes
               PROVE  LET calls == flushes[f].calls
                      IN  Len(calls) <= 2 /\ (Len(calls) = 2 => calls[1].threw)
    BY DEF OneCallUnlessThrown
  <2>1. flushes[f] \in FlushRecords /\ CalledAsFar(flushes[f])
    BY DEF LoggerInv
  <2>2. flushes[f].stage \in Stages /\ flushes[f].calls \in Seq(Words)
    BY <2>1 DEF FlushRecords
  <2> QED
    BY <2>1, <2>2 DEF CalledAsFar, Stages
<1> QED
  BY <1>1, LoggerAtStart, LoggerSteps, PTL DEF LoggerSpec

-----------------------------------------------------------------------------
(* What is counted (runtime_metrics.ts, dogstatsd.ts).                     *)

Once(b) == IF b THEN 1 ELSE 0

Vias == {"none", "http", "lookup", "udp"}

SlotsOf(n) == {s \in Clients \X Slots : n \in batches[s[1]][s[2]].left}

\* In how many places n is.
PlacesOf(n) ==
    Once(n \in counters) + Once(n \in customQueue) + Once(n \in lost) + reports[n]
      + Cardinality(SlotsOf(n))

SpansIn(states) == {s \in Spans : span[s] \in states}

\* The inductive invariants.  An increment is in a place from when it is made;
\* spans are started once the clients are decided, so that none escapes the
\* gauges.
CountsInv ==
    /\ counters \subseteq Increments /\ customQueue \subseteq Increments
    /\ lost \subseteq Increments /\ made \subseteq Increments
    /\ reports \in [Increments -> Nat]
    /\ batches \in [Clients -> [Slots -> [via : Vias, left : SUBSET Increments]]]
    /\ \A n \in Increments : PlacesOf(n) = Once(n \in made)

GaugesInv ==
    /\ span \in [Spans -> {"none", "open", "finished", "dropped", "collected"}]
    /\ gauges \in [Gauges -> Int]
    /\ init \in {"new", "custom", "runtime", "tracing"}
    /\ init # "tracing" => \A s \in Spans : span[s] = "none"
    /\ init \in {"new", "custom"} => "runtime" \notin client
    /\ "runtime" \notin client => gauges = [g \in Gauges |-> 0]
    /\ SpanGauges

LEMMA OnceIsNumber == \A b : Once(b) \in {0, 1}
BY DEF Once

LEMMA SlotsAreFinite ==
    \A n : IsFiniteSet(SlotsOf(n)) /\ Cardinality(SlotsOf(n)) \in Nat
<1> SUFFICES ASSUME NEW n PROVE IsFiniteSet(SlotsOf(n)) /\ Cardinality(SlotsOf(n)) \in Nat
  OBVIOUS
<1>1. IsFiniteSet(Slots)
  BY MetricsAssumption, FS_Interval DEF Slots
<1>2. IsFiniteSet(Clients)
  <2>1. Clients = {"custom"} \cup {"runtime"}
    BY DEF Clients
  <2> QED
    BY <2>1, FS_Singleton, FS_Union, Zenon
<1>3. IsFiniteSet(Clients \X Slots)
  BY <1>1, <1>2, FS_Product
<1>4. SlotsOf(n) \subseteq Clients \X Slots
  BY DEF SlotsOf
<1> QED
  BY <1>3, <1>4, FS_Subset, FS_CardinalityType

\* What a slot holds is nowhere else.
LEMMA HeldAlone ==
    ASSUME CountsInv, NEW c \in Clients, NEW b \in Slots, NEW n \in batches[c][b].left
    PROVE  /\ n \in made
           /\ n \notin counters /\ n \notin customQueue /\ n \notin lost /\ reports[n] = 0
<1>1. n \in Increments
  BY DEF CountsInv
<1>2. Cardinality(SlotsOf(n)) \in Nat /\ Cardinality(SlotsOf(n)) # 0
  <2>1. <<c, b>> \in SlotsOf(n)
    BY DEF SlotsOf
  <2> QED
    BY <2>1, SlotsAreFinite, FS_EmptySet
<1>3. PlacesOf(n) = Once(n \in made) /\ reports[n] \in Nat
  BY <1>1 DEF CountsInv
<1> QED
  BY <1>2, <1>3 DEF PlacesOf, Once

\* A slot changes what it holds.
LEMMA SlotMoves ==
    ASSUME CountsInv, NEW c \in Clients, NEW b \in Slots, NEW batch,
           batches' = [batches EXCEPT ![c][b] = batch], NEW n
    PROVE  Cardinality(SlotsOf(n))' =
             Cardinality(SlotsOf(n)) + Once(n \in batch.left) - Once(n \in batches[c][b].left)
<1> DEFINE before == SlotsOf(n)
           after == {s \in Clients \X Slots : n \in batches'[s[1]][s[2]].left}
           others == before \ {<<c, b>>}
<1>1. \A s \in Clients \X Slots :
         batches'[s[1]][s[2]] = IF s = <<c, b>> THEN batch ELSE batches[s[1]][s[2]]
  BY DEF CountsInv
<1>2. before = IF n \in batches[c][b].left THEN others \cup {<<c, b>>} ELSE others
  BY DEF SlotsOf
<1>3. after = IF n \in batch.left THEN others \cup {<<c, b>>} ELSE others
  BY <1>1 DEF SlotsOf
<1>4. IsFiniteSet(others) /\ Cardinality(others) \in Nat /\ <<c, b>> \notin others
  BY SlotsAreFinite, FS_Subset, FS_CardinalityType
<1>5. Cardinality(others \cup {<<c, b>>}) = Cardinality(others) + 1
  BY <1>4, FS_AddElement
<1>6. Cardinality(SlotsOf(n))' = Cardinality(after)
  BY DEF SlotsOf
<1> HIDE DEF before, after, others
<1>7. Cardinality(before) = Cardinality(others) + Once(n \in batches[c][b].left)
  BY <1>2, <1>4, <1>5 DEF Once
<1>8. Cardinality(after) = Cardinality(others) + Once(n \in batch.left)
  BY <1>3, <1>4, <1>5 DEF Once
<1>9. Cardinality(after) =
        Cardinality(before) + Once(n \in batch.left) - Once(n \in batches[c][b].left)
  BY <1>4, <1>7, <1>8, OnceIsNumber
<1> QED
  BY <1>6, <1>9 DEF before

\* A step that changes one slot keeps the invariant, if what the slot gains or
\* loses another place loses or gains.
LEMMA PlacesKept ==
    ASSUME CountsInv, NEW c \in Clients, NEW b \in Slots,
           NEW batch \in [via : Vias, left : SUBSET Increments],
           batches' = [batches EXCEPT ![c][b] = batch],
           counters' \subseteq Increments, customQueue' \subseteq Increments,
           lost' \subseteq Increments, made' \subseteq Increments,
           reports' \in [Increments -> Nat],
           \A n \in Increments :
              Once(n \in counters') + Once(n \in customQueue') + Once(n \in lost') + reports'[n]
                + Once(n \in batch.left) - Once(n \in made') =
              Once(n \in counters) + Once(n \in customQueue) + Once(n \in lost) + reports[n]
                + Once(n \in batches[c][b].left) - Once(n \in made)
    PROVE  CountsInv'
<1>1. batches' \in [Clients -> [Slots -> [via : Vias, left : SUBSET Increments]]]
  BY DEF CountsInv
<1>2. ASSUME NEW n \in Increments PROVE PlacesOf(n)' = Once(n \in made)'
  <2>1. reports[n] \in Nat /\ reports'[n] \in Nat /\ PlacesOf(n) = Once(n \in made)
    BY DEF CountsInv
  <2>2. Cardinality(SlotsOf(n)) \in Nat
    BY SlotsAreFinite
  <2>3. Cardinality(SlotsOf(n))' =
          Cardinality(SlotsOf(n)) + Once(n \in batch.left) - Once(n \in batches[c][b].left)
    BY SlotMoves
  <2>4. PlacesOf(n)' = Once(n \in counters') + Once(n \in customQueue') + Once(n \in lost')
                         + reports'[n] + Cardinality(SlotsOf(n))'
    BY DEF PlacesOf
  <2>5. PlacesOf(n) = Once(n \in counters) + Once(n \in customQueue) + Once(n \in lost)
                         + reports[n] + Cardinality(SlotsOf(n))
    BY DEF PlacesOf
  <2>6. Once(n \in made)' = Once(n \in made')
    OBVIOUS
  <2>7. Once(n \in counters') + Once(n \in customQueue') + Once(n \in lost') + reports'[n]
          + Once(n \in batch.left) - Once(n \in made') =
        Once(n \in counters) + Once(n \in customQueue) + Once(n \in lost) + reports[n]
          + Once(n \in batches[c][b].left) - Once(n \in made)
    OBVIOUS
  <2> DEFINE before == Cardinality(SlotsOf(n))
             after == Cardinality(SlotsOf(n))'
  <2> HIDE DEF before, after
  <2>8. /\ before \in Nat
        /\ after = before + Once(n \in batch.left) - Once(n \in batches[c][b].left)
        /\ Once(n \in counters) + Once(n \in customQueue) + Once(n \in lost) + reports[n]
             + before = Once(n \in made)
    BY <2>1, <2>2, <2>3, <2>5, Zenon DEF before, after
  <2>9. Once(n \in counters') + Once(n \in customQueue') + Once(n \in lost') + reports'[n]
           + after = Once(n \in made')
    BY <2>1, <2>7, <2>8 DEF Once
  <2> QED
    BY <2>4, <2>6, <2>9, Zenon DEF after
<1> QED
  BY <1>1, <1>2, Zenon DEF CountsInv

LEMMA MetricsAtStart == MetricsInit => CountsInv /\ GaugesInv
<1> SUFFICES ASSUME MetricsInit PROVE CountsInv /\ GaugesInv
  OBVIOUS
<1>1. CountsInv
  <2>1. batches \in [Clients -> [Slots -> [via : Vias, left : SUBSET Increments]]]
    BY DEF MetricsInit, Free, Vias
  <2>2. ASSUME NEW n \in Increments PROVE PlacesOf(n) = Once(n \in made)
    <3>1. SlotsOf(n) = {}
      BY DEF MetricsInit, Free, SlotsOf
    <3> QED
      BY <3>1, FS_EmptySet DEF MetricsInit, PlacesOf, Once
  <2> QED
    BY <2>1, <2>2 DEF MetricsInit, CountsInv
<1>2. SpanGauges
  BY DEF MetricsInit, SpanGauges
<1> QED
  BY <1>1, <1>2 DEF MetricsInit, GaugesInv

\* An increment that was not made yet is nowhere.
LEMMA NotYetAnywhere ==
    ASSUME CountsInv, NEW n \in Increments \ made
    PROVE  /\ n \notin counters /\ n \notin customQueue /\ n \notin lost /\ reports[n] = 0
           /\ \A c \in Clients, b \in Slots : n \notin batches[c][b].left
<1>1. PlacesOf(n) = Once(n \in made) /\ reports[n] \in Nat /\ Cardinality(SlotsOf(n)) \in Nat
  BY SlotsAreFinite DEF CountsInv
<1>2. n \notin counters /\ n \notin customQueue /\ n \notin lost /\ reports[n] = 0
  BY <1>1 DEF PlacesOf, Once
<1> QED
  BY <1>2, HeldAlone

\* An increment is taken, or lost at once.
LEMMA IncrementCounts ==
    ASSUME CountsInv, NEW n, CustomIncrement(n) \/ Increment(n)
    PROVE  CountsInv'
<1>1. /\ n \in Increments \ made /\ made' = made \cup {n} /\ UNCHANGED <<reports, batches>>
      /\ \/ counters' = counters \cup {n} /\ UNCHANGED <<customQueue, lost>>
         \/ customQueue' = customQueue \cup {n} /\ UNCHANGED <<counters, lost>>
         \/ lost' = lost \cup {n} /\ UNCHANGED <<counters, customQueue>>
  BY DEF CustomIncrement, Increment, TakenBy, Increments
<1>2. ASSUME NEW m \in Increments PROVE PlacesOf(m)' = Once(m \in made)'
  <2>1. PlacesOf(m) = Once(m \in made) /\ reports[m] \in Nat /\ Cardinality(SlotsOf(m)) \in Nat
    BY SlotsAreFinite DEF CountsInv
  <2>2. SlotsOf(m)' = SlotsOf(m)
    BY <1>1 DEF SlotsOf
  <2>3. PlacesOf(m)' = Once(m \in counters') + Once(m \in customQueue') + Once(m \in lost')
                         + reports[m] + Cardinality(SlotsOf(m))
    BY <1>1, <2>2 DEF PlacesOf
  <2>4. CASE m = n
    <3>1. n \notin counters /\ n \notin customQueue /\ n \notin lost
      BY <1>1, NotYetAnywhere
    <3>2. Once(m \in counters') + Once(m \in customQueue') + Once(m \in lost') = 1
      BY <1>1, <2>4, <3>1 DEF Once
    <3>3. Once(m \in counters) + Once(m \in customQueue) + Once(m \in lost) = 0
      BY <2>4, <3>1 DEF Once
    <3>4. PlacesOf(m)' = PlacesOf(m) + 1
      BY <2>1, <2>3, <3>2, <3>3, OnceIsNumber DEF PlacesOf
    <3> QED
      BY <1>1, <2>1, <2>4, <3>4 DEF Once
  <2>5. CASE m # n
    <3>1. PlacesOf(m)' = PlacesOf(m)
      BY <1>1, <2>1, <2>3, <2>5 DEF PlacesOf, Once
    <3> QED
      BY <1>1, <2>1, <2>5, <3>1 DEF Once
  <2> QED
    BY <2>4, <2>5
<1>3. /\ counters' \subseteq Increments /\ customQueue' \subseteq Increments
      /\ lost' \subseteq Increments /\ made' \subseteq Increments
  BY <1>1 DEF CountsInv
<1> QED
  BY <1>1, <1>2, <1>3, Zenon DEF CountsInv

\* A flush takes a free slot for what it finds.
LEMMA FlushCounts ==
    ASSUME CountsInv, NEW c \in Clients, NEW increments \in SUBSET Increments,
           Flushed(c, increments), UNCHANGED <<reports, lost>>,
           counters' \subseteq Increments, customQueue' \subseteq Increments,
           made' \subseteq Increments,
           \A n \in Increments :
              Once(n \in counters') + Once(n \in customQueue') + Once(n \in increments)
                - Once(n \in made') =
              Once(n \in counters) + Once(n \in customQueue) - Once(n \in made)
    PROVE  CountsInv'
<1>1. PICK b \in Slots :
         /\ batches[c][b] = Free
         /\ batches' = [batches EXCEPT ![c][b] =
               [via |-> IF c \in proxied THEN "http" ELSE Udp, left |-> increments]]
  BY DEF Flushed
<1> DEFINE batch == [via |-> IF c \in proxied THEN "http" ELSE Udp, left |-> increments]
<1>2. batch \in [via : Vias, left : SUBSET Increments] /\ batch.left = increments
  BY DEF Udp, Vias
<1>3. batches' = [batches EXCEPT ![c][b] = batch]
  BY <1>1
<1> HIDE DEF batch
<1>4. ASSUME NEW n \in Increments
      PROVE  Once(n \in counters') + Once(n \in customQueue') + Once(n \in lost') + reports'[n]
               + Once(n \in batch.left) - Once(n \in made') =
             Once(n \in counters) + Once(n \in customQueue) + Once(n \in lost) + reports[n]
               + Once(n \in batches[c][b].left) - Once(n \in made)
  <2>1. reports[n] \in Nat /\ reports'[n] = reports[n] /\ Once(n \in lost') = Once(n \in lost)
    BY DEF CountsInv
  <2>2. Once(n \in batches[c][b].left) = 0
    BY <1>1 DEF Free, Once
  <2> QED
    BY <1>2, <2>1, <2>2, OnceIsNumber
<1>5. lost' \subseteq Increments /\ reports' \in [Increments -> Nat]
  BY DEF CountsInv
<1> QED
  BY <1>2, <1>3, <1>4, <1>5, PlacesKept

LEMMA IntervalsCount ==
    ASSUME CountsInv, Flush \/ Interval \/ (\E n \in Increments : Rejection(n))
    PROVE  CountsInv'
<1>1. CASE Flush
  <2>1. /\ Flushed("custom", customQueue) /\ customQueue' = {}
        /\ UNCHANGED <<made, counters, reports, lost>>
    BY <1>1 DEF Flush
  <2>2. ASSUME NEW n \in Increments
        PROVE  Once(n \in counters') + Once(n \in customQueue') + Once(n \in customQueue)
                 - Once(n \in made') =
               Once(n \in counters) + Once(n \in customQueue) - Once(n \in made)
    BY <2>1 DEF Once
  <2> QED
    BY <2>1, <2>2, FlushCounts DEF CountsInv, Clients
<1>2. CASE Interval
  <2>1. /\ Flushed("runtime", counters) /\ counters' = {}
        /\ UNCHANGED <<made, customQueue, reports, lost>>
    BY <1>2 DEF Interval
  <2>2. ASSUME NEW n \in Increments
        PROVE  Once(n \in counters') + Once(n \in customQueue') + Once(n \in counters)
                 - Once(n \in made') =
               Once(n \in counters) + Once(n \in customQueue) - Once(n \in made)
    BY <2>1 DEF Once
  <2> QED
    BY <2>1, <2>2, FlushCounts DEF CountsInv, Clients
<1>3. ASSUME NEW m \in Increments, Rejection(m) PROVE CountsInv'
  <2>1. /\ m \notin made /\ made' = made \cup {m} /\ Flushed("runtime", {m})
        /\ UNCHANGED <<counters, customQueue, reports, lost>>
    BY <1>3 DEF Rejection
  <2>2. ASSUME NEW n \in Increments
        PROVE  Once(n \in counters') + Once(n \in customQueue') + Once(n \in {m})
                 - Once(n \in made') =
               Once(n \in counters) + Once(n \in customQueue) - Once(n \in made)
    BY <2>1 DEF Once
  <2>3. {m} \in SUBSET Increments /\ made' \subseteq Increments
    BY <2>1 DEF CountsInv
  <2> QED
    BY <2>1, <2>2, <2>3, FlushCounts DEF CountsInv, Clients
<1> QED
  BY <1>1, <1>2, <1>3

\* What becomes of a batch: some of it is delivered or given up, and it goes on
\* with the rest.
LEMMA BatchCounts ==
    ASSUME CountsInv, NEW c \in Clients, NEW b \in Slots,
           NEW batch \in [via : Vias, left : SUBSET Increments],
           batches' = [batches EXCEPT ![c][b] = batch],
           batch.left \subseteq batches[c][b].left, UNCHANGED <<made, counters, customQueue>>,
           \/ Delivered(batches[c][b].left \ batch.left) /\ UNCHANGED lost
           \/ lost' = lost \cup (batches[c][b].left \ batch.left) /\ UNCHANGED reports
    PROVE  CountsInv'
<1> DEFINE left == batches[c][b].left
<1>1. left \subseteq Increments
  BY DEF CountsInv
<1>2. reports' \in [Increments -> Nat]
  BY DEF CountsInv, Delivered
<1>3. lost' \subseteq Increments
  BY <1>1 DEF CountsInv
<1>4. ASSUME NEW n \in Increments
      PROVE  Once(n \in counters') + Once(n \in customQueue') + Once(n \in lost') + reports'[n]
               + Once(n \in batch.left) - Once(n \in made') =
             Once(n \in counters) + Once(n \in customQueue) + Once(n \in lost) + reports[n]
               + Once(n \in left) - Once(n \in made)
  <2>1. reports[n] \in Nat /\ (n \in left => n \notin lost)
    BY HeldAlone DEF CountsInv
  <2>2. Once(n \in lost') + reports'[n] + Once(n \in batch.left) =
          Once(n \in lost) + reports[n] + Once(n \in left)
    <3>1. CASE Delivered(left \ batch.left) /\ UNCHANGED lost
      <4>1. reports'[n] = reports[n] + IF n \in left \ batch.left THEN 1 ELSE 0
        BY <3>1 DEF Delivered
      <4> QED
        BY <2>1, <3>1, <4>1 DEF Once
    <3>2. CASE lost' = lost \cup (left \ batch.left) /\ UNCHANGED reports
      BY <2>1, <3>2 DEF Once
    <3> QED
      BY <3>1, <3>2
  <2>3. reports'[n] \in Nat
    BY <1>2
  <2> QED
    BY <2>1, <2>2, <2>3, OnceIsNumber
<1> QED
  BY <1>2, <1>3, <1>4, PlacesKept DEF CountsInv

LEMMA SendingCounts ==
    ASSUME CountsInv, NEW c \in Clients, NEW b \in Slots, Sending(c, b)
    PROVE  CountsInv'
<1> DEFINE batch == batches[c][b]
<1>1. batch \in [via : Vias, left : SUBSET Increments]
  BY DEF CountsInv
<1>2. UNCHANGED <<made, counters, customQueue>>
  BY DEF Sending, HttpEnds, LookupEnds, UdpSends, Accepted, Refused
<1>3. Free \in [via : Vias, left : SUBSET Increments] /\ Free.left = {}
  BY DEF Free, Vias
<1>4. ASSUME NEW via \in Vias, Moved(c, b, via), UNCHANGED <<reports, lost>> PROVE CountsInv'
  <2> DEFINE moved == [via |-> via, left |-> batch.left]
  <2>1. batches' = [batches EXCEPT ![c][b] = moved]
    <3>1. [batch EXCEPT !.via = via] = moved
      BY <1>1
    <3> QED
      BY <1>4, <3>1, Zenon DEF Moved
  <2>2. moved \in [via : Vias, left : SUBSET Increments] /\ moved.left = batch.left
    BY <1>1
  <2> HIDE DEF moved
  <2>3. lost' = lost \cup (batch.left \ moved.left)
    BY <1>4, <2>2
  <2> QED
    BY <1>2, <1>4, <2>1, <2>2, <2>3, BatchCounts
<1>5. ASSUME GivenUp(c, b) PROVE CountsInv'
  BY <1>2, <1>3, <1>5, BatchCounts DEF GivenUp, BatchEnds
<1>6. ASSUME Accepted(c, b) PROVE CountsInv'
  BY <1>2, <1>3, <1>6, BatchCounts DEF Accepted, BatchEnds
<1>7. CASE HttpEnds(c, b)
  <2>1. Refused(c, b) => \E via \in Vias : Moved(c, b, via) /\ UNCHANGED <<reports, lost>>
    BY DEF Refused, Udp, Vias
  <2> QED
    BY <1>4, <1>5, <1>6, <1>7, <2>1 DEF HttpEnds
<1>8. CASE LookupEnds(c, b)
  BY <1>4, <1>5, <1>8 DEF LookupEnds, Vias
<1>9. CASE UdpSends(c, b)
  <2>1. ASSUME NEW increments \in SUBSET batch.left, Delivered(increments), UNCHANGED lost,
               IF increments = batch.left
               THEN BatchEnds(c, b)
               ELSE batches' = [batches EXCEPT ![c][b].left = @ \ increments]
        PROVE  CountsInv'
    <3>1. CASE increments = batch.left
      BY <1>2, <1>3, <2>1, <3>1, BatchCounts DEF BatchEnds
    <3>2. CASE increments # batch.left
      <4> DEFINE rest == [via |-> batch.via, left |-> batch.left \ increments]
      <4>1. batches' = [batches EXCEPT ![c][b] = rest]
        BY <1>1, <2>1, <3>2 DEF CountsInv
      <4>2. /\ rest \in [via : Vias, left : SUBSET Increments]
            /\ rest.left \subseteq batch.left /\ batch.left \ rest.left = increments
        BY <1>1
      <4> HIDE DEF rest
      <4> QED
        BY <1>2, <2>1, <4>1, <4>2, BatchCounts
    <3> QED
      BY <3>1, <3>2
  <2> QED
    BY <1>5, <1>9, <2>1 DEF UdpSends
<1> QED
  BY <1>7, <1>8, <1>9 DEF Sending

LEMMA CountsSteps == CountsInv /\ [MetricsNext]_metricsVars => CountsInv'
<1> SUFFICES ASSUME CountsInv, [MetricsNext]_metricsVars PROVE CountsInv'
  OBVIOUS
<1>1. ASSUME UNCHANGED <<made, reports, lost, counters, customQueue, batches>> PROVE CountsInv'
  BY <1>1 DEF CountsInv, PlacesOf, SlotsOf
<1>2. CASE StartCustom \/ StartRuntime \/ StartTracing
  BY <1>1, <1>2 DEF StartCustom, StartRuntime, StartTracing
<1>3. ASSUME NEW n \in Increments, CustomIncrement(n) \/ Increment(n) \/ Rejection(n)
      PROVE  CountsInv'
  BY <1>3, IncrementCounts, IntervalsCount
<1>4. ASSUME NEW s \in Spans, StartSpan(s) \/ FinishSpan(s) \/ Collect(s)
      PROVE  CountsInv'
  BY <1>1, <1>4 DEF StartSpan, FinishSpan, Collect
<1>5. CASE Flush \/ Interval
  BY <1>5, IntervalsCount
<1>6. ASSUME NEW c \in Clients, NEW b \in Slots, Sending(c, b) PROVE CountsInv'
  BY <1>6, SendingCounts
<1>7. CASE UNCHANGED metricsVars
  BY <1>1, <1>7 DEF metricsVars
<1> QED
  BY <1>2, <1>3, <1>4, <1>5, <1>6, <1>7 DEF MetricsNext

\* A span changes its state: it leaves a number, or joins one, or both.
LEMMA SpanMoves ==
    ASSUME GaugesInv, NEW s \in Spans, NEW to, span' = [span EXCEPT ![s] = to], NEW states
    PROVE  /\ Cardinality(SpansIn(states)) \in Nat
           /\ Cardinality({x \in Spans : span'[x] \in states}) =
                Cardinality(SpansIn(states)) + Once(to \in states) - Once(span[s] \in states)
<1> DEFINE before == SpansIn(states)
           after == {x \in Spans : span'[x] \in states}
<1>1. DOMAIN span = Spans /\ \A x \in Spans : span'[x] = IF x = s THEN to ELSE span[x]
  BY DEF GaugesInv
<1>2. /\ IsFiniteSet(before) /\ Cardinality(before) \in Nat
      /\ IsFiniteSet(after) /\ Cardinality(after) \in Nat
  <2>1. before \subseteq Spans /\ after \subseteq Spans
    BY DEF SpansIn
  <2> QED
    BY <2>1, MetricsAssumption, FS_Subset, FS_CardinalityType
<1>3. CASE (to \in states) = (span[s] \in states)
  <2>1. after = before
    BY <1>1, <1>3 DEF SpansIn
  <2>2. Once(to \in states) = Once(span[s] \in states) /\ Once(to \in states) \in Nat
    BY <1>3 DEF Once
  <2> HIDE DEF before, after
  <2>3. Cardinality(after) = Cardinality(before) + Once(to \in states) - Once(span[s] \in states)
    BY <1>2, <2>1, <2>2
  <2> QED
    BY <1>2, <2>3, Zenon DEF before, after
<1>4. CASE to \in states /\ span[s] \notin states
  <2>1. after = before \cup {s} /\ s \notin before
    BY <1>1, <1>4 DEF SpansIn
  <2>2. Once(to \in states) = 1 /\ Once(span[s] \in states) = 0
    BY <1>4 DEF Once
  <2> HIDE DEF before, after
  <2>3. Cardinality(after) = Cardinality(before) + 1
    BY <1>2, <2>1, FS_AddElement
  <2>4. Cardinality(after) = Cardinality(before) + Once(to \in states) - Once(span[s] \in states)
    BY <1>2, <2>2, <2>3
  <2> QED
    BY <1>2, <2>4, Zenon DEF before, after
<1>5. CASE to \notin states /\ span[s] \in states
  <2>1. before = after \cup {s} /\ s \notin after
    BY <1>1, <1>5 DEF SpansIn
  <2>2. Once(to \in states) = 0 /\ Once(span[s] \in states) = 1
    BY <1>5 DEF Once
  <2> HIDE DEF before, after
  <2>3. Cardinality(before) = Cardinality(after) + 1
    BY <1>2, <2>1, FS_AddElement
  <2>4. Cardinality(after) = Cardinality(before) + Once(to \in states) - Once(span[s] \in states)
    BY <1>2, <2>2, <2>3
  <2> QED
    BY <1>2, <2>4, Zenon DEF before, after
<1> QED
  BY <1>3, <1>4, <1>5

NumbersOf(open, unfinished, finished) ==
    /\ gauges["open"] = open /\ gauges["unfinished"] = unfinished
    /\ gauges["finished"] = finished

LEMMA SpanGaugesAre ==
    SpanGauges <=>
      ("runtime" \in client =>
         NumbersOf(Cardinality(SpansIn({"open", "dropped"})), Cardinality(SpansIn({"open"})),
                   Cardinality(SpansIn({"finished"}))))
BY Zenon DEF SpanGauges, NumbersOf, SpansIn

\* A span goes from a state to another, which the gauges are told.
LEMMA GaugesFollow ==
    ASSUME GaugesInv, init = "tracing", NEW s \in Spans,
           NEW to \in {"open", "finished", "dropped", "collected"},
           NEW change \in [Gauges -> Int],
           span' = [span EXCEPT ![s] = to], gauges' = Updated(change), UNCHANGED <<init, client>>,
           change["open"] = Once(to \in {"open", "dropped"}) - Once(span[s] \in {"open", "dropped"}),
           change["unfinished"] = Once(to \in {"open"}) - Once(span[s] \in {"open"}),
           change["finished"] = Once(to \in {"finished"}) - Once(span[s] \in {"finished"})
    PROVE  GaugesInv'
<1>1. "open" \in Gauges /\ "unfinished" \in Gauges /\ "finished" \in Gauges
  BY DEF Gauges
<1>2. gauges \in [Gauges -> Int]
  BY DEF GaugesInv
<1>3. gauges' \in [Gauges -> Int]
  BY <1>2 DEF Updated
<1>4. ASSUME "runtime" \in client PROVE SpanGauges'
  <2>1. gauges' = [g \in Gauges |-> gauges[g] + change[g]]
    BY <1>4 DEF Updated
  <2>2. /\ gauges'["open"] = gauges["open"] + change["open"]
        /\ gauges'["unfinished"] = gauges["unfinished"] + change["unfinished"]
        /\ gauges'["finished"] = gauges["finished"] + change["finished"]
    BY <1>1, <2>1
  <2>3. /\ gauges["open"] = Cardinality(SpansIn({"open", "dropped"}))
        /\ gauges["unfinished"] = Cardinality(SpansIn({"open"}))
        /\ gauges["finished"] = Cardinality(SpansIn({"finished"}))
    BY <1>4, SpanGaugesAre DEF GaugesInv, NumbersOf
  <2>4. \A states : Once(to \in states) \in Nat /\ Once(span[s] \in states) \in Nat
    BY DEF Once
  <2>5. gauges'["open"] = Cardinality({x \in Spans : span'[x] \in {"open", "dropped"}})
    <3>1. /\ Cardinality(SpansIn({"open", "dropped"})) \in Nat
          /\ Cardinality({x \in Spans : span'[x] \in {"open", "dropped"}}) =
               Cardinality(SpansIn({"open", "dropped"})) + Once(to \in {"open", "dropped"})
                 - Once(span[s] \in {"open", "dropped"})
      BY SpanMoves, Zenon
    <3> QED
      BY <2>2, <2>3, <2>4, <3>1
  <2>6. gauges'["unfinished"] = Cardinality({x \in Spans : span'[x] \in {"open"}})
    <3>1. /\ Cardinality(SpansIn({"open"})) \in Nat
          /\ Cardinality({x \in Spans : span'[x] \in {"open"}}) =
               Cardinality(SpansIn({"open"})) + Once(to \in {"open"}) - Once(span[s] \in {"open"})
      BY SpanMoves, Zenon
    <3> QED
      BY <2>2, <2>3, <2>4, <3>1
  <2>7. gauges'["finished"] = Cardinality({x \in Spans : span'[x] \in {"finished"}})
    <3>1. /\ Cardinality(SpansIn({"finished"})) \in Nat
          /\ Cardinality({x \in Spans : span'[x] \in {"finished"}}) =
               Cardinality(SpansIn({"finished"})) + Once(to \in {"finished"})
                 - Once(span[s] \in {"finished"})
      BY SpanMoves, Zenon
    <3> QED
      BY <2>2, <2>3, <2>4, <3>1
  <2> QED
    BY <2>5, <2>6, <2>7, Zenon DEF SpanGauges
<1>5. ASSUME "runtime" \notin client PROVE gauges' = [g \in Gauges |-> 0] /\ SpanGauges'
  BY <1>5 DEF GaugesInv, Updated, SpanGauges
<1>6. span' \in [Spans -> {"none", "open", "finished", "dropped", "collected"}]
  BY DEF GaugesInv
<1> QED
  BY <1>3, <1>4, <1>5, <1>6, Zenon DEF GaugesInv

LEMMA SpanSteps ==
    ASSUME GaugesInv, NEW s \in Spans, StartSpan(s) \/ FinishSpan(s) \/ Collect(s)
    PROVE  GaugesInv'
<1> DEFINE Change(o, u, f) == [open |-> o, unfinished |-> u, finished |-> f]
<1>1. \A o, u, f \in Int : /\ Change(o, u, f) \in [Gauges -> Int]
                           /\ Change(o, u, f)["open"] = o
                           /\ Change(o, u, f)["unfinished"] = u
                           /\ Change(o, u, f)["finished"] = f
  BY DEF Gauges
<1>2. span[s] # "none" => init = "tracing"
  BY DEF GaugesInv
<1>3. CASE StartSpan(s)
  <2> DEFINE change == Change(1, 1, 0)
  <2>1. /\ init = "tracing" /\ span[s] = "none" /\ span' = [span EXCEPT ![s] = "open"]
        /\ gauges' = Updated(change) /\ UNCHANGED <<init, client>>
    BY <1>3 DEF StartSpan
  <2>2. init = "tracing" /\ change \in [Gauges -> Int]
    BY <1>1, <1>2, <2>1
  <2>3. /\ change["open"] = Once("open" \in {"open", "dropped"}) - Once(span[s] \in {"open", "dropped"})
        /\ change["unfinished"] = Once("open" \in {"open"}) - Once(span[s] \in {"open"})
        /\ change["finished"] = Once("open" \in {"finished"}) - Once(span[s] \in {"finished"})
    BY <1>1, <2>1 DEF Once
  <2> HIDE DEF change
  <2>4. "open" \in {"open", "finished", "dropped", "collected"}
    OBVIOUS
  <2> QED
    BY <2>1, <2>2, <2>3, <2>4, GaugesFollow, Zenon
<1>4. CASE FinishSpan(s)
  <2> DEFINE change == Change(-1, -1, 1)
  <2>1. /\ span[s] = "open" /\ span' = [span EXCEPT ![s] = "finished"]
        /\ gauges' = Updated(change) /\ UNCHANGED <<init, client>>
    BY <1>4 DEF FinishSpan
  <2>2. init = "tracing" /\ change \in [Gauges -> Int]
    BY <1>1, <1>2, <2>1
  <2>3. /\ change["open"] = Once("finished" \in {"open", "dropped"}) - Once(span[s] \in {"open", "dropped"})
        /\ change["unfinished"] = Once("finished" \in {"open"}) - Once(span[s] \in {"open"})
        /\ change["finished"] = Once("finished" \in {"finished"}) - Once(span[s] \in {"finished"})
    BY <1>1, <2>1 DEF Once
  <2> HIDE DEF change
  <2>4. "finished" \in {"open", "finished", "dropped", "collected"}
    OBVIOUS
  <2> QED
    BY <2>1, <2>2, <2>3, <2>4, GaugesFollow, Zenon
<1>5. CASE Collect(s) /\ span[s] = "open"
  <2> DEFINE change == Change(0, -1, 0)
  <2>1. /\ span[s] = "open" /\ span' = [span EXCEPT ![s] = "dropped"]
        /\ gauges' = Updated(change) /\ UNCHANGED <<init, client>>
    BY <1>5 DEF Collect
  <2>2. init = "tracing" /\ change \in [Gauges -> Int]
    BY <1>1, <1>2, <2>1
  <2>3. /\ change["open"] = Once("dropped" \in {"open", "dropped"}) - Once(span[s] \in {"open", "dropped"})
        /\ change["unfinished"] = Once("dropped" \in {"open"}) - Once(span[s] \in {"open"})
        /\ change["finished"] = Once("dropped" \in {"finished"}) - Once(span[s] \in {"finished"})
    BY <1>1, <2>1 DEF Once
  <2> HIDE DEF change
  <2>4. "dropped" \in {"open", "finished", "dropped", "collected"}
    OBVIOUS
  <2> QED
    BY <2>1, <2>2, <2>3, <2>4, GaugesFollow, Zenon
<1>6. CASE Collect(s) /\ span[s] # "open"
  <2> DEFINE change == Change(0, 0, -1)
  <2>1. /\ span[s] = "finished" /\ span' = [span EXCEPT ![s] = "collected"]
        /\ gauges' = Updated(change) /\ UNCHANGED <<init, client>>
    BY <1>6 DEF Collect
  <2>2. init = "tracing" /\ change \in [Gauges -> Int]
    BY <1>1, <1>2, <2>1
  <2>3. /\ change["open"] = Once("collected" \in {"open", "dropped"}) - Once(span[s] \in {"open", "dropped"})
        /\ change["unfinished"] = Once("collected" \in {"open"}) - Once(span[s] \in {"open"})
        /\ change["finished"] = Once("collected" \in {"finished"}) - Once(span[s] \in {"finished"})
    BY <1>1, <2>1 DEF Once
  <2> HIDE DEF change
  <2>4. "collected" \in {"open", "finished", "dropped", "collected"}
    OBVIOUS
  <2> QED
    BY <2>1, <2>2, <2>3, <2>4, GaugesFollow, Zenon
<1> QED
  BY <1>3, <1>4, <1>5, <1>6

\* The clients are made while there is no span yet.
LEMMA StartSteps ==
    ASSUME GaugesInv, StartCustom \/ StartRuntime \/ StartTracing
    PROVE  GaugesInv'
<1>1. UNCHANGED <<gauges, span>>
  BY DEF StartCustom, StartRuntime, StartTracing
<1>2. init # "tracing" /\ \A s \in Spans : span[s] = "none"
  BY DEF StartCustom, StartRuntime, StartTracing, GaugesInv
<1>3. CASE "runtime" \in client'
  <2>1. CASE "runtime" \notin client
    <3>1. gauges = [g \in Gauges |-> 0]
      BY <2>1 DEF GaugesInv
    <3>2. \A states \in {{"open", "dropped"}, {"open"}, {"finished"}} :
             Cardinality({s \in Spans : span'[s] \in states}) = 0
      <4> SUFFICES ASSUME NEW states \in {{"open", "dropped"}, {"open"}, {"finished"}}
                   PROVE  Cardinality({s \in Spans : span'[s] \in states}) = 0
        OBVIOUS
      <4>1. {s \in Spans : span'[s] \in states} = {}
        BY <1>1, <1>2
      <4> QED
        BY <4>1, FS_EmptySet, Zenon
    <3>3. gauges'["open"] = 0 /\ gauges'["unfinished"] = 0 /\ gauges'["finished"] = 0
      BY <1>1, <3>1 DEF Gauges
    <3>4. SpanGauges'
      BY <3>2, <3>3, Zenon DEF SpanGauges
    <3>5. init' = "runtime"
      BY <1>3, <2>1 DEF StartCustom, StartRuntime, StartTracing, GaugesInv
    <3> QED
      BY <1>1, <1>2, <1>3, <3>4, <3>5 DEF GaugesInv
  <2>2. CASE "runtime" \in client
    <3>1. SpanGauges' /\ StartTracing
      BY <1>1, <2>2 DEF StartCustom, StartRuntime, StartTracing, GaugesInv, SpanGauges
    <3> QED
      BY <1>1, <1>2, <1>3, <3>1 DEF StartTracing, GaugesInv
  <2> QED
    BY <2>1, <2>2
<1>4. CASE "runtime" \notin client'
  <2>1. "runtime" \notin client
    BY <1>4 DEF StartCustom, StartRuntime, StartTracing, GaugesInv
  <2>2. SpanGauges'
    BY <1>4 DEF SpanGauges
  <2>3. init' \in {"custom", "runtime", "tracing"}
    BY DEF StartCustom, StartRuntime, StartTracing
  <2> QED
    BY <1>1, <1>2, <1>4, <2>1, <2>2, <2>3 DEF GaugesInv
<1> QED
  BY <1>3, <1>4

LEMMA GaugesSteps == GaugesInv /\ [MetricsNext]_metricsVars => GaugesInv'
<1> SUFFICES ASSUME GaugesInv, [MetricsNext]_metricsVars PROVE GaugesInv'
  OBVIOUS
<1>1. ASSUME UNCHANGED <<init, client, gauges, span>> PROVE GaugesInv'
  BY <1>1 DEF GaugesInv, SpanGauges
<1>2. CASE StartCustom \/ StartRuntime \/ StartTracing
  BY <1>2, StartSteps
<1>3. ASSUME NEW n \in Increments, CustomIncrement(n) \/ Increment(n) \/ Rejection(n)
      PROVE  GaugesInv'
  BY <1>1, <1>3 DEF CustomIncrement, Increment, Rejection
<1>4. ASSUME NEW s \in Spans, StartSpan(s) \/ FinishSpan(s) \/ Collect(s)
      PROVE  GaugesInv'
  BY <1>4, SpanSteps
<1>5. CASE Flush \/ Interval
  BY <1>1, <1>5 DEF Flush, Interval
<1>6. ASSUME NEW c \in Clients, NEW b \in Slots, Sending(c, b) PROVE GaugesInv'
  BY <1>1, <1>6 DEF Sending, HttpEnds, LookupEnds, UdpSends
<1>7. CASE UNCHANGED metricsVars
  BY <1>1, <1>7 DEF metricsVars
<1> QED
  BY <1>2, <1>3, <1>4, <1>5, <1>6, <1>7 DEF MetricsNext

\* Whatever the intervals, the rejections, the fallback to UDP and the failures
\* of both do, an increment that was made is in exactly one place: waiting, in a
\* batch under way, delivered once or lost; and where the runtime metrics are
\* collected the gauges are the numbers of spans that are open, unfinished and
\* finished (runtime_metrics.ts, dogstatsd.ts).
THEOREM CountsAreAccounted == MetricsSpec => []CountsAccounted
<1>1. CountsInv => CountsOnce
  BY DEF CountsInv, CountsOnce, PlacesOf, SlotsOf, Once
<1>2. CountsInv /\ GaugesInv => CountsAccounted
  BY <1>1 DEF GaugesInv, CountsAccounted
<1> QED
  BY <1>2, MetricsAtStart, CountsSteps, GaugesSteps, PTL DEF MetricsSpec

-----------------------------------------------------------------------------
(* Side by side.                                                           *)

\* A step of Delivery is a step of one of its parts, or leaves them alone.
LEMMA PartsAreTheirs == PartsSpec => Spec /\ LoggerSpec /\ MetricsSpec
<1>1. PartsInit => Init /\ LoggerInit /\ MetricsInit
  BY DEF PartsInit
<1>2. ASSUME [PartsNext]_partVars
      PROVE  [Next]_requestVars /\ [LoggerNext]_loggerVars /\ [MetricsNext]_metricsVars
  <2>1. CASE PartsNext
    BY <2>1, Zenon DEF PartsNext, OfRequests, OfLogger, OfMetrics
  <2>2. CASE UNCHANGED partVars
    BY <2>2, Zenon DEF partVars
  <2> QED  BY <1>2, <2>1, <2>2
<1> QED  BY <1>1, <1>2, PTL DEF PartsSpec, Spec, LoggerSpec, MetricsSpec

\* Requests, logs and metrics keep side by side what each keeps alone.
THEOREM PartsAreKept ==
    PartsSpec => [](/\ SlotsAreFetches /\ AnsweredWasReceived
                    /\ LogsAccounted /\ CountsAccounted)
BY CounterIsExact, AnswersAreReal, LogsAreAccounted, CountsAreAccounted, PartsAreTheirs, PTL
=============================================================================
