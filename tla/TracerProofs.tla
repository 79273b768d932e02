----------------------------- MODULE TracerProofs -----------------------------
(***************************************************************************)
(* What the tracer sends besides traces, for any number of messages, spans *)
(* and checkpoints: telemetry loses and repeats nothing and is silent when *)
(* it is stopped; the span of a call reports the errors it was told of; a  *)
(* processor hears of a span in pairs; a trace keeps its identity across   *)
(* services; statistics count every unit once; and what an encoder sends   *)
(* reads back as the traces it was given.                                  *)
(***************************************************************************)
EXTENDS Tracer, Loops, FiniteSetTheorems, TLAPS

-----------------------------------------------------------------------------
(* Sets of numbered pieces.                                                *)

\* Pieces are as many with a number as without.
LEMMA Numbered ==
    ASSUME NEW S, IsFiniteSet(S), NEW t
    PROVE  IsFiniteSet({t} \X S) /\ Cardinality({t} \X S) = Cardinality(S)
<1> DEFINE T == {t} \X S
           f == [x \in S |-> <<t, x>>]
<1>1. f \in Injection(S, T) /\ f \in Surjection(S, T)
  <2>1. f \in [S -> T]
    OBVIOUS
  <2>2. \A a, b \in S : f[a] = f[b] => a = b
    OBVIOUS
  <2>3. \A y \in T : \E x \in S : f[x] = y
    OBVIOUS
  <2> HIDE DEF f, T
  <2>4. f \in Injection(S, T)
    BY <2>1, <2>2 DEF Injection, IsInjective
  <2>5. f \in Surjection(S, T)
    BY <2>1, <2>3, Zenon DEF Surjection
  <2> QED
    BY <2>4, <2>5
<1>2. ExistsBijection(S, T)
  BY <1>1 DEF ExistsBijection, Bijection
<1> HIDE DEF T, f
<1>3. IsFiniteSet(T) /\ Cardinality(T) = Cardinality(S)
  BY <1>2, FS_Bijection
<1> QED
  BY <1>3 DEF T

LEMMA DisjointUnion ==
    ASSUME NEW S, NEW T, IsFiniteSet(S), IsFiniteSet(T), S \cap T = {}
    PROVE  /\ IsFiniteSet(S \cup T)
           /\ Cardinality(S \cup T) = Cardinality(S) + Cardinality(T)
<1>1. Cardinality(S \cap T) = 0
  BY FS_EmptySet
<1>2. Cardinality(S) \in Nat /\ Cardinality(T) \in Nat
  BY FS_CardinalityType
<1>3. /\ IsFiniteSet(S \cup T)
      /\ Cardinality(S \cup T) = Cardinality(S) + Cardinality(T) - Cardinality(S \cap T)
  BY FS_Union
<1> QED
  BY <1>1, <1>2, <1>3

\* New pieces under a number that none had.
LEMMA PiecesAdded ==
    ASSUME NEW pieces, IsFiniteSet(pieces), NEW S, IsFiniteSet(S), NEW t,
           \A p \in pieces : p[1] # t
    PROVE  /\ IsFiniteSet(pieces \cup ({t} \X S))
           /\ Cardinality(pieces \cup ({t} \X S)) = Cardinality(pieces) + Cardinality(S)
<1> DEFINE T == {t} \X S
<1>1. pieces \cap T = {}
  OBVIOUS
<1>2. IsFiniteSet(T) /\ Cardinality(T) = Cardinality(S)
  BY Numbered
<1> HIDE DEF T
<1>3. /\ IsFiniteSet(pieces \cup T)
      /\ Cardinality(pieces \cup T) = Cardinality(pieces) + Cardinality(T)
  BY <1>1, <1>2, DisjointUnion
<1> QED
  BY <1>2, <1>3 DEF T

-----------------------------------------------------------------------------
(* Telemetry.                                                              *)

Closings == {i \in DOMAIN wire : wire[i].type = "app-closing"}

\* What is off while telemetry is stopped.
StoppedIsOff == ~running => ~listening /\ ~logging

\* An interval of the log module is the one of the config it has, or left by a
\* start that came while telemetry ran.
IntervalsBounded == intervals <= overlaps + One(logging) /\ (logging => intervals >= 1)

\* The inductive invariant: a start may still send one closing message while it
\* is listened to, and the logs are read only by a module that subscribed.
TelemetryInv ==
    /\ TelemetryAddsUp
    /\ wire \in Seq(Message)
    /\ IsFiniteSet(SentEntries) /\ IsFiniteSet(SentOmitted)
    /\ StoppedIsOff /\ IntervalsBounded
    /\ logging => subscribed
    /\ Cardinality(Closings) + One(listening) \leq starts

LEMMA TelemetryAtStart == Init => TelemetryInv
<1> SUFFICES ASSUME Init PROVE TelemetryInv
  OBVIOUS
<1>1. wire = <<>> /\ logs = {} /\ listed = {} /\ loaded = {}
  BY DEF Init
<1>2. SentEntries = {} /\ SentOmitted = {} /\ Closings = {}
  BY <1>1 DEF SentEntries, SentOmitted, Closings
<1>3. Cardinality({}) = 0 /\ IsFiniteSet({})
  BY FS_EmptySet
<1>4. TypeOK
  <2>1. Cardinality(logs) <= MaxEntries /\ starts \in 0..MaxStarts
    BY <1>1, <1>3, TelemetryAssumption DEF Init
  <2>2. \A i \in DOMAIN wire : wire[i] \in Message
    BY <1>1
  <2>3. /\ heartbeats \in Nat /\ overflowed \in Nat /\ added \in Nat /\ refused \in Nat
        /\ overlaps \in Nat /\ intervals \in Nat
    BY DEF Init
  <2>4. /\ running \in BOOLEAN /\ listening \in BOOLEAN
        /\ iast \in BOOLEAN /\ subscribed \in BOOLEAN /\ logging \in BOOLEAN
    BY Zenon DEF Init
  <2> QED
    BY <1>1, <2>1, <2>2, <2>3, <2>4, Zenon DEF TypeOK
<1>5. IntegrationsOnce
  BY <1>1 DEF IntegrationsOnce
<1>6. OneClosingPerStart
  BY <1>2, <1>3 DEF OneClosingPerStart, Closings, Init
<1>7. LogsAddUp
  BY <1>1, <1>2, <1>3 DEF LogsAddUp, Init
<1>8. Cardinality(Closings) + One(listening) \leq starts
  BY <1>2, <1>3 DEF Init, One
<1>9. HeartbeatsCounted /\ IntervalsBounded
  BY DEF Init, HeartbeatsCounted, IntervalsBounded, One
<1> QED
  BY <1>1, <1>2, <1>3, <1>4, <1>5, <1>6, <1>7, <1>8, <1>9
     DEF TelemetryInv, TelemetryAddsUp, StoppedIsOff, Init

\* A message at the end of the wire.
LEMMA MessageAppended ==
    ASSUME NEW w \in Seq(Message), NEW m \in Message, NEW more, more = Append(w, m)
    PROVE  /\ more \in Seq(Message)
           /\ DOMAIN w = 1 .. Len(w) /\ DOMAIN more = DOMAIN w \cup {Len(w) + 1}
           /\ Len(w) + 1 \notin DOMAIN w
           /\ more[Len(w) + 1] = m
           /\ \A i \in DOMAIN w : more[i] = w[i]
<1>1. Len(w) \in Nat /\ DOMAIN w = 1 .. Len(w)
  OBVIOUS
<1>2. more \in Seq(Message) /\ Len(more) = Len(w) + 1 /\ DOMAIN more = 1 .. Len(w) + 1
  OBVIOUS
<1> QED
  BY <1>1, <1>2

Types == {"app-started", "app-heartbeat", "app-integrations-change", "app-closing", "logs"}

LEMMA MessageSent ==
    ASSUME TelemetryInv, NEW type \in Types, NEW integrations \in SUBSET Plugins,
           NEW entries \in SUBSET Logs, NEW omitted \in Nat,
           Sent(type, integrations, entries, omitted)
    PROVE  /\ wire' \in Seq(Message)
           /\ \A i \in DOMAIN wire' : wire'[i] \in Message
           /\ UNION {wire'[i].integrations : i \in DOMAIN wire'} = listed \cup integrations
           /\ integrations \cap listed = {} =>
                \A i, j \in DOMAIN wire' :
                    i # j => wire'[i].integrations \cap wire'[j].integrations = {}
           /\ IsFiniteSet(SentEntries')
           /\ Cardinality(SentEntries') = Cardinality(SentEntries) + Cardinality(entries)
           /\ IsFiniteSet(SentOmitted')
           /\ Cardinality(SentOmitted') = Cardinality(SentOmitted) + omitted
           /\ Cardinality(Closings) \in Nat
           /\ Cardinality(Closings') = Cardinality(Closings) + One(type = "app-closing")
<1> DEFINE last == Len(wire) + 1
<1>1. PICK m : m = [type |-> type, integrations |-> integrations, entries |-> entries,
                    omitted |-> omitted]
  OBVIOUS
<1>2. m \in Message /\ m.type = type /\ m.integrations = integrations /\ m.entries = entries
      /\ m.omitted = omitted
  BY <1>1 DEF Message, Types
<1>3. wire \in Seq(Message) /\ wire' = Append(wire, m)
  BY <1>1 DEF TelemetryInv, Sent
<1>4. /\ wire' \in Seq(Message)
      /\ DOMAIN wire' = DOMAIN wire \cup {last} /\ last \notin DOMAIN wire
      /\ wire'[last] = m
      /\ \A i \in DOMAIN wire : wire'[i] = wire[i]
      /\ DOMAIN wire = 1 .. Len(wire)
  BY <1>2, <1>3, MessageAppended
<1>5. \A i \in DOMAIN wire' : wire'[i] \in Message
  BY <1>2, <1>3, <1>4
<1> HIDE DEF last
<1>6. UNION {wire'[i].integrations : i \in DOMAIN wire'} = listed \cup integrations
  <2>1. UNION {wire[i].integrations : i \in DOMAIN wire} = listed
    BY DEF TelemetryInv, TelemetryAddsUp, IntegrationsOnce
  <2>2. \A p : (\E i \in DOMAIN wire' : p \in wire'[i].integrations)
               <=> (\E i \in DOMAIN wire : p \in wire[i].integrations) \/ p \in integrations
    BY <1>2, <1>4
  <2> QED
    BY <2>1, <2>2
<1>7. ASSUME integrations \cap listed = {}, NEW i \in DOMAIN wire', NEW j \in DOMAIN wire', i # j
      PROVE  wire'[i].integrations \cap wire'[j].integrations = {}
  <2>1. \A k \in DOMAIN wire : wire[k].integrations \subseteq listed
    BY DEF TelemetryInv, TelemetryAddsUp, IntegrationsOnce
  <2>2. \A k, l \in DOMAIN wire : k # l => wire[k].integrations \cap wire[l].integrations = {}
    BY DEF TelemetryInv, TelemetryAddsUp, IntegrationsOnce
  <2>3. CASE i \in DOMAIN wire /\ j \in DOMAIN wire
    BY <1>4, <1>7, <2>2, <2>3
  <2>4. CASE i = last /\ j \in DOMAIN wire
    BY <1>2, <1>4, <1>7, <2>1, <2>4
  <2>5. CASE j = last /\ i \in DOMAIN wire
    BY <1>2, <1>4, <1>7, <2>1, <2>5
  <2> QED
    BY <1>4, <1>7, <2>3, <2>4, <2>5
<1>8. IsFiniteSet(SentEntries') /\ Cardinality(SentEntries') = Cardinality(SentEntries) + Cardinality(entries)
  <2>1. SentEntries' = SentEntries \cup ({last} \X entries)
    BY <1>2, <1>4 DEF SentEntries
  <2>2. \A p \in SentEntries : p[1] # last
    BY <1>4 DEF SentEntries
  <2>3. IsFiniteSet(SentEntries)
    BY DEF TelemetryInv
  <2>4. IsFiniteSet(entries)
    BY TelemetryAssumption, FS_Subset
  <2> QED
    BY <2>1, <2>2, <2>3, <2>4, PiecesAdded
<1>9. IsFiniteSet(SentOmitted') /\ Cardinality(SentOmitted') = Cardinality(SentOmitted) + omitted
  <2>1. SentOmitted' = SentOmitted \cup ({last} \X (1 .. omitted))
    BY <1>2, <1>4 DEF SentOmitted
  <2>2. \A p \in SentOmitted : p[1] # last
    BY <1>4 DEF SentOmitted
  <2>3. IsFiniteSet(SentOmitted)
    BY DEF TelemetryInv
  <2> DEFINE numbers == 1 .. omitted
  <2>4. IsFiniteSet(numbers) /\ Cardinality(numbers) = omitted
    BY FS_Interval
  <2>5. SentOmitted' = SentOmitted \cup ({last} \X numbers)
    BY <2>1
  <2> HIDE DEF numbers
  <2> QED
    BY <2>2, <2>3, <2>4, <2>5, PiecesAdded
<1>10. Cardinality(Closings) \in Nat /\ Cardinality(Closings') = Cardinality(Closings) + One(type = "app-closing")
  <2>1. IsFiniteSet(DOMAIN wire) /\ Closings \subseteq DOMAIN wire
    <3>1. Len(wire) \in Nat
      BY <1>3
    <3> QED
      BY <1>4, <3>1, FS_Interval DEF Closings
  <2>2. IsFiniteSet(Closings) /\ Cardinality(Closings) \in Nat
    BY <2>1, FS_Subset, FS_CardinalityType
  <2>3. CASE type = "app-closing"
    <3>1. Closings' = Closings \cup {last} /\ last \notin Closings
      BY <1>2, <1>4, <2>3 DEF Closings
    <3>2. Cardinality(Closings') = Cardinality(Closings) + 1
      BY <2>2, <3>1, FS_AddElement
    <3> QED
      BY <2>2, <2>3, <3>2 DEF One
  <2>4. CASE type # "app-closing"
    <3>1. Closings' = Closings
      BY <1>2, <1>4, <2>4 DEF Closings
    <3> QED
      BY <2>2, <2>4, <3>1 DEF One
  <2> QED
    BY <2>3, <2>4
<1> QED
  BY <1>4, <1>5, <1>6, <1>7, <1>8, <1>9, <1>10

\* What a step has to establish.
LEMMA Established ==
    ASSUME TypeOK', wire' \in Seq(Message), IntegrationsOnce', LogsAddUp',
           IsFiniteSet(SentEntries'), IsFiniteSet(SentOmitted'),
           StoppedIsOff', logging' => subscribed', HeartbeatsCounted', IntervalsBounded',
           Cardinality(Closings') \in Nat, Cardinality(Closings') + One(listening') \leq starts'
    PROVE  TelemetryInv'
<1>1. starts' \in Nat
  BY TelemetryAssumption DEF TypeOK
<1>2. One(listening') \in {0, 1}
  BY DEF One
<1>3. Cardinality(Closings') \leq starts'
  BY <1>1, <1>2
<1>4. OneClosingPerStart'
  BY <1>3 DEF OneClosingPerStart, Closings
<1> QED
  BY <1>4, Zenon DEF TelemetryInv, TelemetryAddsUp

LEMMA NothingSent ==
    ASSUME TelemetryInv, wire' = wire
    PROVE  /\ wire' \in Seq(Message)
           /\ \A i \in DOMAIN wire' : wire'[i] \in Message
           /\ IsFiniteSet(SentEntries') /\ IsFiniteSet(SentOmitted')
           /\ SentEntries' = SentEntries /\ SentOmitted' = SentOmitted
           /\ Closings' = Closings /\ Cardinality(Closings') \in Nat
           /\ listed' = listed => IntegrationsOnce'
<1>1. SentEntries' = SentEntries /\ SentOmitted' = SentOmitted /\ Closings' = Closings
  BY Zenon DEF SentEntries, SentOmitted, Closings
<1>2. wire \in Seq(Message) /\ IntegrationsOnce /\ IsFiniteSet(SentEntries) /\ IsFiniteSet(SentOmitted)
      /\ \A i \in DOMAIN wire : wire[i] \in Message
  BY DEF TelemetryInv, TelemetryAddsUp, TypeOK
<1>3. Closings \subseteq 1 .. Len(wire) /\ Len(wire) \in Nat
  BY <1>2 DEF Closings
<1>4. Cardinality(Closings) \in Nat
  <2>1. IsFiniteSet(1 .. Len(wire))
    BY <1>3, FS_Interval
  <2>2. IsFiniteSet(Closings)
    BY <1>3, <2>1, FS_Subset
  <2> QED
    BY <2>2, FS_CardinalityType
<1>5. listed' = listed => IntegrationsOnce'
  BY <1>2, Zenon DEF IntegrationsOnce
<1> QED
  BY <1>1, <1>2, <1>4, <1>5, Zenon

LEMMA CollectorTyped ==
    ASSUME TelemetryInv
    PROVE  /\ IsFiniteSet(logs) /\ Cardinality(logs) \in Nat
           /\ Cardinality(SentEntries) \in Nat /\ Cardinality(SentOmitted) \in Nat
           /\ added \in Nat /\ refused \in Nat /\ overflowed \in Nat /\ MaxEntries \in Nat
           /\ LogsAddUp
           /\ overlaps \in Nat /\ intervals \in Nat /\ heartbeats \in Nat
           /\ starts \in 0..MaxStarts /\ MaxStarts \in Nat /\ One(listening) \in {0, 1}
<1>1. logs \subseteq Logs /\ IsFiniteSet(Logs)
  BY TelemetryAssumption DEF TelemetryInv, TelemetryAddsUp, TypeOK
<1>2. IsFiniteSet(logs) /\ Cardinality(logs) \in Nat
  BY <1>1, FS_Subset, FS_CardinalityType
<1>3. Cardinality(SentEntries) \in Nat /\ Cardinality(SentOmitted) \in Nat
  BY FS_CardinalityType DEF TelemetryInv
<1>4. One(listening) \in {0, 1}
  BY DEF One
<1> QED
  BY <1>2, <1>3, <1>4, TelemetryAssumption DEF TelemetryInv, TelemetryAddsUp, TypeOK

\* A step that leaves the collector and what was sent of it alone.
LEMMA SumsKept ==
    ASSUME TelemetryInv,
           Cardinality(logs') = Cardinality(logs), overflowed' = overflowed,
           added' = added, refused' = refused,
           Cardinality(SentEntries') = Cardinality(SentEntries),
           Cardinality(SentOmitted') = Cardinality(SentOmitted),
           overlaps' = 0 => overlaps = 0
    PROVE  LogsAddUp'
BY CollectorTyped DEF LogsAddUp

LEMMA TelemetryStarts == ASSUME TelemetryInv, Start PROVE TelemetryInv'
<1>1. /\ starts < MaxStarts /\ starts' = starts + 1 /\ running' = TRUE
      /\ overlaps' = overlaps + (IF running THEN 1 ELSE 0)
      /\ Sent("app-started", loaded \ listed, {}, 0) /\ listed' = listed \cup loaded
      /\ heartbeats' = heartbeats + 1 /\ listening' = TRUE
      /\ UNCHANGED <<loaded, iast, subscribed, logs, overflowed, added, refused>>
  BY DEF Start, ListNew, logVars
<1>2. IF subscribed /\ LogCollection
      THEN logging' = TRUE /\ intervals' = intervals + 1
      ELSE UNCHANGED <<logging, intervals>>
  BY DEF Start, LogsHearStart
<1>3. TypeOK /\ HeartbeatsCounted /\ IntervalsBounded /\ StoppedIsOff /\ (logging => subscribed)
  BY DEF TelemetryInv, TelemetryAddsUp
<1>4. Cardinality({}) = 0
  BY FS_EmptySet
<1>5. loaded \ listed \in SUBSET Plugins /\ {} \in SUBSET Logs /\ 0 \in Nat /\ "app-started" \in Types
  BY <1>3 DEF TypeOK, Types
<1>6. /\ wire' \in Seq(Message)
      /\ \A i \in DOMAIN wire' : wire'[i] \in Message
      /\ UNION {wire'[i].integrations : i \in DOMAIN wire'} = listed \cup (loaded \ listed)
      /\ (loaded \ listed) \cap listed = {} =>
                \A i, j \in DOMAIN wire' :
                    i # j => wire'[i].integrations \cap wire'[j].integrations = {}
      /\ IsFiniteSet(SentEntries')
      /\ Cardinality(SentEntries') = Cardinality(SentEntries) + Cardinality({})
      /\ IsFiniteSet(SentOmitted')
      /\ Cardinality(SentOmitted') = Cardinality(SentOmitted) + 0
      /\ Cardinality(Closings) \in Nat
      /\ Cardinality(Closings') = Cardinality(Closings) + One("app-started" = "app-closing")
  BY <1>1, <1>5, MessageSent, Zenon
<1>7. One("app-started" = "app-closing") = 0 /\ One(TRUE) = 1 /\ One(FALSE) = 0
  BY DEF One
<1>8. TypeOK'
  <2>1. starts' \in 0..MaxStarts /\ heartbeats' \in Nat /\ overlaps' \in Nat
    BY <1>1, <1>3, TelemetryAssumption DEF TypeOK
  <2>2. logging' \in BOOLEAN
    BY <1>2, <1>3, Zenon DEF TypeOK
  <2>4. intervals' \in Nat
    BY <1>2, <1>3 DEF TypeOK
  <2>3. listed' \subseteq loaded'
    BY <1>1, <1>3 DEF TypeOK
  <2> QED
    BY <1>1, <1>3, <1>6, <2>1, <2>2, <2>3, <2>4, Zenon DEF TypeOK
<1>9. IntegrationsOnce'
  <2>1. listed \cup (loaded \ listed) = listed' /\ (loaded \ listed) \cap listed = {}
    BY <1>1, <1>3 DEF TypeOK
  <2> QED
    BY <1>6, <2>1, Zenon DEF IntegrationsOnce
<1>10. LogsAddUp'
  <2>1. overlaps' = 0 => overlaps = 0
    BY <1>1, CollectorTyped
  <2>2. /\ Cardinality(SentEntries') = Cardinality(SentEntries) + Cardinality({})
        /\ Cardinality(SentOmitted') = Cardinality(SentOmitted) + 0
    BY <1>6, Zenon
  <2>3. /\ Cardinality(SentEntries') = Cardinality(SentEntries)
        /\ Cardinality(SentOmitted') = Cardinality(SentOmitted)
    BY <1>4, <2>2, CollectorTyped
  <2> QED
    BY <1>1, <2>1, <2>3, SumsKept, Zenon
<1>11. logging' => subscribed'
  BY <1>1, <1>2, <1>3, Zenon
<1>12. Cardinality(Closings') + One(listening') \leq starts' /\ Cardinality(Closings') \in Nat
  <2>1. Cardinality(Closings) + One(listening) \leq starts
    BY DEF TelemetryInv
  <2>2. One(listening) \in {0, 1} /\ One(listening') = 1
    BY <1>1, <1>7 DEF One
  <2>3. /\ starts' = starts + 1 /\ Cardinality(Closings) \in Nat
        /\ Cardinality(Closings') = Cardinality(Closings) + 0
    BY <1>1, <1>6, <1>7, Zenon
  <2>4. starts \in Int
    BY CollectorTyped
  <2> QED
    BY <2>1, <2>2, <2>3, <2>4
<1>13. StoppedIsOff'
  BY <1>1, Zenon DEF StoppedIsOff
<1>14. HeartbeatsCounted'
  BY <1>1, <1>3, CollectorTyped DEF HeartbeatsCounted
<1>15. IntervalsBounded'
  BY <1>1, <1>2, <1>3, CollectorTyped DEF IntervalsBounded, StoppedIsOff, One
<1> QED
  BY <1>6, <1>8, <1>9, <1>10, <1>11, <1>12, <1>13, <1>14, <1>15, Established, Zenon

\* What the timers count, where no timer is set or cleared.
LEMMA TimersKept ==
    ASSUME TelemetryInv, UNCHANGED <<running, overlaps, heartbeats, intervals, logging>>
    PROVE  HeartbeatsCounted' /\ IntervalsBounded'
BY Zenon DEF TelemetryInv, TelemetryAddsUp, HeartbeatsCounted, IntervalsBounded

\* A message without integrations and entries.
LEMMA PlainMessage ==
    ASSUME TelemetryInv, NEW type \in Types, Sent(type, {}, {}, 0), listed' = listed
    PROVE  /\ wire' \in Seq(Message)
           /\ \A i \in DOMAIN wire' : wire'[i] \in Message
           /\ IntegrationsOnce'
           /\ IsFiniteSet(SentEntries') /\ IsFiniteSet(SentOmitted')
           /\ Cardinality(SentEntries') = Cardinality(SentEntries)
           /\ Cardinality(SentOmitted') = Cardinality(SentOmitted)
           /\ Cardinality(Closings) \in Nat /\ Cardinality(Closings') \in Nat
           /\ Cardinality(Closings') = Cardinality(Closings) + One(type = "app-closing")
<1>1. {} \in SUBSET Plugins /\ {} \in SUBSET Logs /\ 0 \in Nat
  OBVIOUS
<1>2. /\ wire' \in Seq(Message)
      /\ \A i \in DOMAIN wire' : wire'[i] \in Message
      /\ UNION {wire'[i].integrations : i \in DOMAIN wire'} = listed \cup {}
      /\ {} \cap listed = {} =>
                \A i, j \in DOMAIN wire' :
                    i # j => wire'[i].integrations \cap wire'[j].integrations = {}
      /\ IsFiniteSet(SentEntries')
      /\ Cardinality(SentEntries') = Cardinality(SentEntries) + Cardinality({})
      /\ IsFiniteSet(SentOmitted')
      /\ Cardinality(SentOmitted') = Cardinality(SentOmitted) + 0
      /\ Cardinality(Closings) \in Nat
      /\ Cardinality(Closings') = Cardinality(Closings) + One(type = "app-closing")
  BY <1>1, MessageSent, Zenon
<1>3. IntegrationsOnce'
  <2>1. listed \cup {} = listed' /\ {} \cap listed = {}
    OBVIOUS
  <2> QED
    BY <1>2, <2>1, Zenon DEF IntegrationsOnce
<1>4. Cardinality({}) = 0
  BY FS_EmptySet
<1>5. One(type = "app-closing") \in {0, 1}
  BY DEF One
<1> QED
  BY <1>2, <1>3, <1>4, <1>5, CollectorTyped

LEMMA HeartbeatSent == ASSUME TelemetryInv, Heartbeat PROVE TelemetryInv'
<1>1. /\ Sent("app-heartbeat", {}, {}, 0) /\ "app-heartbeat" \in Types
      /\ UNCHANGED <<starts, running, overlaps, heartbeats, listening, listed, loaded, iast, subscribed, logging, intervals>>
      /\ UNCHANGED <<logs, overflowed, added, refused>>
  BY DEF Heartbeat, coreVars, listenerVars, logVars, Types
<1>2. /\ wire' \in Seq(Message)
      /\ \A i \in DOMAIN wire' : wire'[i] \in Message
      /\ IntegrationsOnce'
      /\ IsFiniteSet(SentEntries') /\ IsFiniteSet(SentOmitted')
      /\ Cardinality(SentEntries') = Cardinality(SentEntries)
      /\ Cardinality(SentOmitted') = Cardinality(SentOmitted)
      /\ Cardinality(Closings) \in Nat /\ Cardinality(Closings') \in Nat
      /\ Cardinality(Closings') = Cardinality(Closings) + One("app-heartbeat" = "app-closing")
  BY <1>1, PlainMessage, Zenon
<1>3. One("app-heartbeat" = "app-closing") = 0
  BY DEF One
<1>4. TypeOK'
  BY <1>1, <1>2, Zenon DEF TelemetryInv, TelemetryAddsUp, TypeOK
<1>5. LogsAddUp'
  BY <1>1, <1>2, SumsKept, Zenon
<1>6. Cardinality(Closings') + One(listening') \leq starts'
  BY <1>1, <1>2, <1>3 DEF TelemetryInv
<1>7. StoppedIsOff' /\ (logging' => subscribed')
  BY <1>1, Zenon DEF TelemetryInv, StoppedIsOff
<1> QED
  BY <1>1, <1>2, <1>4, <1>5, <1>6, <1>7, TimersKept, Established, Zenon

LEMMA ClosingSent == ASSUME TelemetryInv, Unload PROVE TelemetryInv'
<1>1. /\ listening /\ listening' = FALSE
      /\ Sent("app-closing", {}, {}, 0) /\ "app-closing" \in Types
      /\ UNCHANGED <<starts, running, overlaps, heartbeats, listed, loaded, iast, subscribed, logging, intervals>>
      /\ UNCHANGED <<logs, overflowed, added, refused>>
  BY DEF Unload, Unlistened, listenerVars, logVars, Types
<1>2. /\ wire' \in Seq(Message)
      /\ \A i \in DOMAIN wire' : wire'[i] \in Message
      /\ IntegrationsOnce'
      /\ IsFiniteSet(SentEntries') /\ IsFiniteSet(SentOmitted')
      /\ Cardinality(SentEntries') = Cardinality(SentEntries)
      /\ Cardinality(SentOmitted') = Cardinality(SentOmitted)
      /\ Cardinality(Closings) \in Nat /\ Cardinality(Closings') \in Nat
      /\ Cardinality(Closings') = Cardinality(Closings) + One("app-closing" = "app-closing")
  BY <1>1, PlainMessage, Zenon
<1>3. One("app-closing" = "app-closing") = 1 /\ One(listening) = 1 /\ One(listening') = 0
  BY <1>1 DEF One
<1>4. TypeOK'
  BY <1>1, <1>2, Zenon DEF TelemetryInv, TelemetryAddsUp, TypeOK
<1>5. LogsAddUp'
  BY <1>1, <1>2, SumsKept, Zenon
<1>6. Cardinality(Closings') + One(listening') \leq starts'
  <2>1. Cardinality(Closings) + One(listening) \leq starts
    BY DEF TelemetryInv
  <2> QED
    <3>1. Cardinality(Closings') = Cardinality(Closings) + 1
      BY <1>2, <1>3, Zenon
    <3>2. Cardinality(Closings) + 1 \leq starts
      BY <1>3, <2>1, Zenon
    <3>3. One(listening') = 0 /\ starts' = starts /\ starts \in Int
      BY <1>1, <1>3, CollectorTyped
    <3> QED
      BY <1>2, <3>1, <3>2, <3>3
<1>7. StoppedIsOff' /\ (logging' => subscribed')
  BY <1>1, Zenon DEF TelemetryInv, StoppedIsOff
<1> QED
  BY <1>1, <1>2, <1>4, <1>5, <1>6, <1>7, TimersKept, Established, Zenon

LEMMA IntegrationsSent == ASSUME TelemetryInv, UpdateIntegrations PROVE TelemetryInv'
<1>1. /\ Sent("app-integrations-change", loaded \ listed, {}, 0) /\ listed' = listed \cup loaded
      /\ UNCHANGED <<starts, running, overlaps, heartbeats, listening, loaded, iast, subscribed, logging, intervals>>
      /\ UNCHANGED <<logs, overflowed, added, refused>>
  BY DEF UpdateIntegrations, ListNew, listenerVars, logVars
<1>2. TypeOK
  BY DEF TelemetryInv, TelemetryAddsUp
<1>3. loaded \ listed \in SUBSET Plugins /\ {} \in SUBSET Logs /\ 0 \in Nat
      /\ "app-integrations-change" \in Types
  BY <1>2 DEF TypeOK, Types
<1>4. /\ wire' \in Seq(Message)
      /\ \A i \in DOMAIN wire' : wire'[i] \in Message
      /\ UNION {wire'[i].integrations : i \in DOMAIN wire'} = listed \cup (loaded \ listed)
      /\ (loaded \ listed) \cap listed = {} =>
                \A i, j \in DOMAIN wire' :
                    i # j => wire'[i].integrations \cap wire'[j].integrations = {}
      /\ IsFiniteSet(SentEntries')
      /\ Cardinality(SentEntries') = Cardinality(SentEntries) + Cardinality({})
      /\ IsFiniteSet(SentOmitted')
      /\ Cardinality(SentOmitted') = Cardinality(SentOmitted) + 0
      /\ Cardinality(Closings) \in Nat
      /\ Cardinality(Closings') = Cardinality(Closings) + One("app-integrations-change" = "app-closing")
  BY <1>1, <1>3, MessageSent, Zenon
<1>5. One("app-integrations-change" = "app-closing") = 0
  BY DEF One
<1>6. Cardinality({}) = 0
  BY FS_EmptySet
<1>7. TypeOK'
  <2>1. listed' \subseteq loaded'
    BY <1>1, <1>2 DEF TypeOK
  <2> QED
    BY <1>1, <1>2, <1>4, <2>1, Zenon DEF TypeOK
<1>8. IntegrationsOnce'
  <2>1. listed \cup (loaded \ listed) = listed' /\ (loaded \ listed) \cap listed = {}
    BY <1>1, <1>2 DEF TypeOK
  <2> QED
    BY <1>4, <2>1, Zenon DEF IntegrationsOnce
<1>9. LogsAddUp'
  <2>1. /\ Cardinality(SentEntries') = Cardinality(SentEntries) + Cardinality({})
        /\ Cardinality(SentOmitted') = Cardinality(SentOmitted) + 0
    BY <1>4, Zenon
  <2>2. /\ Cardinality(SentEntries') = Cardinality(SentEntries)
        /\ Cardinality(SentOmitted') = Cardinality(SentOmitted)
    BY <1>6, <2>1, CollectorTyped
  <2> QED
    BY <1>1, <2>2, SumsKept, Zenon
<1>10. Cardinality(Closings') + One(listening') \leq starts' /\ Cardinality(Closings') \in Nat
  BY <1>1, <1>4, <1>5 DEF TelemetryInv
<1>11. StoppedIsOff' /\ (logging' => subscribed')
  BY <1>1, Zenon DEF TelemetryInv, StoppedIsOff
<1> QED
  BY <1>1, <1>4, <1>7, <1>8, <1>9, <1>10, <1>11, TimersKept, Established, Zenon

LEMMA LogsSent == ASSUME TelemetryInv, SendLogs, logging PROVE TelemetryInv'
<1>1. /\ Sent("logs", {}, logs, overflowed) /\ logs' = {} /\ overflowed' = 0 /\ "logs" \in Types
      /\ UNCHANGED <<starts, running, overlaps, heartbeats, listening, listed, loaded, iast, subscribed, logging, intervals>>
      /\ UNCHANGED <<added, refused>>
  BY DEF SendLogs, Emptied, coreVars, listenerVars, Types
<1>2. TypeOK /\ overflowed \in Nat
  BY DEF TelemetryInv, TelemetryAddsUp, TypeOK
<1>3. {} \in SUBSET Plugins /\ logs \in SUBSET Logs
  BY <1>2 DEF TypeOK
<1>4. /\ wire' \in Seq(Message)
      /\ \A i \in DOMAIN wire' : wire'[i] \in Message
      /\ UNION {wire'[i].integrations : i \in DOMAIN wire'} = listed \cup {}
      /\ {} \cap listed = {} =>
                \A i, j \in DOMAIN wire' :
                    i # j => wire'[i].integrations \cap wire'[j].integrations = {}
      /\ IsFiniteSet(SentEntries')
      /\ Cardinality(SentEntries') = Cardinality(SentEntries) + Cardinality(logs)
      /\ IsFiniteSet(SentOmitted')
      /\ Cardinality(SentOmitted') = Cardinality(SentOmitted) + overflowed
      /\ Cardinality(Closings) \in Nat
      /\ Cardinality(Closings') = Cardinality(Closings) + One("logs" = "app-closing")
  BY <1>1, <1>2, <1>3, MessageSent, Zenon
<1>5. One("logs" = "app-closing") = 0
  BY DEF One
<1>6. Cardinality(logs') = 0
  BY <1>1, FS_EmptySet
<1>7. TypeOK'
  <2>1. Cardinality(logs') <= MaxEntries /\ overflowed' \in Nat /\ logs' \subseteq Logs
    BY <1>1, <1>6, TelemetryAssumption
  <2> QED
    BY <1>1, <1>2, <1>4, <2>1, Zenon DEF TypeOK
<1>8. IntegrationsOnce'
  <2>1. listed \cup {} = listed' /\ {} \cap listed = {}
    BY <1>1
  <2> QED
    BY <1>4, <2>1, Zenon DEF IntegrationsOnce
<1>9. LogsAddUp'
  <2>1. /\ Cardinality(SentEntries') = Cardinality(SentEntries) + Cardinality(logs)
        /\ Cardinality(SentOmitted') = Cardinality(SentOmitted) + overflowed
    BY <1>4, Zenon
  <2>2. overflowed' = 0 /\ UNCHANGED <<overlaps, added, refused>>
    BY <1>1
  <2> QED
    BY <1>6, <2>1, <2>2, CollectorTyped DEF LogsAddUp
<1>10. Cardinality(Closings') + One(listening') \leq starts' /\ Cardinality(Closings') \in Nat
  BY <1>1, <1>4, <1>5 DEF TelemetryInv
<1>11. StoppedIsOff' /\ (logging' => subscribed')
  BY <1>1, Zenon DEF TelemetryInv, StoppedIsOff
<1> QED
  BY <1>1, <1>4, <1>7, <1>8, <1>9, <1>10, <1>11, TimersKept, Established, Zenon

LEMMA TelemetryStops == ASSUME TelemetryInv, Stop PROVE TelemetryInv'
<1>1. /\ running /\ running' = FALSE /\ heartbeats' = heartbeats - 1 /\ listening' = FALSE
      /\ UNCHANGED <<starts, overlaps, listed, loaded, wire, iast>>
      /\ UNCHANGED <<logs, overflowed, added, refused>>
  BY Zenon DEF Stop, Cleared, Unlistened, logVars
<1>2. /\ wire' \in Seq(Message)
      /\ \A i \in DOMAIN wire' : wire'[i] \in Message
      /\ IsFiniteSet(SentEntries') /\ IsFiniteSet(SentOmitted')
      /\ SentEntries' = SentEntries /\ SentOmitted' = SentOmitted
      /\ Closings' = Closings /\ Cardinality(Closings') \in Nat
      /\ listed' = listed => IntegrationsOnce'
  BY <1>1, NothingSent, Zenon
<1>3. HeartbeatsCounted' /\ heartbeats' \in Nat
  <2>1. HeartbeatsCounted
    BY DEF TelemetryInv, TelemetryAddsUp
  <2> QED
    BY <1>1, <2>1, CollectorTyped DEF HeartbeatsCounted
<1>4. /\ logging' = FALSE /\ subscribed' \in BOOLEAN
      /\ IntervalsBounded' /\ intervals' \in Nat
  <2>1. IntervalsBounded /\ (logging => subscribed) /\ logging \in BOOLEAN /\ subscribed \in BOOLEAN
    BY DEF TelemetryInv, TelemetryAddsUp, TypeOK
  <2>2. CASE logging
    <3>1. logging' = FALSE /\ subscribed' = FALSE /\ intervals' = intervals - 1
      BY <2>1, <2>2, Zenon DEF Stop, LogsHearStop
    <3>2. intervals \in Nat /\ overlaps \in Nat /\ overlaps' = overlaps /\ intervals \leq overlaps + 1
      BY <1>1, <2>1, <2>2, CollectorTyped DEF IntervalsBounded, One
    <3>3. intervals > 0
      BY <2>1, <2>2, CollectorTyped DEF IntervalsBounded
    <3>4. One(logging') = 0 /\ ~logging'
      BY <3>1 DEF One
    <3>5. intervals' \leq overlaps' + 0 /\ intervals' \in Nat
      BY <3>1, <3>2, <3>3
    <3> QED
      BY <3>1, <3>4, <3>5 DEF IntervalsBounded
  <2>3. CASE ~logging
    <3>1. UNCHANGED <<logging, subscribed, intervals>>
      BY <2>3, Zenon DEF Stop, LogsHearStop
    <3> QED
      BY <1>1, <2>1, <2>3, <3>1, CollectorTyped DEF IntervalsBounded, One
  <2> QED
    BY <2>2, <2>3
<1>5. TypeOK'
  BY <1>1, <1>2, <1>3, <1>4, Zenon DEF TelemetryInv, TelemetryAddsUp, TypeOK
<1>6. LogsAddUp'
  BY <1>1, <1>2, CollectorTyped DEF LogsAddUp
<1>7. Cardinality(Closings') + One(listening') \leq starts'
  <2>1. Cardinality(Closings) + One(listening) \leq starts /\ One(listening') = 0
    BY <1>1 DEF TelemetryInv, One
  <2> QED
    BY <1>1, <1>2, <2>1, CollectorTyped
<1>8. StoppedIsOff' /\ (logging' => subscribed')
  BY <1>1, <1>4, Zenon DEF StoppedIsOff
<1> QED
  BY <1>1, <1>2, <1>3, <1>4, <1>5, <1>6, <1>7, <1>8, Established, Zenon

\* The steps that send nothing and leave telemetry running or not.
LEMMA QuietStep ==
    ASSUME TelemetryInv, UNCHANGED <<starts, running, overlaps, heartbeats, listening, listed, wire, logging, intervals>>,
           TypeOK', LogsAddUp', subscribed => subscribed'
    PROVE  TelemetryInv'
<1>1. /\ wire' \in Seq(Message)
      /\ \A i \in DOMAIN wire' : wire'[i] \in Message
      /\ IsFiniteSet(SentEntries') /\ IsFiniteSet(SentOmitted')
      /\ SentEntries' = SentEntries /\ SentOmitted' = SentOmitted
      /\ Closings' = Closings /\ Cardinality(Closings') \in Nat
      /\ listed' = listed => IntegrationsOnce'
  BY NothingSent, Zenon
<1>2. Cardinality(Closings') + One(listening') \leq starts'
  BY <1>1 DEF TelemetryInv
<1>3. StoppedIsOff' /\ (logging' => subscribed')
  BY Zenon DEF TelemetryInv, StoppedIsOff
<1> QED
  BY <1>1, <1>2, <1>3, TimersKept, Established, Zenon

\* A leftover interval has no config to send with: what it drained is lost.
LEMMA LogsLost == ASSUME TelemetryInv, SendLogs, ~logging PROVE TelemetryInv'
<1>1. /\ UNCHANGED wire /\ logs' = {} /\ overflowed' = 0 /\ intervals > 0
      /\ UNCHANGED <<starts, running, overlaps, heartbeats, listening, listed, loaded, iast, subscribed, logging, intervals>>
      /\ UNCHANGED <<added, refused>>
  BY DEF SendLogs, Emptied, coreVars, listenerVars
<1>2. Cardinality(logs') = 0
  BY <1>1, FS_EmptySet
<1>3. TypeOK'
  <2>1. Cardinality(logs') <= MaxEntries /\ overflowed' \in Nat /\ logs' \subseteq Logs
    BY <1>1, <1>2, TelemetryAssumption
  <2> QED
    BY <1>1, <2>1, Zenon DEF TelemetryInv, TelemetryAddsUp, TypeOK
<1>4. overlaps # 0
  BY <1>1, CollectorTyped DEF TelemetryInv, IntervalsBounded, One
<1>5. SentEntries' = SentEntries /\ SentOmitted' = SentOmitted
  BY <1>1, NothingSent, Zenon
<1>6. LogsAddUp'
  BY <1>1, <1>2, <1>4, <1>5, CollectorTyped DEF LogsAddUp
<1> QED
  BY <1>1, <1>3, <1>6, QuietStep, Zenon

LEMMA LogsUnchanged ==
    ASSUME TelemetryInv, UNCHANGED <<wire, overlaps, logs, overflowed, added, refused>>
    PROVE  LogsAddUp'
BY Zenon DEF TelemetryInv, TelemetryAddsUp, LogsAddUp, SentEntries, SentOmitted

LEMMA PluginLoaded == ASSUME TelemetryInv, NEW p \in Plugins, LoadPlugin(p) PROVE TelemetryInv'
<1>1. /\ loaded' = loaded \cup {p}
      /\ UNCHANGED <<starts, running, overlaps, heartbeats, listening, listed, wire, iast, subscribed, logging, intervals>>
      /\ UNCHANGED <<logs, overflowed, added, refused>>
  BY DEF LoadPlugin, coreVars, listenerVars, logVars
<1>2. loaded' \subseteq Plugins /\ listed' \subseteq loaded'
  BY <1>1 DEF TelemetryInv, TelemetryAddsUp, TypeOK
<1>3. TypeOK'
  BY <1>1, <1>2, Zenon DEF TelemetryInv, TelemetryAddsUp, TypeOK
<1> QED
  BY <1>1, <1>3, LogsUnchanged, QuietStep, Zenon

LEMMA IastEnabled == ASSUME TelemetryInv, EnableIast PROVE TelemetryInv'
<1>1. /\ iast' = TRUE /\ subscribed' = TRUE
      /\ UNCHANGED <<starts, running, overlaps, heartbeats, listening, listed, loaded, wire, logging, intervals>>
      /\ UNCHANGED <<logs, overflowed, added, refused>>
  BY DEF EnableIast, coreVars, logVars
<1>2. TypeOK'
  BY <1>1, Zenon DEF TelemetryInv, TelemetryAddsUp, TypeOK
<1> QED
  BY <1>1, <1>2, LogsUnchanged, QuietStep, Zenon

LEMMA LogPublished == ASSUME TelemetryInv, NEW l \in Logs, Publish(l) PROVE TelemetryInv'
<1>1. UNCHANGED <<starts, running, overlaps, heartbeats, listening, listed, loaded, wire, iast, subscribed, logging, intervals>>
  BY DEF Publish, coreVars, listenerVars
<1>2. SentEntries' = SentEntries /\ SentOmitted' = SentOmitted
  BY <1>1, NothingSent, Zenon
<1>3. CASE /\ overflowed' = overflowed + 1 /\ refused' = refused + 1
           /\ UNCHANGED <<logs, added>>
  <2>1. LogsAddUp'
    BY <1>1, <1>2, <1>3, CollectorTyped DEF LogsAddUp
  <2>2. overflowed' \in Nat /\ refused' \in Nat
    BY <1>3, CollectorTyped
  <2>3. TypeOK'
    BY <1>1, <1>3, <2>2, Zenon DEF TelemetryInv, TelemetryAddsUp, TypeOK
  <2> QED
    BY <1>1, <2>1, <2>3, QuietStep, Zenon
<1>4. CASE /\ ~(Cardinality(logs) >= MaxEntries) /\ l \notin logs
           /\ logs' = logs \cup {l} /\ added' = added + 1
           /\ UNCHANGED <<overflowed, refused>>
  <2>1. IsFiniteSet(logs)
    BY CollectorTyped, Zenon
  <2>2. Cardinality(logs') = Cardinality(logs) + 1
    BY <1>4, <2>1, FS_AddElement
  <2>3. LogsAddUp'
    BY <1>1, <1>2, <1>4, <2>2, CollectorTyped DEF LogsAddUp
  <2>4. added' \in Nat /\ Cardinality(logs') <= MaxEntries
    BY <1>4, <2>2, CollectorTyped
  <2>5. logs' \subseteq Logs
    BY <1>4 DEF TelemetryInv, TelemetryAddsUp, TypeOK
  <2>6. TypeOK'
    BY <1>1, <1>4, <2>4, <2>5, Zenon DEF TelemetryInv, TelemetryAddsUp, TypeOK
  <2> QED
    BY <1>1, <2>3, <2>6, QuietStep, Zenon
<1> QED
  BY <1>3, <1>4, Zenon DEF Publish

LEMMA TelemetrySteps == TelemetryInv /\ [Next]_vars => TelemetryInv'
<1> SUFFICES ASSUME TelemetryInv, [Next]_vars PROVE TelemetryInv'
  OBVIOUS
<1>1. CASE Start
  BY <1>1, TelemetryStarts
<1>2. CASE Stop
  BY <1>2, TelemetryStops
<1>3. CASE Heartbeat
  BY <1>3, HeartbeatSent
<1>4. CASE Unload
  BY <1>4, ClosingSent
<1>5. CASE \E p \in Plugins : LoadPlugin(p)
  BY <1>5, PluginLoaded
<1>6. CASE UpdateIntegrations
  BY <1>6, IntegrationsSent
<1>7. CASE EnableIast
  BY <1>7, IastEnabled
<1>8. CASE \E l \in Logs : Publish(l)
  BY <1>8, LogPublished
<1>9. CASE SendLogs
  BY <1>9, LogsSent, LogsLost
<1>10. CASE UNCHANGED vars
  <2>1. /\ UNCHANGED <<starts, running, overlaps, heartbeats, listening, listed, loaded, wire, iast, subscribed, logging, intervals>>
        /\ UNCHANGED <<logs, overflowed, added, refused>>
    BY <1>10 DEF vars, coreVars, listenerVars, logVars
  <2>2. TypeOK'
    BY <2>1, Zenon DEF TelemetryInv, TelemetryAddsUp, TypeOK
  <2> QED
    BY <2>1, <2>2, LogsUnchanged, QuietStep, Zenon
<1> QED
  BY <1>1, <1>2, <1>3, <1>4, <1>5, <1>6, <1>7, <1>8, <1>9, <1>10, Zenon DEF Next

\* For any plugins, logs and numbers of starts: one announcement of each
\* integration, one closing message per start, and no log or refusal lost or
\* counted twice (telemetry/index.ts, telemetry/logs).
THEOREM TelemetryIsAddedUp == Spec => []TelemetryAddsUp
<1>1. TelemetryInv => TelemetryAddsUp
  BY DEF TelemetryInv
<1> QED
  BY <1>1, TelemetryAtStart, TelemetrySteps, PTL DEF Spec

\* What sends is on only while telemetry runs, except a heartbeat that a start
\* while it ran has left.
LEMMA StoppedSendsNothing ==
    ASSUME TelemetryInv, [Next]_vars, ~running'
    PROVE  wire' = wire \/ (overlaps > 0 /\ Sent("app-heartbeat", {}, {}, 0))
<1>1. StoppedIsOff /\ HeartbeatsCounted
  BY DEF TelemetryInv, TelemetryAddsUp
<1>2. CASE UNCHANGED vars
  BY <1>2 DEF vars
<1>3. CASE Stop
  BY <1>3 DEF Stop
<1>4. CASE Heartbeat
  <2>1. ~running /\ heartbeats > 0
    BY <1>4, Zenon DEF Heartbeat, coreVars
  <2>2. overlaps > 0
    BY <1>1, <2>1, CollectorTyped DEF HeartbeatsCounted
  <2> QED
    BY <1>4, <2>2 DEF Heartbeat
<1>5. CASE Next /\ ~Stop /\ ~Heartbeat
  <2>1. ~Start
    BY DEF Start
  <2>2. ~Unload /\ ~UpdateIntegrations
    <3>1. Unload => ~running /\ listening
      BY DEF Unload
    <3>2. ~UpdateIntegrations
      BY DEF UpdateIntegrations
    <3> QED
      BY <1>1, <3>1, <3>2 DEF StoppedIsOff
  <2>3. SendLogs => wire' = wire
    <3>1. ASSUME SendLogs PROVE ~running
      BY <3>1 DEF SendLogs, coreVars
    <3>2. ASSUME SendLogs PROVE logging \/ wire' = wire
      BY <3>2 DEF SendLogs
    <3> QED
      BY <1>1, <3>1, <3>2 DEF StoppedIsOff
  <2>4. \A p \in Plugins : LoadPlugin(p) => wire' = wire
    BY DEF LoadPlugin
  <2>5. EnableIast => wire' = wire
    BY DEF EnableIast
  <2>6. \A l \in Logs : Publish(l) => wire' = wire
    BY DEF Publish
  <2> QED
    BY <1>5, <2>1, <2>2, <2>3, <2>4, <2>5, <2>6, Zenon DEF Next
<1> QED
  BY <1>2, <1>3, <1>4, <1>5

\* A stop sends nothing, and nothing is sent until the next start: no closing
\* message or log of an interval that stop has forgotten, and no heartbeat but
\* one that a start while telemetry ran has left beating (telemetry/index.ts).
THEOREM StoppedTelemetryIsSilent == Spec => SilentWhenStopped
<1>1. TelemetryInv /\ [Next]_vars =>
        [~running' => wire' = wire \/ (overlaps > 0 /\ Sent("app-heartbeat", {}, {}, 0))]_vars
  BY StoppedSendsNothing
<1> QED
  BY <1>1, TelemetryAtStart, TelemetrySteps, PTL DEF Spec, SilentWhenStopped

-----------------------------------------------------------------------------
(* Traced calls: what format.ts makes of tags.                             *)

\* Strings, those the code itself writes besides.
Texts ==
    STRING \cup {"", "0", "1", "svc", "other", "typescript", "[object Object]", "service.name",
                "_dd.measured", "http.status_code", "language", "error", "error.message"}
Scalars == [type : ScalarTypes, of : Texts]
Properties == [key : Texts, value : Scalars]
Objects == [type : {"object"}, of : Seq(Properties)]
Tags == [key : Texts, value : Scalars \cup Objects]

TextMaps == UNION {[D -> Texts] : D \in SUBSET Texts}
Formats == [service : Texts, error : {0, 1}, meta : TextMaps, metrics : TextMaps]

\* The message of a formatted span, if it has one.
MessageOf(r) == {r.meta[key] : key \in DOMAIN r.meta \cap {"error.message"}}

\* What a tag that is not about errors leaves.
SameError(s, r) == s.error = r.error /\ MessageOf(s) = MessageOf(r)

LEMMA TextsAre ==
    /\ STRING \subseteq Texts
    /\ "" \in Texts /\ "0" \in Texts /\ "1" \in Texts /\ "svc" \in Texts /\ "other" \in Texts
    /\ "typescript" \in Texts /\ "[object Object]" \in Texts /\ "service.name" \in Texts
    /\ "_dd.measured" \in Texts /\ "http.status_code" \in Texts /\ "language" \in Texts
    /\ "error" \in Texts /\ "error.message" \in Texts
<1>1. STRING \subseteq Texts
  BY DEF Texts
<1> QED  BY <1>1 DEF Texts

LEMMA EntryIs ==
    ASSUME NEW f \in TextMaps, NEW key \in Texts, NEW text \in Texts
    PROVE  /\ WithEntry(f, key, text) \in TextMaps
           /\ DOMAIN WithEntry(f, key, text) = DOMAIN f \cup {key}
           /\ WithEntry(f, key, text)[key] = text
           /\ \A x \in DOMAIN f : x # key => WithEntry(f, key, text)[x] = f[x]
<1>1. DOMAIN f \subseteq Texts /\ \A x \in DOMAIN f : f[x] \in Texts
  BY DEF TextMaps
<1>2. DOMAIN f \cup {key} \in SUBSET Texts
  BY <1>1
<1>3. WithEntry(f, key, text) \in [DOMAIN f \cup {key} -> Texts]
  BY <1>1 DEF WithEntry
<1>4. WithEntry(f, key, text) \in TextMaps
  BY <1>2, <1>3 DEF TextMaps
<1> QED  BY <1>4 DEF WithEntry

\* Entries of meta and metrics.
LEMMA MetaIs ==
    ASSUME NEW r \in Formats, NEW key \in Texts, NEW text \in Texts
    PROVE  LET s == [r EXCEPT !.meta = WithEntry(@, key, text)]
           IN  /\ s \in Formats /\ s.error = r.error
               /\ key # "error.message" => SameError(s, r)
               /\ key = "error.message" => MessageOf(s) = {text}
<1> DEFINE m == WithEntry(r.meta, key, text)
           s == [r EXCEPT !.meta = m]
<1>1. /\ m \in TextMaps /\ DOMAIN m = DOMAIN r.meta \cup {key} /\ m[key] = text
      /\ \A x \in DOMAIN r.meta : x # key => m[x] = r.meta[x]
  BY EntryIs DEF Formats
<1> HIDE DEF m
<1>2. s \in Formats /\ s.meta = m /\ s.error = r.error
  BY <1>1 DEF Formats
<1> HIDE DEF s
<1>3. key # "error.message" => MessageOf(s) = MessageOf(r)
  BY <1>1, <1>2 DEF MessageOf
<1>4. key = "error.message" => MessageOf(s) = {text}
  BY <1>1, <1>2 DEF MessageOf
<1> QED  BY <1>2, <1>3, <1>4 DEF SameError, s, m

LEMMA MetricIs ==
    ASSUME NEW r \in Formats, NEW key \in Texts, NEW text \in Texts
    PROVE  LET s == [r EXCEPT !.metrics = WithEntry(@, key, text)]
           IN  s \in Formats /\ SameError(s, r)
<1> DEFINE m == WithEntry(r.metrics, key, text)
           s == [r EXCEPT !.metrics = m]
<1>1. m \in TextMaps
  BY EntryIs DEF Formats
<1> HIDE DEF m
<1>2. s \in Formats /\ s.meta = r.meta /\ s.error = r.error
  BY <1>1 DEF Formats
<1> HIDE DEF s
<1>3. SameError(s, r)
  BY <1>2 DEF SameError, MessageOf
<1> QED  BY <1>2, <1>3 DEF s, m

LEMMA ScalarIsAdded ==
    ASSUME NEW r \in Formats, NEW key \in Texts, NEW v \in Scalars
    PROVE  /\ AddScalar(r, key, v) \in Formats
           /\ AddScalar(r, key, v).error = r.error
           /\ key # "error.message" => SameError(AddScalar(r, key, v), r)
           /\ key = "error.message" /\ v.type = "string" /\ v.of # "" =>
                 MessageOf(AddScalar(r, key, v)) = {v.of}
<1> DEFINE s == AddScalar(r, key, v)
           digit == IF v.of = "true" THEN "1" ELSE "0"
<1>1. v.of \in Texts /\ digit \in Texts
  BY TextsAre DEF Scalars
<1>2. SameError(r, r)
  BY DEF SameError
<1>3. CASE v.type = "string" /\ v.of # ""
  <2> DEFINE m == [r EXCEPT !.meta = WithEntry(@, key, v.of)]
  <2>1. s = m
    BY <1>3, Zenon DEF AddScalar
  <2>2. /\ m \in Formats /\ m.error = r.error
        /\ key # "error.message" => SameError(m, r)
        /\ key = "error.message" => MessageOf(m) = {v.of}
    BY <1>1, MetaIs
  <2> HIDE DEF m
  <2> QED  BY <1>3, <2>1, <2>2
<1> HIDE DEF digit
<1>4. CASE v.type # "string" \/ v.of = ""
  <2>1. s = r \/ \E text \in Texts : s = [r EXCEPT !.metrics = WithEntry(@, key, text)]
    <3>1. CASE v.type = "number" /\ v.of # "NaN"
      BY <1>1, <3>1, Zenon DEF AddScalar
    <3>2. CASE v.type = "boolean"
      BY <1>1, <3>2, Zenon DEF AddScalar, digit
    <3>3. CASE v.type \in {"url", "buffer"}
      BY <1>1, <3>3 DEF AddScalar
    <3>4. CASE ~(v.type = "number" /\ v.of # "NaN") /\ v.type # "boolean" /\ v.type \notin {"url", "buffer"}
      BY <1>4, <3>4, Zenon DEF AddScalar
    <3> QED  BY <3>1, <3>2, <3>3, <3>4
  <2> HIDE DEF s
  <2>2. s \in Formats /\ SameError(s, r)
    BY <1>2, <2>1, MetricIs
  <2> QED  BY <1>4, <2>2 DEF SameError, s
<1> QED  BY <1>3, <1>4

LEMMA TagIsAdded ==
    ASSUME NEW r \in Formats, NEW key \in Texts, NEW v \in Scalars \cup Objects
    PROVE  /\ AddTag(r, key, v) \in Formats
           /\ AddTag(r, key, v).error = r.error
           /\ /\ key # "error.message"
              /\ v.type = "object" => \A k \in DOMAIN v.of : v.of[k].key # "error.message"
              => SameError(AddTag(r, key, v), r)
           /\ key = "error.message" /\ v.type = "string" /\ v.of # "" =>
                 MessageOf(AddTag(r, key, v)) = {v.of}
<1>1. CASE v.type # "object"
  <2>1. v \in Scalars
    BY <1>1 DEF Objects
  <2>2. AddTag(r, key, v) = AddScalar(r, key, v)
    BY <1>1, Zenon DEF AddTag
  <2> QED  BY <1>1, <2>1, <2>2, ScalarIsAdded
<1>2. CASE v.type = "object"
  <2> DEFINE n == Len(v.of)
             step == [k \in 1 .. n |-> [s \in Formats |-> AddScalar(s, v.of[k].key, v.of[k].value)]]
             Loop(g) == [k \in 0 .. n |-> IF k = 0 THEN r
                                         ELSE AddScalar(g[k - 1], v.of[k].key, v.of[k].value)]
             adding == CHOOSE g : g = Loop(g)
             quiet == \A k \in DOMAIN v.of : v.of[k].key # "error.message"
  <2>1. v \in Objects
    BY <1>2 DEF Scalars, ScalarTypes
  <2>2. /\ n \in Nat /\ DOMAIN v.of = 1 .. n
        /\ \A k \in 1 .. n : v.of[k].key \in Texts /\ v.of[k].value \in Scalars
    <3>1. v.of \in Seq(Properties)
      BY <2>1 DEF Objects
    <3>2. n \in Nat /\ DOMAIN v.of = 1 .. n /\ \A k \in 1 .. n : v.of[k] \in Properties
      BY <3>1
    <3> HIDE DEF n
    <3> QED  BY <3>2 DEF Properties
  <2> HIDE DEF n
  <2>3. ASSUME NEW s \in Formats, NEW k \in 1 .. n
        PROVE  /\ AddScalar(s, v.of[k].key, v.of[k].value) \in Formats
               /\ AddScalar(s, v.of[k].key, v.of[k].value).error = s.error
               /\ v.of[k].key # "error.message" =>
                     SameError(AddScalar(s, v.of[k].key, v.of[k].value), s)
    BY <2>2, ScalarIsAdded
  <2>4. step \in [1 .. n -> [Formats -> Formats]]
    BY <2>3
  <2> HIDE DEF step
  <2>5. PICK f : Runs(f, n, Formats, r, step)
    BY <2>2, <2>4, LoopExists
  <2>6. f = Loop(f)
    <3>1. ASSUME NEW k \in 1 .. n PROVE f[k] = AddScalar(f[k - 1], v.of[k].key, v.of[k].value)
      <4>1. f[k - 1] \in Formats
        BY <2>2, <2>5 DEF Runs
      <4> QED  BY <2>5, <4>1 DEF Runs, step
    <3> QED  BY <3>1, <2>2, <2>5 DEF Runs
  <2>7. adding = Loop(adding)
    BY <2>6, Zenon
  <2>8. AddTag(r, key, v) = adding[n]
    BY <1>2, Zenon DEF AddTag, adding, n
  <2> HIDE DEF adding
  <2>9. \A k \in 0 .. n : adding[k] = IF k = 0 THEN r
                                     ELSE AddScalar(adding[k - 1], v.of[k].key, v.of[k].value)
    BY <2>7, Zenon
  <2> HIDE DEF quiet
  <2> DEFINE Good(k) == /\ adding[k] \in Formats /\ adding[k].error = r.error
                        /\ quiet => SameError(adding[k], r)
             good == {k \in 0 .. n : Good(k)}
  <2>10. 0 \in good
    BY <2>2, <2>9 DEF SameError
  <2>11. ASSUME NEW k \in 1 .. n, k - 1 \in good PROVE k \in good
    <3>1. Good(k - 1) /\ k \in 0 .. n
      BY <2>2, <2>11
    <3>2. adding[k] = AddScalar(adding[k - 1], v.of[k].key, v.of[k].value)
      BY <2>2, <2>9
    <3>3. quiet => v.of[k].key # "error.message"
      BY <2>2 DEF quiet
    <3>4. adding[k] \in Formats /\ adding[k].error = r.error
      BY <2>3, <3>1, <3>2
    <3>5. quiet => SameError(adding[k], r)
      BY <2>3, <3>1, <3>2, <3>3 DEF SameError
    <3> QED  BY <3>1, <3>4, <3>5
  <2> HIDE DEF good
  <2>12. \A k \in 0 .. n : k \in good
    BY <2>2, <2>10, <2>11, CountingUp
  <2>13. Good(n)
    BY <2>2, <2>12 DEF good
  <2> QED  BY <1>2, <2>8, <2>13 DEF quiet
<1> QED  BY <1>1, <1>2

LEMMA MessageIsAdded ==
    ASSUME NEW r \in Formats, NEW v \in Scalars, v.type = "string"
    PROVE  /\ AddTag(r, "error.message", v) \in Formats
           /\ AddTag(r, "error.message", v).error = r.error
           /\ v.of # "" => MessageOf(AddTag(r, "error.message", v)) = {v.of}
<1>1. ASSUME NEW key \in Texts, key = "error.message"
      PROVE  /\ AddTag(r, key, v) \in Formats /\ AddTag(r, key, v).error = r.error
             /\ v.of # "" => MessageOf(AddTag(r, key, v)) = {v.of}
  BY <1>1, TagIsAdded
<1>2. "error.message" \in Texts
  BY TextsAre
<1> QED  BY <1>1, <1>2

LEMMA StrIs ==
    \A x : Str(x).of = x /\ Str(x).type = "string" /\ (x \in Texts => Str(x) \in Scalars)
BY DEF Str, Scalars, ScalarTypes

\* How a tag tells of an error.
Tells(t) == t.key \in {"error", "error.message"}

\* A tag as the library sets it, or the program without telling of an error.
\* `texts` are the errors it may tell of.
Sound(t, errors) ==
    /\ t.key = "error" =>
          \/ t.value = Str("other") /\ "other" \in errors
          \/ t.value.type = "error" /\ t.value.of \in errors \ {"", "other"}
    /\ t.key = "error.message" => t.value.type = "string" /\ t.value.of \in errors \ {"", "other"}
    /\ ~Tells(t) /\ t.value.type = "object" =>
          \A k \in DOMAIN t.value.of : t.value.of[k].key # "error.message"

LEMMA TagIsExtracted ==
    ASSUME NEW r \in Formats, NEW t \in Tags
    PROVE  /\ ExtractTag(r, t) \in Formats
           /\ \A errors : Sound(t, errors) /\ ~Tells(t) => SameError(ExtractTag(r, t), r)
           /\ \A errors : Sound(t, errors) /\ Tells(t) =>
                 /\ ExtractTag(r, t).error = 1
                 /\ IF t.value = Str("other") THEN MessageOf(ExtractTag(r, t)) = MessageOf(r)
                    ELSE MessageOf(ExtractTag(r, t)) = {t.value.of}
<1>1. t.key \in Texts /\ t.value \in Scalars \cup Objects
  BY DEF Tags
<1>2. \A s : SameError(s, s)
  BY DEF SameError
<1>3. ASSUME NEW text \in Texts PROVE Str(text) \in Scalars
  BY <1>3 DEF Str, Scalars, ScalarTypes
<1> DEFINE v == t.value
           marked == [r EXCEPT !.error = 1]
<1>4. marked \in Formats /\ marked.error = 1 /\ MessageOf(marked) = MessageOf(r)
  BY DEF Formats, MessageOf
<1> HIDE DEF marked
<1>5. CASE t.key = "service.name"
  <2> DEFINE served == [r EXCEPT !.service = v.of]
  <2>1. ExtractTag(r, t) = IF v.type = "string" /\ v.of # "" THEN served ELSE r
    BY <1>5, Zenon DEF ExtractTag
  <2>2. v.type = "string" => v.of \in Texts
    BY <1>1 DEF Scalars, Objects
  <2>3. v.of \in Texts => served \in Formats /\ SameError(served, r)
    BY DEF Formats, SameError, MessageOf
  <2> HIDE DEF served
  <2> QED  BY <1>2, <1>5, <2>1, <2>2, <2>3 DEF Tells
<1>6. CASE t.key = "http.status_code"
  <2>1. ExtractTag(r, t) = IF Falsy(v) THEN r ELSE AddTag(r, t.key, Str(Text(v)))
    BY <1>6, Zenon DEF ExtractTag
  <2>2. Text(v) \in Texts
    BY <1>1, TextsAre DEF Text, Scalars, Objects
  <2>3. Str(Text(v)) \in Scalars /\ Str(Text(v)).type = "string"
    BY <1>3, <2>2 DEF Str
  <2>4. AddTag(r, t.key, Str(Text(v))) \in Formats /\ SameError(AddTag(r, t.key, Str(Text(v))), r)
    BY <1>1, <1>6, <2>3, TagIsAdded
  <2> QED  BY <1>2, <1>6, <2>1, <2>4 DEF Tells
<1>7. CASE t.key = "_dd.measured"
  <2> DEFINE digit == IF v.type # "undefined" /\ Falsy(v) THEN "0" ELSE "1"
             measured == [r EXCEPT !.metrics = WithEntry(@, t.key, digit)]
  <2>1. ExtractTag(r, t) = measured
    BY <1>7, Zenon DEF ExtractTag
  <2>2. digit \in Texts
    BY TextsAre
  <2> HIDE DEF digit
  <2>3. measured \in Formats /\ SameError(measured, r)
    BY <1>1, <2>2, MetricIs
  <2> QED  BY <1>7, <2>1, <2>3 DEF Tells
<1>8. CASE t.key = "error"
  <2>1. ExtractTag(r, t) = IF Falsy(v) THEN r
                           ELSE IF v.type = "error" THEN AddTag(marked, "error.message", Str(v.of))
                           ELSE marked
    BY <1>8, Zenon DEF ExtractTag, ExtractError, marked
  <2>2. CASE v.type = "error"
    <3>1. v.of \in Texts /\ ~Falsy(v)
      BY <1>1, <2>2 DEF Scalars, Objects, Falsy
    <3>2. Str(v.of) \in Scalars /\ Str(v.of).type = "string" /\ Str(v.of).of = v.of
      BY <1>3, <3>1 DEF Str
    <3>3. /\ AddTag(marked, "error.message", Str(v.of)) \in Formats
          /\ AddTag(marked, "error.message", Str(v.of)).error = 1
          /\ v.of # "" => MessageOf(AddTag(marked, "error.message", Str(v.of))) = {v.of}
      <4> DEFINE w == Str(v.of)
      <4>1. w \in Scalars /\ w.type = "string" /\ w.of = v.of
        BY <3>2
      <4> HIDE DEF w
      <4>2. /\ AddTag(marked, "error.message", w) \in Formats
            /\ AddTag(marked, "error.message", w).error = marked.error
            /\ w.of # "" => MessageOf(AddTag(marked, "error.message", w)) = {w.of}
        BY <1>4, <4>1, MessageIsAdded
      <4> QED  BY <1>4, <4>1, <4>2 DEF w
    <3>4. v # Str("other")
      BY <2>2 DEF Str
    <3> QED  BY <1>8, <2>1, <2>2, <3>1, <3>3, <3>4 DEF Tells, Sound
  <2>3. CASE v.type # "error"
    <3>1. ExtractTag(r, t) \in {r, marked}
      BY <2>1, <2>3
    <3>2. ~Falsy(Str("other"))
      BY DEF Falsy, Str
    <3> QED  BY <1>4, <1>8, <2>1, <2>3, <3>1, <3>2 DEF Tells, Sound
  <2> QED  BY <2>2, <2>3
<1>9. CASE t.key = "error.message"
  <2>1. ExtractTag(r, t) = AddTag(marked, t.key, v)
    BY <1>9, Zenon DEF ExtractTag, marked
  <2>2. /\ AddTag(marked, t.key, v) \in Formats /\ AddTag(marked, t.key, v).error = 1
        /\ v.type = "string" /\ v.of # "" => MessageOf(AddTag(marked, t.key, v)) = {v.of}
    BY <1>1, <1>4, <1>9, TagIsAdded
  <2>3. v = Str("other") => v.of = "other"
    BY DEF Str
  <2> QED  BY <1>9, <2>1, <2>2, <2>3 DEF Tells, Sound
<1>10. CASE t.key \notin {"service.name", "http.status_code", "_dd.measured", "error", "error.message"}
  <2>1. ExtractTag(r, t) = AddTag(r, t.key, v)
    BY <1>10, Zenon DEF ExtractTag
  <2> QED  BY <1>1, <1>10, <2>1, TagIsAdded DEF Tells, Sound
<1> QED  BY <1>5, <1>6, <1>7, <1>8, <1>9, <1>10

\* The tags of a span tell of errors as it was told of them.
TagsTell(ts, ws) ==
    LET errors == {ws[k].error : k \in DOMAIN ws}
        ways == {ws[k].how : k \in DOMAIN ws}
    IN  /\ \A k \in DOMAIN ts : Sound(ts[k], errors)
        /\ ws # <<>> => \E k \in DOMAIN ts : Tells(ts[k])
        /\ ways = {"told"} => \A k \in DOMAIN ts : ts[k].key # "error"
        /\ ways = {"told"} => \A k \in DOMAIN ts : Tells(ts[k]) => ts[k].value.of = Last(ws).error

\* ErrorsReported, of one span.
ReportsErrors(r, ws) ==
    LET errors == {ws[k].error : k \in DOMAIN ws}
        ways == {ws[k].how : k \in DOMAIN ws}
    IN  "tag" \notin ways =>
            /\ r.error = IF ws = <<>> THEN 0 ELSE 1
            /\ ws # <<>> /\ "other" \notin errors => r.meta["error.message"] \in errors
            /\ ways = {"told"} => r.meta["error.message"] = Last(ws).error

Bare == [service |-> "", error |-> 0, meta |-> <<>>, metrics |-> <<>>]

LEMMA BareIs ==
    /\ Bare \in Formats /\ Bare.error = 0 /\ MessageOf(Bare) = {}
    /\ [Bare EXCEPT !.metrics = WithEntry(@, "_dd.measured", "1")] \in Formats
    /\ SameError([Bare EXCEPT !.metrics = WithEntry(@, "_dd.measured", "1")], Bare)
<1>1. <<>> \in TextMaps
  <2>1. <<>> \in [{} -> Texts] /\ {} \in SUBSET Texts
    OBVIOUS
  <2> QED  BY <2>1 DEF TextMaps
<1>2. Bare \in Formats /\ Bare.error = 0 /\ MessageOf(Bare) = {}
  <2>1. Bare \in Formats
    BY <1>1, TextsAre DEF Bare, Formats
  <2>2. Bare.error = 0 /\ Bare.meta = <<>> /\ DOMAIN <<>> = {}
    BY DEF Bare
  <2> QED  BY <2>1, <2>2 DEF MessageOf
<1> QED  BY <1>2, MetricIs, TextsAre

LEMMA FormattedIs ==
    ASSUME NEW ts \in Seq(Tags), NEW errors, \A k \in DOMAIN ts : Sound(ts[k], errors)
    PROVE  LET r == Formatted(ts)
           IN  /\ r.error = IF \E k \in DOMAIN ts : Tells(ts[k]) THEN 1 ELSE 0
               /\ MessageOf(r) \subseteq
                     {ts[k].value.of : k \in {k \in DOMAIN ts : Tells(ts[k]) /\ ts[k].value # Str("other")}}
               /\ (\E k \in DOMAIN ts : Tells(ts[k]) /\ ts[k].value # Str("other")) => MessageOf(r) # {}
<1> DEFINE n == Len(ts)
           kind == \E k \in DOMAIN ts :
                      ts[k].key = "span.kind" /\ ~Falsy(ts[k].value) /\ Text(ts[k].value) # "internal"
           start == IF kind THEN [Bare EXCEPT !.metrics = WithEntry(@, "_dd.measured", "1")] ELSE Bare
           step == [k \in 1 .. n |-> [r \in Formats |-> ExtractTag(r, ts[k])]]
           Loop(g) == [k \in 0 .. n |-> IF k = 0 THEN start ELSE ExtractTag(g[k - 1], ts[k])]
           extracted == CHOOSE g : g = Loop(g)
           Named(k) == Tells(ts[k]) /\ ts[k].value # Str("other")
<1>1. n \in Nat /\ DOMAIN ts = 1 .. n /\ \A k \in 1 .. n : ts[k] \in Tags
  OBVIOUS
<1>2. start \in Formats /\ start.error = 0 /\ MessageOf(start) = {}
  BY BareIs DEF SameError
<1>3. Formatted(ts) = AddTag(extracted[n], "language", Str("typescript"))
  BY Zenon DEF Formatted, extracted, start, kind, n, Bare
<1> HIDE DEF n, start
<1>4. step \in [1 .. n -> [Formats -> Formats]]
  BY <1>1, TagIsExtracted
<1> HIDE DEF step
<1>5. PICK f : Runs(f, n, Formats, start, step)
  BY <1>1, <1>2, <1>4, LoopExists
<1>6. f = Loop(f)
  <2>1. ASSUME NEW k \in 1 .. n PROVE f[k] = ExtractTag(f[k - 1], ts[k])
    <3>1. f[k - 1] \in Formats
      BY <1>1, <1>5 DEF Runs
    <3> QED  BY <1>5, <3>1 DEF Runs, step
  <2> QED  BY <2>1, <1>1, <1>5 DEF Runs
<1>7. extracted = Loop(extracted)
  BY <1>6, Zenon
<1> HIDE DEF extracted
<1>8. \A k \in 0 .. n : extracted[k] = IF k = 0 THEN start ELSE ExtractTag(extracted[k - 1], ts[k])
  BY <1>7, Zenon
<1> DEFINE Good(k) ==
              /\ extracted[k] \in Formats
              /\ extracted[k].error = IF \E j \in 1 .. k : Tells(ts[j]) THEN 1 ELSE 0
              /\ \A text \in MessageOf(extracted[k]) : \E j \in 1 .. k : Named(j) /\ text = ts[j].value.of
              /\ (\E j \in 1 .. k : Named(j)) => MessageOf(extracted[k]) # {}
           good == {k \in 0 .. n : Good(k)}
<1>9. 0 \in good
  BY <1>1, <1>2, <1>8
<1>10. ASSUME NEW k \in 1 .. n, k - 1 \in good PROVE k \in good
  <2> DEFINE last == extracted[k - 1]
             next == extracted[k]
  <2>1. Good(k - 1) /\ k \in 0 .. n /\ k \in Nat /\ 1 .. k = (1 .. k - 1) \cup {k}
    BY <1>1, <1>10
  <2>2. next = ExtractTag(last, ts[k]) /\ ts[k] \in Tags /\ Sound(ts[k], errors)
    BY <1>1, <1>8
  <2>3. /\ last \in Formats
        /\ last.error = IF \E j \in 1 .. k - 1 : Tells(ts[j]) THEN 1 ELSE 0
        /\ \A text \in MessageOf(last) : \E j \in 1 .. k - 1 : Named(j) /\ text = ts[j].value.of
        /\ (\E j \in 1 .. k - 1 : Named(j)) => MessageOf(last) # {}
    BY <2>1
  <2> HIDE DEF last, next
  <2>4. /\ next \in Formats
        /\ ~Tells(ts[k]) => next.error = last.error /\ MessageOf(next) = MessageOf(last)
        /\ Tells(ts[k]) => next.error = 1
        /\ Tells(ts[k]) /\ ~Named(k) => MessageOf(next) = MessageOf(last)
        /\ Named(k) => MessageOf(next) = {ts[k].value.of}
    BY <2>2, <2>3, TagIsExtracted DEF SameError
  <2>5. Good(k)
    <3>1. next.error = IF \E j \in 1 .. k : Tells(ts[j]) THEN 1 ELSE 0
      BY <2>1, <2>3, <2>4
    <3>2. \A text \in MessageOf(next) : \E j \in 1 .. k : Named(j) /\ text = ts[j].value.of
      <4> HIDE DEF Named
      <4>1. CASE Named(k)
        BY <2>1, <2>4, <4>1
      <4>2. CASE ~Named(k)
        <5>1. MessageOf(next) = MessageOf(last)
          BY <2>4, <4>2
        <5> QED  BY <2>1, <2>3, <5>1
      <4> QED  BY <4>1, <4>2
    <3>3. (\E j \in 1 .. k : Named(j)) => MessageOf(next) # {}
      <4> HIDE DEF Named
      <4>1. CASE Named(k)
        BY <2>4, <4>1
      <4>2. CASE ~Named(k)
        <5>1. MessageOf(next) = MessageOf(last)
          BY <2>4, <4>2
        <5> QED  BY <2>1, <2>3, <4>2, <5>1
      <4> QED  BY <4>1, <4>2
    <3> QED  BY <2>4, <3>1, <3>2, <3>3 DEF next
  <2> QED  BY <2>1, <2>5
<1> HIDE DEF good
<1>11. \A k \in 0 .. n : k \in good
  BY <1>1, <1>9, <1>10, CountingUp
<1>12. Good(n)
  <2>1. n \in good
    BY <1>1, <1>11
  <2> HIDE DEF Good
  <2> QED  BY <2>1 DEF good
<1> DEFINE r == extracted[n]
           s == AddTag(r, "language", Str("typescript"))
<1>13. SameError(s, r)
  <2> DEFINE w == Str("typescript")
             key == "language"
  <2>1. w \in Scalars \cup Objects /\ w.type # "object" /\ key \in Texts /\ key # "error.message"
    BY TextsAre DEF Str, Scalars, ScalarTypes
  <2>2. r \in Formats
    BY <1>12
  <2> HIDE DEF w, key, r
  <2>3. SameError(AddTag(r, key, w), r)
    BY <2>1, <2>2, TagIsAdded
  <2> QED  BY <2>3 DEF w, key
<1>14. /\ r.error = IF \E k \in DOMAIN ts : Tells(ts[k]) THEN 1 ELSE 0
       /\ \A text \in MessageOf(r) : \E k \in DOMAIN ts : Named(k) /\ text = ts[k].value.of
       /\ (\E k \in DOMAIN ts : Named(k)) => MessageOf(r) # {}
  BY <1>1, <1>12
<1> HIDE DEF r, s
<1>15. s = Formatted(ts)
  BY <1>3 DEF s, r
<1> QED  BY <1>13, <1>14, <1>15 DEF SameError

LEMMA TellingReports ==
    ASSUME NEW ts \in Seq(Tags), NEW W, NEW ws \in Seq(W),
           "tag" \notin {ws[k].how : k \in DOMAIN ws} => TagsTell(ts, ws)
    PROVE  ReportsErrors(Formatted(ts), ws)
<1> DEFINE errors == {ws[k].error : k \in DOMAIN ws}
           ways == {ws[k].how : k \in DOMAIN ws}
           r == Formatted(ts)
<1> SUFFICES ASSUME "tag" \notin ways
             PROVE  /\ r.error = IF ws = <<>> THEN 0 ELSE 1
                    /\ ws # <<>> /\ "other" \notin errors => r.meta["error.message"] \in errors
                    /\ ways = {"told"} => r.meta["error.message"] = Last(ws).error
  BY DEF ReportsErrors
<1>1. /\ \A k \in DOMAIN ts : Sound(ts[k], errors)
      /\ ws # <<>> => \E k \in DOMAIN ts : Tells(ts[k])
      /\ ways = {"told"} => \A k \in DOMAIN ts : ts[k].key # "error"
      /\ ways = {"told"} => \A k \in DOMAIN ts : Tells(ts[k]) => ts[k].value.of = Last(ws).error
  BY DEF TagsTell
<1>2. ws = <<>> => errors = {} /\ ways = {}
  OBVIOUS
<1>3. ways = {"told"} => ws # <<>>
  BY <1>2
<1> HIDE DEF errors, ways
<1>4. /\ r.error = IF \E k \in DOMAIN ts : Tells(ts[k]) THEN 1 ELSE 0
      /\ MessageOf(r) \subseteq
            {ts[k].value.of : k \in {k \in DOMAIN ts : Tells(ts[k]) /\ ts[k].value # Str("other")}}
      /\ (\E k \in DOMAIN ts : Tells(ts[k]) /\ ts[k].value # Str("other")) => MessageOf(r) # {}
  BY <1>1, FormattedIs
<1> HIDE DEF r
<1>5. MessageOf(r) # {} => MessageOf(r) = {r.meta["error.message"]}
  BY DEF MessageOf
<1>6. r.error = IF ws = <<>> THEN 0 ELSE 1
  BY <1>1, <1>2, <1>4 DEF Sound, Tells
<1>7. ASSUME NEW k \in DOMAIN ts, Tells(ts[k]), ts[k].value # Str("other")
      PROVE  ts[k].value.of \in errors
  BY <1>1, <1>7 DEF Sound, Tells
<1>8. ASSUME ws # <<>>, "other" \notin errors PROVE r.meta["error.message"] \in errors
  <2>1. PICK k \in DOMAIN ts : Tells(ts[k])
    BY <1>1, <1>8
  <2>2. ts[k].value # Str("other")
    BY <1>1, <1>8, <2>1, StrIs DEF Sound, Tells
  <2> QED  BY <1>4, <1>5, <1>7, <2>1, <2>2
<1>9. ASSUME ways = {"told"} PROVE r.meta["error.message"] = Last(ws).error
  <2>1. PICK k \in DOMAIN ts : Tells(ts[k])
    BY <1>1, <1>3, <1>9
  <2>2. ts[k].value # Str("other")
    BY <1>1, <1>9, <2>1, StrIs DEF Sound, Tells
  <2>3. \A j \in DOMAIN ts : Tells(ts[j]) => ts[j].value.of = Last(ws).error
    BY <1>1, <1>9
  <2>4. MessageOf(r) # {} /\ \A text \in MessageOf(r) : text = Last(ws).error
    BY <1>4, <2>1, <2>2, <2>3
  <2> QED  BY <1>5, <2>4
<1> QED  BY <1>6, <1>8, <1>9

-----------------------------------------------------------------------------
(* Traced calls: the tags that a call is told of.                          *)

Words == [how : {"thrown", "told", "tag"}, error : Texts]
Word(how, failure) == [how |-> how, error |-> failure]

ErrorsOf(ws) == {ws[k].error : k \in DOMAIN ws}
WaysOf(ws) == {ws[k].how : k \in DOMAIN ws}

\* Unless the program told of an error itself.
ToldKept(ts, ws) == "tag" \notin WaysOf(ws) => TagsTell(ts, ws)

LEMMA TagsTellIs ==
    ASSUME NEW ts, NEW ws
    PROVE  TagsTell(ts, ws) <=>
              /\ \A k \in DOMAIN ts : Sound(ts[k], ErrorsOf(ws))
              /\ ws # <<>> => \E k \in DOMAIN ts : Tells(ts[k])
              /\ WaysOf(ws) = {"told"} => \A k \in DOMAIN ts : ts[k].key # "error"
              /\ WaysOf(ws) = {"told"} =>
                    \A k \in DOMAIN ts : Tells(ts[k]) => ts[k].value.of = Last(ws).error
BY DEF TagsTell, ErrorsOf, WaysOf

LEMMA FailuresAre ==
    /\ \A failure \in Failures : failure \in Texts /\ failure # "" /\ failure # "none"
    /\ \A failure \in Failures : Err(failure) \in Scalars /\ Str(failure) \in Scalars
<1>1. ASSUME NEW failure \in Failures
      PROVE  failure \in Texts /\ failure # "" /\ failure # "none"
  BY CallsAssumption, TextsAre
<1> QED  BY <1>1 DEF Err, Str, Scalars, ScalarTypes

LEMMA WordIs ==
    ASSUME NEW ws \in Seq(Words), NEW how \in {"thrown", "told", "tag"}, NEW failure \in Texts
    PROVE  LET more == Append(ws, Word(how, failure))
           IN  /\ more \in Seq(Words) /\ more # <<>> /\ Last(more).error = failure
               /\ ErrorsOf(more) = ErrorsOf(ws) \cup {failure}
               /\ WaysOf(more) = WaysOf(ws) \cup {how}
<1> DEFINE w == Word(how, failure)
           more == Append(ws, w)
<1>1. w \in Words /\ w.how = how /\ w.error = failure
  BY DEF Word, Words
<1> HIDE DEF w
<1>2. /\ more \in Seq(Words) /\ Len(more) = Len(ws) + 1 /\ Len(ws) \in Nat
      /\ DOMAIN more = DOMAIN ws \cup {Len(ws) + 1} /\ more[Len(ws) + 1] = w
      /\ \A k \in DOMAIN ws : more[k] = ws[k]
  BY <1>1
<1>3. Last(more) = w /\ more # <<>>
  BY <1>2 DEF Last
<1> HIDE DEF more
<1>4. ErrorsOf(more) = ErrorsOf(ws) \cup {failure}
  BY <1>1, <1>2 DEF ErrorsOf
<1>5. WaysOf(more) = WaysOf(ws) \cup {how}
  BY <1>1, <1>2 DEF WaysOf
<1> QED  BY <1>1, <1>2, <1>3, <1>4, <1>5 DEF more, w

Reassigned(us, ts, key, value) ==
    /\ \A k \in DOMAIN us : \/ us[k].key = key /\ us[k].value = value
                            \/ us[k].key # key /\ \E j \in DOMAIN ts : us[k] = ts[j]
    /\ \E k \in DOMAIN us : us[k].key = key
    /\ \A j \in DOMAIN ts : \E k \in DOMAIN us : us[k].key = ts[j].key

\* A tag is replaced or added, the others stay.
LEMMA AssignedIs ==
    ASSUME NEW ts \in Seq(Tags), NEW key \in Texts, NEW value \in Scalars \cup Objects
    PROVE  /\ Assigned(ts, key, value) \in Seq(Tags)
           /\ Reassigned(Assigned(ts, key, value), ts, key, value)
<1> DEFINE us == Assigned(ts, key, value)
           tag == [key |-> key, value |-> value]
<1>1. tag \in Tags /\ tag.key = key /\ tag.value = value
  BY DEF Tags
<1> HIDE DEF tag
<1>2. CASE \E k \in DOMAIN ts : ts[k].key = key
  <2>1. us = [k \in DOMAIN ts |-> IF ts[k].key = key THEN tag ELSE ts[k]]
    BY <1>2, Zenon DEF Assigned, tag
  <2> HIDE DEF us
  <2>2. us \in Seq(Tags) /\ DOMAIN us = DOMAIN ts
    BY <1>1, <2>1
  <2>3. \A k \in DOMAIN ts : us[k] = IF ts[k].key = key THEN tag ELSE ts[k]
    BY <2>1
  <2>4. Reassigned(us, ts, key, value)
    <3>1. ASSUME NEW k \in DOMAIN us
          PROVE  \/ us[k].key = key /\ us[k].value = value
                 \/ us[k].key # key /\ \E j \in DOMAIN ts : us[k] = ts[j]
      <4>1. CASE ts[k].key = key
        BY <1>1, <2>2, <2>3, <4>1
      <4>2. CASE ts[k].key # key
        BY <2>2, <2>3, <4>2
      <4> QED  BY <4>1, <4>2
    <3>2. \A j \in DOMAIN ts : us[j].key = ts[j].key
      BY <1>1, <2>3
    <3>3. \E k \in DOMAIN us : us[k].key = key
      BY <1>2, <2>2, <3>2
    <3>4. \A j \in DOMAIN ts : \E k \in DOMAIN us : us[k].key = ts[j].key
      BY <2>2, <3>2
    <3> QED  BY <3>1, <3>3, <3>4, Zenon DEF Reassigned
  <2> QED  BY <2>2, <2>4 DEF us
<1>3. CASE ~\E k \in DOMAIN ts : ts[k].key = key
  <2>1. us = Append(ts, tag)
    BY <1>3, Zenon DEF Assigned, tag
  <2> HIDE DEF us
  <2>2. /\ us \in Seq(Tags) /\ DOMAIN us = DOMAIN ts \cup {Len(ts) + 1} /\ us[Len(ts) + 1] = tag
        /\ \A k \in DOMAIN ts : us[k] = ts[k]
    BY <1>1, <2>1
  <2>3. Reassigned(us, ts, key, value)
    <3>1. ASSUME NEW k \in DOMAIN us
          PROVE  \/ us[k].key = key /\ us[k].value = value
                 \/ us[k].key # key /\ \E j \in DOMAIN ts : us[k] = ts[j]
      <4>1. CASE k = Len(ts) + 1
        BY <1>1, <2>2, <4>1
      <4>2. CASE k # Len(ts) + 1
        <5>1. k \in DOMAIN ts /\ us[k] = ts[k]
          BY <2>2, <4>2
        <5> QED  BY <1>3, <5>1
      <4> QED  BY <4>1, <4>2
    <3>2. \E k \in DOMAIN us : us[k].key = key
      BY <1>1, <2>2
    <3>3. \A j \in DOMAIN ts : \E k \in DOMAIN us : us[k].key = ts[j].key
      BY <2>2
    <3> QED  BY <3>1, <3>2, <3>3, Zenon DEF Reassigned
  <2> QED  BY <2>2, <2>3 DEF us
<1> QED  BY <1>2, <1>3

\* What holds of the tags of a span once one is set.
LEMMA TagKeeps ==
    ASSUME NEW ts \in Seq(Tags), NEW ws, NEW more, NEW key \in Texts, NEW value \in Scalars \cup Objects,
           \A k \in DOMAIN ts : Sound(ts[k], ErrorsOf(ws)),
           ErrorsOf(ws) \subseteq ErrorsOf(more),
           \A t : t.key = key /\ t.value = value => Sound(t, ErrorsOf(more))
    PROVE  /\ Assigned(ts, key, value) \in Seq(Tags)
           /\ \A k \in DOMAIN Assigned(ts, key, value) : Sound(Assigned(ts, key, value)[k], ErrorsOf(more))
<1>1. ASSUME NEW t, Sound(t, ErrorsOf(ws)) PROVE Sound(t, ErrorsOf(more))
  BY <1>1 DEF Sound
<1> QED  BY <1>1, AssignedIs DEF Reassigned

\* A tag of the program that is not about errors.
LEMMA PlainTagKeeps ==
    ASSUME NEW ts \in Seq(Tags), NEW ws \in Seq(Words), NEW key \in Texts \ {"error", "error.message"},
           NEW value \in Scalars \cup Objects, ToldKept(ts, ws),
           value.type = "object" => \A k \in DOMAIN value.of : value.of[k].key # "error.message"
    PROVE  ToldKept(Assigned(ts, key, value), ws)
<1> SUFFICES ASSUME "tag" \notin WaysOf(ws) PROVE TagsTell(Assigned(ts, key, value), ws)
  BY DEF ToldKept
<1> DEFINE us == Assigned(ts, key, value)
<1>1. TagsTell(ts, ws)
  BY DEF ToldKept
<1>2. \A t : t.key = key /\ t.value = value => Sound(t, ErrorsOf(ws))
  BY DEF Sound, Tells
<1>3. \A k \in DOMAIN us : Sound(us[k], ErrorsOf(ws))
  BY <1>1, <1>2, TagKeeps, TagsTellIs
<1>4. /\ \A k \in DOMAIN us : \/ us[k].key = key /\ us[k].value = value
                              \/ us[k].key # key /\ \E j \in DOMAIN ts : us[k] = ts[j]
      /\ \A j \in DOMAIN ts : \E k \in DOMAIN us : us[k].key = ts[j].key
  BY AssignedIs DEF Reassigned
<1> HIDE DEF us
<1>5. /\ ws # <<>> => \E k \in DOMAIN ts : Tells(ts[k])
      /\ WaysOf(ws) = {"told"} => \A k \in DOMAIN ts : ts[k].key # "error"
      /\ WaysOf(ws) = {"told"} => \A k \in DOMAIN ts : Tells(ts[k]) => ts[k].value.of = Last(ws).error
  BY <1>1, TagsTellIs
<1>6. ws # <<>> => \E k \in DOMAIN us : Tells(us[k])
  BY <1>4, <1>5 DEF Tells
<1>7. /\ WaysOf(ws) = {"told"} => \A k \in DOMAIN us : us[k].key # "error"
      /\ WaysOf(ws) = {"told"} => \A k \in DOMAIN us : Tells(us[k]) => us[k].value.of = Last(ws).error
  BY <1>4, <1>5 DEF Tells
<1>8. TagsTell(us, ws)
  BY <1>3, <1>6, <1>7, TagsTellIs
<1> QED  BY <1>8 DEF us

\* What is thrown in a span tags it.
LEMMA ThrownKeeps ==
    ASSUME NEW ts \in Seq(Tags), NEW ws \in Seq(Words), NEW failure \in Failures, ToldKept(ts, ws)
    PROVE  /\ WithErrorTag(ts, failure) \in Seq(Tags)
           /\ ToldKept(WithErrorTag(ts, failure), Append(ws, Word("thrown", failure)))
<1> DEFINE value == IF failure = "other" THEN Str(failure) ELSE Err(failure)
           us == Assigned(ts, "error", value)
           more == Append(ws, Word("thrown", failure))
<1>1. value \in Scalars \cup Objects /\ "error" \in Texts /\ failure \in Texts
  BY FailuresAre, TextsAre
<1>2. WithErrorTag(ts, failure) = us
  BY Zenon DEF WithErrorTag
<1>3. /\ more # <<>> /\ ErrorsOf(more) = ErrorsOf(ws) \cup {failure}
      /\ WaysOf(more) = WaysOf(ws) \cup {"thrown"}
  BY <1>1, WordIs
<1>4. \A t : t.key = "error" /\ t.value = value => Sound(t, ErrorsOf(more))
  <2>1. failure \in ErrorsOf(more) /\ failure # ""
    BY <1>3, FailuresAre
  <2>2. failure = "other" => value = Str("other")
    OBVIOUS
  <2>3. failure # "other" => value.type = "error" /\ value.of = failure
    BY DEF Err
  <2> HIDE DEF value, more
  <2> QED  BY <2>1, <2>2, <2>3 DEF Sound, Tells
<1> HIDE DEF value, more
<1>5. us \in Seq(Tags) /\ \E k \in DOMAIN us : us[k].key = "error"
  BY <1>1, AssignedIs DEF Reassigned
<1>6. ASSUME "tag" \notin WaysOf(more) PROVE TagsTell(us, more)
  <2>1. \A k \in DOMAIN ts : Sound(ts[k], ErrorsOf(ws))
    BY <1>3, <1>6, TagsTellIs DEF ToldKept
  <2>2. \A k \in DOMAIN us : Sound(us[k], ErrorsOf(more))
    BY <1>1, <1>3, <1>4, <2>1, TagKeeps
  <2>3. \E k \in DOMAIN us : Tells(us[k])
    BY <1>5 DEF Tells
  <2>4. WaysOf(more) # {"told"}
    <3>1. "thrown" \in WaysOf(more)
      BY <1>3
    <3> QED  BY <3>1
  <2> HIDE DEF us
  <2> QED  BY <2>2, <2>3, <2>4, TagsTellIs
<1> QED  BY <1>2, <1>5, <1>6 DEF ToldKept, more

\* An error that a span has thrown may be added to its tags as well.
LEMMA AddedKeeps ==
    ASSUME NEW ts \in Seq(Tags), NEW ws \in Seq(Words), NEW failure \in Failures, ToldKept(ts, ws),
           failure \in ErrorsOf(ws), "thrown" \in WaysOf(ws)
    PROVE  WithError(ts, failure) \in Seq(Tags) /\ ToldKept(WithError(ts, failure), ws)
<1> DEFINE us == Assigned(ts, "error.message", Str(failure))
<1>1. Str(failure) \in Scalars \cup Objects /\ "error.message" \in Texts
  BY FailuresAre, TextsAre
<1>2. CASE failure \in {"none", "other"}
  BY <1>2 DEF WithError
<1>3. CASE failure \notin {"none", "other"}
  <2>1. WithError(ts, failure) = us
    BY <1>3, Zenon DEF WithError
  <2>2. \A t : t.key = "error.message" /\ t.value = Str(failure) => Sound(t, ErrorsOf(ws))
    BY <1>3, FailuresAre, StrIs DEF Sound, Tells
  <2>3. us \in Seq(Tags) /\ \E k \in DOMAIN us : us[k].key = "error.message"
    BY <1>1, AssignedIs DEF Reassigned
  <2>4. ASSUME "tag" \notin WaysOf(ws) PROVE TagsTell(us, ws)
    <3>1. \A k \in DOMAIN ts : Sound(ts[k], ErrorsOf(ws))
      BY <2>4, TagsTellIs DEF ToldKept
    <3>2. \A k \in DOMAIN us : Sound(us[k], ErrorsOf(ws))
      BY <1>1, <2>2, <3>1, TagKeeps
    <3>3. \E k \in DOMAIN us : Tells(us[k])
      BY <2>3 DEF Tells
    <3> HIDE DEF us
    <3> QED  BY <3>2, <3>3, TagsTellIs
  <2> QED  BY <2>1, <2>3, <2>4 DEF ToldKept
<1> QED  BY <1>2, <1>3

\* An error that a span is told of is the message of the last.
LEMMA ToldKeeps ==
    ASSUME NEW ts \in Seq(Tags), NEW ws \in Seq(Words), NEW failure \in Failures \ {"other"}, ToldKept(ts, ws)
    PROVE  /\ WithError(ts, failure) \in Seq(Tags)
           /\ ToldKept(WithError(ts, failure), Append(ws, Word("told", failure)))
<1> DEFINE value == Str(failure)
           us == Assigned(ts, "error.message", value)
           more == Append(ws, Word("told", failure))
<1>1. /\ value \in Scalars \cup Objects /\ "error.message" \in Texts /\ failure \in Texts
      /\ value.of = failure
  BY FailuresAre, TextsAre, StrIs
<1>2. WithError(ts, failure) = us
  <2>1. failure \notin {"none", "other"}
    BY FailuresAre
  <2> QED  BY <2>1, Zenon DEF WithError
<1>3. /\ more # <<>> /\ ErrorsOf(more) = ErrorsOf(ws) \cup {failure}
      /\ WaysOf(more) = WaysOf(ws) \cup {"told"} /\ Last(more).error = failure
  BY <1>1, WordIs
<1>4. \A t : t.key = "error.message" /\ t.value = value => Sound(t, ErrorsOf(more))
  BY <1>3, FailuresAre, StrIs DEF Sound, Tells
<1> HIDE DEF value, more
<1>5. /\ us \in Seq(Tags) /\ \E k \in DOMAIN us : us[k].key = "error.message"
      /\ \A k \in DOMAIN us : \/ us[k].key = "error.message" /\ us[k].value = value
                              \/ us[k].key # "error.message" /\ \E j \in DOMAIN ts : us[k] = ts[j]
  <2>1. Reassigned(us, ts, "error.message", value)
    BY <1>1, AssignedIs
  <2>2. us \in Seq(Tags)
    BY <1>1, AssignedIs
  <2> HIDE DEF us
  <2> QED  BY <2>1, <2>2 DEF Reassigned
<1>6. ASSUME "tag" \notin WaysOf(more) PROVE TagsTell(us, more)
  <2>1. /\ \A k \in DOMAIN ts : Sound(ts[k], ErrorsOf(ws))
        /\ WaysOf(ws) = {"told"} => \A k \in DOMAIN ts : ts[k].key # "error"
    BY <1>3, <1>6, TagsTellIs DEF ToldKept
  <2>2. \A k \in DOMAIN us : Sound(us[k], ErrorsOf(more))
    BY <1>1, <1>3, <1>4, <2>1, TagKeeps
  <2>3. \E k \in DOMAIN us : Tells(us[k])
    BY <1>5 DEF Tells
  <2>4. ASSUME WaysOf(more) = {"told"} PROVE \A k \in DOMAIN ts : ts[k].key # "error"
    <3>1. CASE ws = <<>>
      <4>1. ErrorsOf(ws) = {}
        BY <3>1 DEF ErrorsOf
      <4> QED  BY <2>1, <4>1 DEF Sound
    <3>2. CASE ws # <<>>
      <4>1. 1 \in DOMAIN ws
        BY <3>2
      <4>2. ws[1].how \in WaysOf(ws)
        BY <4>1 DEF WaysOf
      <4>3. WaysOf(ws) = {"told"}
        BY <1>3, <2>4, <4>2
      <4> QED  BY <2>1, <4>3
    <3> QED  BY <3>1, <3>2
  <2> HIDE DEF us
  <2>5. ASSUME WaysOf(more) = {"told"}, NEW k \in DOMAIN us
        PROVE  us[k].key # "error" /\ (Tells(us[k]) => us[k].value.of = Last(more).error)
    BY <1>1, <1>3, <1>5, <2>4, <2>5 DEF Tells
  <2> QED  BY <1>3, <2>2, <2>3, <2>5, TagsTellIs
<1> QED  BY <1>2, <1>5, <1>6 DEF ToldKept, more

-----------------------------------------------------------------------------
(* Traced calls: the spans of calls.                                       *)

CallRecords ==
    [callback : BOOLEAN, parent : Nat, promise : {"none", "pending", "settled"}, root : Nat]

CallsTyped ==
    /\ calls \in Seq(CallRecords)
    /\ \A c \in DOMAIN calls : calls[c].parent \in DOMAIN calls \cup {0}
    /\ callStack \in Seq(DOMAIN calls)
    /\ DOMAIN reported \subseteq DOMAIN calls

\* Tags and words that the spans may have while those are reported that are.
Telling(tags, words) ==
    /\ tags \in Seq(Seq(Tags)) /\ words \in Seq(Seq(Words))
    /\ Len(tags) = Len(calls) /\ Len(words) = Len(calls)
    /\ \A c \in DOMAIN calls \ DOMAIN reported : ToldKept(tags[c], words[c])
    /\ \A c \in DOMAIN reported : ReportsErrors(reported[c], words[c])

CallsInv == CallsTyped /\ Telling(spanTags, told)

LEMMA CallIs ==
    ASSUME CallsInv, NEW c \in DOMAIN calls
    PROVE  /\ spanTags[c] \in Seq(Tags) /\ told[c] \in Seq(Words)
           /\ c \notin DOMAIN reported => ToldKept(spanTags[c], told[c])
           /\ c \in DOMAIN spanTags /\ c \in DOMAIN told
           /\ calls[c] \in CallRecords /\ calls[c].parent \in DOMAIN calls \cup {0}
<1>1. calls \in Seq(CallRecords) /\ spanTags \in Seq(Seq(Tags)) /\ told \in Seq(Seq(Words))
  BY DEF CallsInv, CallsTyped, Telling
<1>2. DOMAIN calls = 1 .. Len(calls) /\ DOMAIN spanTags = 1 .. Len(calls) /\ DOMAIN told = 1 .. Len(calls)
  BY <1>1 DEF CallsInv, Telling
<1> QED  BY <1>1, <1>2 DEF CallsInv, CallsTyped, Telling

\* The tags of one span change, and what it was told if it is not reported.
LEMMA TellingStays ==
    ASSUME CallsInv, NEW c \in DOMAIN calls, NEW ts \in Seq(Tags), NEW words,
           \/ words = told /\ (c \notin DOMAIN reported => ToldKept(ts, told[c]))
           \/ /\ c \notin DOMAIN reported
              /\ \E ws \in Seq(Words) : words = [told EXCEPT ![c] = ws] /\ ToldKept(ts, ws)
    PROVE  Telling([spanTags EXCEPT ![c] = ts], words)
<1>1. /\ spanTags \in Seq(Seq(Tags)) /\ told \in Seq(Seq(Words)) /\ calls \in Seq(CallRecords)
      /\ Len(spanTags) = Len(calls) /\ Len(told) = Len(calls)
      /\ \A d \in DOMAIN calls \ DOMAIN reported : ToldKept(spanTags[d], told[d])
      /\ \A d \in DOMAIN reported : ReportsErrors(reported[d], told[d])
      /\ DOMAIN reported \subseteq DOMAIN calls
  BY DEF CallsInv, Telling, CallsTyped
<1>2. DOMAIN calls = 1 .. Len(calls) /\ DOMAIN spanTags = 1 .. Len(calls) /\ DOMAIN told = 1 .. Len(calls)
  BY <1>1
<1> DEFINE tags == [spanTags EXCEPT ![c] = ts]
<1>3. /\ tags \in Seq(Seq(Tags)) /\ Len(tags) = Len(calls) /\ tags[c] = ts
      /\ \A d \in DOMAIN calls : d # c => tags[d] = spanTags[d]
  BY <1>1, <1>2
<1> HIDE DEF tags
<1>4. CASE words = told /\ (c \notin DOMAIN reported => ToldKept(ts, told[c]))
  <2>1. \A d \in DOMAIN calls \ DOMAIN reported : ToldKept(tags[d], words[d])
    BY <1>1, <1>3, <1>4
  <2> QED  BY <1>1, <1>3, <1>4, <2>1 DEF Telling, tags
<1>5. ASSUME c \notin DOMAIN reported, NEW ws \in Seq(Words), words = [told EXCEPT ![c] = ws], ToldKept(ts, ws)
      PROVE  Telling(tags, words)
  <2>1. /\ words \in Seq(Seq(Words)) /\ Len(words) = Len(calls) /\ words[c] = ws
        /\ \A d \in DOMAIN calls : d # c => words[d] = told[d]
    BY <1>1, <1>2, <1>5
  <2>2. \A d \in DOMAIN calls \ DOMAIN reported : ToldKept(tags[d], words[d])
    BY <1>1, <1>3, <1>5, <2>1
  <2>3. \A d \in DOMAIN reported : ReportsErrors(reported[d], words[d])
    BY <1>1, <1>5, <2>1
  <2> QED  BY <1>3, <2>1, <2>2, <2>3 DEF Telling
<1> QED  BY <1>4, <1>5 DEF tags

\* A span finishes, or none does.
LEMMA FinishKeeps ==
    ASSUME CallsInv, Telling(spanTags', told'),
           \/ \E c \in DOMAIN calls : Finish(c)
           \/ UNCHANGED <<ended, reported>>,
           calls' \in Seq(CallRecords), Len(calls') = Len(calls),
           \A c \in DOMAIN calls : calls'[c].parent = calls[c].parent,
           callStack' \in Seq(DOMAIN calls)
    PROVE  CallsInv'
<1>1. DOMAIN calls' = DOMAIN calls /\ calls \in Seq(CallRecords) /\ DOMAIN reported \subseteq DOMAIN calls
  BY DEF CallsInv, CallsTyped
<1>2. /\ spanTags' \in Seq(Seq(Tags)) /\ told' \in Seq(Seq(Words))
      /\ Len(spanTags') = Len(calls) /\ Len(told') = Len(calls)
      /\ \A d \in DOMAIN calls \ DOMAIN reported : ToldKept(spanTags'[d], told'[d])
      /\ \A d \in DOMAIN reported : ReportsErrors(reported[d], told'[d])
  BY DEF Telling
<1>3. /\ DOMAIN reported \subseteq DOMAIN reported' /\ DOMAIN reported' \subseteq DOMAIN calls
      /\ \A d \in DOMAIN reported' : \/ d \in DOMAIN reported /\ reported'[d] = reported[d]
                                     \/ /\ d \in DOMAIN calls \ DOMAIN reported
                                        /\ reported'[d] = Formatted(spanTags'[d])
  <2>1. CASE UNCHANGED <<ended, reported>>
    BY <1>1, <2>1
  <2>2. ASSUME NEW c \in DOMAIN calls, Finish(c)
        PROVE  \/ reported' = reported
               \/ \E trace \in SUBSET (DOMAIN calls \ DOMAIN reported) :
                     reported' = [d \in DOMAIN reported \cup trace |->
                                    IF d \in trace THEN Formatted(spanTags'[d]) ELSE reported[d]]
    <3> DEFINE trace == {d \in DOMAIN calls : SameTrace(c, d) /\ d \notin DOMAIN reported}
    <3>1. \/ reported' = reported
          \/ reported' = [d \in DOMAIN reported \cup trace |->
                             IF d \in trace THEN Formatted(spanTags'[d]) ELSE reported[d]]
      <4>1. reported' = IF c \in ended \/ ~(trace \subseteq ended \cup {c}) THEN reported
                        ELSE [d \in DOMAIN reported \cup trace |->
                                IF d \in trace THEN Formatted(spanTags'[d]) ELSE reported[d]]
        BY <2>2, Zenon DEF Finish
      <4> HIDE DEF trace
      <4> QED  BY <4>1, Zenon
    <3>2. trace \in SUBSET (DOMAIN calls \ DOMAIN reported)
      OBVIOUS
    <3> QED  BY <3>1, <3>2, Zenon
  <2>3. CASE reported' = reported
    BY <1>1, <2>3
  <2>4. ASSUME NEW trace \in SUBSET (DOMAIN calls \ DOMAIN reported),
               reported' = [d \in DOMAIN reported \cup trace |->
                              IF d \in trace THEN Formatted(spanTags'[d]) ELSE reported[d]]
        PROVE  /\ DOMAIN reported \subseteq DOMAIN reported' /\ DOMAIN reported' \subseteq DOMAIN calls
               /\ \A d \in DOMAIN reported' : \/ d \in DOMAIN reported /\ reported'[d] = reported[d]
                                              \/ /\ d \in DOMAIN calls \ DOMAIN reported
                                                 /\ reported'[d] = Formatted(spanTags'[d])
    <3>1. DOMAIN reported' = DOMAIN reported \cup trace
      BY <2>4
    <3>2. ASSUME NEW d \in DOMAIN reported'
          PROVE  reported'[d] = IF d \in trace THEN Formatted(spanTags'[d]) ELSE reported[d]
      BY <2>4, <3>1
    <3> QED  BY <1>1, <3>1, <3>2
  <2> QED  BY <2>1, <2>2, <2>3, <2>4
<1>4. ASSUME NEW d \in DOMAIN reported' PROVE ReportsErrors(reported'[d], told'[d])
  <2>1. CASE d \in DOMAIN reported /\ reported'[d] = reported[d]
    BY <1>2, <2>1
  <2>2. CASE d \in DOMAIN calls \ DOMAIN reported /\ reported'[d] = Formatted(spanTags'[d])
    <3>1. ToldKept(spanTags'[d], told'[d])
      BY <1>2, <2>2
    <3>2. spanTags'[d] \in Seq(Tags) /\ told'[d] \in Seq(Words)
      BY <1>1, <1>2, <2>2
    <3> DEFINE ts == spanTags'[d]
               ws == told'[d]
    <3> HIDE DEF ts, ws
    <3>3. ReportsErrors(Formatted(ts), ws)
      BY <3>1, <3>2, TellingReports DEF ToldKept, WaysOf, ts, ws
    <3> QED  BY <2>2, <3>3 DEF ts, ws
  <2> QED  BY <1>3, <2>1, <2>2
<1>5. CallsTyped'
  BY <1>1, <1>3 DEF CallsInv, CallsTyped
<1>6. Telling(spanTags, told)'
  BY <1>1, <1>2, <1>3, <1>4 DEF Telling
<1> QED  BY <1>5, <1>6 DEF CallsInv

LEMMA CallsAtStart == CallsInit => CallsInv
<1> SUFFICES ASSUME CallsInit PROVE CallsInv
  OBVIOUS
<1>1. /\ calls = <<>> /\ callStack = <<>> /\ spanTags = <<>> /\ told = <<>> /\ reported = <<>>
      /\ DOMAIN reported = {} /\ DOMAIN calls = {}
  BY DEF CallsInit
<1>2. CallsTyped
  BY <1>1 DEF CallsTyped
<1>3. Telling(spanTags, told)
  BY <1>1 DEF Telling
<1> QED  BY <1>2, <1>3 DEF CallsInv

LEMMA TopIs ==
    ASSUME CallsInv, callStack # <<>>
    PROVE  Top \in DOMAIN calls /\ Front(callStack) \in Seq(DOMAIN calls)
<1>1. callStack \in Seq(DOMAIN calls)
  BY DEF CallsInv, CallsTyped
<1> QED  BY <1>1 DEF Top, Last, Front

LEMMA CallStarts ==
    ASSUME CallsInv, NEW parent \in 0 .. Len(calls), NEW callback \in BOOLEAN, Call(parent, callback)
    PROVE  CallsInv'
<1> DEFINE n == Len(calls)
           record == [callback |-> callback, parent |-> parent, promise |-> "none",
                      root |-> IF parent = 0 THEN n + 1 ELSE calls[parent].root]
           tags == <<[key |-> "service.name", value |-> Str("svc")],
                     [key |-> "_dd.measured", value |-> Undefined]>>
<1>1. /\ calls \in Seq(CallRecords) /\ spanTags \in Seq(Seq(Tags)) /\ told \in Seq(Seq(Words))
      /\ Len(spanTags) = n /\ Len(told) = n /\ n \in Nat /\ DOMAIN calls = 1 .. n
      /\ callStack \in Seq(DOMAIN calls) /\ DOMAIN reported \subseteq DOMAIN calls
      /\ \A c \in DOMAIN calls : calls[c].parent \in DOMAIN calls \cup {0}
      /\ \A c \in DOMAIN calls \ DOMAIN reported : ToldKept(spanTags[c], told[c])
      /\ \A c \in DOMAIN reported : ReportsErrors(reported[c], told[c])
  BY DEF CallsInv, CallsTyped, Telling
<1>2. record \in CallRecords /\ record.parent = parent
  <2>1. (IF parent = 0 THEN n + 1 ELSE calls[parent].root) \in Nat
    <3>1. CASE parent = 0
      BY <1>1, <3>1
    <3>2. CASE parent # 0
      <4>1. parent \in DOMAIN calls
        BY <1>1, <3>2
      <4>2. calls[parent] \in CallRecords
        BY <1>1, <4>1
      <4>3. calls[parent].root \in Nat
        BY <4>2 DEF CallRecords
      <4> QED  BY <3>2, <4>3
    <3> QED  BY <3>1, <3>2
  <2> QED  BY <1>1, <2>1 DEF CallRecords
<1>3. /\ tags \in Seq(Tags) /\ DOMAIN tags = {1, 2}
      /\ tags[1].key = "service.name" /\ tags[1].value.type = "string"
      /\ tags[2].key = "_dd.measured" /\ tags[2].value.type = "undefined"
  <2>1. Str("svc") \in Scalars /\ Undefined \in Scalars /\ Undefined.type = "undefined" /\ Str("svc").type = "string"
    BY TextsAre, StrIs DEF Undefined, Scalars, ScalarTypes
  <2>2. /\ [key |-> "service.name", value |-> Str("svc")] \in Tags
        /\ [key |-> "_dd.measured", value |-> Undefined] \in Tags
    BY <2>1, TextsAre DEF Tags
  <2>3. tags \in Seq(Tags)
    BY <2>2
  <2>4. DOMAIN tags = {1, 2}
    OBVIOUS
  <2> QED  BY <2>1, <2>3, <2>4
<1>4. /\ calls' = Append(calls, record) /\ callStack' = Append(callStack, n + 1)
      /\ spanTags' = Append(spanTags, tags) /\ told' = Append(told, <<>>) /\ reported' = reported
  BY DEF Call
<1> HIDE DEF n, record, tags
<1>5. ToldKept(tags, <<>>)
  <2>1. \A k \in DOMAIN tags : Sound(tags[k], ErrorsOf(<<>>)) /\ ~Tells(tags[k])
    BY <1>3 DEF Sound, Tells
  <2>2. WaysOf(<<>>) = {}
    BY DEF WaysOf
  <2> QED  BY <2>1, <2>2, TagsTellIs DEF ToldKept
<1>6. /\ calls' \in Seq(CallRecords) /\ DOMAIN calls' = 1 .. n + 1 /\ Len(calls') = n + 1
      /\ calls'[n + 1] = record /\ \A c \in 1 .. n : calls'[c] = calls[c]
  BY <1>1, <1>2, <1>4 DEF n
<1>7. /\ spanTags' \in Seq(Seq(Tags)) /\ Len(spanTags') = n + 1
      /\ spanTags'[n + 1] = tags /\ \A c \in 1 .. n : spanTags'[c] = spanTags[c]
  BY <1>1, <1>3, <1>4
<1>8. /\ told' \in Seq(Seq(Words)) /\ Len(told') = n + 1
      /\ told'[n + 1] = <<>> /\ \A c \in 1 .. n : told'[c] = told[c]
  BY <1>1, <1>4
<1>9. callStack' \in Seq(DOMAIN calls')
  <2>1. callStack \in Seq(1 .. n + 1) /\ n + 1 \in 1 .. n + 1
    BY <1>1
  <2> QED  BY <1>4, <1>6, <2>1
<1>10. \A c \in DOMAIN calls' : calls'[c].parent \in DOMAIN calls' \cup {0}
  <2>1. parent \in 1 .. n \cup {0}
    BY <1>1 DEF n
  <2> SUFFICES ASSUME NEW c \in 1 .. n + 1 PROVE calls'[c].parent \in 1 .. n + 1 \cup {0}
    BY <1>6
  <2>2. CASE c = n + 1
    BY <1>1, <1>2, <1>6, <2>1, <2>2
  <2>3. CASE c # n + 1
    <3>1. c \in 1 .. n
      BY <1>1, <2>3
    <3>2. calls'[c].parent \in 1 .. n \cup {0}
      BY <1>1, <1>6, <3>1
    <3> QED  BY <1>1, <3>2
  <2> QED  BY <2>2, <2>3
<1>11. CallsTyped'
  BY <1>1, <1>4, <1>6, <1>9, <1>10 DEF CallsTyped
<1>12. \A c \in DOMAIN calls' \ DOMAIN reported' : ToldKept(spanTags'[c], told'[c])
  BY <1>1, <1>4, <1>5, <1>6, <1>7, <1>8
<1>13. \A c \in DOMAIN reported' : ReportsErrors(reported'[c], told'[c])
  BY <1>1, <1>4, <1>8
<1>14. Telling(spanTags, told)'
  BY <1>6, <1>7, <1>8, <1>12, <1>13 DEF Telling
<1> QED  BY <1>11, <1>14 DEF CallsInv

LEMMA UserTagIs ==
    ASSUME NEW k \in DOMAIN UserTags
    PROVE  /\ UserTags[k].key \in Texts /\ UserTags[k].value \in Scalars \cup Objects
           /\ Text(UserTags[k].value) \in Texts
           /\ UserTags[k].key \notin {"error", "error.message"} /\ UserTags[k].value.type = "object" =>
                 \A j \in DOMAIN UserTags[k].value.of : UserTags[k].value.of[j].key # "error.message"
<1> DEFINE tag == UserTags[k]
<1>1. IF tag.value.type # "object" THEN tag \in ScalarTags
      ELSE /\ tag \in ObjectTags
           /\ tag.key # "error" => \A j \in DOMAIN tag.value.of : tag.value.of[j].key # "error.message"
  BY CallsAssumption
<1> HIDE DEF tag
<1>2. STRING \subseteq Texts
  BY TextsAre
<1>3. ScalarTags \subseteq Properties
  BY <1>2 DEF ScalarTags, Properties, Scalars
<1>4. CASE tag.value.type # "object"
  <2>1. tag \in Properties
    BY <1>1, <1>3, <1>4
  <2>2. tag.key \in Texts /\ tag.value \in Scalars
    BY <2>1 DEF Properties
  <2>3. Text(tag.value) \in Texts
    BY <1>4, <2>2 DEF Text, Scalars
  <2> QED  BY <1>4, <2>2, <2>3 DEF tag
<1>5. CASE tag.value.type = "object"
  <2>1. tag \in ObjectTags
    BY <1>1, <1>5
  <2>2. /\ tag.key \in Texts
        /\ tag.value \in [type : {"object"}, of : Seq(ScalarTags)]
    BY <1>2, <2>1 DEF ObjectTags
  <2>3. Seq(ScalarTags) \subseteq Seq(Properties)
    BY <1>3
  <2>4. tag.value \in Objects
    BY <2>2, <2>3 DEF Objects
  <2>5. Text(tag.value) \in Texts
    BY <1>5, TextsAre DEF Text
  <2>6. tag.key # "error" => \A j \in DOMAIN tag.value.of : tag.value.of[j].key # "error.message"
    BY <1>1, <1>5
  <2> QED  BY <2>2, <2>4, <2>5, <2>6 DEF tag
<1> QED  BY <1>4, <1>5

\* What a span is told once more, if it is not reported.
LEMMA ToldIs ==
    ASSUME CallsInv, NEW c \in DOMAIN calls, NEW how, NEW failure
    PROVE  /\ c \in DOMAIN reported => Told(c, how, failure) = told
           /\ c \notin DOMAIN reported =>
                 Told(c, how, failure) = [told EXCEPT ![c] = Append(told[c], Word(how, failure))]
BY CallIs, Zenon DEF Told, Word

LEMMA TagIsSet ==
    ASSUME CallsInv, NEW c \in DOMAIN calls, NEW k \in DOMAIN UserTags, SetTag(c, k)
    PROVE  CallsInv'
<1> DEFINE key == UserTags[k].key
           value == UserTags[k].value
           ts == Assigned(spanTags[c], key, value)
<1>1. /\ c \notin DOMAIN reported /\ spanTags' = [spanTags EXCEPT ![c] = ts]
      /\ told' = IF key \in {"error", "error.message"} THEN Told(c, "tag", Text(value)) ELSE told
      /\ UNCHANGED <<calls, callStack, ended, reported>>
  BY CallIs, Zenon DEF SetTag
<1>2. /\ key \in Texts /\ value \in Scalars \cup Objects /\ Text(value) \in Texts
      /\ key \notin {"error", "error.message"} /\ value.type = "object" =>
            \A j \in DOMAIN value.of : value.of[j].key # "error.message"
  BY UserTagIs
<1>3. /\ spanTags[c] \in Seq(Tags) /\ told[c] \in Seq(Words) /\ ToldKept(spanTags[c], told[c])
  BY <1>1, CallIs
<1> HIDE DEF key, value
<1>4. ts \in Seq(Tags)
  BY <1>2, <1>3, AssignedIs
<1>5. Telling(spanTags', told')
  <2>1. CASE key \in {"error", "error.message"}
    <3> DEFINE ws == Append(told[c], Word("tag", Text(value)))
    <3>1. ws \in Seq(Words) /\ "tag" \in WaysOf(ws)
      BY <1>2, <1>3, WordIs
    <3>2. told' = [told EXCEPT ![c] = ws]
      BY <1>1, <2>1, ToldIs
    <3>3. ToldKept(ts, ws)
      BY <3>1 DEF ToldKept
    <3> HIDE DEF ts, ws
    <3> QED  BY <1>1, <1>4, <3>1, <3>2, <3>3, TellingStays
  <2>2. CASE key \notin {"error", "error.message"}
    <3>1. ToldKept(ts, told[c])
      BY <1>2, <1>3, <2>2, PlainTagKeeps
    <3>2. told' = told
      BY <1>1, <2>2
    <3> HIDE DEF ts
    <3> QED  BY <1>1, <1>4, <3>1, <3>2, TellingStays
  <2> QED  BY <2>1, <2>2
<1> QED  BY <1>1, <1>5, FinishKeeps DEF CallsInv, CallsTyped

\* A failure thrown in a span: its tags, and what it was told.
LEMMA ThrowTells ==
    ASSUME CallsInv, NEW c \in DOMAIN calls, NEW failure \in Failures, NEW ts,
           ts \in {WithErrorTag(spanTags[c], failure), WithError(WithErrorTag(spanTags[c], failure), failure)}
    PROVE  Telling([spanTags EXCEPT ![c] = ts], Told(c, "thrown", failure))
<1> DEFINE ws == Append(told[c], Word("thrown", failure))
           us == WithErrorTag(spanTags[c], failure)
<1>1. spanTags[c] \in Seq(Tags) /\ told[c] \in Seq(Words) /\ failure \in Texts
  BY CallIs, FailuresAre
<1>2. ws \in Seq(Words) /\ failure \in ErrorsOf(ws) /\ "thrown" \in WaysOf(ws)
  BY <1>1, WordIs
<1>3. Assigned(spanTags[c], "error", IF failure = "other" THEN Str(failure) ELSE Err(failure)) \in Seq(Tags)
  BY <1>1, FailuresAre, TextsAre, AssignedIs
<1>4. us \in Seq(Tags)
  BY <1>3, Zenon DEF WithErrorTag
<1>5. WithError(us, failure) \in Seq(Tags)
  <2>1. Assigned(us, "error.message", Str(failure)) \in Seq(Tags)
    BY <1>4, FailuresAre, TextsAre, AssignedIs
  <2> QED  BY <1>4, <2>1 DEF WithError
<1>6. ts \in Seq(Tags)
  BY <1>4, <1>5
<1>7. CASE c \in DOMAIN reported
  BY <1>6, <1>7, ToldIs, TellingStays
<1>8. CASE c \notin DOMAIN reported
  <2>1. ToldKept(spanTags[c], told[c])
    BY <1>8, CallIs
  <2>2. ToldKept(us, ws)
    BY <1>1, <2>1, ThrownKeeps
  <2>3. Told(c, "thrown", failure) = [told EXCEPT ![c] = ws]
    BY <1>8, ToldIs
  <2> HIDE DEF us, ws
  <2>4. ToldKept(WithError(us, failure), ws)
    BY <1>2, <1>4, <2>2, AddedKeeps
  <2>5. ToldKept(ts, ws)
    BY <2>2, <2>4 DEF us
  <2> QED  BY <1>2, <1>6, <1>8, <2>3, <2>5, TellingStays
<1> QED  BY <1>7, <1>8

LEMMA FunctionThrows ==
    ASSUME CallsInv, NEW failure \in Failures, Throw(failure)
    PROVE  CallsInv'
<1>1. Top \in DOMAIN calls /\ Front(callStack) \in Seq(DOMAIN calls)
  BY TopIs DEF Throw
<1> DEFINE ts == WithError(WithErrorTag(spanTags[Top], failure), failure)
<1>2. /\ spanTags' = [spanTags EXCEPT ![Top] = ts] /\ told' = Told(Top, "thrown", failure)
      /\ Finish(Top) /\ callStack' = Front(callStack) /\ calls' = calls
  BY <1>1, CallIs, Zenon DEF Throw
<1> DEFINE c == Top
<1>3. Telling([spanTags EXCEPT ![c] = ts], Told(c, "thrown", failure))
  BY <1>1, ThrowTells
<1> QED  BY <1>1, <1>2, <1>3, FinishKeeps DEF CallsInv, CallsTyped

LEMMA CallbackThrows ==
    ASSUME CallsInv, NEW d \in DOMAIN calls, NEW failure \in Failures, BoundThrows(d, failure)
    PROVE  CallsInv'
<1> DEFINE c == calls[d].parent
           ts == WithErrorTag(spanTags[c], failure)
<1>1. c \in DOMAIN calls
  BY CallIs DEF BoundThrows
<1>2. /\ spanTags' = [spanTags EXCEPT ![c] = ts] /\ told' = Told(c, "thrown", failure)
      /\ UNCHANGED <<calls, callStack, ended, reported>>
  BY <1>1, CallIs, Zenon DEF BoundThrows
<1> HIDE DEF c
<1>3. Telling([spanTags EXCEPT ![c] = ts], Told(c, "thrown", failure))
  BY <1>1, ThrowTells
<1> QED  BY <1>2, <1>3, FinishKeeps DEF CallsInv, CallsTyped

\* A span is told of an Error, or of nothing.
LEMMA AddErrorTells ==
    ASSUME CallsInv, NEW c \in DOMAIN calls, NEW failure \in Failures \cup {"none"}, AddError(c, failure)
    PROVE  Telling(spanTags', told')
<1> DEFINE ts == WithError(spanTags[c], failure)
<1>1. /\ spanTags' = [spanTags EXCEPT ![c] = ts]
      /\ told' = IF failure \in {"none", "other"} THEN told ELSE Told(c, "told", failure)
  BY CallIs, Zenon DEF AddError
<1>2. /\ spanTags[c] \in Seq(Tags) /\ told[c] \in Seq(Words)
      /\ c \notin DOMAIN reported => ToldKept(spanTags[c], told[c])
  BY CallIs
<1>3. CASE failure \in {"none", "other"}
  <2>1. ts = spanTags[c] /\ told' = told
    BY <1>1, <1>3 DEF WithError
  <2> HIDE DEF ts
  <2> QED  BY <1>1, <1>2, <2>1, TellingStays
<1>4. CASE failure \notin {"none", "other"}
  <2> DEFINE ws == Append(told[c], Word("told", failure))
  <2>1. failure \in Failures \ {"other"} /\ failure \in Texts
    BY <1>4, FailuresAre
  <2>2. ws \in Seq(Words)
    BY <1>2, <2>1, WordIs
  <2>3. ts \in Seq(Tags)
    <3>1. Assigned(spanTags[c], "error.message", Str(failure)) \in Seq(Tags)
      BY <1>2, <2>1, FailuresAre, TextsAre, AssignedIs
    <3> QED  BY <1>2, <3>1 DEF WithError
  <2>4. CASE c \in DOMAIN reported
    <3>1. told' = told
      BY <1>1, <1>4, <2>4, ToldIs
    <3> HIDE DEF ts
    <3> QED  BY <1>1, <2>3, <2>4, <3>1, TellingStays
  <2>5. CASE c \notin DOMAIN reported
    <3>1. told' = [told EXCEPT ![c] = ws]
      BY <1>1, <1>4, <2>5, ToldIs
    <3>2. ToldKept(ts, ws)
      BY <1>2, <2>1, <2>5, ToldKeeps
    <3> HIDE DEF ts, ws
    <3> QED  BY <1>1, <2>2, <2>3, <2>5, <3>1, <3>2, TellingStays
  <2> QED  BY <2>4, <2>5
<1> QED  BY <1>3, <1>4

LEMMA PromiseChanges ==
    ASSUME CallsInv, NEW d \in DOMAIN calls, NEW promise \in {"none", "pending", "settled"},
           calls' = [calls EXCEPT ![d].promise = promise]
    PROVE  /\ calls' \in Seq(CallRecords) /\ Len(calls') = Len(calls)
           /\ \A c \in DOMAIN calls : calls'[c].parent = calls[c].parent
<1>1. calls \in Seq(CallRecords)
  BY DEF CallsInv, CallsTyped
<1> DEFINE record == [calls[d] EXCEPT !.promise = promise]
<1>2. calls[d] \in CallRecords
  BY <1>1
<1>3. record \in CallRecords /\ record.parent = calls[d].parent
  BY <1>2 DEF CallRecords
<1>4. calls' = [calls EXCEPT ![d] = record]
  BY <1>1, Zenon
<1> HIDE DEF record
<1> QED  BY <1>1, <1>3, <1>4

LEMMA CallsSteps == CallsInv /\ [CallsNext]_callVars => CallsInv'
<1> SUFFICES ASSUME CallsInv, [CallsNext]_callVars PROVE CallsInv'
  OBVIOUS
<1>1. /\ calls \in Seq(CallRecords) /\ callStack \in Seq(DOMAIN calls)
      /\ Telling(spanTags, told)
  BY DEF CallsInv, CallsTyped
<1>2. ASSUME UNCHANGED <<calls, callStack, spanTags, ended, reported, told>> PROVE CallsInv'
  BY <1>2 DEF CallsInv, CallsTyped, Telling
<1>3. CASE Catch
  BY <1>2, <1>3 DEF Catch
<1>4. CASE ReturnValue
  <2>1. Top \in DOMAIN calls /\ Front(callStack) \in Seq(DOMAIN calls)
    BY <1>4, TopIs DEF ReturnValue
  <2>2. Finish(Top) \/ UNCHANGED <<ended, reported>>
    BY <1>4, Zenon DEF ReturnValue
  <2>3. spanTags' = spanTags /\ told' = told /\ calls' = calls /\ callStack' = Front(callStack)
    BY <1>4 DEF ReturnValue
  <2>4. Telling(spanTags', told')
    BY <1>1, <2>3, Zenon
  <2> QED  BY <1>1, <2>1, <2>2, <2>3, <2>4, FinishKeeps
<1>5. CASE ReturnPending
  <2> DEFINE c == Top
  <2>1. c \in DOMAIN calls /\ Front(callStack) \in Seq(DOMAIN calls)
    BY <1>5, TopIs DEF ReturnPending
  <2>2. /\ calls' = [calls EXCEPT ![c].promise = "pending"]
        /\ callStack' = Front(callStack) /\ spanTags' = spanTags /\ told' = told
        /\ UNCHANGED <<ended, reported>>
    BY <1>5 DEF ReturnPending
  <2> HIDE DEF c
  <2>3. /\ calls' \in Seq(CallRecords) /\ Len(calls') = Len(calls)
        /\ \A d \in DOMAIN calls : calls'[d].parent = calls[d].parent
    BY <2>1, <2>2, PromiseChanges
  <2>4. Telling(spanTags', told')
    BY <1>1, <2>2, Zenon
  <2> QED  BY <2>1, <2>2, <2>3, <2>4, FinishKeeps
<1>6. ASSUME NEW c \in DOMAIN calls, NEW failure \in Failures \cup {"none"}, SettlePromise(c, failure)
      PROVE  CallsInv'
  <2>1. /\ calls' = [calls EXCEPT ![c].promise = "settled"] /\ callStack' = callStack
        /\ \/ UNCHANGED <<spanTags, told, ended, reported>>
           \/ AddError(c, failure) /\ Finish(c)
    BY <1>6, Zenon DEF SettlePromise
  <2>2. /\ calls' \in Seq(CallRecords) /\ Len(calls') = Len(calls)
        /\ \A d \in DOMAIN calls : calls'[d].parent = calls[d].parent
    BY <2>1, PromiseChanges
  <2>3. Telling(spanTags', told')
    <3>1. CASE UNCHANGED <<spanTags, told, ended, reported>>
      BY <1>1, <3>1, Zenon
    <3>2. CASE AddError(c, failure)
      BY <3>2, AddErrorTells
    <3> QED  BY <2>1, <3>1, <3>2
  <2>4. Finish(c) \/ UNCHANGED <<ended, reported>>
    BY <2>1
  <2> QED  BY <1>1, <2>1, <2>2, <2>3, <2>4, FinishKeeps
<1>7. ASSUME NEW c \in DOMAIN calls, NEW failure \in Failures \cup {"none"}, Done(c, failure)
      PROVE  CallsInv'
  <2>1. AddError(c, failure) /\ Finish(c) /\ UNCHANGED <<calls, callStack>>
    BY <1>7 DEF Done
  <2>2. Telling(spanTags', told')
    BY <2>1, AddErrorTells
  <2> QED  BY <1>1, <2>1, <2>2, FinishKeeps
<1>8. CASE UNCHANGED callVars
  BY <1>2, <1>8 DEF callVars
<1> QED
  BY <1>3, <1>4, <1>5, <1>6, <1>7, <1>8, CallStarts, TagIsSet, FunctionThrows, CallbackThrows
     DEF CallsNext

LEMMA CallsInvImplies == CallsInv => ErrorsReported
<1> SUFFICES ASSUME CallsInv PROVE ErrorsReported
  OBVIOUS
<1>1. \A c \in DOMAIN reported : ReportsErrors(reported[c], told[c])
  BY DEF CallsInv, Telling
<1> QED  BY <1>1, Zenon DEF ErrorsReported, ReportsErrors, Ways, Errors

\* Whatever calls, failures and callbacks there are (tracer.ts, scope.ts), a
\* span reports an error exactly if it was told of one or failed with one before
\* its trace was complete, with a message of those, the last it was told.
THEOREM ErrorsAreReported == CallsSpec => []ErrorsReported
<1> QED  BY CallsAtStart, CallsSteps, CallsInvImplies, PTL DEF CallsSpec

-----------------------------------------------------------------------------
(* The OpenTelemetry bridge.                                               *)

\* What the counts are about: the spans that were started, and the processors
\* that were registered by then.
Typed ==
    /\ Started \subseteq OtelSpans
    /\ endedSpans \subseteq Started /\ below \subseteq endedSpans
    /\ registered \in [Started -> SUBSET OtelProcessors]
    /\ processors \in Seq(OtelProcessors)
    /\ onStarts \in [OtelProcessors \X OtelSpans -> Nat]
    /\ onEnds \in [OtelProcessors \X OtelSpans -> Nat]

\* Processors are never removed.
StillThere == \A s \in Started : registered[s] \subseteq ToSet(processors)

\* Nobody hears of a span before it starts, nor of its end before it ends.
Silence ==
    /\ \A p \in OtelProcessors, s \in OtelSpans \ Started : onStarts[<<p, s>>] = 0
    /\ \A p \in OtelProcessors, s \in OtelSpans \ endedSpans : onEnds[<<p, s>>] = 0

\* The inductive invariant.
PairedInv == Typed /\ StillThere /\ Silence /\ ProcessorsPaired

\* What MultiSpanProcessor does to the counts of a span: one more for each
\* processor there is.
LEMMA CalledCounts ==
    ASSUME NEW heard \in [OtelProcessors \X OtelSpans -> Nat], NEW s \in OtelSpans
    PROVE  /\ Called(heard, s) \in [OtelProcessors \X OtelSpans -> Nat]
           /\ \A p \in OtelProcessors, x \in OtelSpans :
                 Called(heard, s)[<<p, x>>] =
                     IF x = s /\ p \in ToSet(processors) THEN heard[<<p, x>>] + 1 ELSE heard[<<p, x>>]
<1>1. \A c \in OtelProcessors \X OtelSpans : heard[c] \in Nat
  OBVIOUS
<1>2. Called(heard, s) =
        [c \in OtelProcessors \X OtelSpans |->
            IF c[2] = s /\ c[1] \in ToSet(processors) THEN heard[c] + 1 ELSE heard[c]]
  BY DEF Called
<1>3. Called(heard, s) \in [OtelProcessors \X OtelSpans -> Nat]
  BY <1>1, <1>2
<1> QED
  BY <1>2, <1>3

\* Adding a processor keeps the others.
LEMMA AppendKeeps ==
    ASSUME NEW seq \in Seq(OtelProcessors), NEW p \in OtelProcessors
    PROVE  /\ Append(seq, p) \in Seq(OtelProcessors)
           /\ ToSet(seq) \subseteq ToSet(Append(seq, p))
BY DEF ToSet

\* The processors of a sequence of them.
LEMMA ToSetOf ==
    ASSUME NEW seq \in Seq(OtelProcessors)
    PROVE  ToSet(seq) \subseteq OtelProcessors
BY DEF ToSet

LEMMA PairedAtStart == OtelInit => PairedInv
<1> SUFFICES ASSUME OtelInit PROVE PairedInv
  OBVIOUS
<1>1. Started = {}
  BY DEF OtelInit, Started
<1>2. registered \in [Started -> SUBSET OtelProcessors]
  BY <1>1 DEF OtelInit
<1>3. /\ onStarts \in [OtelProcessors \X OtelSpans -> Nat]
      /\ onEnds \in [OtelProcessors \X OtelSpans -> Nat]
      /\ \A p \in OtelProcessors, s \in OtelSpans :
            onStarts[<<p, s>>] = 0 /\ onEnds[<<p, s>>] = 0
  BY DEF OtelInit
<1>4. Typed /\ StillThere /\ Silence
  BY <1>1, <1>2, <1>3 DEF OtelInit, Typed, StillThere, Silence
<1> QED
  BY <1>1, <1>4 DEF PairedInv, ProcessorsPaired

\* A span starts: the processors there are now are its own.
LEMMA CreatedKeepsPairs ==
    ASSUME PairedInv, NEW s \in OtelSpans, NEW parent, Created(s, parent),
           UNCHANGED <<endedSpans, below, processors, onEnds>>
    PROVE  PairedInv'
<1>1. Started' = Started \cup {s} /\ s \notin Started
  BY DEF Created, Started, WithSpan
<1>2. registered' \in [Started' -> SUBSET OtelProcessors]
      /\ registered'[s] = ToSet(processors)
      /\ \A x \in Started : registered'[x] = registered[x]
  <2>1. DOMAIN registered = Started /\ ToSet(processors) \subseteq OtelProcessors
    BY ToSetOf DEF PairedInv, Typed
  <2>2. registered' = [x \in Started' |-> IF x = s THEN ToSet(processors) ELSE registered[x]]
    BY <1>1, <2>1 DEF Created, WithSpan
  <2> QED
    BY <1>1, <2>1, <2>2 DEF PairedInv, Typed
<1>3. /\ onStarts' \in [OtelProcessors \X OtelSpans -> Nat]
      /\ \A p \in OtelProcessors, x \in OtelSpans :
            onStarts'[<<p, x>>] =
                IF x = s /\ p \in ToSet(processors) THEN onStarts[<<p, x>>] + 1 ELSE onStarts[<<p, x>>]
  <2>1. onStarts \in [OtelProcessors \X OtelSpans -> Nat] /\ onStarts' = Called(onStarts, s)
    BY DEF PairedInv, Typed, Created
  <2> QED
    BY <2>1, CalledCounts
<1>4. Typed'
  BY <1>1, <1>2, <1>3 DEF PairedInv, Typed
<1>5. StillThere'
  BY <1>1, <1>2 DEF PairedInv, StillThere
<1>6. Silence'
  BY <1>1, <1>3 DEF PairedInv, Silence
<1>7. ProcessorsPaired'
  <2> SUFFICES ASSUME NEW p \in OtelProcessors, NEW x \in Started'
               PROVE  /\ onStarts'[<<p, x>>] = IF p \in registered'[x] THEN 1 ELSE 0
                      /\ p \in registered'[x] => onEnds[<<p, x>>] = IF x \in endedSpans \ below THEN 1 ELSE 0
                      /\ onEnds[<<p, x>>] \leq (IF x \in below THEN 0 ELSE 1)
    BY DEF ProcessorsPaired
  <2>1. CASE x = s
    <3>1. onStarts[<<p, x>>] = 0 /\ onEnds[<<p, x>>] = 0
          /\ x \notin endedSpans /\ x \notin below
      BY <1>1, <2>1 DEF PairedInv, Silence, Typed
    <3> QED
      BY <1>2, <1>3, <2>1, <3>1
  <2>2. CASE x # s
    <3>1. x \in Started /\ x \in OtelSpans
      BY <1>1, <2>2 DEF PairedInv, Typed
    <3> QED
      BY <1>2, <1>3, <2>2, <3>1 DEF PairedInv, ProcessorsPaired
  <2> QED
    BY <2>1, <2>2
<1> QED
  BY <1>4, <1>5, <1>6, <1>7 DEF PairedInv

\* Who is killed with a span had not ended.
LEMMA KilledWereOpen ==
    ASSUME NEW s
    PROVE  KilledWith(s) \subseteq Started \ (endedSpans \cup {s})
BY DEF KilledWith

\* A span ends, once: every processor there is hears of it, and of no span that
\* is killed with it.
LEMMA EndKeepsPairs ==
    ASSUME PairedInv, NEW s \in OtelSpans, End(s)
    PROVE  PairedInv'
<1> DEFINE killed == KilledWith(s)
<1>1. /\ Started' = Started /\ s \in Started /\ s \notin endedSpans
      /\ endedSpans' = endedSpans \cup {s} \cup killed /\ below' = below \cup killed
      /\ UNCHANGED <<traceOf, onStarts, registered, processors>>
  BY DEF End, Started, spanVars
<1>7. killed \subseteq Started \ (endedSpans \cup {s})
  BY KilledWereOpen
<1> HIDE DEF killed
<1>2. /\ onEnds' \in [OtelProcessors \X OtelSpans -> Nat]
      /\ \A p \in OtelProcessors, x \in OtelSpans :
            onEnds'[<<p, x>>] =
                IF x = s /\ p \in ToSet(processors) THEN onEnds[<<p, x>>] + 1 ELSE onEnds[<<p, x>>]
  <2>1. onEnds \in [OtelProcessors \X OtelSpans -> Nat] /\ onEnds' = Called(onEnds, s)
    BY DEF PairedInv, Typed, End
  <2> QED
    BY <2>1, CalledCounts
<1>3. Typed'
  BY <1>1, <1>2, <1>7 DEF PairedInv, Typed
<1>4. StillThere'
  BY <1>1 DEF PairedInv, StillThere
<1>5. Silence'
  BY <1>1, <1>2 DEF PairedInv, Silence
<1>6. ProcessorsPaired'
  <2> SUFFICES ASSUME NEW p \in OtelProcessors, NEW x \in Started
               PROVE  /\ onStarts[<<p, x>>] = IF p \in registered[x] THEN 1 ELSE 0
                      /\ p \in registered[x] =>
                           onEnds'[<<p, x>>] = IF x \in endedSpans' \ below' THEN 1 ELSE 0
                      /\ onEnds'[<<p, x>>] \leq (IF x \in below' THEN 0 ELSE 1)
    BY <1>1 DEF ProcessorsPaired
  <2>1. x \in OtelSpans
    BY DEF PairedInv, Typed
  <2>2. CASE x = s
    <3>1. onEnds[<<p, x>>] = 0 /\ x \notin below' /\ x \in endedSpans'
      BY <1>1, <1>7, <2>1, <2>2 DEF PairedInv, Silence, Typed
    <3>2. p \in registered[x] => p \in ToSet(processors)
      BY DEF PairedInv, StillThere
    <3> QED
      BY <1>2, <2>1, <2>2, <3>1, <3>2 DEF PairedInv, ProcessorsPaired
  <2>3. CASE x \in killed
    <3>1. onEnds'[<<p, x>>] = 0 /\ x \in below'
      BY <1>1, <1>2, <1>7, <2>1, <2>3 DEF PairedInv, Silence
    <3> QED
      BY <3>1 DEF PairedInv, ProcessorsPaired
  <2>4. CASE x # s /\ x \notin killed
    <3>1. onEnds'[<<p, x>>] = onEnds[<<p, x>>] /\ (x \in endedSpans' <=> x \in endedSpans)
          /\ (x \in below' <=> x \in below)
      BY <1>1, <1>2, <2>1, <2>4
    <3> QED
      BY <3>1 DEF PairedInv, ProcessorsPaired
  <2> QED
    BY <2>2, <2>3, <2>4
<1> QED
  BY <1>3, <1>4, <1>5, <1>6 DEF PairedInv

\* Spans are finished below the bridge: no processor hears of it.
LEMMA FinishKeepsPairs ==
    ASSUME PairedInv, NEW s \in OtelSpans, FinishActive(s)
    PROVE  PairedInv'
<1> DEFINE killed == KilledWith(s)
           gone == {s} \cup killed
<1>1. /\ Started' = Started /\ s \in Started /\ s \notin endedSpans
      /\ endedSpans' = endedSpans \cup gone /\ below' = below \cup gone
      /\ UNCHANGED <<traceOf, onStarts, registered, processors, onEnds>>
  BY DEF FinishActive, Started, spanVars
<1>2. gone \subseteq Started \ endedSpans
  BY <1>1, KilledWereOpen
<1> HIDE DEF gone, killed
<1>3. Typed' /\ StillThere' /\ Silence'
  BY <1>1, <1>2 DEF PairedInv, Typed, StillThere, Silence
<1>4. ProcessorsPaired'
  <2> SUFFICES ASSUME NEW p \in OtelProcessors, NEW x \in Started
               PROVE  /\ onStarts[<<p, x>>] = IF p \in registered[x] THEN 1 ELSE 0
                      /\ p \in registered[x] =>
                           onEnds[<<p, x>>] = IF x \in endedSpans' \ below' THEN 1 ELSE 0
                      /\ onEnds[<<p, x>>] \leq (IF x \in below' THEN 0 ELSE 1)
    BY <1>1 DEF ProcessorsPaired
  <2>1. x \in gone => onEnds[<<p, x>>] = 0
    BY <1>2 DEF PairedInv, Typed, Silence
  <2> QED
    BY <1>1, <1>2, <2>1 DEF PairedInv, ProcessorsPaired
<1> QED
  BY <1>3, <1>4 DEF PairedInv

\* A processor is added to those there are.
LEMMA AddKeepsPairs ==
    ASSUME PairedInv, NEW p \in OtelProcessors, AddSpanProcessor(p)
    PROVE  PairedInv'
<1>1. Started' = Started
  BY DEF AddSpanProcessor, Started, spanVars
<1>2. processors' \in Seq(OtelProcessors) /\ ToSet(processors) \subseteq ToSet(processors')
  BY AppendKeeps DEF PairedInv, Typed, AddSpanProcessor, spanVars
<1>3. Typed'
  BY <1>1, <1>2 DEF PairedInv, Typed, AddSpanProcessor, spanVars
<1>4. StillThere'
  BY <1>1, <1>2 DEF PairedInv, StillThere, AddSpanProcessor, spanVars
<1>5. Silence' /\ ProcessorsPaired'
  BY <1>1 DEF PairedInv, Silence, ProcessorsPaired, AddSpanProcessor, spanVars
<1> QED
  BY <1>3, <1>4, <1>5 DEF PairedInv

\* The scopes are nothing to the processors.
LEMMA OthersKeepPairs ==
    ASSUME PairedInv, UNCHANGED <<traceOf, endedSpans, below, processors, onStarts, onEnds, registered>>
    PROVE  PairedInv'
BY DEF PairedInv, Typed, StillThere, Silence, ProcessorsPaired, Started

\* Every step keeps the invariant.
LEMMA PairedSteps == PairedInv /\ [OtelNext]_otelVars => PairedInv'
<1> SUFFICES ASSUME PairedInv, [OtelNext]_otelVars PROVE PairedInv'
  OBVIOUS
<1>1. CASE \E s \in OtelSpans : StartActiveSpan(s)
  BY <1>1, CreatedKeepsPairs DEF StartActiveSpan
<1>2. CASE \E s \in OtelSpans \cup {0} : Enter(s)
  BY <1>2, OthersKeepPairs DEF Enter, spanVars
<1>3. CASE \E s \in OtelSpans : End(s)
  BY <1>3, EndKeepsPairs
<1>4. CASE \E s \in OtelSpans, parent \in OtelSpans \cup {0} : StartSpan(s, parent)
  BY <1>4, CreatedKeepsPairs DEF StartSpan
<1>5. CASE \E s \in OtelSpans : FinishActive(s)
  BY <1>5, FinishKeepsPairs
<1>6. CASE Leave \/ StartKilling
  BY <1>6, OthersKeepPairs DEF StartKilling, Leave, spanVars
<1>7. CASE \E p \in OtelProcessors : AddSpanProcessor(p)
  BY <1>7, AddKeepsPairs
<1>8. CASE UNCHANGED otelVars
  BY <1>8, OthersKeepPairs DEF otelVars, spanVars
<1> QED
  BY <1>1, <1>2, <1>3, <1>4, <1>5, <1>6, <1>7, <1>8 DEF OtelNext

\* A processor that was there when a span started hears of its start once and,
\* when Span.end has ended it, of its end once; one added since hears at most
\* once of the end; and none hears the end of a span that the program or killAll
\* finished below the bridge (MultiSpanProcessor, Span.end, SpanProcessor), for
\* any spans, traces and processors.
THEOREM ProcessorsArePaired == OtelSpec => []ProcessorsPaired
<1>1. PairedInv => ProcessorsPaired
  BY DEF PairedInv
<1> QED
  BY <1>1, PairedAtStart, PairedSteps, PTL DEF OtelSpec

-----------------------------------------------------------------------------
(* Propagation.                                                            *)

Contexts ==
    [lo : Int \ {NONE}, high : Int, wide : BOOLEAN, span : Int, parent : Int, rooted : BOOLEAN,
     priority : Int, mechanism : Int, origin : Origins, tid : Int, dm : Int, state : TraceStates]

Stories == [lo : Int, high : Int, kept : Int, misread : BOOLEAN]

\* A context of the trace the story is about.
OfStory(c) ==
    /\ c.lo = story.lo \/ (story.misread /\ c.lo = Misread)
    /\ Tid(HighDigits(c)) \in {story.high, NONE}
    /\ Tid(c.tid) \in {story.high, NONE}

\* Headers say what is known of the decision.
Decides(x) == story.kept # NONE => x.priority # NONE /\ Sampled(x.priority) = story.kept

\* The decision a context has is the trace's.
Agrees(c) == story.kept = IF c.priority = NONE THEN NONE ELSE Sampled(c.priority)

\* What another process wrote, and what may have been lost of it.
CarrierIsForeign ==
    \A style \in DOMAIN carrier :
        /\ style \in TextMapStyles \cup {"log"}
        /\ carrier[style] = Damaged \/ carrier[style] \in Headers(style)

\* The headers in the carrier are those of one context of the trace.
WrittenBy(c, fits) ==
    \A style \in DOMAIN carrier :
        carrier[style] = Damaged \/ carrier[style] = HeadersOf(style, c, fits)

CarrierIsOwn ==
    /\ DOMAIN carrier \subseteq TextMapStyles \/ DOMAIN carrier \subseteq {"log"}
    /\ DOMAIN carrier # {} =>
         \E c \in Contexts, fits \in BOOLEAN :
            /\ OfStory(c) /\ Agrees(c) /\ WrittenBy(c, fits)
            /\ ("log" \in DOMAIN carrier /\ Misspells(c, fits)) => story.misread

\* The inductive invariant.
PropagationTyped ==
    /\ ids \in Nat
    /\ context \in Contexts \cup {NoContext}
    /\ story \in Stories

PropagationInv ==
    /\ PropagationTyped
    /\ context = NoContext => story = NoStory /\ CarrierIsForeign
    /\ context # NoContext =>
          story.lo # NONE /\ OfStory(context) /\ Agrees(context) /\ CarrierIsOwn

LEMMA NotContexts == NoContext \notin Contexts /\ Throws \notin Contexts /\ NoContext # Throws
<1>1. DOMAIN NoContext = {"none"} /\ DOMAIN Throws = {"throws"}
  BY DEF NoContext, Throws
<1>2. ASSUME NEW c \in Contexts PROVE "lo" \in DOMAIN c
  BY DEF Contexts
<1> QED
  BY <1>1, <1>2

LEMMA HeadersUndamaged ==
    ASSUME NEW style \in TextMapStyles \cup {"log"}, NEW h \in Headers(style) PROVE h # Damaged
<1>1. DOMAIN Damaged = {"damaged"}
  BY DEF Damaged
<1>2. "lo" \in DOMAIN h
  BY DEF Headers, TextMapStyles
<1> QED
  BY <1>1, <1>2

LEMMA StatesTyped == NoState \in TraceStates
<1>1. "none" \in Origins
  BY PropagationAssumption
<1>2. <<>> \in Seq(STRING)
  OBVIOUS
<1> DEFINE dd == [s |-> NONE, origin |-> "none", tid |-> NONE, dm |-> NONE]
<1>3. NONE \in Int
  BY DEF NONE
<1>4. dd \in [s : Int, origin : Origins, tid : Int, dm : Int]
  BY <1>1, <1>3, Zenon
<1> QED
  BY <1>2, <1>4, Zenon DEF NoState, TraceStates

LEMMA ContextTyped ==
    ASSUME NEW lo \in Int \ {NONE}, NEW high \in Int, NEW wide \in BOOLEAN, NEW span \in Int,
           NEW priority \in Int
    PROVE  Context(lo, high, wide, span, priority) \in Contexts
<1>1. NONE \in Int
  BY DEF NONE
<1> QED
  BY <1>1, PropagationAssumption, StatesTyped, Zenon DEF Context, Contexts

LEMMA TidAgain == ASSUME NEW high \in Int PROVE Tid(high) \in Int /\ Tid(Tid(high)) = Tid(high)
BY DEF Tid, NONE, Zero

LEMMA ContextIs ==
    ASSUME NEW lo \in Int \ {NONE}, NEW high \in Int, NEW wide \in BOOLEAN, NEW span \in Int,
           NEW priority \in Int, NEW c, c = Context(lo, high, wide, span, priority)
    PROVE  c \in Contexts /\ c.lo = lo /\ c.high = high /\ c.wide = wide /\ c.span = span
           /\ c.priority = priority /\ c.tid = NONE
<1>1. c \in Contexts
  BY ContextTyped
<1> QED
  BY <1>1 DEF Context

LEMMA NoneIsInt == NONE \in Int
BY DEF NONE

\* What FromDatadog makes of headers.
LEMMA DatadogRead ==
    ASSUME NEW h \in Headers("datadog")
    PROVE  LET x == FromDatadog(h)
           IN /\ x \in Contexts
              /\ x.lo = h.lo /\ x.span = h.span /\ x.priority = h.priority
              /\ HighDigits(x) = h.tid /\ x.tid = h.tid
<1>1. h \in [lo : Int \ {NONE}, span : Int, priority : Int, origin : Origins, tid : Int, dm : Int]
  BY DEF Headers
<1>2. PICK base : base = Context(h.lo, NONE, FALSE, h.span, h.priority)
  OBVIOUS
<1>3. base \in Contexts /\ base.lo = h.lo /\ base.span = h.span /\ base.priority = h.priority
      /\ base.wide = FALSE
  <2>1. h.lo \in Int \ {NONE} /\ h.span \in Int /\ h.priority \in Int
    BY <1>1
  <2>2. PICK wide \in BOOLEAN : wide = FALSE
    OBVIOUS
  <2>3. base = Context(h.lo, NONE, wide, h.span, h.priority)
    BY <1>2, <2>2
  <2>4. base \in Contexts /\ base.lo = h.lo /\ base.span = h.span /\ base.priority = h.priority
        /\ base.wide = wide
    BY <2>1, <2>3, NoneIsInt, ContextIs
  <2> QED
    BY <2>2, <2>4
<1>4. PICK x : x = [base EXCEPT !.origin = h.origin, !.tid = h.tid, !.dm = h.dm]
  OBVIOUS
<1>5. x \in Contexts /\ x.tid = h.tid /\ x.lo = h.lo /\ x.span = h.span
      /\ x.priority = h.priority /\ x.wide = FALSE
  <2>1. h.origin \in Origins /\ h.tid \in Int /\ h.dm \in Int
    BY <1>1
  <2> QED
    BY <1>3, <1>4, <2>1, NoneIsInt DEF Contexts
<1>6. HighDigits(x) = h.tid
  BY <1>5 DEF HighDigits
<1>7. FromDatadog(h) = x
  BY <1>2, <1>4 DEF FromDatadog
<1> QED
  BY <1>5, <1>6, <1>7

\* What FromB3 makes of headers with ids.
LEMMA B3Read ==
    ASSUME NEW h \in Headers("b3multi"), NEW new, h.lo # NONE
    PROVE  LET x == FromB3(h, new)
           IN /\ x \in Contexts
              /\ x.lo = h.lo /\ x.span = h.span /\ x.priority = B3Priority(h)
              /\ Tid(HighDigits(x)) = Tid(h.high) /\ x.tid = Tid(h.high)
<1>1. h \in [high : Int, lo : Int, span : Int, sampled : Int, debug : BOOLEAN]
  BY DEF Headers
<1>2. B3Priority(h) \in Int /\ Tid(h.high) \in Int
  BY <1>1, TidAgain DEF B3Priority
<1>3. PICK wide \in BOOLEAN : wide = (h.high # NONE)
  OBVIOUS
<1>4. PICK base : base = Context(h.lo, h.high, wide, h.span, B3Priority(h))
  OBVIOUS
<1>5. base \in Contexts /\ base.lo = h.lo /\ base.span = h.span /\ base.priority = B3Priority(h)
      /\ base.wide = wide /\ base.high = h.high
  BY <1>1, <1>2, <1>4, ContextIs
<1>6. PICK x : x = [base EXCEPT !.tid = Tid(h.high)]
  OBVIOUS
<1>7. x \in Contexts /\ x.tid = Tid(h.high) /\ x.lo = h.lo /\ x.span = h.span
      /\ x.priority = B3Priority(h) /\ x.wide = wide /\ x.high = h.high
  <2>1. "none" \in Origins
    BY PropagationAssumption
  <2> QED
    BY <1>2, <1>5, <1>6, <2>1, NoneIsInt DEF Contexts
<1>8. Tid(HighDigits(x)) = Tid(h.high)
  BY <1>3, <1>7 DEF HighDigits, Tid
<1>9. FromB3(h, new) = x
  BY <1>3, <1>4, <1>6 DEF FromB3
<1> QED
  BY <1>7, <1>8, <1>9

\* What FromTraceContext makes of headers.
LEMMA TraceContextRead ==
    ASSUME NEW h \in [high : Int, lo : Int \ {NONE}, span : Int, flags : {0, 1}, state : TraceStates]
    PROVE  LET x == FromTraceContext(h)
           IN /\ x \in Contexts
              /\ x.lo = h.lo /\ x.span = h.span
              /\ x.priority = TracePriority(h.flags, h.state.dd.s) /\ x.priority # NONE
              /\ HighDigits(x) = h.high
              /\ x.tid = IF h.state.dd.tid # NONE THEN h.state.dd.tid ELSE Tid(h.high)
<1>1. PICK dd : dd = h.state.dd
  OBVIOUS
<1>2. dd \in [s : Int, origin : Origins, tid : Int, dm : Int]
  BY <1>1 DEF TraceStates
<1>3. PICK tid : tid = IF dd.tid # NONE THEN dd.tid ELSE Tid(h.high)
  OBVIOUS
<1>4. PICK mechanism : mechanism = IF dd.dm = NONE THEN NONE ELSE -dd.dm
  OBVIOUS
<1>5. PICK priority : priority = TracePriority(h.flags, dd.s)
  OBVIOUS
<1>6. tid \in Int /\ mechanism \in Int
  BY <1>2, <1>3, <1>4, TidAgain, NoneIsInt
<1>7. priority \in Int /\ priority # NONE
  BY <1>2, <1>5 DEF TracePriority, NONE
<1>8. PICK base : base = Context(h.lo, h.high, TRUE, h.span, priority)
  OBVIOUS
<1>9. base \in Contexts /\ base.lo = h.lo /\ base.span = h.span /\ base.priority = priority
      /\ base.wide = TRUE /\ base.high = h.high
  <2>1. h.lo \in Int \ {NONE} /\ h.high \in Int /\ h.span \in Int
    OBVIOUS
  <2>2. PICK wide \in BOOLEAN : wide = TRUE
    OBVIOUS
  <2>3. base = Context(h.lo, h.high, wide, h.span, priority)
    BY <1>8, <2>2
  <2>4. base \in Contexts /\ base.lo = h.lo /\ base.span = h.span /\ base.priority = priority
        /\ base.wide = wide /\ base.high = h.high
    BY <1>7, <2>1, <2>3, ContextIs
  <2> QED
    BY <2>2, <2>4
<1>10. PICK x : x = [base EXCEPT !.origin = dd.origin, !.tid = tid, !.mechanism = mechanism,
                                 !.dm = dd.dm, !.state = h.state]
  OBVIOUS
<1>11. x \in Contexts /\ x.tid = tid /\ x.lo = h.lo /\ x.span = h.span
       /\ x.priority = priority /\ x.wide = TRUE /\ x.high = h.high
  <2>1. dd.origin \in Origins /\ dd.dm \in Int /\ h.state \in TraceStates
    BY <1>2
  <2> QED
    BY <1>6, <1>9, <1>10, <2>1 DEF Contexts
<1>12. HighDigits(x) = h.high
  BY <1>11 DEF HighDigits
<1>13. FromTraceContext(h) = x
  BY <1>1, <1>3, <1>4, <1>5, <1>8, <1>10 DEF FromTraceContext
<1> QED
  BY <1>1, <1>3, <1>5, <1>7, <1>11, <1>12, <1>13

\* What FromLog makes of fields.
LEMMA LogRead ==
    ASSUME NEW h \in Headers("log")
    PROVE  LET x == FromLog(h)
           IN /\ x \in Contexts
              /\ x.lo = h.lo /\ x.span = h.span /\ x.priority = NONE
              /\ HighDigits(x) = h.high /\ x.tid = h.high
<1>1. h \in [lo : Int \ {NONE}, span : Int, high : Int]
  BY DEF Headers
<1>2. PICK base : base = Context(h.lo, NONE, FALSE, h.span, NONE)
  OBVIOUS
<1>3. base \in Contexts /\ base.lo = h.lo /\ base.span = h.span /\ base.priority = NONE
      /\ base.wide = FALSE
  <2>1. h.lo \in Int \ {NONE} /\ h.span \in Int
    BY <1>1
  <2>2. PICK wide \in BOOLEAN : wide = FALSE
    OBVIOUS
  <2>3. base = Context(h.lo, NONE, wide, h.span, NONE)
    BY <1>2, <2>2
  <2>4. base \in Contexts /\ base.lo = h.lo /\ base.span = h.span /\ base.priority = NONE
        /\ base.wide = wide
    BY <2>1, <2>3, NoneIsInt, ContextIs
  <2> QED
    BY <2>2, <2>4
<1>4. PICK x : x = [base EXCEPT !.tid = h.high]
  OBVIOUS
<1>5. x \in Contexts /\ x.tid = h.high /\ x.lo = h.lo /\ x.span = h.span
      /\ x.priority = NONE /\ x.wide = FALSE
  <2>1. h.high \in Int /\ "none" \in Origins
    BY <1>1, PropagationAssumption
  <2> QED
    BY <1>3, <1>4, <2>1, NoneIsInt DEF Contexts
<1>6. HighDigits(x) = h.high
  BY <1>5 DEF HighDigits
<1>7. FromLog(h) = x
  BY <1>2, <1>4 DEF FromLog
<1> QED
  BY <1>5, <1>6, <1>7

\* A context of two halves of a trace id that agree.
Halves(x) == x \in Contexts /\ Tid(x.tid) \in {Tid(HighDigits(x)), NONE}

\* What any process wrote is read as a context, whose halves of the trace id
\* agree, or as none.
LEMMA ForeignRead ==
    ASSUME NEW style \in TextMapStyles \cup {"log"}, NEW h \in Headers(style), NEW new \in Nat
    PROVE  FromHeaders(style, h, new) = NoContext \/ Halves(FromHeaders(style, h, new))
<1>1. CASE style = "datadog"
  <2>1. FromHeaders(style, h, new) = FromDatadog(h)
    BY <1>1 DEF FromHeaders
  <2>2. h \in Headers("datadog")
    BY <1>1
  <2> QED
    BY <2>1, <2>2, DatadogRead DEF Halves
<1>2. CASE style = "tracecontext"
  <2>1. FromHeaders(style, h, new) = FromTraceContext(h)
    BY <1>2 DEF FromHeaders
  <2>2. /\ h \in [high : Int, lo : Int \ {NONE}, span : Int, flags : {0, 1}, state : TraceStates]
        /\ h.state.dd.tid \in {NONE, Tid(h.high)}
    BY <1>2 DEF Headers
  <2>3. h.high \in Int /\ Tid(Tid(h.high)) = Tid(h.high)
    BY <2>2, TidAgain
  <2> QED
    BY <2>1, <2>2, <2>3, TraceContextRead DEF Halves
<1>3. CASE style = "log"
  <2>1. FromHeaders(style, h, new) = FromLog(h)
    BY <1>3 DEF FromHeaders
  <2>2. h \in Headers("log")
    BY <1>3
  <2> QED
    BY <2>1, <2>2, LogRead DEF Halves
<1>4. CASE style \in {"b3multi", "b3 single header"}
  <2>1. FromHeaders(style, h, new) = FromB3(h, new)
    BY <1>4 DEF FromHeaders
  <2>2. h \in Headers("b3multi")
    BY <1>4 DEF Headers
  <2>3. h \in [high : Int, lo : Int, span : Int, sampled : Int, debug : BOOLEAN]
    BY <2>2 DEF Headers
  <2>4. CASE h.lo # NONE
    <3>1. Tid(Tid(h.high)) = Tid(h.high)
      BY <2>3, TidAgain
    <3> QED
      BY <2>1, <2>2, <2>4, <3>1, B3Read DEF Halves
  <2>5. CASE h.lo = NONE /\ B3Priority(h) # NONE
    <3>1. FromB3(h, new) = Context(new, NONE, FALSE, NONE, B3Priority(h))
      BY <2>5 DEF FromB3
    <3>2. PICK wide \in BOOLEAN : wide = FALSE
      OBVIOUS
    <3>3. PICK x : x = Context(new, NONE, wide, NONE, B3Priority(h))
      OBVIOUS
    <3>4. new \in Int \ {NONE} /\ B3Priority(h) \in Int
      BY <2>3 DEF NONE, B3Priority
    <3>5. x \in Contexts /\ x.tid = NONE
      BY <3>3, <3>4, NoneIsInt, ContextIs
    <3> QED
      BY <2>1, <3>1, <3>2, <3>3, <3>5 DEF Tid, Halves
  <2>6. CASE h.lo = NONE /\ B3Priority(h) = NONE
    BY <2>1, <2>6 DEF FromB3
  <2> QED
    BY <2>4, <2>5, <2>6
<1> QED
  BY <1>1, <1>2, <1>3, <1>4 DEF TextMapStyles

\* The headers of a context of the trace are read as a context of the trace,
\* under the same parent and with the same decision if there is one, whatever the
\* style and whether or not the tags fitted.
LEMMA OwnRead ==
    ASSUME NEW c \in Contexts, OfStory(c), Agrees(c), story \in Stories,
           NEW fits \in BOOLEAN, NEW style \in TextMapStyles \cup {"log"}, NEW new,
           (style = "log" /\ Misspells(c, fits)) => story.misread
    PROVE  LET x == FromHeaders(style, HeadersOf(style, c, fits), new)
           IN /\ x \in Contexts /\ OfStory(x) /\ x.span = c.span
              /\ style = "log" => x.priority = NONE
              /\ style # "log" => x.lo = c.lo /\ Decides(x)
<1>1. /\ c.lo \in Int \ {NONE} /\ c.span \in Int /\ c.priority \in Int /\ c.tid \in Int
      /\ c.dm \in Int /\ c.origin \in Origins /\ c.wide \in BOOLEAN /\ c.high \in Int
      /\ c.mechanism \in Int /\ c.state.others \in Seq(STRING)
  BY DEF Contexts, TraceStates
<1>2. HighDigits(c) \in Int
  BY <1>1, NoneIsInt DEF HighDigits
<1>3. Decides(c) /\ Sampled(c.priority) \in {0, 1}
  BY <1>1 DEF Agrees, Decides, Sampled, Kept
<1>4. Tid(NONE) = NONE /\ Tid(Zero) = NONE
  BY DEF Tid
<1>5. CASE style = "datadog"
  <2>1. PICK h : h = DatadogHeaders(c, fits)
    OBVIOUS
  <2>2. h \in Headers("datadog") /\ h.lo = c.lo /\ h.span = c.span /\ h.priority = c.priority
        /\ h.tid \in {c.tid, NONE}
    BY <1>1, <2>1, NoneIsInt DEF Headers, DatadogHeaders
  <2>3. HeadersOf(style, c, fits) = h /\ FromHeaders(style, h, new) = FromDatadog(h)
    BY <1>5, <2>1 DEF HeadersOf, FromHeaders
  <2>4. PICK x : x = FromDatadog(h)
    OBVIOUS
  <2>5. x \in Contexts /\ x.lo = h.lo /\ x.span = h.span /\ x.priority = h.priority
        /\ HighDigits(x) = h.tid /\ x.tid = h.tid
    BY <2>2, <2>4, DatadogRead
  <2>6. OfStory(x) /\ Decides(x)
    BY <1>3, <1>4, <2>2, <2>5 DEF OfStory, Decides
  <2> QED
    BY <1>5, <2>2, <2>3, <2>4, <2>5, <2>6
<1>6. CASE style = "tracecontext"
  <2>1. PICK h : h = TraceContextHeaders(c)
    OBVIOUS
  <2>2. PICK dd : dd = DdState(c)
    OBVIOUS
  <2>3. dd \in [s : Int, origin : Origins, tid : Int, dm : Int] /\ dd.s = c.priority /\ dd.tid = c.tid
    BY <1>1, <2>2, NoneIsInt DEF DdState
  <2>4. h = [high |-> IF HighDigits(c) = NONE THEN Zero ELSE HighDigits(c), lo |-> c.lo,
             span |-> c.span, flags |-> Sampled(c.priority),
             state |-> [dd |-> dd, others |-> c.state.others]]
    BY <2>1, <2>2 DEF TraceContextHeaders
  <2>5. [dd |-> dd, others |-> c.state.others] \in TraceStates
    BY <1>1, <2>3 DEF TraceStates
  <2>6. Zero \in Int
    BY DEF Zero
  <2>7. h \in [high : Int, lo : Int \ {NONE}, span : Int, flags : {0, 1}, state : TraceStates]
    BY <1>1, <1>2, <1>3, <2>4, <2>5, <2>6
  <2>8. h.lo = c.lo /\ h.span = c.span /\ h.flags = Sampled(c.priority) /\ h.state.dd = dd
        /\ Tid(h.high) = Tid(HighDigits(c))
    BY <1>4, <2>4
  <2>9. HeadersOf(style, c, fits) = h /\ FromHeaders(style, h, new) = FromTraceContext(h)
    BY <1>6, <2>1 DEF HeadersOf, FromHeaders
  <2>10. PICK x : x = FromTraceContext(h)
    OBVIOUS
  <2>11. /\ x \in Contexts /\ x.lo = h.lo /\ x.span = h.span
         /\ x.priority = TracePriority(h.flags, h.state.dd.s) /\ x.priority # NONE
         /\ HighDigits(x) = h.high
         /\ x.tid = IF h.state.dd.tid # NONE THEN h.state.dd.tid ELSE Tid(h.high)
    BY <2>7, <2>10, TraceContextRead
  <2>12. Sampled(x.priority) = Sampled(c.priority)
    BY <1>1, <2>3, <2>8, <2>11 DEF TracePriority, Sampled, Kept, NONE
  <2>13. Decides(x)
    BY <1>3, <2>11, <2>12 DEF Decides
  <2>14. Tid(Tid(HighDigits(c))) = Tid(HighDigits(c))
    BY <1>2, TidAgain
  <2>15. OfStory(x)
    BY <2>3, <2>8, <2>11, <2>14 DEF OfStory
  <2> QED
    BY <1>6, <2>8, <2>9, <2>10, <2>11, <2>13, <2>15
<1>7. CASE style = "log"
  <2>1. PICK h : h = LogFields(c, fits)
    OBVIOUS
  <2>2. /\ h \in Headers("log") /\ h.span = c.span /\ h.high \in {c.tid, NONE}
        /\ h.lo = c.lo \/ (story.misread /\ h.lo = Misread)
    <3>1. CASE Misspells(c, fits)
      <4>1. h = [lo |-> Misread, span |-> c.span, high |-> NONE]
        BY <2>1, <3>1 DEF LogFields
      <4>2. Misread \in Int \ {NONE}
        BY DEF Misread, NONE
      <4> QED
        BY <1>1, <1>7, <3>1, <4>1, <4>2, NoneIsInt DEF Headers
    <3>2. CASE ~Misspells(c, fits)
      <4>1. PICK high \in Int : high = IF fits THEN c.tid ELSE NONE
        BY <1>1, NoneIsInt
      <4>2. h = [lo |-> c.lo, span |-> c.span, high |-> high]
        BY <2>1, <3>2, <4>1, Zenon DEF LogFields
      <4>3. h \in Headers("log")
        BY <1>1, <4>2 DEF Headers
      <4> QED
        BY <4>1, <4>2, <4>3
    <3> QED
      BY <3>1, <3>2
  <2>3. HeadersOf(style, c, fits) = h /\ FromHeaders(style, h, new) = FromLog(h)
    BY <1>7, <2>1 DEF HeadersOf, FromHeaders
  <2>4. PICK x : x = FromLog(h)
    OBVIOUS
  <2>5. x \in Contexts /\ x.lo = h.lo /\ x.span = h.span /\ x.priority = NONE
        /\ HighDigits(x) = h.high /\ x.tid = h.high
    BY <2>2, <2>4, LogRead
  <2>6. OfStory(x)
    BY <1>4, <2>2, <2>5 DEF OfStory
  <2> QED
    BY <1>7, <2>2, <2>3, <2>4, <2>5, <2>6
<1>8. CASE style \in {"b3multi", "b3 single header"}
  <2>1. PICK h : h = HeadersOf(style, c, fits)
    OBVIOUS
  <2>2. PICK debug \in BOOLEAN : debug = (style = "b3multi" /\ c.priority > 1)
    OBVIOUS
  <2>3. h = [high |-> HighDigits(c), lo |-> c.lo, span |-> c.span, sampled |-> Sampled(c.priority),
             debug |-> debug]
    <3>1. CASE style = "b3multi"
      <4>1. h = B3MultiHeaders(c)
        BY <2>1, <3>1 DEF HeadersOf
      <4>2. debug = (c.priority > 1)
        BY <2>2, <3>1
      <4> QED
        BY <4>1, <4>2, Zenon DEF B3MultiHeaders
    <3>2. CASE style = "b3 single header"
      <4>1. h = B3SingleHeader(c)
        BY <2>1, <3>2 DEF HeadersOf
      <4>2. debug = FALSE
        BY <2>2, <3>2
      <4> QED
        BY <4>1, <4>2, Zenon DEF B3SingleHeader
    <3> QED
      BY <1>8, <3>1, <3>2
  <2>4. h \in Headers("b3multi")
    BY <1>1, <1>2, <1>3, <2>3 DEF Headers
  <2>5. h.lo = c.lo /\ h.lo # NONE /\ h.span = c.span /\ h.high = HighDigits(c)
        /\ h.sampled = Sampled(c.priority) /\ h.debug = debug
    BY <1>1, <2>3
  <2>6. FromHeaders(style, h, new) = FromB3(h, new)
    BY <1>8 DEF FromHeaders
  <2>7. PICK x : x = FromB3(h, new)
    OBVIOUS
  <2>8. /\ x \in Contexts /\ x.lo = h.lo /\ x.span = h.span /\ x.priority = B3Priority(h)
        /\ Tid(HighDigits(x)) = Tid(h.high) /\ x.tid = Tid(h.high)
    BY <2>4, <2>5, <2>7, B3Read
  <2>9. B3Priority(h) # NONE /\ Sampled(B3Priority(h)) = Sampled(c.priority)
    <3>1. CASE debug
      <4>1. B3Priority(h) = 2 /\ c.priority > 1
        BY <2>2, <2>5, <3>1 DEF B3Priority
      <4> QED
        BY <1>1, <4>1 DEF Sampled, Kept, NONE
    <3>2. CASE ~debug
      <4>1. B3Priority(h) = Sampled(c.priority)
        BY <2>5, <3>2 DEF B3Priority
      <4> QED
        BY <1>1, <1>3, <4>1 DEF Sampled, Kept, NONE
    <3> QED
      BY <3>1, <3>2
  <2>10. Decides(x)
    BY <1>3, <2>8, <2>9 DEF Decides
  <2>11. Tid(Tid(HighDigits(c))) = Tid(HighDigits(c))
    BY <1>2, TidAgain
  <2>12. OfStory(x)
    BY <2>5, <2>8, <2>11 DEF OfStory
  <2> QED
    BY <1>8, <2>1, <2>5, <2>6, <2>7, <2>8, <2>9, <2>10, <2>12
<1> QED
  BY <1>5, <1>6, <1>7, <1>8 DEF TextMapStyles

LEMMA FromStyleIs ==
    ASSUME NEW style, NEW new
    PROVE  \/ FromStyle(style, new) \in {NoContext, Throws}
           \/ /\ style \in DOMAIN carrier /\ carrier[style] # Damaged
              /\ FromStyle(style, new) = FromHeaders(style, carrier[style], new)
<1>1. CASE style \notin DOMAIN carrier
  <2>1. FromStyle(style, new) = NoContext
    BY <1>1 DEF FromStyle
  <2> QED
    BY <2>1
<1>2. CASE style \in DOMAIN carrier /\ carrier[style] = Damaged
  <2>1. FromStyle(style, new) = IF style = "tracecontext" THEN Throws ELSE NoContext
    BY <1>2 DEF FromStyle
  <2> QED
    BY <2>1
<1>3. CASE style \in DOMAIN carrier /\ carrier[style] # Damaged
  BY <1>3 DEF FromStyle
<1> QED
  BY <1>1, <1>2, <1>3

\* What extract finds in the carrier of another process.
LEMMA FoundForeign ==
    ASSUME CarrierIsForeign, NEW style, NEW new \in Nat
    PROVE  FromStyle(style, new) \in {NoContext, Throws} \/ Halves(FromStyle(style, new))
<1>1. CASE style \in DOMAIN carrier /\ carrier[style] # Damaged
           /\ FromStyle(style, new) = FromHeaders(style, carrier[style], new)
  <2>1. style \in TextMapStyles \cup {"log"} /\ carrier[style] \in Headers(style)
    BY <1>1 DEF CarrierIsForeign
  <2>2. PICK h : h = carrier[style]
    OBVIOUS
  <2>3. style \in TextMapStyles \cup {"log"} /\ h \in Headers(style)
    BY <2>1, <2>2
  <2>4. FromHeaders(style, h, new) = NoContext \/ Halves(FromHeaders(style, h, new))
    BY <2>3, ForeignRead
  <2> QED
    BY <1>1, <2>2, <2>4
<1> QED
  BY <1>1, FromStyleIs

\* A context of the trace, with its decision or with none.
OfTrace(x) == x \in Contexts /\ OfStory(x) /\ (x.priority = NONE \/ Decides(x))

\* What extract finds in the carrier of a service of the trace.
LEMMA FoundOwn ==
    ASSUME PropagationTyped, CarrierIsOwn, NEW style, NEW new
    PROVE  FromStyle(style, new) \in {NoContext, Throws} \/ OfTrace(FromStyle(style, new))
<1>1. CASE style \in DOMAIN carrier /\ carrier[style] # Damaged
           /\ FromStyle(style, new) = FromHeaders(style, carrier[style], new)
  <2>1. PICK c \in Contexts, fits \in BOOLEAN :
           /\ OfStory(c) /\ Agrees(c) /\ WrittenBy(c, fits)
           /\ ("log" \in DOMAIN carrier /\ Misspells(c, fits)) => story.misread
    BY <1>1 DEF CarrierIsOwn
  <2>2. style \in TextMapStyles \cup {"log"} /\ carrier[style] = HeadersOf(style, c, fits)
    BY <1>1, <2>1 DEF CarrierIsOwn, WrittenBy
  <2>3. FromStyle(style, new) = FromHeaders(style, HeadersOf(style, c, fits), new)
    BY <1>1, <2>2
  <2>4. story \in Stories
    BY DEF PropagationTyped
  <2>5. (style = "log" /\ Misspells(c, fits)) => story.misread
    BY <1>1, <2>1
  <2> QED
    BY <2>1, <2>2, <2>3, <2>4, <2>5, OwnRead DEF OfTrace
<1> QED
  BY <1>1, FromStyleIs

\* extract gives what it finds in one of the styles, and never an exception.
LEMMA ExtractedIs ==
    ASSUME NEW order, NEW new
    PROVE  \/ Extracted(order, new) = NoContext
           \/ \E style : /\ Extracted(order, new) = FromStyle(style, new)
                         /\ Extracted(order, new) # Throws
<1> DEFINE gives == {k \in DOMAIN order : FromStyle(order[k], new) # NoContext}
           first == CHOOSE k \in gives : \A j \in gives : k \leq j
<1>1. Extracted(order, new) =
        IF gives = {} \/ FromStyle(order[first], new) = Throws THEN NoContext
        ELSE FromStyle(order[first], new)
  BY DEF Extracted
<1> HIDE DEF gives, first
<1> QED
  BY <1>1, Zenon

LEMMA StoryUnchanged ==
    ASSUME UNCHANGED <<carrier, story>>
    PROVE  /\ CarrierIsOwn => CarrierIsOwn'
           /\ CarrierIsForeign => CarrierIsForeign'
BY Zenon DEF CarrierIsOwn, CarrierIsForeign, OfStory, Agrees, WrittenBy

LEMMA PropagationAtStart == PropagationInit => PropagationInv
<1> SUFFICES ASSUME PropagationInit PROVE PropagationInv
  OBVIOUS
<1>1. PropagationTyped
  BY NoneIsInt DEF PropagationInit, PropagationTyped, NoStory, Stories
<1>2. CarrierIsForeign
  <2>1. CASE carrier \in Foreign
    BY <2>1, PropagationAssumption DEF CarrierIsForeign
  <2>2. CASE carrier = <<>>
    BY <2>2 DEF CarrierIsForeign
  <2> QED
    BY <2>1, <2>2 DEF PropagationInit
<1> QED
  BY <1>1, <1>2 DEF PropagationInit, PropagationInv

LEMMA TraceStarts ==
    ASSUME PropagationInv, NEW tid \in {NONE, 1}, StartTrace(tid)
    PROVE  PropagationInv'
<1>1. ids \in Nat /\ ids' = ids + 1 /\ ids + 1 \in Int \ {NONE} /\ tid \in Int
  BY NoneIsInt DEF PropagationInv, PropagationTyped, StartTrace, NONE
<1>2. PICK wide \in BOOLEAN : wide = FALSE
  OBVIOUS
<1>3. PICK base : base = Context(ids + 1, NONE, FALSE, ids + 1, NONE)
  OBVIOUS
<1>4. base = Context(ids + 1, NONE, wide, ids + 1, NONE)
  BY <1>2, <1>3
<1>5. base \in Contexts /\ base.lo = ids + 1 /\ base.priority = NONE /\ base.wide = wide
  BY <1>1, <1>4, NoneIsInt, ContextIs
<1>6. context' = [base EXCEPT !.tid = tid, !.rooted = TRUE]
  BY <1>3 DEF StartTrace
<1>7. context' \in Contexts /\ context'.lo = ids + 1 /\ context'.priority = NONE
      /\ context'.wide = wide /\ context'.tid = tid
  BY <1>1, <1>5, <1>6 DEF Contexts
<1>8. story' = [lo |-> ids + 1, high |-> tid, kept |-> NONE, misread |-> FALSE]
  BY DEF StartTrace, NoStory
<1>9. PropagationTyped'
  BY <1>1, <1>7, <1>8, NoneIsInt DEF PropagationTyped, Stories
<1>10. Tid(tid) = tid
  BY DEF Tid, NONE, Zero
<1>11. HighDigits(context') = tid
  BY <1>2, <1>7 DEF HighDigits
<1>12. OfStory(context)' /\ Agrees(context)'
  BY <1>7, <1>8, <1>10, <1>11 DEF OfStory, Agrees
<1>13. CarrierIsOwn'
  <2>1. carrier' = <<>>
    BY DEF StartTrace
  <2> QED
    BY <2>1 DEF CarrierIsOwn
<1> QED
  BY <1>1, <1>7, <1>8, <1>9, <1>12, <1>13, NotContexts DEF PropagationInv

LEMMA ChildStarts ==
    ASSUME PropagationInv, StartChild
    PROVE  PropagationInv'
<1>1. context # NoContext /\ ids' = ids + 1 /\ UNCHANGED <<carrier, story>>
      /\ context' = [context EXCEPT !.span = ids + 1, !.parent = context.span,
                                  !.rooted = TRUE]
  BY DEF StartChild
<1>2. ids \in Nat /\ context \in Contexts /\ context.span \in Int
  BY <1>1 DEF PropagationInv, PropagationTyped, Contexts
<1>3. context' \in Contexts /\ context'.lo = context.lo /\ context'.priority = context.priority
      /\ context'.wide = context.wide /\ context'.tid = context.tid /\ context'.high = context.high
  <2>1. ids + 1 \in Int
    BY <1>2
  <2> QED
    BY <1>1, <1>2, <2>1 DEF Contexts
<1>4. PropagationTyped'
  BY <1>1, <1>2, <1>3 DEF PropagationInv, PropagationTyped
<1>5. HighDigits(context') = HighDigits(context)
  BY <1>3 DEF HighDigits
<1>6. OfStory(context)' /\ Agrees(context)'
  BY <1>1, <1>3, <1>5 DEF PropagationInv, OfStory, Agrees
<1>7. CarrierIsOwn'
  BY <1>1, StoryUnchanged DEF PropagationInv
<1> QED
  BY <1>1, <1>3, <1>4, <1>6, <1>7, NotContexts DEF PropagationInv

LEMMA ContextIsInjected ==
    ASSUME PropagationInv, NEW styles \in InjectStyles, NEW priority \in {-1, 0, 1, 2},
           NEW fits \in BOOLEAN, Inject(styles, priority, fits)
    PROVE  PropagationInv'
<1>1. /\ context \in Contexts /\ context # NoContext /\ story.lo # NONE
      /\ OfStory(context) /\ Agrees(context)
  BY DEF Inject, PropagationInv, PropagationTyped
<1>2. /\ context' \in Contexts /\ context'.lo = context.lo /\ context'.wide = context.wide
      /\ context'.tid = context.tid /\ context'.high = context.high
      /\ context.priority # NONE => context'.priority = context.priority
  <2>1. CASE context.priority # NONE \/ ~context.rooted
    BY <1>1, <2>1 DEF Inject, Decided
  <2>2. CASE ~(context.priority # NONE \/ ~context.rooted)
    <3>1. PICK dm : dm = IF Kept(priority) THEN 1 ELSE NONE
      OBVIOUS
    <3>2. dm \in Int
      BY <3>1, NoneIsInt
    <3>3. context' = [context EXCEPT !.priority = priority, !.mechanism = 1, !.dm = dm]
      BY <2>2, <3>1 DEF Inject, Decided
    <3>4. priority \in Int /\ 1 \in Int
      OBVIOUS
    <3>5. context \in Contexts
      BY <1>1
    <3> HIDE DEF Decided
    <3>6. /\ context' \in Contexts /\ context'.lo = context.lo /\ context'.wide = context.wide
          /\ context'.tid = context.tid /\ context'.high = context.high
      BY <3>2, <3>3, <3>4, <3>5 DEF Contexts
    <3> QED
      BY <2>2, <3>6
  <2> QED
    BY <2>1, <2>2
<1>3. Sampled(context'.priority) \in Int /\ Sampled(context'.priority) # NONE
  BY DEF Sampled, NONE
<1>4. PICK kept : kept = IF context'.priority = NONE THEN NONE
                         ELSE IF story.kept = NONE THEN Sampled(context'.priority) ELSE story.kept
  OBVIOUS
<1>5. PICK misread \in BOOLEAN :
         misread = (story.misread \/ ("log" \in styles /\ Misspells(context', fits)))
  BY DEF PropagationInv, PropagationTyped, Stories
<1>6. story \in Stories /\ kept \in Int
  BY <1>3, <1>4, NoneIsInt DEF PropagationInv, PropagationTyped, Stories
<1>7. story' = [story EXCEPT !.kept = kept, !.misread = misread]
  BY <1>4, <1>5, Zenon DEF Inject
<1>8. /\ story' \in Stories /\ story'.lo = story.lo /\ story'.high = story.high
      /\ story'.kept = kept /\ story'.misread = misread
  BY <1>6, <1>7 DEF Stories
<1>9. PropagationTyped'
  BY <1>2, <1>8 DEF Inject, PropagationInv, PropagationTyped
<1>10. HighDigits(context') = HighDigits(context)
  BY <1>2 DEF HighDigits
<1>11. OfStory(context)'
  BY <1>1, <1>2, <1>5, <1>8, <1>10 DEF OfStory
<1>12. Agrees(context)'
  <2>1. CASE context'.priority = NONE
    BY <1>4, <1>8, <2>1 DEF Agrees
  <2>2. CASE context'.priority # NONE /\ context.priority = NONE
    BY <1>1, <1>4, <1>8, <2>2 DEF Agrees
  <2>3. CASE context'.priority # NONE /\ context.priority # NONE
    BY <1>1, <1>2, <1>3, <1>4, <1>8, <2>3 DEF Agrees
  <2> QED
    BY <2>1, <2>2, <2>3
<1>13. CarrierIsOwn'
  <2>1. carrier' = [style \in styles |-> HeadersOf(style, context', fits)]
    BY DEF Inject
  <2>2. DOMAIN carrier' = styles /\ (styles \subseteq TextMapStyles \/ styles \subseteq {"log"})
    BY <2>1, PropagationAssumption
  <2>3. WrittenBy(context, fits)'
    BY <2>1 DEF WrittenBy
  <2>4. (("log" \in DOMAIN carrier /\ Misspells(context, fits)) => story.misread)'
    BY <1>5, <1>8, <2>2, Zenon DEF Misspells
  <2> QED
    BY <1>2, <1>11, <1>12, <2>2, <2>3, <2>4, Zenon DEF CarrierIsOwn, OfStory, Agrees, WrittenBy
<1> QED
  BY <1>1, <1>2, <1>8, <1>9, <1>11, <1>12, <1>13, NotContexts DEF PropagationInv

\* What is lost or damaged on the way takes nothing from what is left.
LEMMA HeadersAreLost ==
    ASSUME PropagationInv, NEW style \in DOMAIN carrier, Lose(style) \/ Damage(style)
    PROVE  PropagationInv'
<1>1. UNCHANGED <<hop, ids, context, story>>
  BY DEF Lose, Damage
<1>2. /\ DOMAIN carrier' \subseteq DOMAIN carrier
      /\ \A s \in DOMAIN carrier' : carrier'[s] = carrier[s] \/ carrier'[s] = Damaged
  <2>1. CASE Lose(style)
    BY <2>1 DEF Lose
  <2>2. CASE Damage(style)
    BY <2>2 DEF Damage
  <2> QED
    BY <2>1, <2>2
<1>3. CarrierIsForeign => CarrierIsForeign'
  BY <1>2, Zenon DEF CarrierIsForeign
<1>4. ASSUME NEW c, NEW fits, WrittenBy(c, fits) PROVE WrittenBy(c, fits)'
  BY <1>2, <1>4 DEF WrittenBy
<1>5. CarrierIsOwn => CarrierIsOwn'
  <2> SUFFICES ASSUME CarrierIsOwn PROVE CarrierIsOwn'
    OBVIOUS
  <2> SUFFICES ASSUME DOMAIN carrier' # {} PROVE CarrierIsOwn'
    BY <1>2 DEF CarrierIsOwn
  <2>1. PICK c \in Contexts, fits \in BOOLEAN :
          /\ OfStory(c) /\ Agrees(c) /\ WrittenBy(c, fits)
          /\ ("log" \in DOMAIN carrier /\ Misspells(c, fits)) => story.misread
    BY <1>2 DEF CarrierIsOwn
  <2>2. (OfStory(c) /\ Agrees(c))'
    BY <1>1, <2>1 DEF OfStory, Agrees
  <2>3. WrittenBy(c, fits)'
    BY <1>4, <2>1
  <2>4. DOMAIN carrier' \subseteq TextMapStyles \/ DOMAIN carrier' \subseteq {"log"}
    BY <1>2 DEF CarrierIsOwn
  <2>5. ("log" \in DOMAIN carrier' /\ Misspells(c, fits)) => story'.misread
    BY <1>1, <1>2, <2>1
  <2> QED
    BY <2>1, <2>2, <2>3, <2>4, <2>5, Zenon DEF CarrierIsOwn, OfStory, Agrees, WrittenBy
<1>6. (context # NoContext => story.lo # NONE /\ OfStory(context) /\ Agrees(context))'
  BY <1>1 DEF PropagationInv, OfStory, Agrees
<1> QED
  BY <1>1, <1>3, <1>5, <1>6 DEF PropagationInv, PropagationTyped

\* The next service goes on with the trace, or is told nothing.
LEMMA ContextIsExtracted ==
    ASSUME PropagationInv, NEW order, Extract(order)
    PROVE  PropagationInv'
<1>1. PICK found : found = Extracted(order, ids + 1)
  OBVIOUS
<1>2. ids \in Nat /\ ids' = ids + 1 /\ ids + 1 \in Nat /\ context' = found /\ carrier' = <<>>
  BY <1>1 DEF PropagationInv, PropagationTyped, Extract
<1>3. story' = CASE found = NoContext -> NoStory
                 [] found # NoContext /\ story.lo = NONE ->
                       [lo |-> found.lo, high |-> Tid(HighDigits(found)),
                        kept |-> KeptOf(found, NONE), misread |-> FALSE]
                 [] OTHER -> [story EXCEPT !.kept = KeptOf(found, story.kept)]
  BY <1>1 DEF Extract
<1>4. CarrierIsOwn' /\ CarrierIsForeign'
  BY <1>2 DEF CarrierIsOwn, CarrierIsForeign
<1>5. CASE found = NoContext
  <2>1. story' = NoStory
    BY <1>3, <1>5
  <2>2. PropagationTyped'
    BY <1>2, <1>5, <2>1, NoneIsInt DEF PropagationTyped, NoStory, Stories
  <2> QED
    BY <1>2, <1>4, <1>5, <2>1, <2>2 DEF PropagationInv
<1>6. CASE found # NoContext
  <2>1. PICK style : found = FromStyle(style, ids + 1) /\ found # Throws
    BY <1>1, <1>6, ExtractedIs
  <2>2. CASE context = NoContext
    <3>1. CarrierIsForeign /\ story.lo = NONE
      BY <2>2 DEF PropagationInv, NoStory
    <3>2. Halves(found)
      BY <1>2, <1>6, <2>1, <3>1, FoundForeign
    <3>3. story' = [lo |-> found.lo, high |-> Tid(HighDigits(found)),
                    kept |-> KeptOf(found, NONE), misread |-> FALSE]
      BY <1>3, <1>6, <3>1
    <3>4. found \in Contexts /\ found.lo \in Int
      BY <3>2 DEF Halves, Contexts
    <3>5. HighDigits(found) \in Int
      BY <3>4, NoneIsInt DEF HighDigits, Contexts
    <3>6. Tid(HighDigits(found)) \in Int
      BY <3>5, TidAgain
    <3>7. Sampled(found.priority) \in Int
      BY DEF Sampled
    <3>8. PICK kept \in Int :
             /\ kept = KeptOf(found, NONE)
             /\ kept = IF found.priority = NONE THEN NONE ELSE Sampled(found.priority)
      BY <3>7, NoneIsInt DEF KeptOf
    <3>9. story' \in Stories /\ story'.lo = found.lo
          /\ story'.high = Tid(HighDigits(found)) /\ story'.kept = kept
      BY <3>3, <3>4, <3>6, <3>8 DEF Stories
    <3>10. PropagationTyped'
      BY <1>2, <3>4, <3>9 DEF PropagationTyped
    <3>11. (OfStory(context) /\ Agrees(context))'
      BY <1>2, <3>2, <3>8, <3>9 DEF OfStory, Agrees, Halves
    <3>12. story'.lo # NONE
      BY <3>2, <3>9 DEF Halves, Contexts
    <3> QED
      BY <1>2, <1>4, <1>6, <3>10, <3>11, <3>12 DEF PropagationInv
  <2>3. CASE context # NoContext
    <3>1. CarrierIsOwn /\ PropagationTyped /\ story.lo # NONE
      BY <2>3 DEF PropagationInv
    <3>2. OfTrace(found)
      BY <1>6, <2>1, <3>1, FoundOwn
    <3>3. PICK kept : kept = KeptOf(found, story.kept)
      OBVIOUS
    <3>4. story' = [story EXCEPT !.kept = kept]
      BY <1>3, <1>6, <3>1, <3>3
    <3>5. story \in Stories /\ Sampled(found.priority) \in Int
      BY <3>1 DEF PropagationTyped, Sampled
    <3>6. kept = IF found.priority = NONE THEN NONE ELSE Sampled(found.priority)
      BY <3>2, <3>3 DEF KeptOf, OfTrace, Decides
    <3>9. /\ story' \in Stories /\ story'.lo = story.lo /\ story'.high = story.high
          /\ story'.misread = story.misread /\ story'.kept = kept
      BY <3>4, <3>5, <3>6, NoneIsInt DEF Stories
    <3>7. PropagationTyped'
      BY <1>2, <3>2, <3>9 DEF PropagationTyped, OfTrace
    <3>8. (OfStory(context) /\ Agrees(context))'
      BY <1>2, <3>2, <3>6, <3>9 DEF OfStory, Agrees, OfTrace
    <3> QED
      BY <1>2, <1>4, <1>6, <3>1, <3>7, <3>8, <3>9 DEF PropagationInv
  <2> QED
    BY <2>2, <2>3
<1> QED
  BY <1>5, <1>6

LEMMA PropagationSteps == PropagationInv /\ [PropagationNext]_propagationVars => PropagationInv'
<1> SUFFICES ASSUME PropagationInv, [PropagationNext]_propagationVars PROVE PropagationInv'
  OBVIOUS
<1>1. CASE \E tid \in {NONE, 1} : StartTrace(tid)
  BY <1>1, TraceStarts
<1>2. CASE StartChild
  BY <1>2, ChildStarts
<1>3. CASE \E styles \in InjectStyles, priority \in {-1, 0, 1, 2}, fits \in BOOLEAN :
             Inject(styles, priority, fits)
  BY <1>3, ContextIsInjected
<1>4. CASE \E style \in DOMAIN carrier : Lose(style) \/ Damage(style)
  BY <1>4, HeadersAreLost
<1>5. CASE \E order \in ExtractStyles : Extract(order)
  BY <1>5, ContextIsExtracted
<1>6. CASE UNCHANGED propagationVars
  <2>1. UNCHANGED <<hop, ids, context, carrier, story>>
    BY <1>6 DEF propagationVars
  <2>2. (context # NoContext => story.lo # NONE /\ OfStory(context) /\ Agrees(context))'
    BY <2>1 DEF PropagationInv, OfStory, Agrees
  <2> QED
    BY <2>1, <2>2, StoryUnchanged DEF PropagationInv, PropagationTyped
<1> QED
  BY <1>1, <1>2, <1>3, <1>4, <1>5, <1>6 DEF PropagationNext

\* Two styles of a carrier are read alike.
LEMMA StylesReadAlike == PropagationInv => StylesAgree
<1> SUFFICES ASSUME PropagationInv,
                    NEW a \in DOMAIN carrier, NEW b \in DOMAIN carrier,
                    carrier[a] # Damaged, carrier[b] # Damaged, story.lo # NONE
             PROVE  LET x == FromStyle(a, NONE)
                        y == FromStyle(b, NONE)
                    IN /\ x.lo = y.lo /\ x.span = y.span
                       /\ story.kept # NONE => Sampled(x.priority) = Sampled(y.priority)
  BY DEF StylesAgree
<1>1. CarrierIsOwn /\ story \in Stories
  BY DEF PropagationInv, PropagationTyped, NoStory
<1>2. PICK c \in Contexts, fits \in BOOLEAN :
         /\ OfStory(c) /\ Agrees(c) /\ WrittenBy(c, fits)
         /\ ("log" \in DOMAIN carrier /\ Misspells(c, fits)) => story.misread
  BY <1>1 DEF CarrierIsOwn
<1>3. ASSUME NEW style \in {a, b}, style # "log"
      PROVE  /\ FromStyle(style, NONE).lo = c.lo /\ FromStyle(style, NONE).span = c.span
             /\ story.kept # NONE => Sampled(FromStyle(style, NONE).priority) = story.kept
  <2>1. style \in TextMapStyles \cup {"log"} /\ carrier[style] = HeadersOf(style, c, fits)
    BY <1>1, <1>2 DEF CarrierIsOwn, WrittenBy
  <2>2. FromStyle(style, NONE) = FromHeaders(style, HeadersOf(style, c, fits), NONE)
    BY <2>1 DEF FromStyle
  <2>3. PICK x : x = FromHeaders(style, HeadersOf(style, c, fits), NONE)
    OBVIOUS
  <2>4. x.lo = c.lo /\ x.span = c.span /\ Decides(x)
    BY <1>1, <1>2, <1>3, <2>1, <2>3, OwnRead
  <2> QED
    BY <2>2, <2>3, <2>4 DEF Decides
<1>4. a = "log" <=> b = "log"
  BY <1>1 DEF CarrierIsOwn, TextMapStyles
<1>5. CASE a = "log" /\ b = "log"
  BY <1>5
<1>6. CASE a # "log" /\ b # "log"
  BY <1>3, <1>6
<1> QED
  BY <1>4, <1>5, <1>6

\* For any services, styles and losses on the way, a trace keeps its id and its
\* decision, and the styles of one carrier agree (text_map.ts, log.ts).
THEOREM PropagationIsKept == PropagationSpec => []PropagationKept
<1>1. PropagationInv => TraceSurvives
  BY DEF PropagationInv, TraceSurvives, OfStory, Agrees
<1>2. PropagationInv => PropagationKept
  BY <1>1, StylesReadAlike DEF PropagationKept
<1> QED
  BY <1>2, PropagationAtStart, PropagationSteps, PTL DEF PropagationSpec

-----------------------------------------------------------------------------
(* Span statistics.                                                        *)

Counts == [hits : Nat, topLevelHits : Nat, errors : Nat, duration : Nat]
Keys == {span.key : span \in StatSpans}
Groups == UNION {[K -> Counts] : K \in SUBSET Keys}
StatReports == [sequence : Nat, groups : Groups]

StatsTyped ==
    /\ finishedSpans \subseteq StatSpans
    /\ groups \in Groups
    /\ sequence \in Nat
    /\ sentStats \in Seq(StatReports) /\ droppedStats \in Seq(StatReports)

\* What is counted can be counted.
StatsFinite ==
    /\ IsFiniteSet(Reports)
    /\ \A key \in Keys, field \in StatFields :
          IsFiniteSet(CountedUnits(key, field)) /\ IsFiniteSet(SpanUnits(key, field))

\* The inductive invariant: a process that has ended counts no more.
StatsInv == ~dead => StatsTyped /\ StatsFinite /\ StatsOnce

LEMMA GroupsAre ==
    ASSUME NEW g
    PROVE  g \in Groups <=> /\ DOMAIN g \subseteq Keys /\ g = [k \in DOMAIN g |-> g[k]]
                            /\ \A k \in DOMAIN g : g[k] \in Counts
BY DEF Groups

LEMMA NoGroups == <<>> \in Groups
<1>1. DOMAIN <<>> = {} /\ {} \in SUBSET Keys
  OBVIOUS
<1>2. <<>> \in [{} -> Counts]
  OBVIOUS
<1> QED
  BY <1>1, <1>2 DEF Groups

LEMMA CountsAre ==
    ASSUME NEW c \in Counts, NEW field \in StatFields
    PROVE  c[field] \in Nat
BY DEF Counts, StatFields

LEMMA NoStatsAre == NoStats \in Counts /\ \A field \in StatFields : NoStats[field] = 0
BY DEF NoStats, Counts, StatFields

LEMMA GroupIs ==
    ASSUME StatsTyped, NEW key
    PROVE  GroupFor(key) \in Counts
<1>1. CASE key \in DOMAIN groups
  BY <1>1, GroupsAre DEF StatsTyped, GroupFor
<1>2. CASE key \notin DOMAIN groups
  BY <1>2, NoStatsAre DEF GroupFor
<1> QED
  BY <1>1, <1>2

LEMMA OneIsNat == ASSUME NEW condition PROVE One(condition) \in Nat
BY DEF One

LEMMA SpanIsRecorded ==
    ASSUME NEW span \in StatSpans, NEW stats \in Counts
    PROVE  /\ Recorded(stats, span) \in Counts
           /\ \A field \in StatFields :
                 /\ Weight(span, field) \in Nat
                 /\ Recorded(stats, span)[field] = stats[field] + Weight(span, field)
<1>1. span.duration \in Nat /\ One(span.top) \in Nat /\ One(span.error) \in Nat
  BY OneIsNat, StatsAssumption
<1>2. PICK top \in Nat : top = One(span.top)
  BY <1>1
<1>3. PICK error \in Nat : error = One(span.error)
  BY <1>1
<1>4. Recorded(stats, span) =
        [hits |-> stats.hits + 1, topLevelHits |-> stats.topLevelHits + top,
         errors |-> stats.errors + error, duration |-> stats.duration + span.duration]
  BY <1>2, <1>3 DEF Recorded
<1>5. stats.hits \in Nat /\ stats.topLevelHits \in Nat /\ stats.errors \in Nat /\ stats.duration \in Nat
  BY DEF Counts
<1>6. Recorded(stats, span) \in Counts
  BY <1>1, <1>4, <1>5 DEF Counts
<1>7. /\ Weight(span, "hits") = 1 /\ Weight(span, "topLevelHits") = top
      /\ Weight(span, "errors") = error /\ Weight(span, "duration") = span.duration
  BY <1>2, <1>3 DEF Weight
<1>8. /\ Recorded(stats, span)["hits"] = stats["hits"] + 1
      /\ Recorded(stats, span)["topLevelHits"] = stats["topLevelHits"] + top
      /\ Recorded(stats, span)["errors"] = stats["errors"] + error
      /\ Recorded(stats, span)["duration"] = stats["duration"] + span.duration
  BY <1>4
<1>9. ASSUME NEW field \in StatFields
      PROVE  /\ Weight(span, field) \in Nat
             /\ Recorded(stats, span)[field] = stats[field] + Weight(span, field)
  BY <1>1, <1>7, <1>8 DEF StatFields
<1> QED
  BY <1>6, <1>9

LEMMA StatsAtStart == StatsInit => StatsInv
<1> SUFFICES ASSUME StatsInit PROVE StatsTyped /\ StatsFinite /\ StatsOnce
  BY DEF StatsInv
<1>1. /\ finishedSpans = {} /\ groups = <<>> /\ sequence = 0
      /\ sentStats = <<>> /\ droppedStats = <<>>
  BY DEF StatsInit
<1>2. Reports = {}
  BY <1>1 DEF Reports
<1>3. \A key, field : CountedUnits(key, field) = {} /\ SpanUnits(key, field) = {}
  BY <1>1, <1>2 DEF CountedUnits, SpanUnits
<1>4. IsFiniteSet({}) /\ Cardinality({}) = 0
  BY FS_EmptySet
<1>5. StatsTyped
  BY <1>1, NoGroups DEF StatsTyped
<1>6. StatsFinite
  BY <1>2, <1>3, <1>4 DEF StatsFinite
<1>7. StatsOnce
  <2>1. ASSUME NEW key \in Keys, NEW field \in StatFields
        PROVE  Cardinality(CountedUnits(key, field)) + GroupFor(key)[field]
               = Cardinality(SpanUnits(key, field))
    <3>1. GroupFor(key) = NoStats
      BY <1>1 DEF GroupFor
    <3>2. Cardinality(CountedUnits(key, field)) = 0 /\ Cardinality(SpanUnits(key, field)) = 0
      BY <1>3, <1>4
    <3> QED
      BY <3>1, <3>2, NoStatsAre
  <2>2. {r.sequence : r \in Reports} = 1 .. sequence
    BY <1>1, <1>2
  <2>3. Cardinality(Reports) = sequence
    BY <1>1, <1>2, <1>4
  <2> QED
    BY <2>1, <2>2, <2>3 DEF StatsOnce, Keys
<1> QED
  BY <1>5, <1>6, <1>7

\* A finished span is counted in the group of its key, if it is counted.
LEMMA SpanIsCounted ==
    ASSUME StatsInv, NEW span \in StatSpans, OnSpanFinished(span)
    PROVE  StatsInv'
<1>1. StatsTyped /\ StatsFinite /\ StatsOnce /\ ~dead
  BY DEF StatsInv, OnSpanFinished
<1>2. /\ span \notin finishedSpans /\ finishedSpans' = finishedSpans \cup {span}
      /\ sequence' = sequence /\ sentStats' = sentStats /\ droppedStats' = droppedStats
      /\ dead' = dead
  BY DEF OnSpanFinished
<1>3. Reports' = Reports
  BY <1>2 DEF Reports
<1>4. \A key, field : CountedUnits(key, field)' = CountedUnits(key, field)
  BY <1>3 DEF CountedUnits
<1>5. /\ \A key \in Keys, field \in StatFields :
            /\ Cardinality(CountedUnits(key, field)) + GroupFor(key)[field]
               = Cardinality(SpanUnits(key, field))
            /\ IsFiniteSet(CountedUnits(key, field)) /\ IsFiniteSet(SpanUnits(key, field))
      /\ {r.sequence : r \in Reports} = 1 .. sequence
      /\ Cardinality(Reports) = sequence
      /\ IsFiniteSet(Reports)
  BY <1>1 DEF StatsOnce, StatsFinite, Keys
<1>6. ASSUME groups' \in Groups,
             \A key \in Keys, field \in StatFields :
                 /\ IsFiniteSet(SpanUnits(key, field)')
                 /\ Cardinality(CountedUnits(key, field)) + GroupFor(key)'[field]
                    = Cardinality(SpanUnits(key, field)')
      PROVE  StatsInv'
  <2>1. StatsTyped'
    BY <1>1, <1>2, <1>6 DEF StatsTyped
  <2>2. StatsFinite'
    BY <1>3, <1>4, <1>5, <1>6 DEF StatsFinite
  <2>3. StatsOnce'
    BY <1>2, <1>3, <1>4, <1>5, <1>6 DEF StatsOnce, Keys
  <2> QED
    BY <2>1, <2>2, <2>3 DEF StatsInv
<1>7. CASE ~IsCounted(span)
  <2>1. groups' = groups
    BY <1>7 DEF OnSpanFinished
  <2>2. \A key, field : SpanUnits(key, field)' = SpanUnits(key, field)
    BY <1>2, <1>7 DEF SpanUnits
  <2>3. \A key : GroupFor(key)' = GroupFor(key)
    BY <2>1 DEF GroupFor
  <2>4. groups' \in Groups
    BY <1>1, <2>1 DEF StatsTyped
  <2> QED
    BY <1>5, <1>6, <2>2, <2>3, <2>4
<1>8. CASE IsCounted(span)
  <2>1. PICK recorded : recorded = Recorded(GroupFor(span.key), span)
    OBVIOUS
  <2>2. groups' = [key \in DOMAIN groups \cup {span.key} |->
                     IF key = span.key THEN recorded ELSE groups[key]]
    BY <1>8, <2>1 DEF OnSpanFinished
  <2>3. GroupFor(span.key) \in Counts
    BY <1>1, GroupIs
  <2>4. /\ recorded \in Counts
        /\ \A field \in StatFields :
              /\ Weight(span, field) \in Nat
              /\ recorded[field] = GroupFor(span.key)[field] + Weight(span, field)
    BY <2>1, <2>3, SpanIsRecorded
  <2>5. groups' \in Groups
    <3>1. /\ DOMAIN groups \subseteq Keys
          /\ \A k \in DOMAIN groups : groups[k] \in Counts
      BY <1>1, GroupsAre DEF StatsTyped
    <3>2. span.key \in Keys
      BY DEF Keys
    <3> QED
      BY <2>2, <2>4, <3>1, <3>2, GroupsAre
  <2>6. ASSUME NEW key \in Keys, NEW field \in StatFields
        PROVE  /\ IsFiniteSet(SpanUnits(key, field)')
               /\ Cardinality(CountedUnits(key, field)) + GroupFor(key)'[field]
                  = Cardinality(SpanUnits(key, field)')
    <3>1. CASE key # span.key
      <4>1. SpanUnits(key, field)' = SpanUnits(key, field)
        BY <1>2, <3>1 DEF SpanUnits
      <4>2. GroupFor(key)' = GroupFor(key)
        BY <2>2, <3>1 DEF GroupFor
      <4> QED
        BY <1>5, <4>1, <4>2
    <3>2. CASE key = span.key
      <4> DEFINE units == 1 .. Weight(span, field)
      <4>1. SpanUnits(key, field)' = SpanUnits(key, field) \cup ({span} \X units)
        BY <1>2, <1>8, <3>2 DEF SpanUnits
      <4>2. \A p \in SpanUnits(key, field) : p[1] # span
        BY <1>2 DEF SpanUnits
      <4>3. IsFiniteSet(units) /\ Cardinality(units) = Weight(span, field)
        BY <2>4, FS_Interval
      <4> HIDE DEF units
      <4>4. /\ IsFiniteSet(SpanUnits(key, field) \cup ({span} \X units))
            /\ Cardinality(SpanUnits(key, field) \cup ({span} \X units))
               = Cardinality(SpanUnits(key, field)) + Cardinality(units)
        BY <1>5, <4>2, <4>3, PiecesAdded
      <4>5. GroupFor(key)' = recorded
        BY <2>2, <3>2 DEF GroupFor
      <4>6. GroupFor(key)'[field] = GroupFor(key)[field] + Weight(span, field)
        BY <2>4, <3>2, <4>5
      <4>7. Cardinality(CountedUnits(key, field)) \in Nat /\ GroupFor(key)[field] \in Nat
            /\ Weight(span, field) \in Nat
        BY <1>5, <2>3, <2>4, <3>2, FS_CardinalityType, CountsAre
      <4>8. Cardinality(CountedUnits(key, field)) + GroupFor(key)[field]
            = Cardinality(SpanUnits(key, field))
        BY <1>5
      <4> QED
        BY <4>1, <4>3, <4>4, <4>6, <4>7, <4>8
    <3> QED
      BY <3>1, <3>2
  <2> QED
    BY <1>6, <2>5, <2>6
<1> QED
  BY <1>7, <1>8

ReportsIn(reports) == {reports[k] : k \in DOMAIN reports}

LEMMA ReportAppended ==
    ASSUME NEW reports \in Seq(StatReports), NEW r \in StatReports,
           NEW more, more = Append(reports, r)
    PROVE  /\ more \in Seq(StatReports)
           /\ ReportsIn(more) = ReportsIn(reports) \cup {r}
<1>1. /\ more \in Seq(StatReports)
      /\ DOMAIN more = DOMAIN reports \cup {Len(reports) + 1}
      /\ more[Len(reports) + 1] = r
      /\ \A k \in DOMAIN reports : more[k] = reports[k]
  OBVIOUS
<1> QED
  BY <1>1 DEF ReportsIn

\* What waits is in one report, with the next number.
LEMMA BucketsAreReported ==
    ASSUME StatsInv, NEW writable \in BOOLEAN, OnInterval(writable)
    PROVE  StatsInv'
<1>1. StatsTyped /\ StatsFinite /\ StatsOnce /\ ~dead
  BY DEF StatsInv, OnInterval
<1>2. groups' = <<>> /\ sequence' = sequence + 1 /\ finishedSpans' = finishedSpans
  BY DEF OnInterval
<1>3. PICK r : r = [sequence |-> sequence + 1, groups |-> groups]
  OBVIOUS
<1>4. r \in StatReports /\ r.sequence = sequence + 1 /\ r.groups = groups /\ sequence \in Nat
  BY <1>1, <1>3 DEF StatsTyped, StatReports
<1>5. /\ \A key \in Keys, field \in StatFields :
            /\ Cardinality(CountedUnits(key, field)) + GroupFor(key)[field]
               = Cardinality(SpanUnits(key, field))
            /\ IsFiniteSet(CountedUnits(key, field)) /\ IsFiniteSet(SpanUnits(key, field))
      /\ {x.sequence : x \in Reports} = 1 .. sequence
      /\ Cardinality(Reports) = sequence
      /\ IsFiniteSet(Reports)
  BY <1>1 DEF StatsOnce, StatsFinite, Keys
<1> SUFFICES ASSUME ~dead' PROVE StatsTyped' /\ StatsFinite' /\ StatsOnce'
  BY DEF StatsInv
<1>6. /\ sentStats' \in Seq(StatReports) /\ droppedStats' \in Seq(StatReports)
      /\ Reports' = Reports \cup {r}
  <2>1. sentStats \in Seq(StatReports) /\ droppedStats \in Seq(StatReports)
    BY <1>1 DEF StatsTyped
  <2>2. Reports = ReportsIn(sentStats) \cup ReportsIn(droppedStats)
    BY DEF Reports, ReportsIn
  <2>3. Reports' = ReportsIn(sentStats') \cup ReportsIn(droppedStats')
    BY DEF Reports, ReportsIn
  <2>4. CASE writable
    <3>1. GlobalBuffer
      BY <2>4, Zenon DEF OnInterval
    <3>2. sentStats' = Append(sentStats, r) /\ droppedStats' = droppedStats
      BY <1>3, <2>4, <3>1 DEF OnInterval
    <3>3. /\ sentStats' \in Seq(StatReports)
          /\ ReportsIn(sentStats') = ReportsIn(sentStats) \cup {r}
      BY <1>4, <2>1, <3>2, ReportAppended
    <3> QED
      BY <2>1, <2>2, <2>3, <3>2, <3>3
  <2>5. CASE ~writable
    <3>1. sentStats' = sentStats /\ droppedStats' = Append(droppedStats, r)
      BY <1>3, <2>5 DEF OnInterval
    <3>2. /\ droppedStats' \in Seq(StatReports)
          /\ ReportsIn(droppedStats') = ReportsIn(droppedStats) \cup {r}
      BY <1>4, <2>1, <3>1, ReportAppended
    <3> QED
      BY <2>1, <2>2, <2>3, <3>1, <3>2
  <2> QED
    BY <2>4, <2>5
<1>7. r \notin Reports
  BY <1>4, <1>5
<1>8. StatsTyped'
  BY <1>1, <1>2, <1>4, <1>6, NoGroups DEF StatsTyped
<1>9. IsFiniteSet(Reports') /\ Cardinality(Reports') = sequence'
  BY <1>2, <1>5, <1>6, <1>7, FS_AddElement
<1>10. {x.sequence : x \in Reports'} = 1 .. sequence'
  <2>1. {x.sequence : x \in Reports'} = (1 .. sequence) \cup {sequence + 1}
    BY <1>4, <1>5, <1>6
  <2> QED
    BY <1>2, <1>4, <2>1
<1>11. ASSUME NEW key \in Keys, NEW field \in StatFields
       PROVE  /\ IsFiniteSet(CountedUnits(key, field)') /\ IsFiniteSet(SpanUnits(key, field)')
              /\ Cardinality(CountedUnits(key, field)') + GroupFor(key)'[field]
                 = Cardinality(SpanUnits(key, field)')
  <2>1. SpanUnits(key, field)' = SpanUnits(key, field)
    BY <1>2 DEF SpanUnits
  <2>2. GroupFor(key)'[field] = 0
    BY <1>2, NoStatsAre DEF GroupFor
  <2>3. GroupFor(key)[field] \in Nat
    BY <1>1, GroupIs, CountsAre
  <2>4. /\ IsFiniteSet(CountedUnits(key, field)')
        /\ Cardinality(CountedUnits(key, field)')
           = Cardinality(CountedUnits(key, field)) + GroupFor(key)[field]
    <3>1. CASE key \in DOMAIN groups
      <4> DEFINE units == 1 .. groups[key][field]
      <4>1. GroupFor(key) = groups[key]
        BY <3>1 DEF GroupFor
      <4>2. CountedUnits(key, field)' = CountedUnits(key, field) \cup ({r} \X units)
        BY <1>4, <1>6, <3>1 DEF CountedUnits
      <4>3. \A p \in CountedUnits(key, field) : p[1] # r
        BY <1>7 DEF CountedUnits
      <4>4. IsFiniteSet(units) /\ Cardinality(units) = groups[key][field]
        <5>1. PICK n \in Nat : n = groups[key][field]
          BY <2>3, <4>1
        <5>2. IsFiniteSet(1 .. n) /\ Cardinality(1 .. n) = n
          BY FS_Interval
        <5> QED
          BY <5>1, <5>2
      <4> HIDE DEF units
      <4>5. /\ IsFiniteSet(CountedUnits(key, field) \cup ({r} \X units))
            /\ Cardinality(CountedUnits(key, field) \cup ({r} \X units))
               = Cardinality(CountedUnits(key, field)) + Cardinality(units)
        BY <1>5, <4>3, <4>4, PiecesAdded
      <4> QED
        BY <4>1, <4>2, <4>4, <4>5
    <3>2. CASE key \notin DOMAIN groups
      <4>1. CountedUnits(key, field)' = CountedUnits(key, field)
        BY <1>4, <1>6, <3>2 DEF CountedUnits
      <4>2. GroupFor(key)[field] = 0
        BY <3>2, NoStatsAre DEF GroupFor
      <4>3. Cardinality(CountedUnits(key, field)) \in Nat
        BY <1>5, FS_CardinalityType
      <4> QED
        BY <1>5, <4>1, <4>2, <4>3
    <3> QED
      BY <3>1, <3>2
  <2>5. Cardinality(CountedUnits(key, field)) \in Nat
    BY <1>5, FS_CardinalityType
  <2> QED
    BY <1>5, <2>1, <2>2, <2>3, <2>4, <2>5
<1>12. StatsFinite'
  BY <1>9, <1>11 DEF StatsFinite
<1>13. StatsOnce'
  BY <1>9, <1>10, <1>11 DEF StatsOnce, Keys
<1> QED
  BY <1>8, <1>12, <1>13

LEMMA StatsUnchanged == ASSUME StatsInv, UNCHANGED statsVars PROVE StatsInv'
<1>1. /\ finishedSpans' = finishedSpans /\ groups' = groups /\ sequence' = sequence
      /\ sentStats' = sentStats /\ droppedStats' = droppedStats /\ dead' = dead
  BY DEF statsVars
<1>2. Reports' = Reports
  BY <1>1 DEF Reports
<1>3. /\ \A key, field : CountedUnits(key, field)' = CountedUnits(key, field)
      /\ \A key, field : SpanUnits(key, field)' = SpanUnits(key, field)
      /\ \A key : GroupFor(key)' = GroupFor(key)
  BY <1>1, <1>2 DEF CountedUnits, SpanUnits, GroupFor
<1>4. StatsTyped => StatsTyped'
  BY <1>1 DEF StatsTyped
<1>5. StatsFinite => StatsFinite'
  BY <1>2, <1>3 DEF StatsFinite
<1>6. StatsOnce => StatsOnce'
  BY <1>1, <1>2, <1>3 DEF StatsOnce
<1> QED
  BY <1>1, <1>4, <1>5, <1>6 DEF StatsInv

LEMMA StatsSteps == StatsInv /\ [StatsNext]_statsVars => StatsInv'
<1>1. ASSUME StatsInv, NEW span \in StatSpans, OnSpanFinished(span) PROVE StatsInv'
  BY <1>1, SpanIsCounted
<1>2. ASSUME StatsInv, NEW writable \in BOOLEAN, OnInterval(writable) PROVE StatsInv'
  BY <1>2, BucketsAreReported
<1> QED
  BY <1>1, <1>2, StatsUnchanged DEF StatsNext

-----------------------------------------------------------------------------
(* Data streams.                                                           *)

\* What a checkpoint may come after.
Hashes == [edge : Edges, parent : Edges \cup Received \cup {"entry"}]
Parents == Hashes \cup {External(h) : h \in Received} \cup {Entry}

Checkpoints ==
    [edge : Edges, hash : Hashes, parent : Parents, bucket : Int, edgeLatency : Int,
     pathwayLatency : Int]

Pathways ==
    [hash : Parents, direction : {"in", "out", "none"}, pathwayStart : Nat, edgeStart : Nat,
     oppositeHash : Parents, oppositeStart : Nat]

\* Of the other direction, unless it is of another service.
Opposes(parent, direction) == parent.edge \in Edges => Direction[parent.edge] # direction

StreamsTyped ==
    /\ now \in Nat
    /\ pathway \in Pathways \cup {NoPathway}
    /\ \A k \in DOMAIN hashes : hashes[k] \in Hashes /\ hashes[k].edge = k[1]
    /\ set \in Seq(Checkpoints)
    /\ \A k \in DOMAIN buckets : buckets[k] \in Nat
    /\ \A k \in DOMAIN flushed : flushed[k] \in Nat

\* The pathway says where its last edge was, and where it last turned.
PathwayInv ==
    pathway # NoPathway =>
        /\ pathway.hash.edge \in Edges => Direction[pathway.hash.edge] = pathway.direction
        /\ Opposes(pathway.oppositeHash, pathway.direction)
        /\ pathway.pathwayStart \leq pathway.edgeStart /\ pathway.edgeStart \leq now
        /\ pathway.oppositeStart \leq now
        /\ pathway.oppositeHash # Entry => pathway.pathwayStart \leq pathway.oppositeStart

PointsOf(key) == {k \in DOMAIN set : set[k].bucket = key[1] /\ set[k].hash = key[2]}

EveryPointOnce ==
    \A key \in Int \X Hashes :
        CountOf(buckets, key) + CountOf(flushed, key) = Cardinality(PointsOf(key))

\* The inductive invariant.
StreamsInv == StreamsTyped /\ PathwayInv /\ PathwayTurns /\ EveryPointOnce

LEMMA StreamsAtStart == StreamsInit => StreamsInv
<1> SUFFICES ASSUME StreamsInit PROVE StreamsInv
  OBVIOUS
<1>1. now = 0 /\ pathway = NoPathway /\ hashes = <<>> /\ set = <<>> /\ buckets = <<>> /\ flushed = <<>>
  BY DEF StreamsInit
<1>2. StreamsTyped
  BY <1>1 DEF StreamsTyped
<1>3. PathwayInv /\ PathwayTurns
  BY <1>1 DEF PathwayInv, PathwayTurns
<1>4. EveryPointOnce
  <2>1. \A key : PointsOf(key) = {}
    BY <1>1 DEF PointsOf
  <2>2. \A key : CountOf(buckets, key) = 0 /\ CountOf(flushed, key) = 0
    BY <1>1 DEF CountOf
  <2>3. Cardinality({}) = 0
    BY FS_EmptySet
  <2>4. ASSUME NEW key \in Int \X Hashes
        PROVE  CountOf(buckets, key) + CountOf(flushed, key) = Cardinality(PointsOf(key))
    <3>1. Cardinality(PointsOf(key)) = 0
      BY <2>1, <2>3
    <3>2. CountOf(buckets, key) = 0 /\ CountOf(flushed, key) = 0
      BY <2>2
    <3> QED
      BY <3>1, <3>2
  <2> QED
    BY <2>4 DEF EveryPointOnce
<1> QED
  BY <1>2, <1>3, <1>4 DEF StreamsInv

LEMMA EntryIsNoEdge == Entry \in Parents /\ Entry.edge \notin Edges
BY StreamsAssumption DEF Entry, Parents

LEMMA EdgesOfParents ==
    ASSUME NEW parent \in Parents
    PROVE  parent.edge \in Edges \cup Received \cup {"entry"}
BY DEF Parents, Hashes, External, Entry

\* Where a checkpoint is set.
Positions == [parent : Parents, pathwayStart : Nat, edgeStart : Nat,
              oppositeHash : Parents, oppositeStart : Nat]

LEMMA Placed ==
    ASSUME StreamsInv, NEW edge \in Edges, NEW place, place = Place(edge)
    PROVE  /\ place \in Positions
           /\ Opposes(place.parent, Direction[edge])
           /\ Opposes(place.oppositeHash, Direction[edge])
           /\ place.pathwayStart \leq place.edgeStart /\ place.edgeStart \leq now
           /\ place.oppositeStart \leq now
           /\ place.oppositeHash # Entry => place.pathwayStart \leq place.oppositeStart
<1>1. now \in Nat /\ Direction[edge] \in {"in", "out"}
  BY StreamsAssumption DEF StreamsInv, StreamsTyped
<1>2. CASE pathway = NoPathway
  <2>1. place = [parent |-> Entry, pathwayStart |-> now, edgeStart |-> now,
                 oppositeHash |-> Entry, oppositeStart |-> now]
    BY <1>2 DEF Place, NewPathway
  <2> QED
    BY <1>1, <2>1, EntryIsNoEdge DEF Positions, Opposes
<1>3. CASE pathway # NoPathway
  <2>1. pathway \in Pathways
    BY <1>3 DEF StreamsInv, StreamsTyped
  <2>2. /\ pathway.hash \in Parents /\ pathway.oppositeHash \in Parents
        /\ pathway.pathwayStart \in Nat /\ pathway.edgeStart \in Nat /\ pathway.oppositeStart \in Nat
    BY <2>1 DEF Pathways
  <2>3. /\ pathway.hash.edge \in Edges => Direction[pathway.hash.edge] = pathway.direction
        /\ Opposes(pathway.oppositeHash, pathway.direction)
        /\ pathway.pathwayStart \leq pathway.edgeStart /\ pathway.edgeStart \leq now
        /\ pathway.oppositeStart \leq now
        /\ pathway.oppositeHash # Entry => pathway.pathwayStart \leq pathway.oppositeStart
    BY <1>3 DEF StreamsInv, PathwayInv
  <2>4. CASE pathway.direction = Direction[edge]
    <3>1. place = Sibling
      BY <1>3, <2>4 DEF Place
    <3>2. CASE pathway.oppositeHash = Entry
      <4>1. place = [parent |-> Entry, pathwayStart |-> now, edgeStart |-> now,
                     oppositeHash |-> Entry, oppositeStart |-> pathway.oppositeStart]
        BY <3>1, <3>2 DEF Sibling
      <4> QED
        BY <1>1, <2>2, <2>3, <4>1, EntryIsNoEdge DEF Positions, Opposes
    <3>3. CASE pathway.oppositeHash # Entry
      <4>1. place = [parent |-> pathway.oppositeHash, pathwayStart |-> pathway.pathwayStart,
                     edgeStart |-> pathway.oppositeStart, oppositeHash |-> pathway.oppositeHash,
                     oppositeStart |-> pathway.oppositeStart]
        BY <3>1, <3>3 DEF Sibling
      <4> QED
        BY <1>1, <2>2, <2>3, <2>4, <3>3, <4>1 DEF Positions, Opposes
    <3> QED
      BY <3>2, <3>3
  <2>5. CASE pathway.direction # Direction[edge]
    <3>1. place = [parent |-> pathway.hash, pathwayStart |-> pathway.pathwayStart,
                   edgeStart |-> pathway.edgeStart, oppositeHash |-> pathway.hash,
                   oppositeStart |-> pathway.edgeStart]
      BY <1>3, <2>5 DEF Place, Turn
    <3> QED
      BY <1>1, <2>2, <2>3, <2>5, <3>1 DEF Positions, Opposes
  <2> QED
    BY <2>4, <2>5
<1> QED
  BY <1>2, <1>3

\* A hash is of its edge, whether it is in the cache or not.
LEMMA HashOfEdge ==
    ASSUME StreamsInv, NEW edge \in Edges, NEW parent \in Parents
    PROVE  HashOf(edge, parent) \in Hashes /\ HashOf(edge, parent).edge = edge
<1>1. CASE <<edge, TextOf(parent)>> \in DOMAIN hashes
  <2>1. HashOf(edge, parent) = hashes[<<edge, TextOf(parent)>>]
    BY <1>1 DEF HashOf
  <2> QED
    BY <1>1, <2>1 DEF StreamsInv, StreamsTyped
<1>2. CASE <<edge, TextOf(parent)>> \notin DOMAIN hashes
  <2>1. HashOf(edge, parent) = [edge |-> edge, parent |-> parent.edge]
    BY <1>2 DEF HashOf
  <2> QED
    BY <2>1, EdgesOfParents DEF Hashes
<1> QED
  BY <1>1, <1>2

LEMMA CountIsNat ==
    ASSUME NEW counts, \A k \in DOMAIN counts : counts[k] \in Nat, NEW key
    PROVE  CountOf(counts, key) \in Nat
BY DEF CountOf

LEMMA CountAdded ==
    ASSUME NEW counts, \A k \in DOMAIN counts : counts[k] \in Nat, NEW key, NEW other,
           NEW more, more = Add(counts, key, 1)
    PROVE  /\ \A k \in DOMAIN more : more[k] \in Nat
           /\ other = key => CountOf(more, other) = CountOf(counts, other) + 1
           /\ other # key => CountOf(more, other) = CountOf(counts, other)
<1>1. \A k : CountOf(counts, k) \in Nat
  BY CountIsNat
<1>2. DOMAIN more = DOMAIN counts \cup {key}
  BY DEF Add
<1>3. \A k \in DOMAIN more : more[k] = CountOf(counts, k) + (IF k = key THEN 1 ELSE 0)
  BY DEF Add
<1>4. \A k \in DOMAIN more : more[k] \in Nat
  BY <1>1, <1>3
<1>5. ASSUME other = key
      PROVE  CountOf(more, other) = CountOf(counts, other) + 1
  BY <1>2, <1>3, <1>5 DEF CountOf
<1>6. ASSUME other # key
      PROVE  CountOf(more, other) = CountOf(counts, other)
  <2>1. CASE other \in DOMAIN counts
    <3>1. more[other] = CountOf(counts, other) + 0
      BY <1>2, <1>3, <1>6, <2>1
    <3>2. CountOf(more, other) = more[other]
      BY <1>2, <2>1 DEF CountOf
    <3> QED
      BY <1>1, <3>1, <3>2
  <2>2. CASE other \notin DOMAIN counts
    BY <1>2, <1>6, <2>2 DEF CountOf
  <2> QED
    BY <2>1, <2>2
<1> QED
  BY <1>4, <1>5, <1>6

\* A checkpoint is set where the pathway is, and counted in the bucket of now.
LEMMA CheckpointIsSet ==
    ASSUME StreamsInv, NEW edge \in Edges, SetCheckpoint(edge)
    PROVE  StreamsInv'
<1>0. PICK place : place = Place(edge)
  OBVIOUS
<1>1. /\ place \in Positions
      /\ Opposes(place.parent, Direction[edge])
      /\ Opposes(place.oppositeHash, Direction[edge])
      /\ place.pathwayStart \leq place.edgeStart /\ place.edgeStart \leq now
      /\ place.oppositeStart \leq now
      /\ place.oppositeHash # Entry => place.pathwayStart \leq place.oppositeStart
  BY <1>0, Placed
<1>2. /\ place.parent \in Parents /\ place.oppositeHash \in Parents
      /\ place.pathwayStart \in Nat /\ place.edgeStart \in Nat /\ place.oppositeStart \in Nat
  BY <1>1 DEF Positions
<1>3. PICK hash : hash = HashOf(edge, place.parent)
  OBVIOUS
<1>4. hash \in Hashes /\ hash.edge = edge /\ hash \in Parents
  BY <1>2, <1>3, HashOfEdge DEF Parents
<1>5. now \in Nat /\ Direction[edge] \in {"in", "out"}
  BY StreamsAssumption DEF StreamsInv, StreamsTyped
<1>6. PICK bucket \in Int : bucket = now - (now % BucketSize)
  <2>1. now % BucketSize \in Int
    BY <1>5, StreamsAssumption
  <2> QED
    BY <1>5, <2>1
<1>7. PICK point : point = [edge |-> edge, hash |-> hash, parent |-> place.parent, bucket |-> bucket,
                            edgeLatency |-> now - place.edgeStart,
                            pathwayLatency |-> now - place.pathwayStart]
  OBVIOUS
<1>8. point \in Checkpoints
  BY <1>2, <1>4, <1>6, <1>5, <1>7 DEF Checkpoints
<1>9. /\ hashes' = [k \in DOMAIN hashes \cup {<<edge, TextOf(place.parent)>>} |->
                      IF k \in DOMAIN hashes THEN hashes[k] ELSE hash]
      /\ set' = Append(set, point)
      /\ buckets' = Add(buckets, <<bucket, hash>>, 1)
      /\ pathway' = [hash |-> hash, direction |-> Direction[edge],
                     pathwayStart |-> place.pathwayStart, edgeStart |-> place.edgeStart,
                     oppositeHash |-> place.oppositeHash, oppositeStart |-> place.oppositeStart]
      /\ now' = now /\ flushed' = flushed
  BY <1>0, <1>3, <1>6, <1>7 DEF SetCheckpoint
<1>10. /\ set \in Seq(Checkpoints)
       /\ \A k \in DOMAIN buckets : buckets[k] \in Nat
       /\ \A k \in DOMAIN flushed : flushed[k] \in Nat
       /\ \A k \in DOMAIN hashes : hashes[k] \in Hashes /\ hashes[k].edge = k[1]
  BY DEF StreamsInv, StreamsTyped
<1>11. /\ set' \in Seq(Checkpoints) /\ Len(set') = Len(set) + 1 /\ Len(set) \in Nat
       /\ DOMAIN set = 1 .. Len(set) /\ DOMAIN set' = 1 .. (Len(set) + 1)
       /\ \A k \in DOMAIN set : set'[k] = set[k]
       /\ set'[Len(set) + 1] = point
  BY <1>8, <1>9, <1>10
<1>12. StreamsTyped'
  <2>1. pathway' \in Pathways
    BY <1>2, <1>4, <1>5, <1>9 DEF Pathways
  <2>2. ASSUME NEW k \in DOMAIN hashes'
        PROVE  hashes'[k] \in Hashes /\ hashes'[k].edge = k[1]
    <3>1. CASE k \in DOMAIN hashes
      BY <1>9, <1>10, <3>1
    <3>2. CASE k \notin DOMAIN hashes
      BY <1>4, <1>9, <3>2
    <3> QED
      BY <3>1, <3>2
  <2>3. \A k \in DOMAIN buckets' : buckets'[k] \in Nat
    BY <1>9, <1>10, CountAdded
  <2> QED
    BY <1>5, <1>9, <1>10, <1>11, <2>1, <2>2, <2>3 DEF StreamsTyped
<1>13. PathwayInv'
  <2>1. /\ pathway'.hash = hash /\ pathway'.direction = Direction[edge]
        /\ pathway'.pathwayStart = place.pathwayStart /\ pathway'.edgeStart = place.edgeStart
        /\ pathway'.oppositeHash = place.oppositeHash
        /\ pathway'.oppositeStart = place.oppositeStart
    BY <1>9
  <2> QED
    BY <1>1, <1>4, <1>9, <2>1 DEF PathwayInv, Opposes
<1>14. PathwayTurns'
  <2>1. ASSUME NEW k \in DOMAIN set'
        PROVE  /\ set'[k].parent.edge \in Edges =>
                     Direction[set'[k].parent.edge] # Direction[set'[k].edge]
               /\ 0 \leq set'[k].edgeLatency /\ set'[k].edgeLatency \leq set'[k].pathwayLatency
    <3>1. CASE k \in DOMAIN set
      BY <1>11, <3>1 DEF StreamsInv, PathwayTurns
    <3>2. CASE k = Len(set) + 1
      <4>1. /\ set'[k].parent = place.parent /\ set'[k].edge = edge
            /\ set'[k].edgeLatency = now - place.edgeStart
            /\ set'[k].pathwayLatency = now - place.pathwayStart
        BY <1>7, <1>11, <3>2
      <4> QED
        BY <1>1, <1>2, <1>5, <4>1 DEF Opposes
    <3> QED
      BY <1>11, <3>1, <3>2
  <2> QED
    BY <2>1 DEF PathwayTurns
<1>15. EveryPointOnce'
  <2> DEFINE at == <<bucket, hash>>
  <2>0. \A key : /\ key = at => CountOf(buckets', key) = CountOf(buckets, key) + 1
                 /\ key # at => CountOf(buckets', key) = CountOf(buckets, key)
    <3> HIDE DEF at
    <3>1. buckets' = Add(buckets, at, 1)
      BY <1>9 DEF at
    <3> QED
      BY <1>10, <3>1, CountAdded
  <2>1. ASSUME NEW key \in Int \X Hashes
        PROVE  CountOf(buckets', key) + CountOf(flushed', key) = Cardinality(PointsOf(key)')
    <3>1. CountOf(buckets, key) + CountOf(flushed, key) = Cardinality(PointsOf(key))
      BY DEF StreamsInv, EveryPointOnce
    <3>2. CountOf(buckets, key) \in Nat /\ CountOf(flushed, key) \in Nat
      BY <1>10, CountIsNat
    <3>3. IsFiniteSet(PointsOf(key))
      <4>1. IsFiniteSet(1 .. Len(set))
        BY <1>11, FS_Interval
      <4> QED
        BY <1>11, <4>1, FS_Subset DEF PointsOf
    <3>4. CASE key = <<bucket, hash>>
      <4>1. PointsOf(key)' = PointsOf(key) \cup {Len(set) + 1}
        BY <1>7, <1>11, <3>4 DEF PointsOf
      <4>2. Len(set) + 1 \notin PointsOf(key)
        BY <1>11 DEF PointsOf
      <4>3. Cardinality(PointsOf(key) \cup {Len(set) + 1}) = Cardinality(PointsOf(key)) + 1
        BY <3>3, <4>2, FS_AddElement
      <4>4. CountOf(buckets', key) = CountOf(buckets, key) + 1
        BY <2>0, <3>4
      <4> QED
        BY <1>9, <3>1, <3>2, <4>1, <4>3, <4>4
    <3>5. CASE key # <<bucket, hash>>
      <4>1. ~(point.bucket = key[1] /\ point.hash = key[2])
        BY <1>7, <3>5
      <4>2. PointsOf(key)' = PointsOf(key)
        BY <1>11, <4>1 DEF PointsOf
      <4>3. CountOf(buckets', key) = CountOf(buckets, key)
        BY <2>0, <3>5
      <4> QED
        BY <1>9, <3>1, <4>2, <4>3
    <3> QED
      BY <3>4, <3>5
  <2> QED
    BY <2>1 DEF EveryPointOnce
<1> QED
  BY <1>12, <1>13, <1>14, <1>15 DEF StreamsInv

\* What counts points, or says what they are, stays when its variables do.
LEMMA PointsStay ==
    ASSUME StreamsInv, set' = set, buckets' = buckets, flushed' = flushed
    PROVE  PathwayTurns' /\ EveryPointOnce'
<1>1. PathwayTurns'
  BY DEF StreamsInv, PathwayTurns
<1>2. EveryPointOnce'
  <2>1. \A key : PointsOf(key)' = PointsOf(key)
    BY DEF PointsOf
  <2> QED
    BY <2>1 DEF StreamsInv, EveryPointOnce
<1> QED
  BY <1>1, <1>2

LEMMA PathwayIsDecoded ==
    ASSUME StreamsInv, NEW h \in Received, NEW a \in 0 .. now, NEW b \in 0 .. now, Decode(h, a, b)
    PROVE  StreamsInv'
<1>1. /\ a \leq b
      /\ pathway' = [hash |-> External(h), direction |-> "none", pathwayStart |-> a,
                     edgeStart |-> b, oppositeHash |-> Entry, oppositeStart |-> now]
      /\ now' = now /\ hashes' = hashes /\ set' = set /\ buckets' = buckets /\ flushed' = flushed
  BY DEF Decode
<1>2. now \in Nat /\ a \in Nat /\ b \in Nat /\ b \leq now
  BY DEF StreamsInv, StreamsTyped
<1>3. External(h) \in Parents /\ External(h).edge \notin Edges
  BY StreamsAssumption DEF External, Parents
<1>4. pathway' \in Pathways
  BY <1>1, <1>2, <1>3, EntryIsNoEdge DEF Pathways
<1>5. StreamsTyped'
  BY <1>1, <1>2, <1>4 DEF StreamsInv, StreamsTyped
<1>6. PathwayInv'
  <2>1. /\ pathway'.hash = External(h) /\ pathway'.oppositeHash = Entry
        /\ pathway'.pathwayStart = a /\ pathway'.edgeStart = b /\ pathway'.oppositeStart = now
    BY <1>1
  <2> QED
    BY <1>1, <1>2, <1>3, <2>1, EntryIsNoEdge DEF PathwayInv, Opposes
<1> QED
  BY <1>1, <1>5, <1>6, PointsStay DEF StreamsInv

\* Draining moves every count.
LEMMA BucketsAreDrained ==
    ASSUME StreamsInv, Drain
    PROVE  StreamsInv'
<1>1. /\ flushed' = [k \in DOMAIN flushed \cup DOMAIN buckets |->
                       CountOf(flushed, k) + CountOf(buckets, k)]
      /\ buckets' = <<>>
      /\ now' = now /\ pathway' = pathway /\ hashes' = hashes /\ set' = set
  BY DEF Drain
<1>2. \A k : CountOf(buckets, k) \in Nat /\ CountOf(flushed, k) \in Nat
  BY CountIsNat DEF StreamsInv, StreamsTyped
<1>3. StreamsTyped'
  <2>1. \A k \in DOMAIN flushed' : flushed'[k] \in Nat
    BY <1>1, <1>2
  <2>2. \A k \in DOMAIN buckets' : buckets'[k] \in Nat
    BY <1>1
  <2> QED
    BY <1>1, <2>1, <2>2 DEF StreamsInv, StreamsTyped
<1>4. PathwayInv' /\ PathwayTurns'
  BY <1>1 DEF StreamsInv, PathwayInv, PathwayTurns
<1>5. EveryPointOnce'
  <2>1. ASSUME NEW key \in Int \X Hashes
        PROVE  CountOf(buckets', key) + CountOf(flushed', key) = Cardinality(PointsOf(key)')
    <3>1. CountOf(buckets', key) = 0
      BY <1>1 DEF CountOf
    <3>2. CountOf(flushed', key) = CountOf(flushed, key) + CountOf(buckets, key)
      <4>1. CASE key \in DOMAIN flushed \cup DOMAIN buckets
        BY <1>1, <4>1 DEF CountOf
      <4>2. CASE key \notin DOMAIN flushed \cup DOMAIN buckets
        BY <1>1, <4>2 DEF CountOf
      <4> QED
        BY <4>1, <4>2
    <3>3. PointsOf(key)' = PointsOf(key)
      BY <1>1 DEF PointsOf
    <3>4. CountOf(buckets, key) + CountOf(flushed, key) = Cardinality(PointsOf(key))
      BY DEF StreamsInv, EveryPointOnce
    <3> QED
      BY <1>2, <3>1, <3>2, <3>3, <3>4
  <2> QED
    BY <2>1 DEF EveryPointOnce
<1> QED
  BY <1>3, <1>4, <1>5 DEF StreamsInv

LEMMA StreamsSteps == StreamsInv /\ [StreamsNext]_streamsVars => StreamsInv'
<1> SUFFICES ASSUME StreamsInv, [StreamsNext]_streamsVars PROVE StreamsInv'
  OBVIOUS
<1>1. ASSUME NEW edge \in Edges, SetCheckpoint(edge)
      PROVE  StreamsInv'
  BY <1>1, CheckpointIsSet
<1>2. ASSUME NEW h \in Received, NEW a \in 0 .. now, NEW b \in 0 .. now, Decode(h, a, b)
      PROVE  StreamsInv'
  BY <1>2, PathwayIsDecoded
<1>3. CASE Forget
  <2>1. /\ pathway' = NoPathway
        /\ now' = now /\ hashes' = hashes /\ set' = set /\ buckets' = buckets /\ flushed' = flushed
    BY <1>3 DEF Forget
  <2>2. StreamsTyped' /\ PathwayInv'
    BY <2>1 DEF StreamsInv, StreamsTyped, PathwayInv
  <2> QED
    BY <2>1, <2>2, PointsStay DEF StreamsInv
<1>4. CASE Drain
  BY <1>4, BucketsAreDrained
<1>5. CASE Tick
  <2>1. /\ now' = now + 1 /\ pathway' = pathway
        /\ hashes' = hashes /\ set' = set /\ buckets' = buckets /\ flushed' = flushed
    BY <1>5 DEF Tick
  <2>2. StreamsTyped'
    BY <2>1 DEF StreamsInv, StreamsTyped
  <2>3. PathwayInv'
    <3>1. now \in Nat
      BY DEF StreamsInv, StreamsTyped
    <3>2. ASSUME pathway # NoPathway
          PROVE  pathway.edgeStart \leq now' /\ pathway.oppositeStart \leq now'
      <4>1. pathway.edgeStart \in Nat /\ pathway.oppositeStart \in Nat
        BY <3>2 DEF StreamsInv, StreamsTyped, Pathways
      <4>2. pathway.edgeStart \leq now /\ pathway.oppositeStart \leq now
        BY <3>2 DEF StreamsInv, PathwayInv
      <4> QED
        BY <2>1, <3>1, <4>1, <4>2
    <3> QED
      BY <2>1, <3>2 DEF StreamsInv, PathwayInv, Opposes
  <2> QED
    BY <2>1, <2>2, <2>3, PointsStay DEF StreamsInv
<1>6. CASE UNCHANGED streamsVars
  <2>1. /\ now' = now /\ pathway' = pathway
        /\ hashes' = hashes /\ set' = set /\ buckets' = buckets /\ flushed' = flushed
    BY <1>6 DEF streamsVars
  <2>2. StreamsTyped' /\ PathwayInv'
    BY <2>1 DEF StreamsInv, StreamsTyped, PathwayInv, Opposes
  <2> QED
    BY <2>1, <2>2, PointsStay DEF StreamsInv
<1> QED
  BY <1>1, <1>2, <1>3, <1>4, <1>5, <1>6 DEF StreamsNext

LEMMA StreamsInvImplies == StreamsInv => PathwayTurns /\ PointsOnce
<1> SUFFICES ASSUME StreamsInv PROVE PathwayTurns /\ PointsOnce
  OBVIOUS
<1>1. PathwayTurns
  BY DEF StreamsInv
<1>2. ASSUME NEW k \in DOMAIN set
      PROVE  <<set[k].bucket, set[k].hash>> \in Int \X Hashes
  <2>1. set[k] \in Checkpoints
    BY DEF StreamsInv, StreamsTyped
  <2> QED
    BY <2>1 DEF Checkpoints
<1>3. PointsOnce
  BY <1>2 DEF StreamsInv, EveryPointOnce, PointsOf, PointsOnce
<1> QED
  BY <1>1, <1>3

-----------------------------------------------------------------------------
(* Sequences one after another.                                            *)

\* FlattenSeq concatenates in turn.
LEMMA FlattenRuns ==
    ASSUME NEW V, NEW seqs \in Seq(Seq(V))
    PROVE  \E f \in [0 .. Len(seqs) -> Seq(V)] :
              /\ f[0] = <<>>
              /\ \A i \in 1 .. Len(seqs) : f[i] = f[i - 1] \o seqs[i]
              /\ FlattenSeq(seqs) = f[Len(seqs)]
<1> DEFINE n == Len(seqs)
           step == [i \in 1 .. n |-> [x \in Seq(V) |-> x \o seqs[i]]]
           Flat(g) == [i \in 1 .. n |-> IF i = 1 THEN seqs[i] ELSE g[i - 1] \o seqs[i]]
           flatten == CHOOSE g : g = Flat(g)
<1>1. n \in Nat /\ \A i \in 1 .. n : seqs[i] \in Seq(V)
  OBVIOUS
<1>2. <<>> \in Seq(V) /\ step \in [1 .. n -> [Seq(V) -> Seq(V)]]
  BY <1>1
<1> HIDE DEF n, step
<1>3. PICK f : Runs(f, n, Seq(V), <<>>, step)
  BY <1>1, <1>2, LoopExists
<1>4. /\ f \in [0 .. n -> Seq(V)] /\ f[0] = <<>>
      /\ \A i \in 1 .. n : f[i] = f[i - 1] \o seqs[i]
  <2>1. f \in [0 .. n -> Seq(V)] /\ f[0] = <<>> /\ \A i \in 1 .. n : f[i] = step[i][f[i - 1]]
    BY <1>3 DEF Runs
  <2>2. \A i \in 1 .. n : f[i - 1] \in Seq(V)
    BY <1>1, <2>1
  <2> QED  BY <2>1, <2>2 DEF step
<1>5. \A i \in 1 .. n : f[i] = IF i = 1 THEN seqs[i] ELSE f[i - 1] \o seqs[i]
  <2> SUFFICES ASSUME NEW i \in 1 .. n, i = 1 PROVE f[i] = seqs[i]
    BY <1>4
  <2>1. f[i] = f[i - 1] \o seqs[i]
    BY <1>4
  <2>2. i - 1 = 0 /\ seqs[i] \in Seq(V)
    BY <1>1
  <2>3. f[i - 1] = <<>>
    BY <1>4, <2>2
  <2> QED  BY <2>1, <2>2, <2>3
<1>6. CASE n = 0
  <2>1. seqs = <<>> /\ FlattenSeq(seqs) = seqs
    BY <1>6 DEF n, FlattenSeq
  <2> QED  BY <1>4, <1>6, <2>1 DEF n
<1>7. CASE n # 0
  <2> DEFINE g == [i \in 1 .. n |-> f[i]]
  <2>1. g = Flat(g)
    <3>1. ASSUME NEW i \in 1 .. n PROVE g[i] = IF i = 1 THEN seqs[i] ELSE g[i - 1] \o seqs[i]
      <4>1. i # 1 => i - 1 \in 1 .. n
        BY <1>1
      <4>2. g[i] = f[i] /\ (i # 1 => g[i - 1] = f[i - 1])
        BY <4>1
      <4> HIDE DEF g
      <4> QED  BY <4>2, <1>5
    <3> QED  BY <3>1
  <2>2. flatten = Flat(flatten)
    BY <2>1, Zenon
  <2>3. FlattenSeq(seqs) = flatten[n]
    BY <1>7, Zenon DEF FlattenSeq, n
  <2>4. \A i \in 1 .. n : flatten[i] = IF i = 1 THEN seqs[i] ELSE flatten[i - 1] \o seqs[i]
    BY <2>2, Zenon
  <2> HIDE DEF flatten
  <2> DEFINE good == {i \in 0 .. n : i # 0 => flatten[i] = f[i]}
  <2>5. 0 \in good
    BY <1>1
  <2>6. ASSUME NEW i \in 1 .. n, i - 1 \in good PROVE i \in good
    <3>1. i \in 0 .. n /\ (i # 1 => flatten[i - 1] = f[i - 1])
      BY <2>6
    <3>2. flatten[i] = f[i]
      BY <3>1, <2>4, <1>5
    <3> QED  BY <3>1, <3>2
  <2> HIDE DEF good
  <2>7. \A i \in 0 .. n : i \in good
    BY <2>5, <2>6, <1>1, CountingUp
  <2>8. n \in good
    BY <2>7, <1>1
  <2>9. FlattenSeq(seqs) = f[n]
    BY <1>7, <2>3, <2>8 DEF good
  <2> QED  BY <1>4, <2>9 DEF n
<1> QED  BY <1>6, <1>7

LEMMA FlattenAppend ==
    ASSUME NEW V, NEW seqs \in Seq(Seq(V)), NEW seq \in Seq(V)
    PROVE  /\ FlattenSeq(seqs) \in Seq(V)
           /\ FlattenSeq(Append(seqs, seq)) = FlattenSeq(seqs) \o seq
<1> DEFINE n == Len(seqs)
           longer == Append(seqs, seq)
<1>1. /\ longer \in Seq(Seq(V)) /\ Len(longer) = n + 1 /\ n \in Nat /\ longer[n + 1] = seq
      /\ \A i \in 1 .. n : longer[i] = seqs[i]
  OBVIOUS
<1>2. PICK f \in [0 .. n -> Seq(V)] : /\ f[0] = <<>>
                                      /\ \A i \in 1 .. n : f[i] = f[i - 1] \o seqs[i]
                                      /\ FlattenSeq(seqs) = f[n]
  BY FlattenRuns
<1>3. PICK g \in [0 .. n + 1 -> Seq(V)] : /\ g[0] = <<>>
                                          /\ \A i \in 1 .. n + 1 : g[i] = g[i - 1] \o longer[i]
                                          /\ FlattenSeq(longer) = g[n + 1]
  <2>1. \E h \in [0 .. Len(longer) -> Seq(V)] :
           /\ h[0] = <<>>
           /\ \A i \in 1 .. Len(longer) : h[i] = h[i - 1] \o longer[i]
           /\ FlattenSeq(longer) = h[Len(longer)]
    BY <1>1, FlattenRuns
  <2> QED  BY <2>1, <1>1
<1> DEFINE good == {i \in 0 .. n : f[i] = g[i]}
<1>4. 0 \in good
  BY <1>1, <1>2, <1>3
<1>5. ASSUME NEW i \in 1 .. n, i - 1 \in good PROVE i \in good
  <2>1. i \in 0 .. n /\ i \in 1 .. n + 1 /\ f[i - 1] = g[i - 1] /\ longer[i] = seqs[i]
    BY <1>1, <1>5
  <2>2. f[i] = f[i - 1] \o seqs[i]
    BY <1>2
  <2>3. g[i] = g[i - 1] \o longer[i]
    BY <1>3, <2>1
  <2> QED  BY <2>1, <2>2, <2>3
<1> HIDE DEF good, n, longer
<1>6. \A i \in 0 .. n : i \in good
  BY <1>1, <1>4, <1>5, CountingUp
<1>7. n \in 0 .. n /\ n + 1 \in 1 .. n + 1 /\ (n + 1) - 1 = n
  BY <1>1
<1>8. g[n] = f[n] /\ f[n] \in Seq(V)
  BY <1>2, <1>6, <1>7 DEF good
<1>9. g[n + 1] = g[(n + 1) - 1] \o longer[n + 1]
  BY <1>3, <1>7
<1>10. g[n + 1] = f[n] \o seq
  BY <1>1, <1>7, <1>8, <1>9
<1> QED  BY <1>2, <1>3, <1>8, <1>10 DEF longer

-----------------------------------------------------------------------------
(* The encoders: what there is to encode.                                  *)

\* Strings, those the code itself writes besides, and numbers.
Data ==
    STRING \cup Int
    \cup {"", DEFAULT_SERVICE_NAME, DEFAULT_SPAN_NAME, "type", "trace_id", "span_id", "parent_id",
          "name", "resource", "service", "error", "start", "duration", "meta", "metrics"}
ValueTypes == {"string", "float", "id", "int", "long", "mark", "array", "map"}
Values == ValueTypes \X Data
Entries == Data \X Values

\* A span, also once it is truncated and normalized.
EncodedSpans ==
    [id : Int, service : Data, name : Data, resource : Data, type : Data,
     meta : Seq(Entries), metrics : Seq(Entries)]

LEMMA FormattedAreEncoded == FormattedSpans \subseteq EncodedSpans
<1> SUFFICES ASSUME NEW span \in FormattedSpans PROVE span \in EncodedSpans
  OBVIOUS
<1>1. Int \subseteq Data /\ STRING \subseteq Data
  BY DEF Data
<1>2. /\ STRING \X ({"string"} \X STRING) \subseteq Entries
      /\ STRING \X ({"float"} \X Int) \subseteq Entries
  BY <1>1 DEF Entries, Values, ValueTypes
<1>3. /\ Seq(STRING \X ({"string"} \X STRING)) \subseteq Seq(Entries)
      /\ Seq(STRING \X ({"float"} \X Int)) \subseteq Seq(Entries)
  BY <1>2
<1> QED  BY <1>1, <1>3 DEF FormattedSpans, EncodedSpans

LEMMA CutAreEntries == ASSUME NEW entry \in Entries PROVE CutKey(entry) \in Entries
<1>1. \A k \in DOMAIN Cut : Cut[k] \in Data
  BY TracesAssumption DEF Data
<1>2. entry[2] \in Values
  BY DEF Entries
<1> QED  BY <1>1, <1>2 DEF CutKey, Entries

LEMMA TruncatedIs == ASSUME NEW span \in EncodedSpans PROVE Truncated(span) \in EncodedSpans
<1> DEFINE n == Len(span.meta)
           base == [span EXCEPT !.meta = <<>>]
           step == [k \in 1 .. n |-> [s \in EncodedSpans |-> Moved(s, span.meta[k])]]
           Loop(g) == [k \in 0 .. n |-> IF k = 0 THEN base ELSE Moved(g[k - 1], span.meta[k])]
           moved == CHOOSE g : g = Loop(g)
<1>1. /\ n \in Nat /\ base \in EncodedSpans
      /\ \A k \in 1 .. n : span.meta[k] \in Entries
  <2>1. span.meta \in Seq(Entries)
    BY DEF EncodedSpans
  <2>2. n \in Nat /\ \A k \in 1 .. n : span.meta[k] \in Entries
    BY <2>1
  <2>3. <<>> \in Seq(Entries)
    OBVIOUS
  <2>4. base \in EncodedSpans
    BY <2>3 DEF EncodedSpans
  <2> QED  BY <2>2, <2>4
<1>2. ASSUME NEW s \in EncodedSpans, NEW entry \in Entries
      PROVE  Moved(s, entry) \in EncodedSpans
  <2>1. CutKey(entry) \in Entries
    BY CutAreEntries
  <2>2. /\ Append(s.metrics, CutKey(entry)) \in Seq(Entries)
        /\ Append(s.meta, entry) \in Seq(Entries)
    BY <2>1 DEF EncodedSpans
  <2> QED  BY <2>2 DEF Moved, EncodedSpans
<1> HIDE DEF n, base
<1>3. step \in [1 .. n -> [EncodedSpans -> EncodedSpans]]
  BY <1>1, <1>2
<1> HIDE DEF step
<1>4. PICK f : Runs(f, n, EncodedSpans, base, step)
  BY <1>1, <1>3, LoopExists
<1>5. f = Loop(f)
  <2>1. ASSUME NEW k \in 1 .. n PROVE f[k] = Moved(f[k - 1], span.meta[k])
    <3>1. f[k - 1] \in EncodedSpans
      BY <1>1, <1>4 DEF Runs
    <3> QED  BY <1>4, <3>1 DEF Runs, step
  <2> QED  BY <2>1, <1>1, <1>4 DEF Runs
<1>6. moved = Loop(moved)
  BY <1>5, Zenon
<1> HIDE DEF moved
<1> DEFINE good == {k \in 0 .. n : moved[k] \in EncodedSpans}
<1>7. 0 \in good
  BY <1>1, <1>6
<1>8. ASSUME NEW k \in 1 .. n, k - 1 \in good PROVE k \in good
  BY <1>1, <1>2, <1>6, <1>8
<1> HIDE DEF good
<1>9. \A k \in 0 .. n : k \in good
  BY <1>1, <1>7, <1>8, CountingUp
<1>10. moved[n] \in EncodedSpans
  BY <1>1, <1>9 DEF good
<1>11. Truncated(span) = [moved[n] EXCEPT !.metrics = [k \in DOMAIN @ |-> CutKey(@[k])]]
  BY Zenon DEF Truncated, moved, n, base
<1>12. [k \in DOMAIN moved[n].metrics |-> CutKey(moved[n].metrics[k])] \in Seq(Entries)
  <2>1. moved[n].metrics \in Seq(Entries)
    BY <1>10 DEF EncodedSpans
  <2> QED  BY <2>1, CutAreEntries
<1> QED  BY <1>10, <1>11, <1>12 DEF EncodedSpans

LEMMA NormalizedIs == ASSUME NEW span \in EncodedSpans PROVE Normalized(span) \in EncodedSpans
<1>1. DEFAULT_SERVICE_NAME \in Data /\ DEFAULT_SPAN_NAME \in Data
  BY DEF Data
<1> QED  BY <1>1 DEF Normalized, EncodedSpans

LEMMA FieldIs ==
    ASSUME NEW name \in Data, NEW value \in Values
    PROVE  StrValue(name) \in Values /\ Field(name, value) \in Seq(Values)
<1>1. StrValue(name) \in Values
  BY DEF StrValue, Values, ValueTypes
<1> QED  BY <1>1 DEF Field

LEMMA DataAre ==
    /\ \A type \in ValueTypes, data \in Data : <<type, data>> \in Values
    /\ Int \subseteq Data
    /\ "string" \in ValueTypes /\ "float" \in ValueTypes /\ "id" \in ValueTypes /\ "int" \in ValueTypes
    /\ "long" \in ValueTypes /\ "mark" \in ValueTypes /\ "array" \in ValueTypes /\ "map" \in ValueTypes
<1>1. \A type \in ValueTypes, data \in Data : <<type, data>> \in Values
  BY DEF Values
<1>2. Int \subseteq Data
  BY DEF Data
<1> QED  BY <1>1, <1>2 DEF ValueTypes

LEMMA Together ==
    ASSUME NEW s \in Seq(Values), NEW t \in Seq(Values)
    PROVE  s \o t \in Seq(Values)
OBVIOUS

LEMMA MapValuesAre == ASSUME NEW entries \in Seq(Entries) PROVE MapValues(entries) \in Seq(Values)
<1> DEFINE Pair(k) == <<StrValue(entries[k][1]), entries[k][2]>>
           pairs == [k \in DOMAIN entries |-> Pair(k)]
<1>1. ASSUME NEW k \in DOMAIN entries
      PROVE  Pair(k) \in Seq(Values)
  <2>1. entries[k][1] \in Data /\ entries[k][2] \in Values
    BY DEF Entries
  <2>2. StrValue(entries[k][1]) \in Values
    BY <2>1 DEF StrValue, Values, ValueTypes
  <2> QED  BY <2>1, <2>2
<1> HIDE DEF Pair
<1>2. pairs \in Seq(Seq(Values))
  BY <1>1
<1> HIDE DEF pairs
<1>3. FlattenSeq(pairs) \in Seq(Values)
  <2>1. <<>> \in Seq(Values)
    OBVIOUS
  <2> QED  BY <2>1, <1>2, FlattenAppend
<1>4. <<<<"map", Len(entries)>>>> \in Seq(Values)
  <2>1. <<"map", Len(entries)>> \in Values
    BY DataAre
  <2> QED  BY <2>1
<1>5. MapValues(entries) = <<<<"map", Len(entries)>>>> \o FlattenSeq(pairs)
  BY Zenon DEF MapValues, pairs, Pair
<1> QED  BY <1>3, <1>4, <1>5, Together

LEMMA Values04Are == ASSUME NEW span \in EncodedSpans PROVE Values04(span) \in Seq(Values)
<1> DEFINE fields == IF span.type = "" THEN 11 ELSE 12
           mark == <<<<"mark", fields>>>>
           type == IF span.type = "" THEN <<>> ELSE Field("type", StrValue(span.type))
<1>1. /\ span.id \in Int /\ span.service \in Data /\ span.name \in Data
      /\ span.resource \in Data /\ span.type \in Data
      /\ span.meta \in Seq(Entries) /\ span.metrics \in Seq(Entries)
  BY DEF EncodedSpans
<1>2. /\ "type" \in Data /\ "trace_id" \in Data /\ "span_id" \in Data /\ "parent_id" \in Data
      /\ "name" \in Data /\ "resource" \in Data /\ "service" \in Data /\ "error" \in Data
      /\ "start" \in Data /\ "duration" \in Data /\ "meta" \in Data /\ "metrics" \in Data
  BY DEF Data
<1>3. /\ <<"id", span.id>> \in Values /\ <<"id", 0>> \in Values /\ <<"int", 0>> \in Values
      /\ <<"long", span.id>> \in Values /\ <<"long", 1>> \in Values
      /\ <<"mark", 11>> \in Values /\ <<"mark", 12>> \in Values
  BY <1>1, DataAre
<1>4. /\ StrValue(span.type) \in Values /\ StrValue(span.name) \in Values
      /\ StrValue(span.resource) \in Values /\ StrValue(span.service) \in Values
      /\ StrValue("meta") \in Values /\ StrValue("metrics") \in Values
  BY <1>1, <1>2, DataAre DEF StrValue
<1>5. mark \in Seq(Values)
  <2>1. fields \in Int
    OBVIOUS
  <2> HIDE DEF fields
  <2>2. <<"mark", fields>> \in Values
    BY <2>1, DataAre
  <2> QED  BY <2>2
<1>6. type \in Seq(Values)
  <2>1. Field("type", StrValue(span.type)) \in Seq(Values)
    BY <1>2, <1>4, FieldIs
  <2>2. <<>> \in Seq(Values)
    OBVIOUS
  <2> QED  BY <2>1, <2>2
<1> HIDE DEF mark, type
<1>7. /\ Field("trace_id", <<"id", span.id>>) \in Seq(Values)
      /\ Field("span_id", <<"id", span.id>>) \in Seq(Values)
      /\ Field("parent_id", <<"id", 0>>) \in Seq(Values)
      /\ Field("name", StrValue(span.name)) \in Seq(Values)
      /\ Field("resource", StrValue(span.resource)) \in Seq(Values)
      /\ Field("service", StrValue(span.service)) \in Seq(Values)
      /\ Field("error", <<"int", 0>>) \in Seq(Values)
      /\ Field("start", <<"long", span.id>>) \in Seq(Values)
      /\ Field("duration", <<"long", 1>>) \in Seq(Values)
  BY <1>2, <1>3, <1>4, FieldIs
<1>8. /\ <<StrValue("meta")>> \in Seq(Values) /\ MapValues(span.meta) \in Seq(Values)
      /\ <<StrValue("metrics")>> \in Seq(Values) /\ MapValues(span.metrics) \in Seq(Values)
  BY <1>1, <1>4, MapValuesAre
<1>9. Values04(span) =
        mark \o type \o Field("trace_id", <<"id", span.id>>) \o Field("span_id", <<"id", span.id>>)
        \o Field("parent_id", <<"id", 0>>)
        \o Field("name", StrValue(span.name)) \o Field("resource", StrValue(span.resource))
        \o Field("service", StrValue(span.service))
        \o Field("error", <<"int", 0>>) \o Field("start", <<"long", span.id>>)
        \o Field("duration", <<"long", 1>>)
        \o <<StrValue("meta")>> \o MapValues(span.meta)
        \o <<StrValue("metrics")>> \o MapValues(span.metrics)
  BY Zenon DEF Values04, mark, type, fields
<1> QED  BY <1>5, <1>6, <1>7, <1>8, <1>9, Together

LEMMA Values05Are == ASSUME NEW span \in EncodedSpans PROVE Values05(span) \in Seq(Values)
<1> DEFINE fixed == <<<<"mark", 12>>, StrValue(span.service), StrValue(span.name), StrValue(span.resource),
                      <<"id", span.id>>, <<"id", span.id>>, <<"id", 0>>,
                      <<"long", span.id>>, <<"long", 1>>, <<"int", 0>>>>
<1>1. /\ span.id \in Int /\ span.service \in Data /\ span.name \in Data
      /\ span.resource \in Data /\ span.type \in Data
      /\ span.meta \in Seq(Entries) /\ span.metrics \in Seq(Entries)
  BY DEF EncodedSpans
<1>2. /\ <<"id", span.id>> \in Values /\ <<"id", 0>> \in Values /\ <<"int", 0>> \in Values
      /\ <<"long", span.id>> \in Values /\ <<"long", 1>> \in Values /\ <<"mark", 12>> \in Values
  BY <1>1, DataAre
<1>3. /\ StrValue(span.type) \in Values /\ StrValue(span.name) \in Values
      /\ StrValue(span.resource) \in Values /\ StrValue(span.service) \in Values
  BY <1>1 DEF StrValue, Values, ValueTypes
<1>4. fixed \in Seq(Values)
  BY <1>2, <1>3
<1>5. <<StrValue(span.type)>> \in Seq(Values)
  BY <1>3
<1> HIDE DEF fixed
<1>6. Values05(span) = fixed \o MapValues(span.meta) \o MapValues(span.metrics) \o <<StrValue(span.type)>>
  BY Zenon DEF Values05, fixed
<1> QED  BY <1>1, <1>4, <1>5, <1>6, MapValuesAre, Together

LEMMA ValuesAre ==
    ASSUME NEW trace \in Seq(FormattedSpans)
    PROVE  ValuesOf(trace) \in Seq(Values)
<1> DEFINE spans == [k \in DOMAIN trace |-> SpanValues(trace[k])]
<1>1. ASSUME NEW k \in DOMAIN trace PROVE SpanValues(trace[k]) \in Seq(Values)
  <2>1. Normalized(Truncated(trace[k])) \in EncodedSpans
    BY FormattedAreEncoded, TruncatedIs, NormalizedIs
  <2> QED  BY <2>1, Values04Are, Values05Are DEF SpanValues
<1>2. spans \in Seq(Seq(Values))
  BY <1>1
<1> HIDE DEF spans
<1>3. FlattenSeq(spans) \in Seq(Values)
  <2>1. <<>> \in Seq(Values)
    OBVIOUS
  <2> QED  BY <2>1, <1>2, FlattenAppend
<1>4. <<<<"array", Len(trace)>>>> \in Seq(Values)
  <2>1. <<"array", Len(trace)>> \in Values
    BY DataAre
  <2> QED  BY <2>1
<1>5. ValuesOf(trace) = <<<<"array", Len(trace)>>>> \o FlattenSeq(spans)
  BY Zenon DEF ValuesOf, spans
<1> QED  BY <1>3, <1>4, <1>5, Together

-----------------------------------------------------------------------------
(* The encoders: a buffer, and what it reads back as.                      *)

Sizes == Int \cup {SizeOf(s) + 1 : s \in Data} \cup {SizeOf(s) + 5 : s \in Data}
Items == [type : ValueTypes \cup {"ref"}, value : Data, size : Sizes]
Maps == UNION {[D -> Nat] : D \in SUBSET Data}
Buffers == [bytes : Seq(Items), strings : Seq(Items), map : Maps]

\* The agent's reading of an item, with the strings it came with.
ReadWith(item, strings) ==
    IF item.type # "ref" THEN <<item.type, item.value>>
    ELSE IF item.value \in DOMAIN strings THEN StrValue(strings[item.value].value)
    ELSE <<"nothing">>

\* Every string of the map is where the map says.
Found(buffer) ==
    \A s \in DOMAIN buffer.map :
        /\ buffer.map[s] \in DOMAIN buffer.strings
        /\ buffer.strings[buffer.map[s]].type = "string"
        /\ buffer.strings[buffer.map[s]].value = s

\* Strings are only added.
Extends(longer, strings) ==
    /\ Len(strings) <= Len(longer)
    /\ \A k \in DOMAIN strings : longer[k] = strings[k]

LEMMA ItemIs ==
    ASSUME NEW type, type \in ValueTypes \/ type = "ref", NEW value \in Data, NEW size \in Sizes
    PROVE  /\ Item(type, value, size) \in Items
           /\ Item(type, value, size).type = type /\ Item(type, value, size).value = value
BY DEF Item, Items

LEMMA StringItemIs ==
    ASSUME NEW s \in Data
    PROVE  StringItem(s) \in Items /\ StringItem(s).type = "string" /\ StringItem(s).value = s
<1> DEFINE size == IF SizeOf(s) < 32 THEN SizeOf(s) + 1 ELSE SizeOf(s) + 5
<1>1. size \in Sizes
  BY DEF Sizes
<1>2. StringItem(s) = Item("string", s, size)
  BY Zenon DEF StringItem
<1>3. "string" \in ValueTypes
  BY DataAre
<1> HIDE DEF size
<1> QED  BY <1>1, <1>2, <1>3, ItemIs

LEMMA ReadStays ==
    ASSUME NEW strings \in Seq(Items), NEW longer \in Seq(Items), Extends(longer, strings),
           NEW item, item.type = "ref" => item.value \in DOMAIN strings
    PROVE  ReadWith(item, longer) = ReadWith(item, strings)
BY DEF ReadWith, Extends

LEMMA ExtendsOn ==
    ASSUME NEW r \in Seq(Items), NEW s \in Seq(Items), NEW t \in Seq(Items),
           Extends(s, r), Extends(t, s)
    PROVE  Extends(t, r)
BY DEF Extends

LEMMA CacheKeeps ==
    ASSUME NEW buffer \in Buffers, NEW s \in Data
    PROVE  LET cached == CacheString(buffer, s)
           IN  /\ cached \in Buffers
               /\ cached.bytes = buffer.bytes
               /\ Extends(cached.strings, buffer.strings)
               /\ Found(buffer) => Found(cached)
               /\ s \notin Inherited => s \in DOMAIN cached.map
<1> DEFINE cached == CacheString(buffer, s)
           map == [x \in DOMAIN buffer.map \cup {s} |->
                      IF x = s THEN Len(buffer.strings) + 1 ELSE buffer.map[x]]
           strings == Append(buffer.strings, StringItem(s))
<1>1. /\ buffer.bytes \in Seq(Items) /\ buffer.strings \in Seq(Items) /\ buffer.map \in Maps
      /\ DOMAIN buffer.map \subseteq Data
      /\ \A x \in DOMAIN buffer.map : buffer.map[x] \in Nat
  BY DEF Buffers, Maps
<1>2. CASE s \in DOMAIN buffer.map \cup Inherited
  BY <1>1, <1>2 DEF CacheString, Extends
<1>3. CASE s \notin DOMAIN buffer.map \cup Inherited
  <2>1. StringItem(s) \in Items /\ StringItem(s).type = "string" /\ StringItem(s).value = s
    BY StringItemIs
  <2>2. /\ strings \in Seq(Items) /\ Len(strings) = Len(buffer.strings) + 1
        /\ Len(buffer.strings) \in Nat
        /\ DOMAIN strings = 1 .. Len(strings) /\ DOMAIN buffer.strings = 1 .. Len(buffer.strings)
        /\ \A k \in DOMAIN buffer.strings : strings[k] = buffer.strings[k]
        /\ strings[Len(buffer.strings) + 1] = StringItem(s)
    BY <1>1, <2>1
  <2>3. map \in Maps
    <3>1. DOMAIN buffer.map \cup {s} \in SUBSET Data
      BY <1>1
    <3>2. map \in [DOMAIN buffer.map \cup {s} -> Nat]
      BY <1>1, <2>2
    <3> QED  BY <3>1, <3>2 DEF Maps
  <2>4. cached = [[buffer EXCEPT !.strings = strings] EXCEPT !.map = map]
    BY <1>3, Zenon DEF CacheString
  <2> HIDE DEF map, strings, cached
  <2>5. /\ cached \in Buffers /\ cached.bytes = buffer.bytes
        /\ cached.strings = strings /\ cached.map = map
    BY <2>2, <2>3, <2>4 DEF Buffers
  <2>6. Extends(strings, buffer.strings)
    BY <2>2 DEF Extends
  <2>7. s \in DOMAIN map
    BY DEF map
  <2>8. ASSUME Found(buffer), NEW x \in DOMAIN map
        PROVE  map[x] \in DOMAIN strings /\ strings[map[x]].type = "string" /\ strings[map[x]].value = x
    <3>1. CASE x = s
      <4>1. map[x] = Len(buffer.strings) + 1
        BY <3>1 DEF map
      <4> QED  BY <2>1, <2>2, <3>1, <4>1
    <3>2. CASE x # s
      <4>1. map[x] = buffer.map[x] /\ x \in DOMAIN buffer.map
        BY <3>2 DEF map
      <4> QED  BY <2>2, <2>8, <4>1 DEF Found
    <3> QED  BY <3>1, <3>2
  <2> QED  BY <2>5, <2>6, <2>7, <2>8 DEF Found, cached
<1> QED  BY <1>2, <1>3

\* Items read back as the values they were written for.
ReadsBack(bytes, strings, values) ==
    /\ Len(bytes) = Len(values)
    /\ \A k \in DOMAIN bytes : /\ bytes[k].type = "ref" => bytes[k].value \in DOMAIN strings
                               /\ ReadWith(bytes[k], strings) = values[k]

\* A value that names no inherited property.
Plain(v) == v[1] = "string" => v[2] \notin Inherited

LEMMA NumbersAre == Int \subseteq Sizes /\ Int \subseteq Data /\ Nat \subseteq Data
<1>1. Int \subseteq Sizes
  BY Zenon DEF Sizes
<1>2. Int \subseteq Data
  BY DEF Data
<1> QED  BY <1>1, <1>2

LEMMA BufferIs ==
    ASSUME NEW buffer \in Buffers
    PROVE  /\ buffer.bytes \in Seq(Items) /\ buffer.strings \in Seq(Items) /\ buffer.map \in Maps
           /\ DOMAIN buffer.map \subseteq Data
           /\ \A x \in DOMAIN buffer.map : buffer.map[x] \in Nat
BY DEF Buffers, Maps

LEMMA ItemsAre ==
    ASSUME NEW map \in Maps, NEW strings \in Seq(Items), NEW v \in Values
    PROVE  ItemsOf(map, strings, v) \in Seq(Items)
<1>1. v[1] \in ValueTypes /\ v[2] \in Data /\ 1 \in Sizes /\ 5 \in Sizes /\ 9 \in Sizes /\ 1 \in Data
  <2>1. v[1] \in ValueTypes /\ v[2] \in Data
    BY DEF Values
  <2> QED  BY <2>1, NumbersAre
<1>2. CASE v[1] = "string"
  <2> DEFINE s == v[2]
             value == IF s \in DOMAIN map THEN map[s] ELSE 1
  <2>1. /\ StringIn(map, strings, s) \in
              {<<Item("ref", value, 5)>>, <<strings[map[s]]>>, <<>>}
        /\ StringIn(map, strings, s) = <<strings[map[s]]>> =>
              \/ map[s] \in DOMAIN strings
              \/ StringIn(map, strings, s) \in {<<Item("ref", value, 5)>>, <<>>}
    BY Zenon DEF StringIn
  <2>2. value \in Data
    BY <1>1, NumbersAre DEF Maps
  <2> HIDE DEF value
  <2>3. <<Item("ref", value, 5)>> \in Seq(Items)
    <3>1. Item("ref", value, 5) \in Items
      BY <1>1, <2>2, ItemIs
    <3> QED  BY <3>1
  <2>4. map[s] \in DOMAIN strings => <<strings[map[s]]>> \in Seq(Items)
    OBVIOUS
  <2>5. StringIn(map, strings, s) \in Seq(Items)
    <3>1. <<>> \in Seq(Items)
      OBVIOUS
    <3>2. CASE StringIn(map, strings, s) = <<strings[map[s]]>> /\ map[s] \in DOMAIN strings
      BY <2>4, <3>2
    <3>3. CASE StringIn(map, strings, s) \in {<<Item("ref", value, 5)>>, <<>>}
      BY <2>3, <3>1, <3>3
    <3> QED  BY <2>1, <3>2, <3>3
  <2>6. ItemsOf(map, strings, v) = StringIn(map, strings, s)
    BY <1>2, Zenon DEF ItemsOf
  <2> QED  BY <2>5, <2>6
<1>3. CASE v[1] # "string"
  <2>1. \E size \in {1, 5, 9} : ItemsOf(map, strings, v) = <<Item(v[1], v[2], size)>>
    BY <1>3 DEF ItemsOf
  <2>2. \A size \in {1, 5, 9} : Item(v[1], v[2], size) \in Items
    BY <1>1, ItemIs
  <2> QED  BY <2>1, <2>2
<1> QED  BY <1>2, <1>3

\* A plain value is written as one item, that reads back as the value.
LEMMA ItemReads ==
    ASSUME NEW buffer \in Buffers, Found(buffer), NEW v \in Values,
           v[1] = "string" => v[2] \in DOMAIN buffer.map
    PROVE  \E item \in Items :
              /\ ItemsOf(buffer.map, buffer.strings, v) = <<item>>
              /\ item.type = "ref" => item.value \in DOMAIN buffer.strings
              /\ ReadWith(item, buffer.strings) = v
<1>1. /\ v[1] \in ValueTypes /\ v[2] \in Data /\ v = <<v[1], v[2]>>
      /\ 1 \in Sizes /\ 5 \in Sizes /\ 9 \in Sizes /\ Nat \subseteq Data
      /\ buffer.map \in Maps /\ buffer.strings \in Seq(Items)
  <2>1. v[1] \in ValueTypes /\ v[2] \in Data /\ v = <<v[1], v[2]>>
    BY DEF Values
  <2> QED  BY <2>1, NumbersAre, BufferIs
<1>2. CASE v[1] = "string"
  <2> DEFINE at == buffer.map[v[2]]
  <2>1. /\ at \in DOMAIN buffer.strings /\ buffer.strings[at] \in Items /\ at \in Data
        /\ buffer.strings[at].type = "string" /\ buffer.strings[at].value = v[2]
    BY <1>1, <1>2, BufferIs DEF Found
  <2>2. /\ version = "0.5" => ItemsOf(buffer.map, buffer.strings, v) = <<Item("ref", at, 5)>>
        /\ version # "0.5" => ItemsOf(buffer.map, buffer.strings, v) = <<buffer.strings[at]>>
    <3>1. ItemsOf(buffer.map, buffer.strings, v) = StringIn(buffer.map, buffer.strings, v[2])
      BY <1>2, Zenon DEF ItemsOf
    <3>2. v[2] \in DOMAIN buffer.map /\ at \in DOMAIN buffer.strings
      BY <1>2, <2>1
    <3>3. ASSUME version = "0.5"
          PROVE  StringIn(buffer.map, buffer.strings, v[2]) = <<Item("ref", at, 5)>>
      BY <3>2, <3>3, Zenon DEF StringIn
    <3>4. ASSUME version # "0.5"
          PROVE  StringIn(buffer.map, buffer.strings, v[2]) = <<buffer.strings[at]>>
      BY <3>2, <3>4, Zenon DEF StringIn
    <3> QED  BY <3>1, <3>3, <3>4
  <2> HIDE DEF at
  <2>3. CASE version = "0.5"
    <3> DEFINE item == Item("ref", at, 5)
    <3>1. item \in Items /\ item.type = "ref" /\ item.value = at
      <4>1. at \in Data
        BY <2>1
      <4>2. 5 \in Sizes
        BY <1>1
      <4>3. \A size \in Sizes : /\ Item("ref", at, size) \in Items
                                /\ Item("ref", at, size).type = "ref"
                                /\ Item("ref", at, size).value = at
        BY <4>1, ItemIs
      <4> QED  BY <4>2, <4>3
    <3> HIDE DEF item
    <3>2. ReadWith(item, buffer.strings) = v
      BY <1>1, <1>2, <2>1, <3>1 DEF ReadWith, StrValue
    <3>3. ItemsOf(buffer.map, buffer.strings, v) = <<item>>
      BY <2>2, <2>3 DEF item
    <3> QED  BY <2>1, <3>1, <3>2, <3>3
  <2>4. CASE version # "0.5"
    <3>1. ReadWith(buffer.strings[at], buffer.strings) = v
      BY <1>1, <1>2, <2>1 DEF ReadWith
    <3> QED  BY <2>1, <2>2, <2>4, <3>1
  <2> QED  BY <2>3, <2>4
<1>3. CASE v[1] # "string"
  <2>1. PICK size \in {1, 5, 9} : ItemsOf(buffer.map, buffer.strings, v) = <<Item(v[1], v[2], size)>>
    BY <1>3 DEF ItemsOf
  <2> DEFINE item == Item(v[1], v[2], size)
  <2>2. item \in Items /\ item.type = v[1] /\ item.value = v[2]
    BY <1>1, ItemIs
  <2>3. v[1] # "ref"
    BY <1>1 DEF ValueTypes
  <2> HIDE DEF item
  <2>4. ReadWith(item, buffer.strings) = v
    BY <1>1, <2>2, <2>3 DEF ReadWith
  <2> QED  BY <2>1, <2>2, <2>3, <2>4 DEF item
<1> QED  BY <1>2, <1>3

LEMMA Replaced ==
    ASSUME NEW buffer \in Buffers, NEW bytes \in Seq(Items)
    PROVE  LET next == [buffer EXCEPT !.bytes = bytes]
           IN  /\ next \in Buffers /\ next.bytes = bytes
               /\ next.strings = buffer.strings /\ next.map = buffer.map
BY DEF Buffers

\* What encoding a value leaves of the buffer, and what it adds.
LEMMA EncodeValueIs ==
    ASSUME NEW buffer \in Buffers, NEW v \in Values
    PROVE  LET next == EncodeValue(buffer, v)
           IN  /\ next \in Buffers
               /\ Extends(next.strings, buffer.strings)
               /\ Found(buffer) =>
                     /\ Found(next)
                     /\ Plain(v) =>
                           \E item \in Items :
                              /\ next.bytes = Append(buffer.bytes, item)
                              /\ item.type = "ref" => item.value \in DOMAIN next.strings
                              /\ ReadWith(item, next.strings) = v
<1> DEFINE next == EncodeValue(buffer, v)
           cached == IF v[1] = "string" THEN CacheString(buffer, v[2]) ELSE buffer
           items == ItemsOf(cached.map, cached.strings, v)
<1>1. /\ cached \in Buffers /\ cached.bytes = buffer.bytes
      /\ Extends(cached.strings, buffer.strings)
      /\ Found(buffer) => Found(cached)
      /\ v[1] = "string" /\ v[2] \notin Inherited => v[2] \in DOMAIN cached.map
  <2>1. v[2] \in Data
    BY DEF Values
  <2>2. CASE v[1] = "string"
    BY <2>1, <2>2, CacheKeeps
  <2>3. CASE v[1] # "string"
    BY <2>3 DEF Extends, Buffers
  <2> QED  BY <2>2, <2>3
<1>2. next = [cached EXCEPT !.bytes = cached.bytes \o items]
  BY Zenon DEF EncodeValue
<1> HIDE DEF cached, next
<1>3. cached.bytes \in Seq(Items) /\ cached.strings \in Seq(Items) /\ cached.map \in Maps
  BY <1>1 DEF Buffers
<1>4. items \in Seq(Items)
  BY <1>3, ItemsAre
<1> HIDE DEF items
<1>5. /\ next \in Buffers /\ next.bytes = cached.bytes \o items
      /\ next.strings = cached.strings /\ next.map = cached.map
  <2>1. cached.bytes \o items \in Seq(Items)
    BY <1>3, <1>4
  <2> QED  BY <1>1, <1>2, <2>1, Replaced
<1>6. ASSUME Found(buffer), Plain(v)
      PROVE  \E item \in Items :
                /\ next.bytes = Append(buffer.bytes, item)
                /\ item.type = "ref" => item.value \in DOMAIN next.strings
                /\ ReadWith(item, next.strings) = v
  <2>1. v[1] = "string" => v[2] \in DOMAIN cached.map
    BY <1>1, <1>6 DEF Plain
  <2>2. PICK item \in Items : /\ items = <<item>>
                              /\ item.type = "ref" => item.value \in DOMAIN cached.strings
                              /\ ReadWith(item, cached.strings) = v
    BY <1>1, <1>6, <2>1, ItemReads DEF items
  <2>3. next.bytes = Append(buffer.bytes, item)
    BY <1>1, <1>3, <1>5, <2>2
  <2> QED  BY <1>5, <2>2, <2>3
<1> QED  BY <1>1, <1>5, <1>6 DEF Found, next

LEMMA OneMore ==
    ASSUME NEW bytes \in Seq(Items), NEW strings \in Seq(Items), NEW longer \in Seq(Items),
           NEW values \in Seq(Values), NEW v \in Values, NEW item \in Items,
           ReadsBack(bytes, strings, values), Extends(longer, strings),
           item.type = "ref" => item.value \in DOMAIN longer, ReadWith(item, longer) = v
    PROVE  ReadsBack(Append(bytes, item), longer, Append(values, v))
<1>1. /\ Len(Append(bytes, item)) = Len(bytes) + 1 /\ Append(bytes, item)[Len(bytes) + 1] = item
      /\ Len(Append(values, v)) = Len(bytes) + 1 /\ Append(values, v)[Len(bytes) + 1] = v
      /\ \A k \in DOMAIN bytes : Append(bytes, item)[k] = bytes[k] /\ Append(values, v)[k] = values[k]
      /\ DOMAIN Append(bytes, item) = DOMAIN bytes \cup {Len(bytes) + 1}
      /\ \A k \in DOMAIN strings : k \in DOMAIN longer
  BY DEF ReadsBack, Extends
<1>2. ASSUME NEW k \in DOMAIN bytes
      PROVE  /\ bytes[k].type = "ref" => bytes[k].value \in DOMAIN longer
             /\ ReadWith(bytes[k], longer) = values[k]
  BY <1>1, ReadStays DEF ReadsBack
<1> QED  BY <1>1, <1>2 DEF ReadsBack

LEMMA EncodedIs ==
    ASSUME traceBytes \in Seq(Items), stringBytes \in Seq(Items), stringMap \in Maps,
           Found([bytes |-> traceBytes, strings |-> stringBytes, map |-> stringMap]),
           NEW before \in Seq(Values), NEW values \in Seq(Values)
    PROVE  LET encoded == Encoded(values)
           IN  /\ encoded \in Buffers /\ Found(encoded)
               /\ Extends(encoded.strings, stringBytes)
               /\ /\ ReadsBack(traceBytes, stringBytes, before)
                  /\ \A k \in DOMAIN values : Plain(values[k])
                  => ReadsBack(encoded.bytes, encoded.strings, before \o values)
<1> DEFINE n == Len(values)
           base == [bytes |-> traceBytes, strings |-> stringBytes, map |-> stringMap]
           step == [k \in 1 .. n |-> [b \in Buffers |-> EncodeValue(b, values[k])]]
           Loop(g) == [k \in 0 .. n |-> IF k = 0 THEN base ELSE EncodeValue(g[k - 1], values[k])]
           buffer == CHOOSE g : g = Loop(g)
           plain == \A k \in DOMAIN values : Plain(values[k])
           reads == ReadsBack(traceBytes, stringBytes, before) /\ plain
           so(k) == before \o SubSeq(values, 1, k)
<1>1. /\ n \in Nat /\ base \in Buffers /\ Found(base)
      /\ base.bytes = traceBytes /\ base.strings = stringBytes
      /\ DOMAIN values = 1 .. n
      /\ \A k \in 1 .. n : values[k] \in Values
  BY DEF Buffers
<1>2. ASSUME NEW b \in Buffers, NEW v \in Values PROVE EncodeValue(b, v) \in Buffers
  BY EncodeValueIs
<1>3. /\ so(0) = before /\ so(n) = before \o values
      /\ \A k \in 1 .. n : /\ so(k - 1) \in Seq(Values)
                           /\ so(k) = Append(so(k - 1), values[k])
  <2>1. SubSeq(values, 1, 0) = <<>> /\ SubSeq(values, 1, n) = values
    OBVIOUS
  <2>2. before \o <<>> = before
    OBVIOUS
  <2>3. ASSUME NEW k \in 1 .. n
        PROVE  so(k - 1) \in Seq(Values) /\ so(k) = Append(so(k - 1), values[k])
    <3>1. /\ SubSeq(values, 1, k - 1) \in Seq(Values)
          /\ SubSeq(values, 1, k) = Append(SubSeq(values, 1, k - 1), values[k])
      OBVIOUS
    <3> DEFINE start == SubSeq(values, 1, k - 1)
    <3> HIDE DEF start
    <3>2. values[k] \in Values
      BY <1>1
    <3>3. start \in Seq(Values)
      BY <3>1 DEF start
    <3>4. before \o Append(start, values[k]) = Append(before \o start, values[k])
      BY <3>2, <3>3
    <3> QED  BY <3>1, <3>3, <3>4 DEF start
  <2> QED  BY <2>1, <2>2, <2>3
<1> HIDE DEF n, base
<1>4. step \in [1 .. n -> [Buffers -> Buffers]]
  BY <1>1, <1>2
<1> HIDE DEF step
<1>5. PICK f : Runs(f, n, Buffers, base, step)
  BY <1>1, <1>4, LoopExists
<1>6. f = Loop(f)
  <2>1. ASSUME NEW k \in 1 .. n PROVE f[k] = EncodeValue(f[k - 1], values[k])
    <3>1. f[k - 1] \in Buffers
      BY <1>1, <1>5 DEF Runs
    <3> QED  BY <1>5, <3>1 DEF Runs, step
  <2> QED  BY <2>1, <1>1, <1>5 DEF Runs
<1>7. buffer = Loop(buffer)
  BY <1>6, Zenon
<1>8. Encoded(values) = buffer[n]
  BY Zenon DEF Encoded, buffer, n, base
<1>9. /\ buffer[0] = base
      /\ \A k \in 1 .. n : buffer[k] = EncodeValue(buffer[k - 1], values[k])
  <2> HIDE DEF buffer
  <2>1. \A k \in 0 .. n : buffer[k] = IF k = 0 THEN base ELSE EncodeValue(buffer[k - 1], values[k])
    BY <1>7, Zenon
  <2> QED  BY <1>1, <2>1
<1> HIDE DEF buffer, so, plain
<1> DEFINE Good(k) == /\ buffer[k] \in Buffers /\ Found(buffer[k])
                      /\ Extends(buffer[k].strings, stringBytes)
                      /\ reads => ReadsBack(buffer[k].bytes, buffer[k].strings, so(k))
           good == {k \in 0 .. n : Good(k)}
<1>10. 0 \in good
  <2>1. Extends(stringBytes, stringBytes)
    BY DEF Extends
  <2>2. Good(0)
    BY <1>1, <1>3, <1>9, <2>1
  <2> QED  BY <1>1, <2>2
<1>11. ASSUME NEW k \in 1 .. n, k - 1 \in good PROVE k \in good
  <2> DEFINE last == buffer[k - 1]
             next == buffer[k]
  <2>1. Good(k - 1)
    BY <1>11
  <2>2. /\ next = EncodeValue(last, values[k]) /\ values[k] \in Values
        /\ so(k - 1) \in Seq(Values) /\ so(k) = Append(so(k - 1), values[k])
    BY <1>1, <1>3, <1>9
  <2>3. last \in Buffers /\ Found(last) /\ Extends(last.strings, stringBytes)
    BY <2>1
  <2>4. reads => ReadsBack(last.bytes, last.strings, so(k - 1))
    BY <2>1
  <2> HIDE DEF last, next
  <2>5. /\ next \in Buffers /\ Found(next) /\ Extends(next.strings, last.strings)
        /\ Plain(values[k]) => \E item \in Items :
                                  /\ next.bytes = Append(last.bytes, item)
                                  /\ item.type = "ref" => item.value \in DOMAIN next.strings
                                  /\ ReadWith(item, next.strings) = values[k]
    BY <2>2, <2>3, EncodeValueIs
  <2>6. /\ last.bytes \in Seq(Items) /\ last.strings \in Seq(Items)
        /\ next.bytes \in Seq(Items) /\ next.strings \in Seq(Items)
    BY <2>3, <2>5, BufferIs
  <2>7. Extends(next.strings, stringBytes)
    BY <2>3, <2>5, <2>6, ExtendsOn
  <2>8. ASSUME reads PROVE ReadsBack(next.bytes, next.strings, so(k))
    <3>1. Plain(values[k])
      BY <1>1, <2>8 DEF plain
    <3>2. PICK item \in Items : /\ next.bytes = Append(last.bytes, item)
                                /\ item.type = "ref" => item.value \in DOMAIN next.strings
                                /\ ReadWith(item, next.strings) = values[k]
      BY <2>5, <3>1
    <3>3. ReadsBack(last.bytes, last.strings, so(k - 1))
      BY <2>4, <2>8
    <3> HIDE DEF reads
    <3>4. ReadsBack(Append(last.bytes, item), next.strings, Append(so(k - 1), values[k]))
      BY <2>2, <2>5, <2>6, <3>2, <3>3, OneMore
    <3> QED  BY <2>2, <3>2, <3>4
  <2> HIDE DEF reads
  <2>9. Good(k)
    BY <2>5, <2>7, <2>8 DEF next
  <2>10. k \in 0 .. n
    BY <1>1
  <2> QED  BY <2>9, <2>10
<1> HIDE DEF good
<1>12. \A k \in 0 .. n : k \in good
  BY <1>1, <1>10, <1>11, CountingUp
<1>13. Good(n)
  BY <1>1, <1>12 DEF good
<1> QED  BY <1>3, <1>8, <1>13 DEF plain

-----------------------------------------------------------------------------
(* The encoders: payloads.                                                 *)

\* What each trace consists of, and some of them in turn.
ValuesOfTraces == [trace \in Traces |-> ValuesOf(trace)]
All(valuesOf, of) == FlattenSeq([k \in DOMAIN of |-> valuesOf[of[k]]])

Buffer(bytes, strings, map) == [bytes |-> bytes, strings |-> strings, map |-> map]

Decodes(bytes, strings, values) ==
    Strings(values) \cap Inherited = {} => ReadsBack(bytes, strings, values)

\* The buffer holds what was appended since it was last emptied, and the last
\* payload what was appended before.
EncoderInv ==
    /\ traceBytes \in Seq(Items) /\ stringBytes \in Seq(Items) /\ stringMap \in Maps
    /\ Found(Buffer(traceBytes, stringBytes, stringMap))
    /\ appended \in Seq(Traces)
    /\ Decodes(traceBytes, stringBytes, All(ValuesOfTraces, appended))
    /\ payload.bytes \in Seq(Items) /\ payload.strings \in Seq(Items) /\ payload.of \in Seq(Traces)
    /\ Decodes(payload.bytes, payload.strings, All(ValuesOfTraces, payload.of))

LEMMA AllAre == ASSUME NEW of \in Seq(Traces) PROVE All(ValuesOfTraces, of) \in Seq(Values)
<1> DEFINE seqs == [k \in DOMAIN of |-> ValuesOfTraces[of[k]]]
<1>1. \A t \in Traces : ValuesOfTraces[t] \in Seq(Values)
  BY TracesAssumption, ValuesAre DEF ValuesOfTraces
<1>2. seqs \in Seq(Seq(Values)) /\ <<>> \in Seq(Values)
  BY <1>1
<1>3. All(ValuesOfTraces, of) = FlattenSeq(seqs)
  BY Zenon DEF All
<1> HIDE DEF seqs
<1> QED  BY <1>2, <1>3, FlattenAppend

LEMMA AllIs ==
    ASSUME NEW of \in Seq(Traces), NEW trace \in Traces
    PROVE  /\ ValuesOf(trace) \in Seq(Values)
           /\ All(ValuesOfTraces, Append(of, trace)) = All(ValuesOfTraces, of) \o ValuesOf(trace)
<1> DEFINE seqs == [k \in DOMAIN of |-> ValuesOfTraces[of[k]]]
           more == [k \in DOMAIN Append(of, trace) |-> ValuesOfTraces[Append(of, trace)[k]]]
<1>1. \A t \in Traces : ValuesOfTraces[t] = ValuesOf(t) /\ ValuesOf(t) \in Seq(Values)
  BY TracesAssumption, ValuesAre DEF ValuesOfTraces
<1>2. seqs \in Seq(Seq(Values))
  <2>1. \A k \in DOMAIN of : of[k] \in Traces
    OBVIOUS
  <2>2. \A k \in DOMAIN of : ValuesOfTraces[of[k]] \in Seq(Values)
    BY <1>1, <2>1
  <2> QED  BY <2>2
<1>3. more = Append(seqs, ValuesOf(trace))
  <2> DEFINE longer == Append(of, trace)
             n == Len(of)
  <2>1. /\ longer \in Seq(Traces) /\ DOMAIN longer = 1 .. n + 1 /\ n \in Nat
        /\ longer[n + 1] = trace /\ \A k \in 1 .. n : longer[k] = of[k]
        /\ Len(seqs) = n
    OBVIOUS
  <2>2. Append(seqs, ValuesOf(trace)) =
            [k \in 1 .. n + 1 |-> IF k = n + 1 THEN ValuesOf(trace) ELSE seqs[k]]
    BY <1>2, <2>1
  <2>3. ASSUME NEW k \in 1 .. n + 1
        PROVE  ValuesOfTraces[longer[k]] = IF k = n + 1 THEN ValuesOf(trace) ELSE seqs[k]
    <3>1. CASE k = n + 1
      BY <1>1, <2>1, <3>1
    <3>2. CASE k # n + 1
      <4>1. k \in 1 .. n
        BY <2>1, <3>2
      <4>2. seqs[k] = ValuesOfTraces[of[k]]
        BY <4>1
      <4> QED  BY <2>1, <3>2, <4>1, <4>2
    <3> QED  BY <3>1, <3>2
  <2>4. more = [k \in 1 .. n + 1 |-> ValuesOfTraces[longer[k]]]
    BY <2>1
  <2> QED  BY <2>2, <2>3, <2>4
<1>4. All(ValuesOfTraces, of) = FlattenSeq(seqs) /\ All(ValuesOfTraces, Append(of, trace)) = FlattenSeq(more)
  BY Zenon DEF All
<1> HIDE DEF seqs, more
<1> QED  BY <1>1, <1>2, <1>3, <1>4, FlattenAppend

LEMMA NothingIs ==
    /\ All(ValuesOfTraces, <<>>) = <<>>
    /\ \A strings : Decodes(<<>>, strings, <<>>)
    /\ {""} \subseteq Data
<1>1. All(ValuesOfTraces, <<>>) = <<>>
  BY DEF All, FlattenSeq
<1>2. \A strings : Decodes(<<>>, strings, <<>>)
  BY DEF Decodes, ReadsBack
<1> QED  BY <1>1, <1>2 DEF Data

\* A buffer after a reset: the empty string, nothing written.
EmptyMap == [s \in {""} |-> 1]

LEMMA EmptyIs ==
    /\ <<StringItem("")>> \in Seq(Items) /\ EmptyMap \in Maps
    /\ Found(Buffer(<<>>, <<StringItem("")>>, EmptyMap))
<1> DEFINE item == StringItem("")
           strings == <<item>>
<1>1. item \in Items /\ item.type = "string" /\ item.value = ""
  BY NothingIs, StringItemIs
<1>2. EmptyMap \in Maps
  <2>1. EmptyMap \in [{""} -> Nat] /\ {""} \in SUBSET Data
    BY NothingIs DEF EmptyMap
  <2> QED  BY <2>1 DEF Maps
<1> HIDE DEF item
<1>3. strings \in Seq(Items) /\ 1 \in DOMAIN strings /\ strings[1] = item
  <2>1. item \in Items
    BY <1>1
  <2>2. strings \in Seq(Items)
    BY <2>1
  <2>3. Len(strings) = 1
    OBVIOUS
  <2>4. strings[1] = item
    OBVIOUS
  <2>5. 1 \in DOMAIN strings
    OBVIOUS
  <2> QED  BY <2>2, <2>4, <2>5
<1>4. DOMAIN EmptyMap = {""} /\ EmptyMap[""] = 1
  BY DEF EmptyMap
<1> HIDE DEF strings
<1>5. Found(Buffer(<<>>, strings, EmptyMap))
  BY <1>1, <1>3, <1>4 DEF Found, Buffer
<1> QED  BY <1>2, <1>3, <1>5 DEF item, strings

LEMMA EncoderInitInv == EncoderInit => EncoderInv
<1> SUFFICES ASSUME EncoderInit PROVE EncoderInv
  OBVIOUS
<1>1. /\ traceBytes = <<>> /\ stringBytes = <<StringItem("")>> /\ stringMap = EmptyMap
      /\ appended = <<>> /\ payload.bytes = <<>> /\ payload.strings = <<>> /\ payload.of = <<>>
  BY DEF EncoderInit, EmptyMap
<1>2. <<>> \in Seq(Items) /\ <<>> \in Seq(Traces)
  OBVIOUS
<1>3. /\ Found(Buffer(traceBytes, stringBytes, stringMap))
      /\ Decodes(traceBytes, stringBytes, All(ValuesOfTraces, appended))
      /\ Decodes(payload.bytes, payload.strings, All(ValuesOfTraces, payload.of))
  BY <1>1, NothingIs, EmptyIs, Zenon
<1> QED  BY <1>1, <1>2, <1>3, EmptyIs DEF EncoderInv

LEMMA ResetKeeps ==
    ASSUME EncoderInv, Reset
    PROVE  /\ ValuesOfTraces' = ValuesOfTraces
           /\ traceBytes' \in Seq(Items) /\ stringBytes' \in Seq(Items) /\ stringMap' \in Maps
           /\ Found(Buffer(traceBytes', stringBytes', stringMap'))
           /\ appended' \in Seq(Traces)
           /\ Decodes(traceBytes', stringBytes', All(ValuesOfTraces, appended'))
<1>1. ValuesOfTraces' = ValuesOfTraces
  BY DEF Reset, ValuesOfTraces, ValuesOf, SpanValues
<1>2. /\ traceBytes' = <<>> /\ stringBytes' = <<StringItem("")>> /\ stringMap' = EmptyMap
      /\ appended' = <<>>
  BY DEF Reset, ResetMap, EmptyMap
<1>3. <<>> \in Seq(Items) /\ <<>> \in Seq(Traces)
  OBVIOUS
<1>4. /\ Found(Buffer(traceBytes', stringBytes', stringMap'))
      /\ Decodes(traceBytes', stringBytes', All(ValuesOfTraces, appended'))
  BY <1>2, NothingIs, EmptyIs, Zenon
<1> QED  BY <1>1, <1>2, <1>3, <1>4, EmptyIs

\* A trace that is appended decodes with those before it.
LEMMA AppendedDecodes ==
    ASSUME EncoderInv, NEW trace \in Traces
    PROVE  LET encoded == Encoded(ValuesOf(trace))
           IN  /\ encoded.bytes \in Seq(Items) /\ encoded.strings \in Seq(Items) /\ encoded.map \in Maps
               /\ Found(encoded)
               /\ Append(appended, trace) \in Seq(Traces)
               /\ Decodes(encoded.bytes, encoded.strings, All(ValuesOfTraces, Append(appended, trace)))
<1> DEFINE before == All(ValuesOfTraces, appended)
           values == ValuesOf(trace)
           encoded == Encoded(values)
<1>1. /\ before \in Seq(Values) /\ values \in Seq(Values)
      /\ All(ValuesOfTraces, Append(appended, trace)) = before \o values
  BY AllAre, AllIs DEF EncoderInv
<1>2. Append(appended, trace) \in Seq(Traces)
  BY DEF EncoderInv
<1>3. Decodes(traceBytes, stringBytes, before)
  BY DEF EncoderInv
<1> HIDE DEF before, values
<1>4. /\ encoded \in Buffers /\ Found(encoded)
      /\ /\ ReadsBack(traceBytes, stringBytes, before)
         /\ \A k \in DOMAIN values : Plain(values[k])
         => ReadsBack(encoded.bytes, encoded.strings, before \o values)
  BY <1>1, EncodedIs DEF EncoderInv, Buffer
<1> HIDE DEF encoded
<1>5. Decodes(encoded.bytes, encoded.strings, before \o values)
  <2> SUFFICES ASSUME Strings(before \o values) \cap Inherited = {}
               PROVE  ReadsBack(encoded.bytes, encoded.strings, before \o values)
    BY DEF Decodes
  <2>1. /\ \A k \in DOMAIN before : k \in DOMAIN (before \o values) /\ (before \o values)[k] = before[k]
        /\ \A k \in DOMAIN values : /\ Len(before) + k \in DOMAIN (before \o values)
                                    /\ (before \o values)[Len(before) + k] = values[k]
    BY <1>1
  <2>2. \A k \in DOMAIN (before \o values) :
           (before \o values)[k][1] = "string" => (before \o values)[k][2] \notin Inherited
    BY DEF Strings
  <2>3. Strings(before) \cap Inherited = {}
    BY <2>1, <2>2 DEF Strings
  <2>4. \A k \in DOMAIN values : Plain(values[k])
    BY <2>1, <2>2 DEF Plain
  <2> QED  BY <1>3, <1>4, <2>3, <2>4 DEF Decodes
<1>6. encoded.bytes \in Seq(Items) /\ encoded.strings \in Seq(Items) /\ encoded.map \in Maps
  BY <1>4, BufferIs
<1> QED  BY <1>1, <1>2, <1>4, <1>5, <1>6 DEF encoded, values

LEMMA EncoderStepInv == EncoderInv /\ [EncoderNext]_encoderVars => EncoderInv'
<1> SUFFICES ASSUME EncoderInv, [EncoderNext]_encoderVars PROVE EncoderInv'
  OBVIOUS
<1>1. ASSUME NEW trace \in Traces, Encode(trace) PROVE EncoderInv'
  <2> DEFINE encoded == Encoded(ValuesOf(trace))
             more == Append(appended, trace)
  <2>1. /\ encoded.bytes \in Seq(Items) /\ encoded.strings \in Seq(Items) /\ encoded.map \in Maps
        /\ Found(encoded) /\ more \in Seq(Traces)
        /\ Decodes(encoded.bytes, encoded.strings, All(ValuesOfTraces, more))
    BY AppendedDecodes
  <2>2. \/ Reset /\ \/ payload' = Payload(encoded.bytes, encoded.strings, more)
                    \/ UNCHANGED payload
        \/ /\ traceBytes' = encoded.bytes /\ stringBytes' = encoded.strings
           /\ stringMap' = encoded.map /\ appended' = more /\ UNCHANGED <<version, payload>>
    BY <1>1, Zenon DEF Encode
  <2> HIDE DEF encoded, more
  <2>3. CASE Reset /\ payload' = Payload(encoded.bytes, encoded.strings, more)
    BY <2>1, <2>3, ResetKeeps DEF EncoderInv, Payload
  <2>4. CASE Reset /\ UNCHANGED payload
    BY <2>4, ResetKeeps DEF EncoderInv
  <2>5. CASE /\ traceBytes' = encoded.bytes /\ stringBytes' = encoded.strings
             /\ stringMap' = encoded.map /\ appended' = more /\ UNCHANGED <<version, payload>>
    <3>1. ValuesOfTraces' = ValuesOfTraces
      BY <2>5 DEF ValuesOfTraces, ValuesOf, SpanValues
    <3>2. Found(Buffer(encoded.bytes, encoded.strings, encoded.map))
      BY <2>1 DEF Found, Buffer
    <3> QED  BY <2>1, <2>5, <3>1, <3>2 DEF EncoderInv
  <2> QED  BY <2>2, <2>3, <2>4, <2>5
<1>2. CASE MakePayload
  BY <1>2, ResetKeeps DEF MakePayload, EncoderInv, Payload
<1>3. CASE Discard
  BY <1>3, ResetKeeps DEF Discard, EncoderInv
<1>4. CASE UNCHANGED encoderVars
  <2>1. ValuesOfTraces' = ValuesOfTraces
    BY <1>4 DEF encoderVars, ValuesOfTraces, ValuesOf, SpanValues
  <2> QED  BY <1>4, <2>1 DEF encoderVars, EncoderInv
<1> QED  BY <1>1, <1>2, <1>3, <1>4 DEF EncoderNext

LEMMA EncoderInvDecodes == EncoderInv => PayloadDecodes
<1> SUFFICES ASSUME EncoderInv PROVE PayloadDecodes
  OBVIOUS
<1> DEFINE values == FlattenSeq([k \in DOMAIN payload.of |-> ValuesOf(payload.of[k])])
<1>1. values = All(ValuesOfTraces, payload.of)
  <2>1. \A k \in DOMAIN payload.of : ValuesOfTraces[payload.of[k]] = ValuesOf(payload.of[k])
    BY DEF EncoderInv, ValuesOfTraces
  <2>2. [k \in DOMAIN payload.of |-> ValuesOf(payload.of[k])] =
            [k \in DOMAIN payload.of |-> ValuesOfTraces[payload.of[k]]]
    BY <2>1
  <2> QED  BY <2>2, Zenon DEF All
<1>2. values \in Seq(Values)
  BY <1>1, AllAre DEF EncoderInv
<1> HIDE DEF values
<1>3. ASSUME Strings(values) \cap Inherited = {}
      PROVE  [k \in DOMAIN payload.bytes |-> Read(payload.bytes[k])] = values
  <2>1. ReadsBack(payload.bytes, payload.strings, values)
    BY <1>1, <1>3 DEF EncoderInv, Decodes
  <2>2. \A k \in DOMAIN payload.bytes : Read(payload.bytes[k]) = values[k]
    BY <2>1 DEF ReadsBack, Read, ReadWith
  <2>3. DOMAIN payload.bytes = DOMAIN values
    BY <1>2, <2>1 DEF ReadsBack, EncoderInv
  <2> QED  BY <1>2, <2>2, <2>3
<1> QED  BY <1>3 DEF PayloadDecodes, values

\* What a payload holds reads back as the traces appended since the last one,
\* for either encoder (encode/0.4.ts, encode/0.5.ts), any traces, sizes of
\* strings and limit.
THEOREM PayloadsDecode == EncoderSpec => []PayloadDecodes
<1> QED  BY EncoderInitInv, EncoderStepInv, EncoderInvDecodes, PTL DEF EncoderSpec

-----------------------------------------------------------------------------
(* Side by side.                                                           *)

\* A step of the composition is a step of a part, or leaves it alone.
LEMMA PartsAreTheirs ==
    PartsSpec => /\ Spec /\ CallsSpec /\ OtelSpec /\ PropagationSpec
                 /\ StatsSpec /\ StreamsSpec /\ EncoderSpec
<1>1. PartsInit => /\ Init /\ CallsInit /\ OtelInit /\ PropagationInit
                   /\ StatsInit /\ StreamsInit /\ EncoderInit
  BY DEF PartsInit
<1>2. ASSUME [PartsNext]_partVars
      PROVE  /\ [Next]_vars /\ [CallsNext]_callVars /\ [OtelNext]_otelVars
             /\ [PropagationNext]_propagationVars
             /\ [StatsNext]_statsVars /\ [StreamsNext]_streamsVars /\ [EncoderNext]_encoderVars
  <2>1. CASE PartsNext
    BY <2>1, Zenon DEF PartsNext, OfTelemetry, OfCalls, OfOtel, OfPropagation, OfStats, OfStreams, OfEncoder
  <2>2. CASE UNCHANGED partVars
    BY <2>2, Zenon DEF partVars
  <2> QED
    BY <1>2, <2>1, <2>2
<1> QED
  BY <1>1, <1>2, PTL
     DEF PartsSpec, Spec, CallsSpec, OtelSpec, PropagationSpec, StatsSpec, StreamsSpec, EncoderSpec

\* A finished span is counted by one report and a checkpoint in one bucket, each
\* with the report's own number, whenever intervals cut; a pathway turns at its
\* checkpoints (span_stats.ts, datastreams/processor.ts), for any spans, edges,
\* clock and bucket size.
THEOREM StatisticsAreCounted == PartsSpec => []StatisticsCounted
<1>1. StatsInv => StatsOnce
  BY DEF StatsInv, StatsOnce
<1>2. StatsSpec => []StatsOnce
  BY <1>1, StatsAtStart, StatsSteps, PTL DEF StatsSpec
<1>3. StreamsSpec => [](PathwayTurns /\ PointsOnce)
  BY StreamsAtStart, StreamsSteps, StreamsInvImplies, PTL DEF StreamsSpec
<1>4. StatsOnce /\ PathwayTurns /\ PointsOnce => StatisticsCounted
  BY DEF StatisticsCounted
<1> QED
  BY <1>2, <1>3, <1>4, PartsAreTheirs, PTL

\* Telemetry, traced calls, the bridge, propagation, the statistics and the
\* encoders side by side keep what each keeps alone.
THEOREM PartsAreKept ==
    PartsSpec => /\ [](TelemetryAddsUp /\ ErrorsReported /\ ProcessorsPaired
                      /\ PropagationKept /\ StatisticsCounted /\ PayloadDecodes)
                 /\ SilentWhenStopped
BY TelemetryIsAddedUp, StoppedTelemetryIsSilent, ErrorsAreReported, ProcessorsArePaired,
   PropagationIsKept, StatisticsAreCounted, PayloadsDecode, PartsAreTheirs, PTL
=============================================================================
