------------------------------ MODULE Telemetry ------------------------------
(***************************************************************************)
(* Telemetry of the library itself: its start and stop, heartbeats, the    *)
(* integrations it lists, the message at the end of the process, and the   *)
(* logs of interactive security testing (IAST), which listen to its start. *)
(*                                                                         *)
(* proxy.init starts telemetry first and enables IAST after it.  start and *)
(* stop are exported, and a process that embeds them may use them again,   *)
(* also start what already runs: nothing in start asks.  The interval of   *)
(* telemetry's own metrics is left out: Iast.SendMetrics drains them.      *)
(***************************************************************************)
EXTENDS Integers, Sequences, FiniteSets, SequencesExt

CONSTANTS
    Plugins,        \* the integrations that may be loaded
    Logs,           \* the distinct entries of the library's log
    MaxEntries,     \* maxEntries of the collector, 10000 in the code
    MaxStarts,      \* bound: 1 is proxy.init, more an embedding process
    MaxMessages,    \* bound: messages on the wire when a heartbeat is due
    MaxPublished,   \* bound: entries published in a behaviour
    LogCollection   \* config.telemetry.logCollection

ASSUME TelemetryAssumption ==
    /\ IsFiniteSet(Plugins) /\ IsFiniteSet(Logs)
    /\ MaxEntries \in Nat \ {0} /\ MaxStarts \in Nat /\ MaxMessages \in Nat
    /\ MaxPublished \in Nat
    /\ LogCollection \in BOOLEAN

VARIABLES
    starts,      \* how often start has been called
    running,     \* the module's config is set
    overlaps,    \* (only for the properties) how many starts came while it ran
    heartbeats,  \* timers of heartbeat that will fire
    listening,   \* beforeunload is listened to
    loaded,      \* pluginManager._pluginsByName
    listed,      \* sentIntegrations
    wire,        \* the messages handed to request(), in the order of seq_id
    iast,        \* iast.enable has been called
    subscribed,  \* the log module listens to the channels of start and stop
    logging,     \* the log module's config is set
    intervals,   \* the intervals of sendLogs that will fire
    logs,        \* the collector
    overflowed,  \* overflowedCount
    added,       \* how many entries the collector took
    refused      \* how many it refused because it was full

coreVars == <<starts, running, overlaps, heartbeats, listening, listed>>
listenerVars == <<iast, subscribed, logging, intervals>>
logVars == <<logs, overflowed, added, refused>>
vars == <<coreVars, loaded, wire, listenerVars, logVars>>

Message == [type : {"app-started", "app-heartbeat", "app-integrations-change",
                    "app-closing", "logs"},
            integrations : SUBSET Plugins,
            entries : SUBSET Logs,
            omitted : Nat]

Init ==
    /\ starts = 0 /\ running = FALSE /\ overlaps = 0 /\ heartbeats = 0 /\ listening = FALSE
    /\ loaded = {} /\ listed = {}
    /\ wire = <<>>
    /\ iast = FALSE /\ subscribed = FALSE /\ logging = FALSE /\ intervals = 0
    /\ logs = {} /\ overflowed = 0 /\ added = 0 /\ refused = 0

-----------------------------------------------------------------------------
\* sendData, whose request ignores every outcome.
Sent(type, integrations, entries, omitted) ==
    wire' = Append(wire, [type |-> type, integrations |-> integrations,
                          entries |-> entries, omitted |-> omitted])

\* A variant of ListNew: what is listed is not remembered.
ListNewForgetting == UNCHANGED listed

\* getIntegrations: the new ones, which from now on are listed.
ListNew == listed' = listed \cup loaded

\* onTelemetryStart, the log module's listener on the channel of start: each
\* start sets an interval, and forgets the one before.
LogsHearStart(on) ==
    IF subscribed /\ on
    THEN logging' = TRUE /\ intervals' = intervals + 1
    ELSE UNCHANGED <<logging, intervals>>

\* onTelemetryStop: a module that was logging forgets its config, its last
\* interval and its subscriptions.
LogsHearStop ==
    IF subscribed /\ logging
    THEN logging' = FALSE /\ subscribed' = FALSE /\ intervals' = intervals - 1
    ELSE UNCHANGED <<logging, subscribed, intervals>>

\* start, with telemetry enabled.  Whether it already runs is not asked: another
\* heartbeat joins those that beat, while addEventListener listens once.
Start ==
    /\ starts < MaxStarts
    /\ starts' = starts + 1
    /\ running' = TRUE
    /\ overlaps' = overlaps + (IF running THEN 1 ELSE 0)
    /\ Sent("app-started", loaded \ listed, {}, 0)
    /\ ListNew
    /\ heartbeats' = heartbeats + 1
    /\ listening' = TRUE
    /\ LogsHearStart(LogCollection)
    /\ UNCHANGED <<loaded, iast, subscribed, logVars>>

\* clearTimeout of heartbeatTimeout, the timer set last: one of those that beat.
Cleared == heartbeats' = heartbeats - 1

\* A variant of Unlistened: beforeunload is still listened to.
UnlistenedNot == UNCHANGED listening

\* removeEventListener, in stop and in onBeforeUnload itself.
Unlistened == listening' = FALSE

\* stop: the timer, the listener, the log module and config.
Stop ==
    /\ running
    /\ running' = FALSE
    /\ Cleared
    /\ Unlistened
    /\ LogsHearStop
    /\ UNCHANGED <<starts, overlaps, listed, loaded, wire, iast, logVars>>

\* heartbeat's timer, which sets the next one.
Heartbeat ==
    /\ heartbeats > 0
    /\ Len(wire) < MaxMessages
    /\ Sent("app-heartbeat", {}, {}, 0)
    /\ UNCHANGED <<coreVars, loaded, listenerVars, logVars>>

\* onBeforeUnload.
Unload ==
    /\ listening
    /\ Unlistened
    /\ Sent("app-closing", {}, {}, 0)
    /\ UNCHANGED <<starts, running, overlaps, heartbeats, listed, loaded, listenerVars, logVars>>

\* The plugin manager makes a plugin.
LoadPlugin(p) ==
    /\ p \notin loaded
    /\ loaded' = loaded \cup {p}
    /\ UNCHANGED <<coreVars, wire, listenerVars, logVars>>

\* updateIntegrations.
UpdateIntegrations ==
    /\ running /\ loaded \ listed # {}
    /\ Sent("app-integrations-change", loaded \ listed, {}, 0)
    /\ ListNew
    /\ UNCHANGED <<starts, running, overlaps, heartbeats, listening, loaded, listenerVars, logVars>>

-----------------------------------------------------------------------------
\* iast.enable, which proxy.init calls after start: the log module subscribes.
EnableIast ==
    /\ starts > 0 /\ ~iast
    /\ iast' = TRUE
    /\ subscribed' = TRUE
    /\ UNCHANGED <<coreVars, loaded, wire, logging, intervals, logVars>>

\* iastLog.publish of an error or a warning, and logCollector.add.
Publish(l) ==
    /\ logging /\ added + refused < MaxPublished
    /\ IF Cardinality(logs) >= MaxEntries
       THEN /\ overflowed' = overflowed + 1 /\ refused' = refused + 1
            /\ UNCHANGED <<logs, added>>
       ELSE /\ l \notin logs
            /\ logs' = logs \cup {l} /\ added' = added + 1
            /\ UNCHANGED <<overflowed, refused>>
    /\ UNCHANGED <<coreVars, loaded, wire, listenerVars>>

\* reset, when the collector is drained.
Emptied == logs' = {} /\ overflowed' = 0

\* sendLogs, from an interval: what is drained is sent, or lost where stop has
\* taken the config away and left the interval, because sendData throws.
SendLogs ==
    /\ intervals > 0 /\ logs # {}
    /\ IF logging THEN Sent("logs", {}, logs, overflowed) ELSE UNCHANGED wire
    /\ Emptied
    /\ UNCHANGED <<coreVars, loaded, listenerVars, added, refused>>

Next ==
    \/ Start \/ Stop \/ Heartbeat \/ Unload
    \/ \E p \in Plugins : LoadPlugin(p)
    \/ UpdateIntegrations
    \/ EnableIast
    \/ \E l \in Logs : Publish(l)
    \/ SendLogs

Spec == Init /\ [][Next]_vars

-----------------------------------------------------------------------------
(***************************************************************************)
(* Properties.                                                             *)
(***************************************************************************)
\* Every variable has its type.
TypeOK ==
    /\ starts \in 0..MaxStarts /\ running \in BOOLEAN /\ overlaps \in Nat
    /\ heartbeats \in Nat /\ intervals \in Nat
    /\ listening \in BOOLEAN
    /\ loaded \subseteq Plugins /\ listed \subseteq loaded
    /\ \A i \in DOMAIN wire : wire[i] \in Message
    /\ iast \in BOOLEAN /\ subscribed \in BOOLEAN /\ logging \in BOOLEAN
    /\ logs \subseteq Logs /\ Cardinality(logs) <= MaxEntries
    /\ overflowed \in Nat /\ added \in Nat /\ refused \in Nat

\* A heartbeat outlives its stop for each start that came while telemetry ran,
\* and for no other reason, however starts and stops follow each other.
HeartbeatsCounted == heartbeats = overlaps + (IF running THEN 1 ELSE 0)

\* A stop sends nothing, and nothing is sent from it to the next start: no
\* closing message and no log, and a heartbeat only where a start came while
\* telemetry already ran.
SilentWhenStopped ==
    [][~running' =>
         \/ wire' = wire
         \/ overlaps > 0 /\ Sent("app-heartbeat", {}, {}, 0)]_vars

\* An integration is listed in one message only, of whichever type, and in none
\* before it was loaded.
IntegrationsOnce ==
    /\ UNION {wire[i].integrations : i \in DOMAIN wire} = listed
    /\ \A i, j \in DOMAIN wire :
         i # j => wire[i].integrations \cap wire[j].integrations = {}

\* The process says that it closes at most once per start, though beforeunload
\* may be dispatched again.
OneClosingPerStart ==
    Cardinality({i \in DOMAIN wire : wire[i].type = "app-closing"}) <= starts

\* The entries of each message of logs, and a number for each omitted one.
SentEntries == UNION {{i} \X wire[i].entries : i \in DOMAIN wire}
SentOmitted == UNION {{i} \X (1 .. wire[i].omitted) : i \in DOMAIN wire}

\* The entries the collector took are in it or were sent, and those it refused
\* are counted in one message: neither lost nor counted twice, across overflow,
\* drain, stop and restart.  Only an interval that a start while telemetry ran
\* has left behind may lose some, and even then none is sent twice.
LogsAddUp ==
    /\ Cardinality(logs) + Cardinality(SentEntries) <= added
    /\ overflowed + Cardinality(SentOmitted) <= refused
    /\ overlaps = 0 => /\ added = Cardinality(logs) + Cardinality(SentEntries)
                       /\ refused = overflowed + Cardinality(SentOmitted)

\* An integration is announced once, a log is collected, refused or sent, a
\* start sends app-closing at most once, and a heartbeat outlives its stop only
\* for a start that overlapped (telemetry/index.ts, iast/telemetry/log).
TelemetryAddsUp ==
    TypeOK /\ HeartbeatsCounted /\ IntegrationsOnce /\ OneClosingPerStart /\ LogsAddUp

\* With log collection on, the library's errors are collected once start-up is
\* through.
LogsAreCollected == running /\ iast /\ LogCollection => logging
=============================================================================
