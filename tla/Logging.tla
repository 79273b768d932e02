------------------------------- MODULE Logging -------------------------------
(***************************************************************************)
(* log/index.ts, writer.ts and channels.ts: the tracer's own messages, the *)
(* channels they are published on, and the logger of the application that  *)
(* is told them.  While the logger runs the store of the caller is replaced*)
(* by one that tracing ignores, for whatever the logger does is not to be  *)
(* traced; what it does may well log again.                                *)
(***************************************************************************)
EXTENDS Integers, Sequences, SequencesExt

CONSTANTS
    LogConfigs,  \* [debug, level, methods]: what Config hands to the log
    CallerStores,\* the stores application code runs in, "none" among them
    MaxMessages, \* bound: messages
    MaxNested    \* bound: loggers running inside each other

VARIABLES
    logger,      \* the methods of the logger: its own, or those of the console
    subscribed,  \* the channels that have the writer's handler
    store,       \* the store of the running code
    appStore,    \* the store application code has entered last
    loggers,     \* the running loggers: <<[level, method, saved]>>, outermost first
    messages,    \* each message so far: [level, method], "" when nobody was told
    threw        \* a logger has thrown

logVars == <<logger, subscribed, store, appStore, loggers, messages, threw>>

Levels == {"debug", "info", "warn", "error"}
Rank == [debug |-> 20, info |-> 30, warn |-> 40, error |-> 50]

\* The store {noop: true}.
NoTrace == "noop"

\* getChannelLogLevel: an unknown name means debug.
getChannelLogLevel(level) == IF level \in Levels THEN Rank[level] ELSE Rank["debug"]

\* log.use refuses a logger without debug or error.
LoggerOf(config) == IF {"debug", "error"} \subseteq config.methods THEN config.methods ELSE Levels

\* toggle: the channels that the writer subscribes to.
ToldLevels(config) ==
    IF config.debug THEN {l \in Levels : Rank[l] \geq getChannelLogLevel(config.level)} ELSE {}

\* The state Config leaves, once; before, reset has left no subscriber.
LogInit ==
    /\ \E config \in LogConfigs :
          logger = LoggerOf(config) /\ subscribed = ToldLevels(config)
    /\ store \in CallerStores
    /\ appStore = store
    /\ loggers = <<>>
    /\ messages = <<>>
    /\ threw = FALSE

\* log.debug .. log.error: the channel tells the writer, if it is subscribed,
\* which calls the method of the level, or debug, inside withNoop.
Log(level) ==
    /\ Len(messages) < MaxMessages
    /\ Len(loggers) < MaxNested
    /\ LET method == IF level \in logger THEN level ELSE "debug"
       IN  IF level \in subscribed
           THEN /\ messages' = Append(messages, [level |-> level, method |-> method])
                /\ loggers' = Append(loggers, [level |-> level, method |-> method, saved |-> store])
                /\ store' = NoTrace
           ELSE /\ messages' = Append(messages, [level |-> level, method |-> ""])
                /\ UNCHANGED <<loggers, store>>
    /\ UNCHANGED <<logger, subscribed, appStore, threw>>

\* The logger returns: withNoop enters the store it has found.
LoggerReturns ==
    /\ loggers # <<>>
    /\ loggers' = Front(loggers)
    /\ store' = Last(loggers).saved
    /\ UNCHANGED <<logger, subscribed, appStore, messages, threw>>

\* The logger throws: nothing enters the old store.  The channel reports the
\* exception apart, so that the caller goes on, in the noop store.
LoggerThrows ==
    /\ loggers # <<>>
    /\ loggers' = Front(loggers)
    /\ threw' = TRUE
    /\ UNCHANGED <<logger, subscribed, store, appStore, messages>>

\* Application code enters another store, a span's for instance.
EnterStore(entered) ==
    /\ loggers = <<>>
    /\ store # entered
    /\ store' = entered
    /\ appStore' = entered
    /\ threw' = FALSE
    /\ UNCHANGED <<logger, subscribed, loggers, messages>>

LogNext ==
    \/ \E level \in Levels : Log(level)
    \/ LoggerReturns \/ LoggerThrows
    \/ \E entered \in CallerStores : EnterStore(entered)

LogSpec == LogInit /\ [][LogNext]_logVars

-----------------------------------------------------------------------------
(* Properties.                                                             *)

\* Nothing a logger does is traced, whatever it logs itself, and the code that
\* logged goes on in the store it had, unless the logger has thrown (withNoop).
LoggerUntraced ==
    /\ loggers # <<>> => store = NoTrace
    /\ loggers = <<>> /\ ~threw => store = appStore
    /\ \A k \in DOMAIN loggers : k > 1 => loggers[k].saved = NoTrace
=============================================================================
