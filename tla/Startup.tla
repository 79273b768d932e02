------------------------------- MODULE Startup -------------------------------
(***************************************************************************)
(* The proxy tracer's start (proxy.ts): what config.ts makes of the        *)
(* options and the environment, the subsystems init starts across its      *)
(* awaits, and the plugins (plugin_manager.ts, plugins/plugin.ts, the log  *)
(* plugin), which the application configures before, during and after.     *)
(*                                                                         *)
(* plugins/index.ts names no plugin: the log plugin is the only class.     *)
(* A setting is "none" (unset, empty or not a number), "true", "false" or  *)
(* another word, which isTrue and isFalse both refuse.                     *)
(***************************************************************************)
EXTENDS Integers, Sequences, SequencesExt

CONSTANTS
    Profiles,    \* what the options and the environment say (ProfileOf)
    InitCalls,   \* calls of init
    UseConfigs,  \* what the application passes to use("log", ...)
    MaxUses,     \* bound: calls of use
    MaxRecords   \* bound: log records

ASSUME UsesAssumption == UseConfigs \subseteq [enabled : BOOLEAN, logInjection : STRING]

VARIABLES
    profile,      \* the profile of this process
    stage,        \* the service each call of init is at: 0 before it is called
    running,      \* the call of init that has not awaited yet, or "none"
    initialized,  \* ProxyTracer._initialized
    realTracer,   \* _tracer is a DatadogTracer
    serviceStarts,\* how often each subsystem was started
    configured,   \* PluginManager._tracerConfig is set
    chosen,       \* _configsByName["log"]: the set of the last use, or none
    plugin,       \* _pluginsByName["log"]: [made, enabled, subscribed]
    uses,         \* the calls of use so far
    records       \* what the log plugin's handler did with each record

startupVars == <<profile, stage, running, initialized, realTracer, serviceStarts,
                 configured, chosen, plugin, uses, records>>

-----------------------------------------------------------------------------
(* config.ts.                                                              *)

\* coalesce: the first value that is given, else the last one.
Coalesce(values) ==
    LET given == SelectSeq(values, LAMBDA v : v # "none")
    IN  IF given = <<>> THEN values[Len(values)] ELSE given[1]

IsTrue(v) == v = "true"
IsFalse(v) == v = "false"

AsWord(condition) == IF condition THEN "true" ELSE "false"

\* Deno.env.get(name) && isTrue(Deno.env.get(name)).
EnvTrue(v) == IF v = "none" THEN "none" ELSE AsWord(IsTrue(v))

Serverless(p) == p.lambda \/ p.gcp \/ p.azure

\* The settings without which init starts nothing, or starts it otherwise.
Switches(p) ==
    [tracing |-> ~IsFalse(Coalesce(<<p.env.tracing, "true">>)),
     profiling |-> IsTrue(Coalesce(<<p.options.profiling, p.env.profiling, "false">>)),
     runtimeMetrics |-> IsTrue(Coalesce(<<p.options.runtimeMetrics, p.env.runtimeMetrics, "false">>)),
     plugins |-> Coalesce(<<p.options.plugins, "true">>) # "false",
     ciVisibility |-> IsTrue(Coalesce(<<p.options.ciVisibility, "false">>))]

\* The features that the environment of the process decides with them.
Features(p) ==
    [telemetry |-> p.exporter # "datadog"
                   /\ IsTrue(Coalesce(<<p.env.telemetry, AsWord(~Serverless(p))>>)),
     remoteConfig |-> Coalesce(<<EnvTrue(p.env.remoteConfig), AsWord(~Serverless(p))>>) = "true",
     appsec |-> Coalesce(<<p.options.appsec, EnvTrue(p.env.appsec)>>) = "true",
     iast |-> IsTrue(Coalesce(<<p.options.iast, p.env.iast, "false">>)),
     miniAgent |-> p.gcp \/ p.azure]

\* _setBoolean: a word that is neither true nor false is not set.
SetBoolean(v) == IF IsTrue(v) \/ IsFalse(v) THEN v ELSE "none"

\* _merge, for logInjection: the options, the environment, the default.
LogInjection(p) ==
    Coalesce(<<SetBoolean(p.options.logInjection), SetBoolean(p.env.logInjection), "false">>)

\* maybeEnable, once when plugin_manager.ts is loaded.
HasClass(p) == ~IsFalse(p.env.logEnabled) /\ ~p.logDisabled

-----------------------------------------------------------------------------
(* plugin_manager.ts and the plugins.                                      *)

\* A variant of PluginConfigure: it subscribes whenever it is enabled.
PluginConfigureAgain(config) ==
    LET on == config.enabled /\ config.logInjection = "true"
    IN  [made |-> TRUE, enabled |-> on,
         subscribed |-> IF on THEN plugin.subscribed + 1 ELSE 0]

\* LogPlugin.configure and Plugin.configure: the channel is subscribed when
\* the plugin becomes enabled and unsubscribed when it becomes disabled.
PluginConfigure(config) ==
    LET on == config.enabled /\ config.logInjection = "true"
    IN  [made |-> TRUE, enabled |-> on,
         subscribed |-> CASE on /\ ~plugin.enabled -> plugin.subscribed + 1
                          [] ~on /\ plugin.enabled -> plugin.subscribed - 1
                          [] OTHER -> plugin.subscribed]

\* loadPlugin: the instance is made at once, and configured when the tracer
\* is, by the last use or by the tracer's setting, over the shared settings.
LoadPlugin(hasConfig, kept) ==
    IF ~HasClass(profile) THEN plugin
    ELSE IF ~hasConfig THEN [plugin EXCEPT !.made = TRUE]
    ELSE LET own == IF kept = {}
                    THEN [enabled |-> Switches(profile).plugins, logInjection |-> "absent"]
                    ELSE CHOOSE config \in kept : TRUE
         IN  PluginConfigure([own EXCEPT !.logInjection =
                 IF own.logInjection = "absent" THEN LogInjection(profile) ELSE own.logInjection])

\* configurePlugin replaces the plugin's configuration and loads it.
ConfigurePlugin(config) ==
    /\ chosen' = {config}
    /\ plugin' = LoadPlugin(configured, {config})

\* ProxyTracer.use("log", config), at any time.
Use(config) ==
    /\ running = "none"
    /\ Len(uses) < MaxUses
    /\ uses' = Append(uses, config)
    /\ ConfigurePlugin(config)
    /\ UNCHANGED <<profile, stage, running, initialized, realTracer, serviceStarts,
                   configured, records>>

\* A record on apm:log:log, outside of a noop store: the handler has the
\* proxy's tracer inject into it.
LogRecord ==
    /\ running = "none"
    /\ Len(records) < MaxRecords
    /\ records' = Append(records,
         [handled |-> plugin.subscribed, injected |-> realTracer])
    /\ UNCHANGED <<profile, stage, running, initialized, realTracer, serviceStarts,
                   configured, chosen, plugin, uses>>

-----------------------------------------------------------------------------
(* ProxyTracer.init.                                                       *)

Services == {"dogstatsd", "remoteConfig", "miniAgent", "profiler", "runtimeMetrics",
             "telemetry", "appsec", "tracer", "iast", "plugins"}

\* The order in which init starts them; it awaits an import before some.
Order == <<"dogstatsd", "remoteConfig", "miniAgent", "profiler", "runtimeMetrics",
           "telemetry", "appsec", "tracer", "iast", "plugins">>
Awaited == {"miniAgent", "profiler", "appsec", "iast"}

\* Whether init starts a service: everything from telemetry on needs tracing.
Wants(service) ==
    LET s == Switches(profile)
        f == Features(profile)
    IN  CASE service = "dogstatsd" -> TRUE
          [] service = "remoteConfig" -> f.remoteConfig /\ ~s.ciVisibility
          [] service = "miniAgent" -> f.miniAgent
          [] service = "profiler" -> s.profiling
          [] service = "runtimeMetrics" -> s.runtimeMetrics
          [] service = "telemetry" -> s.tracing /\ f.telemetry
          [] service = "appsec" -> s.tracing /\ f.appsec
          [] service = "iast" -> s.tracing /\ f.iast
          [] service \in {"tracer", "plugins"} -> s.tracing

StartupInit ==
    /\ profile \in Profiles
    /\ stage = [c \in InitCalls |-> 0]
    /\ running = "none"
    /\ initialized = FALSE
    /\ realTracer = FALSE
    /\ serviceStarts = [s \in Services |-> 0]
    /\ configured = FALSE
    /\ chosen = {}
    /\ plugin = [made |-> FALSE, enabled |-> FALSE, subscribed |-> 0]
    /\ uses = <<>>
    /\ records = <<>>

\* The call goes to the k-th service, or ends; it yields where it awaits.
GoTo(c, k) ==
    /\ stage' = [stage EXCEPT ![c] = k]
    /\ running' = IF k > Len(Order) \/ (Order[k] \in Awaited /\ Wants(Order[k]))
                  THEN "none" ELSE c

\* A variant of CallInit: the tracer counts as initialized once init is done.
CallInitUnmarked(c) ==
    /\ running = "none"
    /\ stage[c] = 0
    /\ IF realTracer
       THEN stage' = [stage EXCEPT ![c] = Len(Order) + 1] /\ UNCHANGED running
       ELSE stage' = [stage EXCEPT ![c] = 1] /\ running' = c
    /\ initialized' = TRUE
    /\ UNCHANGED <<profile, realTracer, serviceStarts, configured, chosen, plugin, uses, records>>

\* init: the first call marks the tracer before it awaits anything.
CallInit(c) ==
    /\ running = "none"
    /\ stage[c] = 0
    /\ IF initialized
       THEN stage' = [stage EXCEPT ![c] = Len(Order) + 1] /\ UNCHANGED running
       ELSE stage' = [stage EXCEPT ![c] = 1] /\ running' = c
    /\ initialized' = TRUE
    /\ UNCHANGED <<profile, realTracer, serviceStarts, configured, chosen, plugin, uses, records>>

\* What starting a service does: the tracer replaces the noop tracer, and the
\* plugin manager configures the plugins.
Effect(service) ==
    /\ realTracer' = (realTracer \/ service = "tracer")
    /\ configured' = (configured \/ service = "plugins")
    /\ plugin' = IF service = "plugins" THEN LoadPlugin(TRUE, chosen) ELSE plugin

\* The agentless exporter's writer gets no encoder from its constructor.
Throws(service) == service = "tracer" /\ profile.exporter = "datadog" /\ Wants("tracer")

\* The next service of a call that runs, or that resumes after its import.
StartService(c) ==
    /\ running \in {"none", c}
    /\ stage[c] \in 1 .. Len(Order)
    /\ ~Throws(Order[stage[c]])
    /\ LET service == Order[stage[c]]
       IN  IF Wants(service)
           THEN /\ serviceStarts' = [serviceStarts EXCEPT ![service] = @ + 1]
                /\ Effect(service)
           ELSE UNCHANGED <<serviceStarts, realTracer, configured, plugin>>
    /\ GoTo(c, stage[c] + 1)
    /\ UNCHANGED <<profile, initialized, chosen, uses, records>>

\* Creating the tracer throws: init ends, with what it had started, and the
\* noop tracer stays.
TracerThrows(c) ==
    /\ running \in {"none", c}
    /\ stage[c] \in 1 .. Len(Order)
    /\ Throws(Order[stage[c]])
    /\ stage' = [stage EXCEPT ![c] = Len(Order) + 1]
    /\ running' = "none"
    /\ UNCHANGED <<profile, initialized, realTracer, serviceStarts, configured, chosen,
                   plugin, uses, records>>

StartupNext ==
    \/ \E c \in InitCalls : CallInit(c) \/ StartService(c) \/ TracerThrows(c)
    \/ \E config \in UseConfigs : Use(config)
    \/ LogRecord

StartupSpec == StartupInit /\ [][StartupNext]_startupVars

-----------------------------------------------------------------------------
(* Properties.                                                             *)

\* However many calls of init overlap at its awaits, every subsystem is
\* started once at most, and in the order of init: what came before it has
\* been started or was not wanted (_initialized, set before the first await).
StartsInOrder ==
    /\ \A s \in Services : serviceStarts[s] <= 1
    /\ \A k \in DOMAIN Order :
        serviceStarts[Order[k]] > 0 =>
            \A j \in 1 .. k - 1 : Wants(Order[j]) => serviceStarts[Order[j]] = 1

\* What the log plugin is to be, by the last use or else the tracer's setting.
LogShouldBeOn ==
    /\ HasClass(profile)
    /\ IF uses = <<>> THEN Switches(profile).plugins ELSE Last(uses).enabled
    /\ IF uses # <<>> /\ Last(uses).logInjection # "absent"
       THEN Last(uses).logInjection = "true" ELSE LogInjection(profile) = "true"

\* Once the tracer is configured the log plugin is on exactly if the last use
\* of it, before or after init, wants it on, and its handler is subscribed
\* once then and never otherwise (configurePlugin, loadPlugin, configure).
PluginAsChosen ==
    /\ configured => plugin.enabled = LogShouldBeOn
    /\ plugin.subscribed = (IF plugin.enabled THEN 1 ELSE 0)

\* A record that the plugin handles gets what the real tracer injects: nobody
\* enables the plugin while the proxy still has the noop tracer.
RecordsMeetTracer ==
    \A k \in DOMAIN records : records[k].handled > 0 => records[k].injected

\* The log plugin is what was chosen of it, and finds the tracer made.
LogPluginReady == PluginAsChosen /\ RecordsMeetTracer
=============================================================================
