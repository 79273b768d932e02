----------------------------- MODULE MCSecurity -----------------------------
(***************************************************************************)
(* Values for TLC: the processes, requests, evidences and configurations   *)
(* of the parts of Security.                                               *)
(***************************************************************************)
EXTENDS Security

CONSTANTS r1, r2, r3, v1, v2

MCRequests == {r1, r2, r3}
MCVulns == {v1, v2}

\* No request and no vulnerability is told from another.
MCSymmetry == Permutations(MCRequests) \cup Permutations(MCVulns)

-----------------------------------------------------------------------------
(* The constants.                                                          *)

\* The start: options and environments, and what use is called with.
Unset == [tracing |-> "none", profiling |-> "none", runtimeMetrics |-> "none", plugins |-> "none",
          ciVisibility |-> "none", telemetry |-> "none", remoteConfig |-> "none", appsec |-> "none",
          iast |-> "none", logInjection |-> "none", logEnabled |-> "none"]
Plain == [options |-> Unset, env |-> Unset, exporter |-> "none", lambda |-> FALSE, gcp |-> FALSE,
          azure |-> FALSE, logDisabled |-> FALSE]
MCProfiles ==
    {Plain,
     [Plain EXCEPT !.options.logInjection = "true", !.options.appsec = "true", !.env.iast = "true"],
     [Plain EXCEPT !.env.logInjection = "true", !.options.logInjection = "yes", !.gcp = TRUE,
                   !.env.profiling = "true", !.options.runtimeMetrics = "true"],
     [Plain EXCEPT !.env.logInjection = "true", !.exporter = "datadog", !.options.ciVisibility = "true"],
     [Plain EXCEPT !.env.tracing = "false", !.env.logInjection = "true", !.options.profiling = "true"],
     [Plain EXCEPT !.options.plugins = "false", !.options.logInjection = "true", !.lambda = TRUE],
     [Plain EXCEPT !.env.logEnabled = "false", !.options.logInjection = "true"]}
MCUses == {[enabled |-> TRUE, logInjection |-> "absent"], [enabled |-> FALSE, logInjection |-> "absent"],
           [enabled |-> TRUE, logInjection |-> "true"]}

\* One or two ranges of an evidence, in their order.
Ranges(min) == {r \in [start : 0 .. Length, end : 0 .. Length] : r.start + min \leq r.end}
Ordered(min) ==
    {<<>>} \cup {<<r>> : r \in Ranges(min)}
    \cup {rs \in {<<a, b>> : a, b \in Ranges(min)} : rs[1].end \leq rs[2].start /\ rs[1] # rs[2]}

Param(name, sensible, before, kept) ==
    [name |-> name, sensible |-> sensible, before |-> before, kept |-> kept]
Kept == {Param("q", FALSE, <<-1>>, TRUE), Param("password", TRUE, <<>>, TRUE)}
MCReports ==
    <<UNION {[ranges : {r}, sensitive : Ordered(0), params : [DOMAIN r -> Kept]] : r \in Ordered(1)},
      [ranges : {<<[start |-> 1, end |-> 3]>>}, sensitive : {<<s>> : s \in Ranges(0)},
       params : {<<p>> : p \in Kept \cup {Param("r", FALSE, <<-1, -2>>, FALSE)}}]>>

Config(enabled, rules, tracking, client, custom) ==
    [enabled |-> enabled, rules |-> rules, tracking |-> tracking, client |-> client, custom |-> custom]
MCConfigs ==
    {Config("true", "plain", "safe", TRUE, FALSE),
     Config("true", "block", "extended", TRUE, TRUE),
     Config("true", "without block", "disabled", FALSE, TRUE),
     Config("true", "unreadable", "safe", TRUE, TRUE),
     Config("unset", "plain", "safe", TRUE, FALSE)}
MCUsers == {[id |-> "u1", uuid |-> TRUE], [id |-> "u2", uuid |-> FALSE]}

-----------------------------------------------------------------------------

\* A part that a behaviour is not about has one initial state.
MCInit ==
    /\ PartsInit
    /\ part # "startup" => profile = Plain
    /\ part # "appsec" => security = CHOOSE config \in SecurityConfigs : TRUE

MCSpec == MCInit /\ [][PartsNext]_partVars
=============================================================================
