---------------------------- MODULE MCApplication ----------------------------
(***************************************************************************)
(* Values for TLC: the configurations, headers and jobs of the parts of    *)
(* Application.                                                            *)
(***************************************************************************)
EXTENDS Application

(* The constants.                                                          *)

LogConfig(debug, level, methods) == [debug |-> debug, level |-> level, methods |-> methods]
MCLogConfigs ==
    {LogConfig(TRUE, "info", {"debug", "error"}),
     LogConfig(TRUE, "verbose", {"debug", "warn", "error"}),
     LogConfig(FALSE, "debug", {"debug"})}

MCPluginConfigs ==
    {[middleware |-> "none", validateStatus |-> "none", query |-> "regex", accepts |-> TRUE],
     [middleware |-> "false", validateStatus |-> "all", query |-> "none", accepts |-> FALSE]}

MCQueries == {<<"plain", "secret">>}
MCIpHeaders == <<"x-forwarded-for", "x-real-ip", "true-client-ip">>
MCHeaderValues ==
    {<<>>, <<"junk">>, <<"private">>, <<"junk", "private">>, <<"private", "public">>,
     <<"public", "private">>}
IpConfig(enabled, header, appsec) == [enabled |-> enabled, header |-> header, appsec |-> appsec]
MCIpConfigs ==
    {IpConfig(TRUE, "", TRUE), IpConfig(TRUE, "x-real-ip", FALSE), IpConfig(FALSE, "", TRUE)}
Preflight(origin, allowOrigin, given) ==
    [origin |-> origin, allowOrigin |-> allowOrigin, given |-> given, allowed |-> {"accept"},
     asked |-> {"x-datadog-trace-id", "x-other"}]
MCPreflights ==
    {Preflight("a", "*", FALSE), Preflight("a", "b", FALSE), Preflight("a", "a", TRUE)}

-----------------------------------------------------------------------------

\* A part that a behaviour is not about has one initial state.
MCInit ==
    /\ PartsInit
    /\ part # "context" =>
         storage = (CHOOSE s \in Storages : TRUE) /\ eager = (CHOOSE f \in FlushOnFinish : TRUE)
    /\ part # "logging" =>
         store = "none" /\ logger = {"debug", "error"} /\ subscribed = {"info", "warn", "error"}
    /\ part # "web" => streamRequests = {}
    /\ part # "tags" =>
         /\ ipConfig = IpConfig(TRUE, "", TRUE)
         /\ httpRequest = [headers |-> [h \in ToSet(ipHeaderList) |-> <<>>],
                           query |-> <<"plain", "secret">>, obfuscator |-> "regex",
                           preflight |-> Preflight("a", "*", FALSE)]

MCSpec == MCInit /\ [][PartsNext]_partVars
=============================================================================
