----------------------------- MODULE MCTelemetry -----------------------------
(* Instances of Telemetry for TLC. *)
EXTENDS Telemetry

CONSTANTS p1, p2, l1, l2

MCPlugins == {p1, p2}
MCLogs == {l1, l2}
=============================================================================
