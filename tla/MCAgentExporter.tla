--------------------------- MODULE MCAgentExporter ---------------------------
(* Instances of AgentExporter for TLC. *)
EXTENDS AgentExporter

CONSTANT o1

MCOthers == {o1}
=============================================================================
