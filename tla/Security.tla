------------------------------ MODULE Security ------------------------------
(***************************************************************************)
(* The start of the tracer and the security products that it starts, side  *)
(* by side: the proxy with its plugins, the quotas and reports of IAST, the*)
(* redaction of a report's evidence, and application security with its     *)
(* remote configuration.  They share no state: `part` says which of them a *)
(* behaviour is about, and the others stay in one of their initial states. *)
(***************************************************************************)
EXTENDS Startup, Iast, Redaction, AppSec

VARIABLE part

partVars == <<part, startupVars, vars, formatVars, appsecVars>>

PartsInit ==
    /\ part \in {"startup", "iast", "redaction", "appsec"}
    /\ StartupInit /\ Init /\ FormatInit /\ SecurityInit

OfStartup == part = "startup" /\ StartupNext /\ UNCHANGED <<part, vars, formatVars, appsecVars>>
OfIast == part = "iast" /\ Next /\ UNCHANGED <<part, startupVars, formatVars, appsecVars>>
OfRedaction == part = "redaction" /\ FormatNext /\ UNCHANGED <<part, startupVars, vars, appsecVars>>
OfAppSec == part = "appsec" /\ AppsecNext /\ UNCHANGED <<part, startupVars, vars, formatVars>>

PartsNext == OfStartup \/ OfIast \/ OfRedaction \/ OfAppSec

PartsSpec == PartsInit /\ [][PartsNext]_partVars
=============================================================================
