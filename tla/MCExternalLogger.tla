--------------------------- MODULE MCExternalLogger ---------------------------
(* Instances of ExternalLogger for TLC: the second log cannot be encoded. *)
EXTENDS ExternalLogger

MCUnencodable == {2}
=============================================================================
