--------------------------- MODULE MCSpanProcessor ---------------------------
(* Instances of SpanProcessor for TLC. *)
EXTENDS SpanProcessor

\* Carriers that say nothing of the priority, and carriers that say anything.
MCRemoteSilent == {NoPriority}
MCRemoteAny == {NoPriority, UserReject, AutoReject, AutoKeep, UserKeep}

\* Applications that leave the sampling to the tracer, and those that do not.
MCNoTags == {{}}
MCAnyTags == SUBSET {"keep", "drop"}
=============================================================================
