---------------------------- MODULE MCTracedCalls ----------------------------
(* Instances of TracedCalls for TLC. *)
EXTENDS TracedCalls

MCUserTags ==
    <<[key |-> "error", value |-> Err("mine")],
      [key |-> "error", value |-> [type |-> "boolean", of |-> "false"]],
      [key |-> "http.status_code", value |-> [type |-> "number", of |-> "500"]],
      [key |-> "span.kind", value |-> Str("client")],
      [key |-> "user", value |-> [type |-> "object", of |-> <<[key |-> "user.id", value |-> Str("7")]>>]]>>
=============================================================================
