--------------------------- MODULE MCAsyncContext ---------------------------
(* Instances of AsyncContext for TLC, which give its constants numbers. *)
EXTENDS AsyncContext
=============================================================================
