------------------------------- MODULE MCVarint -------------------------------
(* Instances of Varint for TLC. *)
EXTENDS Varint

MCNumbers == -70 .. 70
=============================================================================
