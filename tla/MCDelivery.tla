------------------------------ MODULE MCDelivery ------------------------------
(* Values for TLC: the requests, the logs and the increments of Delivery. *)
EXTENDS Delivery

CONSTANTS r1, r2, r3

MCRequests == {r1, r2, r3}
MCUnencodable == {2}
MCCustom == {1}
MCCounted == {2}
MCRejections == {3}
MCSpans == {"s1"}
=============================================================================
