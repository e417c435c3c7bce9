------------------------------ MODULE MCReInit ------------------------------
(* A map with two subscriptions. *)
EXTENDS ReInit

CONSTANTS k1, k2

MCKey == {k1, k2}
MCSubscribed == <<k1, k2>>
=============================================================================
