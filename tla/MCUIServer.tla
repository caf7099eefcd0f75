----------------------------- MODULE MCUIServer -----------------------------
(***************************************************************************)
(* An instance of UIServer for TLC: two files that bear one name.          *)
(***************************************************************************)
EXTENDS UIServer

CONSTANTS p1, p2, r1, r2, main

SameName == [p \in Paths |-> "db"]
NoneOrOne == {[n \in Names |-> NoPath], [n \in Names |-> p1]}
=============================================================================
