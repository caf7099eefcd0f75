----------------------------- MODULE MCCapacity -----------------------------
(***************************************************************************)
(* Instances of Capacity for TLC, in one process.                          *)
(***************************************************************************)
EXTENDS Capacity, TLC

CONSTANTS p1, c1, c2, k1, k2, k3

OneProcess == c1 :> p1 @@ c2 :> p1
OneClient == c1 :> p1

NoTTLs == {}
=============================================================================
