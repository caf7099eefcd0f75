---------------------------- MODULE MCCacheStore ----------------------------
(***************************************************************************)
(* Instances of CacheStore for TLC: two processes with one goroutine each. *)
(***************************************************************************)
EXTENDS CacheStore, TLC

CONSTANTS p1, p2, c1, c2, k1, k2

TwoProcesses == c1 :> p1 @@ c2 :> p2

OneTick == {1}
=============================================================================
