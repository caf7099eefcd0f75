----------------------------- MODULE MCCacheLock -----------------------------
(***************************************************************************)
(* Instances of CacheLock for TLC. Clients are interchangeable.            *)
(***************************************************************************)
EXTENDS CacheLock, TLC

CONSTANTS c1, c2

ClientSymmetry == Permutations({c1, c2})
==============================================================================
