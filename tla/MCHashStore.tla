---------------------------- MODULE MCHashStore -----------------------------
(***************************************************************************)
(* An instance of HashStore for TLC: a native and a fallback process.      *)
(***************************************************************************)
EXTENDS HashStore, TLC

CONSTANTS c1, c2, k1, k2, f1, f2

OneTick == {1}
Symmetry == Permutations(Fields)
=============================================================================
