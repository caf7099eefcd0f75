------------------------------ MODULE MCUIAuth ------------------------------
(***************************************************************************)
(* An instance of UIAuth for TLC: two requests at a time.                  *)
(***************************************************************************)
EXTENDS UIAuth, TLC

CONSTANTS c1, c2, p, q

Symmetry == Permutations(Clients) \cup Permutations(Passwords)
Combined == {{"login", "mistake"}, {"login", "visit", "logout"}, {"login", "change", "command"}}
TimeFor == [m \in Combined |-> IF "change" \in m THEN 0 ELSE 4]
=============================================================================
