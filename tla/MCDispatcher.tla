---------------------------- MODULE MCDispatcher ----------------------------
(***************************************************************************)
(* Instances of Dispatcher for TLC: one listener wants every change, the   *)
(* other only deletions.                                                   *)
(***************************************************************************)
EXTENDS Dispatcher, TLC

CONSTANTS w1, w2

AllAndDeletes == 1 :> {"set", "delete"} @@ 2 :> {"delete"}
=============================================================================
