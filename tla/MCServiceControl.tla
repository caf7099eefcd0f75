-------------------------- MODULE MCServiceControl --------------------------
(***************************************************************************)
(* ServiceControl with five commands, two failed calls, one crash, one run *)
(* in the foreground and one restart of the machine, in any order: enough  *)
(* for an uninstall that fails after an install, for a second install by   *)
(* the other method, and for a process that ends while another one starts. *)
(***************************************************************************)
EXTENDS ServiceControl
=============================================================================
