----------------------------- MODULE MCFixPerms -----------------------------
(***************************************************************************)
(* FixPerms for TLC: its constants are given in the configurations.        *)
(***************************************************************************)
EXTENDS FixPerms
=============================================================================
