------------------------------ MODULE MCEditor ------------------------------
(***************************************************************************)
(* Editor for TLC: its constants are given in the configurations.          *)
(***************************************************************************)
EXTENDS Editor
=============================================================================
