----------------------------- MODULE MCReadLoop -----------------------------
(***************************************************************************)
(* ReadLoop for TLC: only its bounds need values, which the configuration  *)
(* gives.                                                                  *)
(***************************************************************************)
EXTENDS ReadLoop
=============================================================================
