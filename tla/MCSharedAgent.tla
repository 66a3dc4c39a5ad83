--------------------------- MODULE MCSharedAgent ---------------------------
(***************************************************************************)
(* Two services for TLC, with clients that print that they are connected.  *)
(***************************************************************************)
EXTENDS SharedAgent

OneLine == {"connected"}
=============================================================================
