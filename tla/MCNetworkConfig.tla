-------------------------- MODULE MCNetworkConfig --------------------------
(***************************************************************************)
(* Interface addresses for TLC.  On the tunnel: IPv4, IPv6 with a zone and *)
(* netmasks of several lengths, and addresses whose text cannot be had.    *)
(* Elsewhere: the same families, and entries without an address.           *)
(***************************************************************************)
EXTENDS NetworkConfig

Entry(tunnel, family, named, zone, prefix) ==
  [tunnel |-> tunnel, family |-> family, named |-> named, zone |-> zone,
   prefix |-> prefix]

(* Every length of an IPv6 netmask. *)
EveryLength == {Entry(TRUE, "inet6", TRUE, TRUE, p) : p \in 0..128}

(* A mix of entries, among them an IPv6 address that has no zone, as a     *)
(* global one.                                                             *)
Mixed ==
  {Entry(TRUE, "inet", TRUE, FALSE, 24), Entry(TRUE, "inet", FALSE, FALSE, 24),
   Entry(FALSE, "inet", TRUE, FALSE, 8), Entry(TRUE, "none", TRUE, FALSE, 0),
   Entry(TRUE, "other", TRUE, FALSE, 0), Entry(FALSE, "inet6", TRUE, FALSE, 64)}
  \cup {Entry(TRUE, "inet6", TRUE, TRUE, p) : p \in {0, 64, 128}}
  \cup {Entry(TRUE, "inet6", FALSE, TRUE, 64), Entry(TRUE, "inet6", TRUE, FALSE, 64)}

AllEntries == Mixed \cup EveryLength
=============================================================================
