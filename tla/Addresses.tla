------------------------------ MODULE Addresses ------------------------------
(***************************************************************************)
(* IP addresses as nm-shared-utils and the service read them: texts with   *)
(* or without a prefix length, netmasks, classes and private networks.     *)
(*                                                                         *)
(* The text of an address is a record: what inet_pton takes the part       *)
(* before a slash for, whether that part has a colon, whether there is a   *)
(* slash, and the text behind it.  An address is the text it was read      *)
(* from, and Untouched what an out argument had before the call.           *)
(***************************************************************************)
EXTENDS Texts

AF_UNSPEC == "unspec"
AF_INET   == "inet"
AF_INET6  == "inet6"

Untouched == "untouched"
Colon     == 58

AddressTexts(Endings) ==
  {t \in [addr : {AF_INET, AF_INET6, "junk"}, colon : BOOLEAN,
          slash : BOOLEAN, prefix : Endings] :
     /\ t.addr = AF_INET => ~t.colon
     /\ t.addr = AF_INET6 => t.colon
     /\ ~t.slash => t.prefix = <<>>}

AddrFamilyToSize(family) == IF family = AF_INET THEN 4 ELSE IF family = AF_INET6 THEN 16 ELSE 0

-----------------------------------------------------------------------------
(* Reading. *)

(* A colon anywhere, behind the slash too, is taken for that of IPv6. *)
FamilyOf(family, t) ==
  IF family # AF_UNSPEC THEN family
  ELSE IF t.colon \/ Colon \in ToSet(t.prefix) THEN AF_INET6 ELSE AF_INET

Read(family, t) == family \in {AF_INET, AF_INET6} /\ t.addr = family

(* nm_utils_parse_inaddr_bin: a text with a slash is no address. *)
ParseInaddrBin(addr_family, t) ==
  LET ok == ~t.slash /\ Read(FamilyOf(addr_family, t), t) IN
  [ok |-> ok, addr |-> IF ok THEN t.addr ELSE Untouched]

(* inet_ntop is given the caller's family, and knows no AF_UNSPEC. *)
Ntop(addr_family, addr) == IF addr_family = AF_UNSPEC THEN "NULL" ELSE addr

ParseInaddr(addr_family, t) ==
  LET bin == ParseInaddrBin(addr_family, t) IN
  IF bin.ok THEN [bin EXCEPT !.addr = Ntop(addr_family, @)] ELSE bin

(* Mutant: the prefix length of an IPv4 address may be that of any. *)
PrefixOfAny(family, t) == IF t.slash THEN AsciiStrToInt64(t.prefix, 0, 128, -1).value ELSE -1

(* The prefix length, -1 if there is none, or none that fits the family. *)
PrefixOf(family, t) ==
  IF t.slash
  THEN AsciiStrToInt64(t.prefix, 0, 8 * AddrFamilyToSize(family), -1).value
  ELSE -1

(* Nothing is given out unless the address and its prefix length are read. *)
ParseInaddrPrefixBin(addr_family, t) ==
  LET family == FamilyOf(addr_family, t)
      prefix == PrefixOf(family, t)
      ok     == Read(family, t) /\ (t.slash => prefix # -1)
  IN IF ok THEN [ok |-> TRUE, addr |-> t.addr, prefix |-> prefix]
     ELSE [ok |-> FALSE, addr |-> Untouched, prefix |-> Untouched]

ParseInaddrPrefix(addr_family, t) ==
  LET bin == ParseInaddrPrefixBin(addr_family, t) IN
  IF bin.ok THEN [bin EXCEPT !.addr = Ntop(addr_family, @)] ELSE bin

(* Whether addr4_to_gvariant and addr6_to_gvariant of the service have an  *)
(* address to send.                                                        *)
AddrToGvariant(family, t) == ~t.slash /\ Read(family, t)

-----------------------------------------------------------------------------
(* Networks.  A mask is the set of its ones, the first bit being 1, and an *)
(* address the sequence of its bytes.                                      *)

Bits == 1..32
ShiftRight(bits, n) == {b + n : b \in bits} \cap Bits

(* A shift by all 32 bits would be undefined. *)
PrefixToNetmask(prefix) == IF prefix < 32 THEN Bits \ ShiftRight(Bits, prefix) ELSE Bits

(* The classes A, B and C. *)
DefaultPrefix(ip) == IF ip[1] <= 127 THEN 8 ELSE IF ip[1] <= 191 THEN 16 ELSE 24

(* 10.0.0.0/8, 172.16.0.0/12, 192.168.0.0/16, and fec0::/10. *)
IpIsSiteLocal(family, address) ==
  CASE family = AF_INET  -> \/ address[1] = 10
                            \/ address[1] = 172 /\ address[2] \div 16 = 1
                            \/ address[1] = 192 /\ address[2] = 168
    [] family = AF_INET6 -> address[1] = 254 /\ address[2] \div 64 = 3
    [] OTHER -> FALSE
=============================================================================
