--------------------------- MODULE NetworkConfig ---------------------------
(***************************************************************************)
(* What nm-anyconnect-service tells NetworkManager of the tunnel: the walk *)
(* over the interface addresses (get_local_ip_address) and the sending of  *)
(* what it found (send_network_config).                                    *)
(*                                                                         *)
(* The addresses come as a list of entries.  An address, its text and its  *)
(* netmask are named by the position of their entry; position 0 stands for *)
(* memory that was allocated and never written.                            *)
(***************************************************************************)
EXTENDS Naturals, Sequences

CONSTANTS
  Entries,    \* interface addresses the system may report
  MaxEntries  \* bound: length of the list

(* An entry: on the tunnel device or not, its address family (or no address *)
(* at all), whether getnameinfo can write it, whether what it writes has a  *)
(* zone ("%cscotun0"), and the length of its netmask.                       *)
ASSUME EntriesAssumption ==
  /\ Entries \subseteq
       [tunnel : BOOLEAN, family : {"inet", "inet6", "other", "none"},
        named : BOOLEAN, zone : BOOLEAN, prefix : 0..128]
  /\ MaxEntries \in Nat

VARIABLES
  ifaddr,  \* the list getifaddrs returned
  ifa,     \* the entry the walk has come to
  info,    \* IPAddrInfo
  phase,   \* "walking", "walked", "sent", or "crashed"
  config   \* what NetworkManager was sent

vars == <<ifaddr, ifa, info, phase, config>>

Unwritten == 0

Init ==
  /\ ifaddr \in UNION {[1..n -> Entries] : n \in 0..MaxEntries}
  /\ ifa = 1
  /\ info = [ip4addr |-> Unwritten, ip4mask |-> Unwritten,
             ip6addr |-> Unwritten, ip6mask |-> 0]
  /\ phase = "walking"
  /\ config = [ip4 |-> Unwritten, netmask |-> Unwritten,
               has_ip6 |-> FALSE, ip6 |-> Unwritten, prefix |-> 0]

-----------------------------------------------------------------------------
(* The netmask of an IPv6 address, of a given length, byte by byte. *)
MaskByte(length, i) ==
  LET bits == 8 * i IN
  IF length >= bits THEN 255
  ELSE IF length + 8 <= bits THEN 0 ELSE 256 - 2 ^ (bits - length)

(* The ones in a byte, by dividing it by two until nothing is left. *)
Ones[n \in 0..255] == IF n = 0 THEN 0 ELSE (n % 2) + Ones[n \div 2]

(* Mutant: the last byte is left out. *)
OnesBeforeLast(length) ==
  LET Count[i \in 0..15] ==
        IF i = 0 THEN 0 ELSE Count[i - 1] + Ones[MaskByte(length, i)]
  IN  Count[15]

(* Mutant: the bytes are summed, not their ones. *)
SummedMask(length) ==
  LET Sum[i \in 0..16] == IF i = 0 THEN 0 ELSE Sum[i - 1] + MaskByte(length, i)
  IN  Sum[16]

(* The ones in the 16 bytes of a netmask. *)
OnesInMask(length) ==
  LET Count[i \in 0..16] ==
        IF i = 0 THEN 0 ELSE Count[i - 1] + Ones[MaskByte(length, i)]
  IN  Count[16]

(* An entry the walk takes: on the tunnel device, with an IP address whose *)
(* text can be had.                                                        *)
Taken(e, family) == e.tunnel /\ e.family = family /\ e.named

(* Mutant: the mask is taken from every IPv4 entry. *)
AnyMask(e) ==
  info' = [info EXCEPT !.ip4addr = IF Taken(e, "inet") THEN ifa ELSE @,
                       !.ip4mask = IF e.tunnel /\ e.family = "inet" THEN ifa ELSE @]

(* The address and the netmask of an IPv4 entry replace what was there. *)
TakeIPv4(e) ==
  info' = IF Taken(e, "inet")
          THEN [info EXCEPT !.ip4addr = ifa, !.ip4mask = ifa] ELSE info

(* Mutant: the mask is counted before the text is known to be there. *)
CountedFirst(e) ==
  info' = [info EXCEPT !.ip6mask = OnesInMask(e.prefix),
                       !.ip6addr = IF e.named THEN ifa ELSE @]

(* The IPv6 address up to its zone, and the ones in its netmask. *)
TakeIPv6(e) ==
  info' = IF Taken(e, "inet6")
          THEN [info EXCEPT !.ip6addr = ifa, !.ip6mask = OnesInMask(e.prefix)]
          ELSE info

(* Mutant: an entry that is not taken is not passed over. *)
VisitTaken ==
  /\ phase = "walking" /\ ifa <= Len(ifaddr)
  /\ LET e == ifaddr[ifa] IN
     IF Taken(e, "inet6") /\ ~e.zone
     THEN phase' = "crashed" /\ UNCHANGED <<ifa, info>>
     ELSE /\ IF e.tunnel /\ e.family = "inet6" THEN TakeIPv6(e) ELSE TakeIPv4(e)
          /\ ifa' = IF Taken(e, "inet") \/ Taken(e, "inet6") THEN ifa + 1 ELSE ifa
          /\ UNCHANGED phase
  /\ UNCHANGED <<ifaddr, config>>

(* One turn of the loop.  Looking for the zone of a text without one gives *)
(* NULL, whose length is then asked for.                                   *)
Visit ==
  /\ phase = "walking" /\ ifa <= Len(ifaddr)
  /\ LET e == ifaddr[ifa] IN
     IF Taken(e, "inet6") /\ ~e.zone
     THEN phase' = "crashed" /\ UNCHANGED <<ifa, info>>
     ELSE /\ IF e.tunnel /\ e.family = "inet6" THEN TakeIPv6(e) ELSE TakeIPv4(e)
          /\ ifa' = ifa + 1
          /\ UNCHANGED phase
  /\ UNCHANGED <<ifaddr, config>>

(* The end of the list. *)
Walked ==
  /\ phase = "walking" /\ ifa > Len(ifaddr)
  /\ phase' = "walked"
  /\ UNCHANGED <<ifaddr, ifa, info, config>>

(* getifaddrs fails, and what was allocated is returned as it is. *)
GetifaddrsFails ==
  /\ phase = "walking" /\ ifa = 1
  /\ phase' = "walked"
  /\ UNCHANGED <<ifaddr, ifa, info, config>>

(* The general, the IPv4 and, where there is an IPv6 address with a mask,  *)
(* the IPv6 configuration.                                                 *)
SendNetworkConfig ==
  /\ phase = "walked"
  /\ phase' = "sent"
  /\ config' = [ip4 |-> info.ip4addr, netmask |-> info.ip4mask,
                has_ip6 |-> info.ip6mask # 0,
                ip6 |-> info.ip6addr, prefix |-> info.ip6mask]
  /\ UNCHANGED <<ifaddr, ifa, info>>

Next == Visit \/ Walked \/ GetifaddrsFails \/ SendNetworkConfig

Spec == Init /\ [][Next]_vars

(* All this is one callback, which runs on to its end.  That getifaddrs    *)
(* fails is not assumed.                                                   *)
FairSpec == Spec /\ WF_vars(Visit \/ Walked \/ SendNetworkConfig)

-----------------------------------------------------------------------------
(* The entries of a family that the walk took. *)
TakenUpTo(last, family) ==
  {i \in 1..last : i \in DOMAIN ifaddr /\ Taken(ifaddr[i], family)}

IsLast(i, S) == i \in S /\ \A j \in S : j <= i

Positions == 0..MaxEntries

(* Every variable has its type. *)
TypeOK ==
  /\ ifaddr \in Seq(Entries) /\ Len(ifaddr) <= MaxEntries
  /\ ifa \in 1..(MaxEntries + 1)
  /\ info \in [ip4addr : Positions, ip4mask : Positions, ip6addr : Positions,
               ip6mask : 0..128]
  /\ phase \in {"walking", "walked", "sent", "crashed"}
  /\ config \in [ip4 : Positions, netmask : Positions, has_ip6 : BOOLEAN,
                 ip6 : Positions, prefix : 0..128]

(* The IPv4 address and the netmask that are sent belong together: both    *)
(* are those of the last IPv4 entry of the tunnel that was taken, although *)
(* the walk goes through entries of all devices and families and writes    *)
(* the two at different places.  They are the memory as it was allocated   *)
(* only when no such entry was come across.                                *)
IPv4PairIsOneEntry ==
  phase = "sent" =>
    \/ /\ config.ip4 = Unwritten /\ config.netmask = Unwritten
       /\ TakenUpTo(ifa - 1, "inet") = {}
    \/ config.ip4 = config.netmask
       /\ IsLast(config.ip4, TakenUpTo(ifa - 1, "inet"))

(* The memory allocated for the IPv6 address is never sent unwritten: a    *)
(* prefix that is not zero comes with an address of the tunnel.            *)
IPv6NeverUnwritten ==
  phase = "sent" /\ config.has_ip6 => config.ip6 \in TakenUpTo(ifa - 1, "inet6")

(* The prefix sent is the length of the netmask of the very address that   *)
(* is sent, for every length there is: the ones of a netmask are its       *)
(* leading bits.                                                           *)
IPv6PrefixIsMaskLength ==
  phase = "sent" /\ config.ip6 # Unwritten => config.prefix = ifaddr[config.ip6].prefix

(* "at least a local IPv4 IP address is required" (the comment above       *)
(* send_network_config): the address that is sent was written.             *)
LocalIPv4Sent == phase = "sent" => config.ip4 # Unwritten

(* Whatever the addresses are, NetworkManager is sent a configuration in   *)
(* the end, and becomes "started" by it, unless the zone of an address is  *)
(* cut off that has none: "the ip6 addr comes out with a % char in it"     *)
(* (get_local_ip_address) is not so for global addresses.                  *)
ZonesEverywhere == \A i \in DOMAIN ifaddr : Taken(ifaddr[i], "inet6") => ifaddr[i].zone
ConfigArrives == ZonesEverywhere ~> phase = "sent"
=============================================================================
