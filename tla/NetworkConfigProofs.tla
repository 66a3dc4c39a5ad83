------------------------ MODULE NetworkConfigProofs ------------------------
(***************************************************************************)
(* Theorems about NetworkConfig, for every list of interface addresses.    *)
(***************************************************************************)
EXTENDS NetworkConfig, Integers, TLAPS

(* What a count of ones may be is left open: the values it can have. *)
Masks == {0} \cup {OnesInMask(length) : length \in 0..128}

(* The shape of the state, as far as the proofs need it. *)
Shape ==
  /\ ifaddr \in UNION {[1..n -> Entries] : n \in 0..MaxEntries}
  /\ ifa \in Nat \ {0}
  /\ info \in [ip4addr : Nat, ip4mask : Nat, ip6addr : Nat, ip6mask : Masks]

(* What the walk has found belongs to entries it has passed. *)
Found ==
  /\ info.ip4addr = info.ip4mask
  /\ info.ip4addr # Unwritten => IsLast(info.ip4addr, TakenUpTo(ifa - 1, "inet"))
  /\ info.ip4addr = Unwritten => TakenUpTo(ifa - 1, "inet") = {}
  /\ info.ip6mask # 0 => info.ip6addr \in TakenUpTo(ifa - 1, "inet6")

SentFound ==
  phase = "sent" =>
    /\ config.ip4 = info.ip4addr /\ config.netmask = info.ip4mask
    /\ config.has_ip6 => info.ip6mask # 0 /\ config.ip6 = info.ip6addr

WalkInv == Shape /\ Found /\ SentFound

LEMMA ShapeStep ==
  ASSUME Shape, [Next]_vars PROVE Shape'
<1> USE EntriesAssumption DEF Shape
<1>1. CASE Visit
  <2>1. ifaddr' = ifaddr /\ ifa <= Len(ifaddr) /\ ifa' \in {ifa, ifa + 1}
    BY <1>1 DEF Visit
  <2>2. ifa \in DOMAIN ifaddr
    <3>1. PICK n \in 0..MaxEntries : ifaddr \in [1..n -> Entries]
      OBVIOUS
    <3>2. Len(ifaddr) = n /\ DOMAIN ifaddr = 1..n
      BY <3>1
    <3> QED BY <2>1, <3>2
  <2>3. ifaddr[ifa].prefix \in 0..128
    BY <2>2
  <2>4. OnesInMask(ifaddr[ifa].prefix) \in Masks
    BY <2>3 DEF Masks
  <2> DEFINE found == OnesInMask(ifaddr[ifa].prefix)
  <2>5. \/ info' = info
        \/ info' = [info EXCEPT !.ip4addr = ifa, !.ip4mask = ifa]
        \/ info' = [info EXCEPT !.ip6addr = ifa, !.ip6mask = found]
    <3> HIDE DEF found
    <3> QED BY <1>1 DEF Visit, TakeIPv4, TakeIPv6, found
  <2>6. info' \in [ip4addr : Nat, ip4mask : Nat, ip6addr : Nat, ip6mask : Masks]
    <3> HIDE DEF found
    <3>1. found \in Masks
      BY <2>4 DEF found
    <3> QED BY <2>5, <3>1
  <2> QED BY <2>1, <2>6
<1>2. CASE Walked \/ GetifaddrsFails \/ SendNetworkConfig \/ UNCHANGED vars
  BY <1>2 DEF Walked, GetifaddrsFails, SendNetworkConfig, vars
<1> QED BY <1>1, <1>2 DEF Next

(* Passing one more entry keeps what was found and adds at most that entry. *)
LEMMA TakenGrows ==
  ASSUME Shape, ifa \in DOMAIN ifaddr, NEW family
  PROVE  TakenUpTo(ifa, family) = TakenUpTo(ifa - 1, family)
           \cup (IF Taken(ifaddr[ifa], family) THEN {ifa} ELSE {})
<1>1. 1..ifa = (1..(ifa - 1)) \cup {ifa} /\ ifa \notin 1..(ifa - 1)
  BY DEF Shape
<1> QED BY <1>1 DEF TakenUpTo

LEMMA FoundStep ==
  ASSUME Shape, Found, [Next]_vars PROVE Found'
<1>1. CASE Visit
  <2> DEFINE e == ifaddr[ifa]
  <2>1. ifaddr' = ifaddr /\ ifa <= Len(ifaddr)
    BY <1>1 DEF Visit
  <2>2. ifa \in DOMAIN ifaddr
    <3>1. PICK n \in 0..MaxEntries : ifaddr \in [1..n -> Entries]
      BY DEF Shape
    <3>2. Len(ifaddr) = n /\ DOMAIN ifaddr = 1..n
      BY <3>1, EntriesAssumption
    <3> QED BY <2>1, <3>2 DEF Shape
  <2>3. CASE ifa' = ifa /\ info' = info
    BY <2>1, <2>3 DEF Found, TakenUpTo
  <2>4. ASSUME ifa' = ifa + 1, NEW family
        PROVE  TakenUpTo(ifa - 1, family)' =
                 TakenUpTo(ifa - 1, family) \cup (IF Taken(e, family) THEN {ifa} ELSE {})
    <3>1. (ifa - 1)' = ifa
      BY <2>4 DEF Shape
    <3>2. TakenUpTo(ifa - 1, family)' = TakenUpTo(ifa, family)
      BY <2>1, <3>1 DEF TakenUpTo
    <3> QED BY <2>2, <3>2, TakenGrows
  <2>5. CASE ifa' = ifa + 1 /\ (e.tunnel /\ e.family = "inet6") /\ TakeIPv6(e)
    <3>1. TakenUpTo(ifa - 1, "inet")' = TakenUpTo(ifa - 1, "inet")
      BY <2>4, <2>5 DEF Taken
    <3>2. info'.ip4addr = info.ip4addr /\ info'.ip4mask = info.ip4mask
      BY <2>5 DEF TakeIPv6, Shape
    <3>3. info'.ip6mask # 0 => info'.ip6addr \in TakenUpTo(ifa - 1, "inet6")'
      <4>1. CASE Taken(e, "inet6")
        <5>1. info'.ip6addr = ifa
          BY <2>5, <4>1 DEF TakeIPv6, Shape
        <5> QED BY <2>4, <2>5, <4>1, <5>1
      <4>2. CASE ~Taken(e, "inet6")
        BY <2>4, <2>5, <4>2 DEF TakeIPv6, Found
      <4> QED BY <4>1, <4>2
    <3> QED BY <3>1, <3>2, <3>3 DEF Found, IsLast
  <2>6. CASE ifa' = ifa + 1 /\ ~(e.tunnel /\ e.family = "inet6") /\ TakeIPv4(e)
    <3>1. info'.ip6addr = info.ip6addr /\ info'.ip6mask = info.ip6mask
      BY <2>6 DEF TakeIPv4, Shape
    <3>2. CASE Taken(e, "inet")
      <4>1. info'.ip4addr = ifa /\ info'.ip4mask = ifa
        BY <2>6, <3>2 DEF TakeIPv4, Shape
      <4>2. IsLast(ifa, TakenUpTo(ifa - 1, "inet")')
        BY <2>4, <2>6, <3>2 DEF IsLast, TakenUpTo, Shape
      <4>3. ifa # Unwritten
        BY DEF Shape, Unwritten
      <4> QED BY <2>4, <2>6, <3>1, <4>1, <4>2, <4>3 DEF Found, IsLast
    <3>3. CASE ~Taken(e, "inet")
      <4>1. info' = info
        BY <2>6, <3>3 DEF TakeIPv4
      <4>2. TakenUpTo(ifa - 1, "inet")' = TakenUpTo(ifa - 1, "inet")
        BY <2>4, <2>6, <3>3
      <4>3. TakenUpTo(ifa - 1, "inet6") \subseteq TakenUpTo(ifa - 1, "inet6")'
        BY <2>4, <2>6
      <4> QED BY <4>1, <4>2, <4>3 DEF Found, IsLast
    <3> QED BY <3>2, <3>3
  <2> QED BY <1>1, <2>3, <2>5, <2>6 DEF Visit
<1>2. CASE Walked \/ GetifaddrsFails \/ SendNetworkConfig \/ UNCHANGED vars
  BY <1>2 DEF Walked, GetifaddrsFails, SendNetworkConfig, vars, Found, TakenUpTo
<1> QED BY <1>1, <1>2 DEF Next

LEMMA SentStep ==
  ASSUME Shape, SentFound, [Next]_vars PROVE SentFound'
<1>1. CASE SendNetworkConfig
  BY <1>1 DEF SendNetworkConfig, SentFound
<1>2. CASE Visit \/ Walked \/ GetifaddrsFails
  BY <1>2 DEF Visit, Walked, GetifaddrsFails, SentFound
<1>3. CASE UNCHANGED vars
  BY <1>3 DEF vars, SentFound
<1> QED BY <1>1, <1>2, <1>3 DEF Next

LEMMA WalkInit == Init => WalkInv
<1> SUFFICES ASSUME Init PROVE WalkInv
  OBVIOUS
<1>1. Shape
  BY EntriesAssumption DEF Init, Shape, Masks, Unwritten
<1>2. TakenUpTo(ifa - 1, "inet") = {}
  BY DEF Init, TakenUpTo
<1> QED BY <1>1, <1>2 DEF Init, WalkInv, Found, SentFound, Unwritten

LEMMA WalkCorrect == Spec => []WalkInv
<1>1. WalkInv /\ [Next]_vars => WalkInv'
  BY ShapeStep, FoundStep, SentStep DEF WalkInv
<1> QED BY <1>1, WalkInit, PTL DEF Spec

(* The IPv4 address and netmask that are sent are those of one entry, the  *)
(* last the walk took, and are unwritten only when it took none.           *)
THEOREM IPv4PairCorrect == Spec => []IPv4PairIsOneEntry
<1>1. WalkInv => IPv4PairIsOneEntry
  BY DEF WalkInv, Found, SentFound, IPv4PairIsOneEntry
<1> QED BY <1>1, WalkCorrect, PTL

(* No IPv6 address is sent that the walk did not write. *)
THEOREM IPv6Written == Spec => []IPv6NeverUnwritten
<1>1. WalkInv => IPv6NeverUnwritten
  BY DEF WalkInv, Found, SentFound, IPv6NeverUnwritten
<1> QED BY <1>1, WalkCorrect, PTL
-----------------------------------------------------------------------------
(* The counting of the ones of a netmask, for every length there is. *)

(* The ones of a byte, its bits one by one. *)
Bits(n) ==
  (n % 2) + ((n \div 2) % 2) + ((n \div 4) % 2) + ((n \div 8) % 2)
  + ((n \div 16) % 2) + ((n \div 32) % 2) + ((n \div 64) % 2) + ((n \div 128) % 2)

(* There is a function that counts the ones as Ones does. *)
LEMMA OnesRecursion ==
  Ones = [n \in 0..255 |-> IF n = 0 THEN 0 ELSE (n % 2) + Ones[n \div 2]]
<1> DEFINE Body(f) == [n \in 0..255 |-> IF n = 0 THEN 0 ELSE (n % 2) + f[n \div 2]]
           w == [n \in 0..255 |-> Bits(n)]
<1>1. ASSUME NEW n \in 0..255 PROVE Bits(n) = IF n = 0 THEN 0 ELSE (n % 2) + w[n \div 2]
  <2>1. CASE n = 0
    BY <2>1 DEF Bits
  <2>2. CASE n # 0
    <3>1. n \div 2 \in 0..255
      OBVIOUS
    <3>2. w[n \div 2] = Bits(n \div 2)
      BY <3>1
    <3>3. /\ (n \div 2) \div 2 = n \div 4 /\ (n \div 2) \div 4 = n \div 8
          /\ (n \div 2) \div 8 = n \div 16 /\ (n \div 2) \div 16 = n \div 32
          /\ (n \div 2) \div 32 = n \div 64 /\ (n \div 2) \div 64 = n \div 128
          /\ (n \div 2) \div 128 = 0
      OBVIOUS
    <3>4. Bits(n) = (n % 2) + Bits(n \div 2)
      BY <3>3 DEF Bits
    <3> QED BY <2>2, <3>2, <3>4
  <2> QED BY <2>1, <2>2
<1>2. w = Body(w)
  BY <1>1
<1>3. \E f : f = Body(f)
  BY <1>2
<1>4. Ones = CHOOSE f : f = Body(f)
  BY DEF Ones
<1> HIDE DEF Body
<1>5. Ones = Body(Ones)
  BY <1>3, <1>4
<1> QED BY <1>5 DEF Body

(* The bytes that a netmask is made of, and how many ones they have. *)
LEMMA OnesOfMaskByte ==
  /\ Ones[0] = 0 /\ Ones[128] = 1 /\ Ones[192] = 2 /\ Ones[224] = 3 /\ Ones[240] = 4
  /\ Ones[248] = 5 /\ Ones[252] = 6 /\ Ones[254] = 7 /\ Ones[255] = 8
<1>1. \A n \in 1..255 : Ones[n] = (n % 2) + Ones[n \div 2]
  BY OnesRecursion
<1>2. Ones[0] = 0
  BY OnesRecursion
<1>3. /\ Ones[1] = 1 /\ Ones[2] = Ones[1] /\ Ones[4] = Ones[2] /\ Ones[8] = Ones[4]
      /\ Ones[16] = Ones[8] /\ Ones[32] = Ones[16] /\ Ones[64] = Ones[32] /\ Ones[128] = Ones[64]
  BY <1>1, <1>2
<1>4. /\ Ones[3] = 2 /\ Ones[6] = Ones[3] /\ Ones[12] = Ones[6] /\ Ones[24] = Ones[12]
      /\ Ones[48] = Ones[24] /\ Ones[96] = Ones[48] /\ Ones[192] = Ones[96]
  BY <1>1, <1>3
<1>5. /\ Ones[7] = 3 /\ Ones[14] = Ones[7] /\ Ones[28] = Ones[14] /\ Ones[56] = Ones[28]
      /\ Ones[112] = Ones[56] /\ Ones[224] = Ones[112]
  BY <1>1, <1>4
<1>6. /\ Ones[15] = 4 /\ Ones[30] = Ones[15] /\ Ones[60] = Ones[30]
      /\ Ones[120] = Ones[60] /\ Ones[240] = Ones[120]
  BY <1>1, <1>5
<1>7. /\ Ones[31] = 5 /\ Ones[62] = Ones[31] /\ Ones[124] = Ones[62] /\ Ones[248] = Ones[124]
  BY <1>1, <1>6
<1>8. /\ Ones[63] = 6 /\ Ones[126] = Ones[63] /\ Ones[252] = Ones[126]
  BY <1>1, <1>7
<1>9. Ones[127] = 7 /\ Ones[254] = Ones[127] /\ Ones[255] = 8
  BY <1>1, <1>8
<1> QED BY <1>2, <1>3, <1>4, <1>5, <1>6, <1>7, <1>8, <1>9

Least(a, b) == IF a <= b THEN a ELSE b

(* The ones up to and in byte i - 1, and those of byte i. *)
LEMMA OnesOfByte ==
  ASSUME NEW length \in 0..128, NEW i \in 1..16
  PROVE  Least(length, 8 * i) = Least(length, 8 * (i - 1)) + Ones[MaskByte(length, i)]
<1> DEFINE rest == 8 * i - length
<1>1. rest \in Int
  OBVIOUS
<1>2. CASE rest <= 0
  BY <1>2, OnesOfMaskByte DEF MaskByte, Least
<1>3. CASE rest >= 8
  BY <1>3, OnesOfMaskByte DEF MaskByte, Least
<1>4. CASE rest \in 1..7
  <2>1. MaskByte(length, i) = 256 - 2 ^ rest
    BY <1>4 DEF MaskByte
  <2>2. /\ 2 ^ 1 = 2 /\ 2 ^ 2 = 4 /\ 2 ^ 3 = 8 /\ 2 ^ 4 = 16
        /\ 2 ^ 5 = 32 /\ 2 ^ 6 = 64 /\ 2 ^ 7 = 128
    BY SMT
  <2> HIDE DEF rest
  <2>3. Ones[MaskByte(length, i)] = 8 - rest
    <3>1. /\ 256 - 2 ^ 1 = 254 /\ 256 - 2 ^ 2 = 252 /\ 256 - 2 ^ 3 = 248
          /\ 256 - 2 ^ 4 = 240 /\ 256 - 2 ^ 5 = 224 /\ 256 - 2 ^ 6 = 192
          /\ 256 - 2 ^ 7 = 128
      BY <2>2
    <3>2. \/ rest = 1 \/ rest = 2 \/ rest = 3 \/ rest = 4
          \/ rest = 5 \/ rest = 6 \/ rest = 7
      BY <1>4
    <3>3. CASE rest = 1
      BY <2>1, <3>1, <3>3, OnesOfMaskByte
    <3>4. CASE rest = 2
      BY <2>1, <3>1, <3>4, OnesOfMaskByte
    <3>5. CASE rest = 3
      BY <2>1, <3>1, <3>5, OnesOfMaskByte
    <3>6. CASE rest = 4
      BY <2>1, <3>1, <3>6, OnesOfMaskByte
    <3>7. CASE rest = 5
      BY <2>1, <3>1, <3>7, OnesOfMaskByte
    <3>8. CASE rest = 6
      BY <2>1, <3>1, <3>8, OnesOfMaskByte
    <3>9. CASE rest = 7
      BY <2>1, <3>1, <3>9, OnesOfMaskByte
    <3> QED BY <3>2, <3>3, <3>4, <3>5, <3>6, <3>7, <3>8, <3>9
  <2> QED BY <1>4, <2>3 DEF Least, rest
<1> QED BY <1>1, <1>2, <1>3, <1>4

(* The ones that are counted in the 16 bytes of a netmask are as many as   *)
(* it is long.                                                             *)
LEMMA OnesAreTheLength == ASSUME NEW length \in 0..128 PROVE OnesInMask(length) = length
<1> DEFINE Body(f) == [i \in 0..16 |-> IF i = 0 THEN 0 ELSE f[i - 1] + Ones[MaskByte(length, i)]]
           Count == CHOOSE f : f = Body(f)
           w == [i \in 0..16 |-> Least(length, 8 * i)]
<1>1. w = Body(w)
  <2>1. ASSUME NEW i \in 0..16
        PROVE  w[i] = IF i = 0 THEN 0 ELSE w[i - 1] + Ones[MaskByte(length, i)]
    <3>1. CASE i = 0
      BY <3>1 DEF Least
    <3>2. CASE i # 0
      <4>1. i \in 1..16 /\ i - 1 \in 0..16
        BY <3>2
      <4> QED BY <3>2, <4>1, OnesOfByte
    <3> QED BY <3>1, <3>2
  <2> QED BY <2>1
<1>2. OnesInMask(length) = Count[16]
  BY DEF OnesInMask
<1>3. Count = Body(Count)
  <2> HIDE DEF Body
  <2> QED BY <1>1
<1> HIDE DEF Count
<1>4. Count[0] = 0 /\ \A i \in 1..16 : Count[i] = Count[i - 1] + Ones[MaskByte(length, i)]
  BY <1>3
<1> DEFINE Counted(i) == Count[i] = Least(length, 8 * i)
<1>5. ASSUME NEW i \in 0..15 PROVE Counted(i) => Counted(i + 1)
  <2>1. i + 1 \in 1..16 /\ (i + 1) - 1 = i
    OBVIOUS
  <2>2. Count[i + 1] = Count[i] + Ones[MaskByte(length, i + 1)]
    BY <1>4, <2>1
  <2>3. Least(length, 8 * (i + 1)) = Least(length, 8 * i) + Ones[MaskByte(length, i + 1)]
    BY <2>1, OnesOfByte
  <2> QED BY <2>2, <2>3
<1>6. Counted(0)
  BY <1>4 DEF Least
<1> HIDE DEF Counted
<1>7. Counted(1) /\ Counted(2) /\ Counted(3) /\ Counted(4)
  BY <1>5, <1>6
<1>8. Counted(5) /\ Counted(6) /\ Counted(7) /\ Counted(8)
  BY <1>5, <1>7
<1>9. Counted(9) /\ Counted(10) /\ Counted(11) /\ Counted(12)
  BY <1>5, <1>8
<1>10. Counted(13) /\ Counted(14) /\ Counted(15) /\ Counted(16)
  BY <1>5, <1>9
<1> QED BY <1>2, <1>10 DEF Counted, Least

-----------------------------------------------------------------------------
(* The entries are reached one by one, so that all positions are in the    *)
(* list, and the mask that was counted is that of the address kept.        *)
Bounded ==
  /\ Len(ifaddr) \in 0..MaxEntries /\ ifaddr \in Seq(Entries)
  /\ ifa \in 1..(Len(ifaddr) + 1)
  /\ info \in [ip4addr : 0..Len(ifaddr), ip4mask : 0..Len(ifaddr),
               ip6addr : 0..Len(ifaddr), ip6mask : 0..128]
  /\ phase \in {"walking", "walked", "sent", "crashed"}

PrefixKept == info.ip6addr # Unwritten => info.ip6mask = ifaddr[info.ip6addr].prefix

(* The entry that is visited and the length of its netmask. *)
LEMMA VisitedEntry ==
  ASSUME Bounded, Visit
  PROVE  /\ ifa \in 1..Len(ifaddr) /\ ifaddr[ifa] \in Entries
         /\ ifaddr[ifa].prefix \in 0..128
         /\ OnesInMask(ifaddr[ifa].prefix) = ifaddr[ifa].prefix
<1>1. ifa \in 1..Len(ifaddr) /\ ifaddr[ifa] \in Entries
  BY DEF Visit, Bounded
<1>2. ifaddr[ifa].prefix \in 0..128
  BY <1>1, EntriesAssumption
<1> QED BY <1>1, <1>2, OnesAreTheLength

(* What a visit may do to the information. *)
LEMMA VisitWrites ==
  ASSUME Bounded, Visit
  PROVE  /\ ifaddr' = ifaddr /\ ifa' \in 1..(Len(ifaddr) + 1)
         /\ phase' \in {"walking", "crashed"}
         /\ \/ info' = info
            \/ info' = [info EXCEPT !.ip4addr = ifa, !.ip4mask = ifa]
            \/ info' = [info EXCEPT !.ip6addr = ifa, !.ip6mask = ifaddr[ifa].prefix]
<1>1. OnesInMask(ifaddr[ifa].prefix) = ifaddr[ifa].prefix
  BY VisitedEntry
<1>2. ifaddr' = ifaddr /\ (ifa' = ifa \/ ifa' = ifa + 1)
  BY DEF Visit
<1>3. ifa' \in 1..(Len(ifaddr) + 1)
  BY <1>2, VisitedEntry
<1>4. phase' \in {"walking", "crashed"}
  BY DEF Visit
<1> QED BY <1>1, <1>2, <1>3, <1>4 DEF Visit, TakeIPv4, TakeIPv6

LEMMA BoundedStep ==
  ASSUME Bounded, PrefixKept, [Next]_vars PROVE Bounded' /\ PrefixKept'
<1>1. CASE Visit
  <2> DEFINE n == Len(ifaddr)
             Info == [ip4addr : 0..n, ip4mask : 0..n, ip6addr : 0..n, ip6mask : 0..128]
  <2>1. n \in Nat /\ ifa \in 0..n /\ info \in Info
    BY <1>1, VisitedEntry DEF Bounded
  <2>2. ifaddr[ifa].prefix \in 0..128
    BY <1>1, VisitedEntry
  <2>3. info' \in Info /\ (info'.ip6addr # Unwritten => info'.ip6mask = ifaddr[info'.ip6addr].prefix)
    <3> HIDE DEF n
    <3> DEFINE found == ifaddr[ifa].prefix
    <3>1. CASE info' = info
      BY <2>1, <3>1 DEF PrefixKept
    <3>2. CASE info' = [info EXCEPT !.ip4addr = ifa, !.ip4mask = ifa]
      BY <2>1, <3>2 DEF PrefixKept
    <3>3. CASE info' = [info EXCEPT !.ip6addr = ifa, !.ip6mask = found]
      <4>1. info'.ip6addr = ifa /\ info'.ip6mask = found
        BY <2>1, <3>3
      <4> HIDE DEF found
      <4>2. found \in 0..128
        BY <2>2 DEF found
      <4>3. info' \in Info
        BY <2>1, <3>3, <4>2
      <4> QED BY <4>1, <4>3 DEF found
    <3> QED BY <1>1, <3>1, <3>2, <3>3, VisitWrites
  <2> QED BY <1>1, <2>3, VisitWrites DEF Bounded, PrefixKept
<1>2. CASE Walked \/ GetifaddrsFails \/ SendNetworkConfig \/ UNCHANGED vars
  BY <1>2 DEF Walked, GetifaddrsFails, SendNetworkConfig, vars, Bounded, PrefixKept
<1> QED BY <1>1, <1>2 DEF Next

LEMMA BoundedInit == Init => Bounded /\ PrefixKept
<1> SUFFICES ASSUME Init PROVE Bounded /\ PrefixKept
  OBVIOUS
<1>1. PICK n \in 0..MaxEntries : ifaddr \in [1..n -> Entries]
  BY DEF Init
<1>2. Len(ifaddr) = n /\ ifaddr \in Seq(Entries) /\ n \in Nat
  BY <1>1, EntriesAssumption
<1> QED BY <1>1, <1>2 DEF Init, Bounded, PrefixKept, Unwritten

(* What is sent is what was found, or the initial value before. *)
ConfigInv ==
  /\ config \in [ip4 : Positions, netmask : Positions, has_ip6 : BOOLEAN,
                 ip6 : Positions, prefix : 0..128]
  /\ phase = "sent" => config.ip6 = info.ip6addr /\ config.prefix = info.ip6mask

LEMMA ConfigStep == ASSUME Bounded, ConfigInv, [Next]_vars PROVE ConfigInv'
<1>1. CASE SendNetworkConfig
  <2> DEFINE n == Len(ifaddr)
  <2>1. n \in 0..MaxEntries /\ info \in [ip4addr : 0..n, ip4mask : 0..n, ip6addr : 0..n, ip6mask : 0..128]
    BY DEF Bounded
  <2>2. /\ info.ip4addr \in Positions /\ info.ip4mask \in Positions
        /\ info.ip6addr \in Positions /\ info.ip6mask \in 0..128
    <3> HIDE DEF n
    <3> QED BY <2>1, EntriesAssumption DEF Positions
  <2>3. (info.ip6mask # 0) \in BOOLEAN
    OBVIOUS
  <2> QED BY <1>1, <2>2, <2>3 DEF SendNetworkConfig, ConfigInv
<1>2. CASE Visit
  BY <1>2, VisitWrites DEF Visit, ConfigInv
<1>3. CASE Walked \/ GetifaddrsFails \/ UNCHANGED vars
  BY <1>3 DEF Walked, GetifaddrsFails, vars, ConfigInv
<1> QED BY <1>1, <1>2, <1>3 DEF Next

LEMMA ConfigCorrect == Spec => [](Bounded /\ PrefixKept /\ ConfigInv)
<1>1. Init => ConfigInv
  BY EntriesAssumption DEF Init, ConfigInv, Positions, Unwritten
<1>2. Bounded /\ PrefixKept /\ ConfigInv /\ [Next]_vars
        => (Bounded /\ PrefixKept /\ ConfigInv)'
  BY BoundedStep, ConfigStep
<1> QED BY <1>1, <1>2, BoundedInit, PTL DEF Spec

(* The walk's variables keep their types: it stays in the list. *)
THEOREM ConfigTypeCorrect == Spec => []TypeOK
<1>1. ASSUME Bounded, ConfigInv PROVE TypeOK
  <2> DEFINE n == Len(ifaddr)
  <2>1. n \in 0..MaxEntries /\ info \in [ip4addr : 0..n, ip4mask : 0..n, ip6addr : 0..n, ip6mask : 0..128]
    BY <1>1 DEF Bounded
  <2>2. 0..n \subseteq Positions
    BY <2>1, EntriesAssumption DEF Positions
  <2>3. info \in [ip4addr : Positions, ip4mask : Positions, ip6addr : Positions, ip6mask : 0..128]
    <3> HIDE DEF n
    <3> QED BY <2>1, <2>2
  <2>4. ifa \in 1..(MaxEntries + 1) /\ Len(ifaddr) <= MaxEntries /\ ifaddr \in Seq(Entries)
    BY <1>1, EntriesAssumption DEF Bounded
  <2> QED BY <1>1, <2>3, <2>4 DEF Bounded, ConfigInv, TypeOK
<1> QED BY <1>1, ConfigCorrect, PTL

(* The prefix that is sent is the length of the netmask of the very        *)
(* address that is sent, for every list of addresses and every length: the *)
(* dividing by two counts the leading ones of each of the 16 bytes.        *)
THEOREM IPv6PrefixCorrect == Spec => []IPv6PrefixIsMaskLength
<1>1. PrefixKept /\ ConfigInv => IPv6PrefixIsMaskLength
  BY DEF PrefixKept, ConfigInv, IPv6PrefixIsMaskLength
<1> QED BY <1>1, ConfigCorrect, PTL
=============================================================================
