---------------------------- MODULE TextsProofs ----------------------------
(***************************************************************************)
(* The text utilities for texts, lists and numbers of any size: what every *)
(* call gives, for all that TextCalls allows as its inputs.                *)
(***************************************************************************)
EXTENDS TextCalls, SequenceTheorems, FiniteSetTheorems, TLAPS

(* Every set of numbers that is not empty has a smallest one. *)
LEMMA Smallest ==
  ASSUME NEW T \in SUBSET Nat, T # {}
  PROVE  \E n \in T : \A m \in T : n <= m
<1> DEFINE R == {p \in Nat \X Nat : p[1] < p[2]}
<1>1. IsWellFoundedOn(R, Nat)
  BY NatLessThanWellFounded DEF OpToRel
<1>2. PICK x \in T : \A y \in T : ~(<<y, x>> \in R)
  BY <1>1, WFMin
<1>3. \A y \in T : <<y, x>> \in R <=> y < x
  OBVIOUS
<1>4. \A y \in T : x \in Nat /\ y \in Nat /\ ~(y < x)
  BY <1>2, <1>3
<1>5. \A y \in T : x <= y
  BY <1>4
<1> QED BY <1>5

(* Induction over the numbers up to n. *)
LEMMA Counting ==
  ASSUME NEW n \in Nat, NEW G, 0 \in G, \A k \in 0..(n - 1) : k \in G => k + 1 \in G
  PROVE  \A k \in 0..n : k \in G
<1> DEFINE T == {k \in 0..n : k \notin G}
<1>1. SUFFICES ASSUME T # {} PROVE FALSE
  OBVIOUS
<1>2. T \in SUBSET Nat
  OBVIOUS
<1>3. PICK k \in T : \A m \in T : k <= m
  <2> HIDE DEF T
  <2> QED BY <1>1, <1>2, Smallest
<1>4. k # 0 /\ k - 1 \in 0..(n - 1) /\ k - 1 \in 0..n /\ k - 1 \notin T
  BY <1>3
<1>5. k - 1 \in G
  BY <1>4
<1> QED BY <1>3, <1>4, <1>5

(* A largest element is the maximum. *)
LEMMA LargestIsMax ==
  ASSUME NEW t \in SUBSET Int, NEW n \in t, \A y \in t : n >= y
  PROVE  Max(t) = n
<1>1. \A x \in t : (\A y \in t : x >= y) => x = n
  OBVIOUS
<1> QED BY <1>1 DEF Max

-----------------------------------------------------------------------------
(* The smaller of two numbers.                                             *)
LEMMA LeastOfTwo ==
  ASSUME NEW m \in Nat, NEW n \in Nat
  PROVE  Min({m, n}) = IF m <= n THEN m ELSE n
<1> DEFINE least == IF m <= n THEN m ELSE n
<1>1. least \in {m, n} /\ \A y \in {m, n} : least <= y
  OBVIOUS
<1>2. \A x \in {m, n} : (\A y \in {m, n} : x <= y) => x = least
  OBVIOUS
<1> QED BY <1>1, <1>2 DEF Min

(* No text is NULL, which is written as a text no C string can be.         *)
LEMMA TextIsNotNull ==
  ASSUME NEW str \in Text
  PROVE  str # Null
<1> SUFFICES ASSUME str = Null PROVE FALSE
  OBVIOUS
<1>1. Len(str) = 1 /\ str[1] = 0
  BY DEF Null
<1>2. 1 \in 1..Len(str) /\ str \in Seq(1..255)
  BY <1>1 DEF Text
<1>3. str[1] \in 1..255
  BY <1>2, ElementOfSeq
<1> QED BY <1>1, <1>3

(* The characters of a text are bytes that are not zero.                   *)
LEMMA Characters ==
  ASSUME NEW s \in Text
  PROVE  Len(s) \in Nat /\ DOMAIN s = 1..Len(s) /\ \A k \in 1..Len(s) : s[k] \in 1..255 /\ s[k] \in Int
<1>1. s \in Seq(1..255)
  BY DEF Text
<1>2. \A k \in 1..Len(s) : s[k] \in 1..255
  BY <1>1, ElementOfSeq
<1>3. \A k \in 1..Len(s) : s[k] \in Int
  <2>1. 1..255 \subseteq Int
    OBVIOUS
  <2> QED BY <1>2, <2>1, Zenon
<1>4. Len(s) \in Nat /\ DOMAIN s = 1..Len(s)
  BY <1>1
<1> QED BY <1>2, <1>3, <1>4

IsAnswer(i, r) ==
  /\ i.op = "number"   => r = AsciiStrToInt64(i.str, i.range[1], i.range[2], 1)
  /\ i.op = "bool"     => r = AsciiStrToBool(i.str, i.default)
  /\ i.op = "levels"   => r = LogLevels(i.level, i.syslog, i.debug)
  /\ i.op = "start_as" => r = StartedAs(i.args, i.debug, i.level, i.syslog, i.named)
  /\ i.op = "compare"  => r = [ab |-> DbusPathCmp(i.paths[1], i.paths[2]), ba |-> DbusPathCmp(i.paths[2], i.paths[1]),
                               bc |-> DbusPathCmp(i.paths[2], i.paths[3]), ac |-> DbusPathCmp(i.paths[1], i.paths[3])]
  /\ i.op = "address"  => r = [whole |-> ParseInaddr(i.family, i.text), prefix |-> ParseInaddrPrefix(i.family, i.text),
                               sent |-> AddrToGvariant(i.family, i.text)]
  /\ i.op = "netmask"  => r = PrefixToNetmask(i.prefix)
  /\ i.op = "class"    => r = [prefix |-> DefaultPrefix(i.ip), private |-> IpIsSiteLocal(AF_INET, i.ip)]
  /\ i.op = "append"   => r = StrbufAppendC(StrbufAppendStr(StrbufAppend(StrbufInit(i.size), i.one), i.two), i.c)
  /\ i.op = "quote"    => r = Strquote(i.size, i.str)
  /\ i.op = "flags"    => r = Flags2Str(i.descs, i.flags, i.size)
  /\ i.op = "enum"     => r = Enum2Str(i.names, i.val, i.size)
  /\ i.op = "name"     => r = ConstructName(i.before, i.after, i.name)
  /\ i.op = "escape"   => r = Utf8SafeEscape(i.str, i.flags, i.signed)
  /\ i.op = "strip"    => r = StrstripAvoidCopy(i.str)
  /\ i.op = "split"    => r = StrsplitSet(i.str, i.delimiters)
  /\ i.op = "cleanup"  => r = StrvCleanup(i.strv, i.strip, i.empty, i.repeated)
  /\ i.op = "sort"     => r = StrvSort(i.strv, i.len)
  /\ i.op = "dict"     => r = [named |-> NamedValuesFromStrDict(i.hash), keys |-> StrdictGetKeys(i.hash, i.compared)]
  /\ i.op = "start"    => r = StartTimeForPid(Stat(i), i.want)
  /\ i.op = "set" =>
       /\ i.how = "value"   => r = SetProperty(Klass(i), Object, i.name, i.value)
       /\ i.how = "boolean" => r = SetPropertyBoolean(Klass(i), Object, i.name, i.value.n)
       /\ i.how = "uint"    => r = SetPropertyUint(Klass(i), Object, i.name, i.value.n)
  /\ i.op = "connect"    => r = ConnectFeedback(i.lines)
  /\ i.op = "disconnect" => r = DisconnectFeedback(i.connected, i.lines)
  /\ i.op = "hosts"      => r = GatewaysOf(i.lines)
  /\ i.op = "cancel" => r = ErrorIsCancelled(ErrorSetCancelled(i.disposing), i.consider)

(* A step returns, or is a call with what the utility gives for its input. *)
LEMMA CallsAreAnswered ==
  ASSUME Next
  PROVE  call' = Idle \/ (call' \in Inputs /\ IsAnswer(call', result'))
BY DEF Next, Return, Calls, Number, TruthValue, Levels, Starting, Split, Cleanup, Stripping, Sort,
       Dictionary, StartTime, Compare, Address, Netmask, Class, Appending, Quoting, Flagging,
       Enumerating, Naming, Escaping, Connecting, Disconnecting, Listing, Setting, Cancelling, IsAnswer

(* Setting a property, of every type to every value.                       *)
LEMMA SetPropertyIsValid ==
  ASSUME NEW pspec \in ParamSpec, NEW name \in {"p", "q"}, NEW value \in [type : Types, n : Nat],
         value.type = "bool" => value.n < 2
  PROVE  SetAsAsked(SetProperty([p |-> pspec], Object, name, value), pspec, name, value.type, value.n)
<1> DEFINE n == IF "bool" \in {value.type, pspec.type} THEN Min({value.n, 1}) ELSE value.n
           tmp == Transform(value, pspec.type)
           klass == [p |-> pspec]
           valid == Validated(pspec, tmp)
           r == SetProperty(klass, Object, name, value)
           may == /\ name = "p" /\ pspec.writable /\ ~pspec.construct_only
                  /\ pspec.peeked /\ <<value.type, pspec.type>> \in Transforms
<1>0. SUFFICES
               /\ r.error = NoError <=> may /\ (pspec.lax \/ n <= pspec.max)
               /\ r.object = IF r.error # NoError THEN Object
                             ELSE [p |-> [type |-> pspec.type, n |-> Min({n, pspec.max})]]
  BY DEF SetAsAsked
<1>1. pspec.max \in Nat /\ value.n \in Nat /\ pspec.lax \in BOOLEAN
  BY DEF ParamSpec
<1>2. Min({value.n, 1}) = IF value.n <= 1 THEN value.n ELSE 1
  BY <1>1, LeastOfTwo
<1>3. n \in Nat /\ tmp = [type |-> pspec.type, n |-> n]
  BY <1>1, <1>2 DEF Transform
<1> HIDE DEF tmp, n
<1>4. Min({n, pspec.max}) = IF n <= pspec.max THEN n ELSE pspec.max
  BY <1>1, <1>3, LeastOfTwo
<1>5. valid = [type |-> pspec.type, n |-> Min({n, pspec.max})]
  BY <1>3 DEF Validated
<1>6. valid = tmp <=> n <= pspec.max
  <2> DEFINE least == Min({n, pspec.max})
  <2>1. least = n <=> n <= pspec.max
    BY <1>1, <1>3, <1>4
  <2> HIDE DEF least
  <2> QED BY <1>3, <1>5, <2>1 DEF least
<1> HIDE DEF valid
<1>7. CASE name = "q"
  <2>1. name \notin DOMAIN klass
    BY <1>7
  <2>2. r = [error |-> "no such property", object |-> Object]
    BY <2>1 DEF SetProperty, NoError
  <2> HIDE DEF r
  <2> QED BY <1>7, <2>2 DEF NoError
<1>8. CASE name = "p"
  <2>1. DOMAIN klass = {"p"} /\ klass[name] = pspec
    BY <1>8
  <2> DEFINE error ==  IF ~pspec.writable THEN "not writable"
               ELSE IF pspec.construct_only THEN "construct only"
               ELSE IF ~pspec.peeked THEN "no class"
               ELSE Rejected(pspec, value)
  <2>2. r = [error |-> error,
             object |-> IF error # NoError THEN Object ELSE [Object EXCEPT ![name] = valid]]
    BY <1>8, <2>1 DEF SetProperty, valid, tmp
  <2>3. Rejected(pspec, value) = IF <<value.type, pspec.type>> \notin Transforms THEN "not transformed"
                          ELSE IF valid # tmp /\ ~pspec.lax THEN "not valid" ELSE NoError
    BY DEF Rejected, valid, tmp
  <2>4. error = NoError <=> may /\ (pspec.lax \/ n <= pspec.max)
    BY <1>6, <1>8, <2>3 DEF NoError
  <2>5. [Object EXCEPT ![name] = valid] = [p |-> valid]
    BY <1>8 DEF Object
  <2> HIDE DEF error
  <2>6. r.error = error /\ r.object = IF error # NoError THEN Object ELSE [p |-> valid]
    BY <2>2, <2>5
  <2> HIDE DEF r
  <2> QED BY <1>5, <2>4, <2>6 DEF r
<1> QED BY <1>7, <1>8

(* What is set is valid or refused, and cancelled requests are known, in   *)
(* every state.                                                            *)
THEOREM PropertiesStayValid == Spec => []PropertiesAreValid
<1>1. Init => PropertiesAreValid
  BY DEF Init, Idle, PropertiesAreValid
<1>2. ASSUME PropertiesAreValid, [Next]_vars PROVE PropertiesAreValid'
  <2>1. CASE UNCHANGED vars
    BY <1>2, <2>1 DEF vars, PropertiesAreValid
  <2>2. CASE call' = Idle
    BY <2>2 DEF Idle, PropertiesAreValid
  <2>3. CASE call' \in Inputs /\ IsAnswer(call', result')
    <3>1. ASSUME call'.op = "set" PROVE SetAsAsked(result', call'.pspec, call'.name,
                  CASE call'.how = "value" -> call'.value.type [] call'.how = "boolean" -> "bool"
                    [] call'.how = "uint" -> "uint",
                  call'.value.n)
      <4> DEFINE i == call'
                 boolean == [type |-> "bool", n |-> IF i.value.n # 0 THEN 1 ELSE 0]
                 uint    == [type |-> "uint", n |-> i.value.n]
      <4>1. /\ i.how \in {"value", "boolean", "uint"} /\ i.name \in {"p", "q"}
            /\ i.value \in [type : Types, n : Nat] /\ i.pspec \in ParamSpec
            /\ i.how = "value" /\ i.value.type = "bool" => i.value.n < 2
        BY <2>3, <3>1, InputsAssumption
      <4>2. /\ i.how = "value"   => result' = SetProperty([p |-> i.pspec], Object, i.name, i.value)
            /\ i.how = "boolean" => result' = SetProperty([p |-> i.pspec], Object, i.name, boolean)
            /\ i.how = "uint"    => result' = SetProperty([p |-> i.pspec], Object, i.name, uint)
        BY <2>3, <3>1 DEF IsAnswer, Klass, SetPropertyBoolean, SetPropertyUint
      <4>3. boolean \in [type : Types, n : Nat] /\ uint \in [type : Types, n : Nat]
        BY <4>1, TypesAssumption
      <4>4. Min({i.value.n, 1}) = boolean.n /\ Min({boolean.n, 1}) = boolean.n
        BY <4>1, LeastOfTwo
      <4>5. CASE i.how = "value"
        BY <4>1, <4>2, <4>5, SetPropertyIsValid
      <4>6. CASE i.how = "boolean"
        <5>1. boolean.type = "bool" /\ (boolean.type = "bool" => boolean.n < 2)
          OBVIOUS
        <5> HIDE DEF boolean
        <5>2. SetAsAsked(result', i.pspec, i.name, "bool", boolean.n)
          BY <4>1, <4>2, <4>3, <4>6, <5>1, SetPropertyIsValid
        <5>3. SetAsAsked(result', i.pspec, i.name, "bool", i.value.n)
          BY <4>4, <5>2 DEF SetAsAsked
        <5> QED BY <4>6, <5>3
      <4>7. CASE i.how = "uint"
        <5>1. uint.type = "uint" /\ uint.n = i.value.n /\ (uint.type = "bool" => uint.n < 2)
          OBVIOUS
        <5> HIDE DEF uint
        <5> QED BY <4>1, <4>2, <4>3, <4>7, <5>1, SetPropertyIsValid
      <4> QED BY <4>1, <4>5, <4>6, <4>7
    <3>2. ASSUME call'.op = "cancel" PROVE result' <=> (call'.disposing => call'.consider)
      BY <2>3, <3>2, InputsAssumption DEF IsAnswer, ErrorSetCancelled, ErrorIsCancelled
    <3> QED BY <3>1, <3>2 DEF PropertiesAreValid
  <2> QED BY <1>2, <2>1, <2>2, <2>3, CallsAreAnswered
<1> QED BY <1>1, <1>2, PTL DEF Spec

-----------------------------------------------------------------------------
ConnectStep(ctx, priv, line)    == ConnectLine(priv, line)
DisconnectStep(ctx, priv, line) == DisconnectLine(priv, line)
Connects    == INSTANCE FoldFacts WITH Op <- ConnectStep
Disconnects == INSTANCE FoldFacts WITH Op <- DisconnectStep

(* The lines of a client are read one after the other. *)
LEMMA ConnectLoop ==
  ASSUME NEW lines \in Seq(Line)
  PROVE  \E f : /\ f[0] = Silent
                /\ \A k \in 1..Len(lines) : f[k] = ConnectLine(f[k - 1], lines[k])
                /\ f[Len(lines)] = FoldLeft(ConnectLine, Silent, lines)
<1>1. Connects!Fold(0, Silent, lines) = FoldLeft(ConnectLine, Silent, lines)
  BY DEF Connects!Fold, FoldLeft, MapThenFoldSet, Connects!MapThenFoldSet, Max, Connects!Largest, ConnectStep
<1>2. Connects!IsTrace(Connects!Trace(0, Silent, lines), 0, Silent, lines)
  BY Connects!FoldTrace, Smallest
<1> QED BY <1>1, <1>2 DEF Connects!IsTrace, ConnectStep

(* The lines of `disconnect' are read one after the other.                 *)
LEMMA DisconnectLoop ==
  ASSUME NEW lines \in Seq(Line), NEW base
  PROVE  \E f : /\ f[0] = base
                /\ \A k \in 1..Len(lines) : f[k] = DisconnectLine(f[k - 1], lines[k])
                /\ f[Len(lines)] = FoldLeft(DisconnectLine, base, lines)
<1>1. Disconnects!Fold(0, base, lines) = FoldLeft(DisconnectLine, base, lines)
  BY DEF Disconnects!Fold, FoldLeft, MapThenFoldSet, Disconnects!MapThenFoldSet, Max, Disconnects!Largest, DisconnectStep
<1>2. Disconnects!IsTrace(Disconnects!Trace(0, base, lines), 0, base, lines)
  BY Disconnects!FoldTrace, Smallest
<1> QED BY <1>1, <1>2 DEF Disconnects!IsTrace, DisconnectStep

(* The last position up to k that is in D, 0 if there is none. *)
Latest(D, k) == IF D \cap 1..k = {} THEN 0 ELSE Max(D \cap 1..k)

(* The last position in a set, as the positions are passed.                *)
LEMMA LatestMoves ==
  ASSUME NEW D
  PROVE  /\ Latest(D, 0) = 0
         /\ \A k \in Nat \ {0} : Latest(D, k) = IF k \in D THEN k ELSE Latest(D, k - 1)
<1>1. D \cap 1..0 = {}
  OBVIOUS
<1>2. ASSUME NEW k \in Nat \ {0} PROVE Latest(D, k) = IF k \in D THEN k ELSE Latest(D, k - 1)
  <2>1. CASE k \in D
    <3>1. D \cap 1..k \in SUBSET Int /\ k \in D \cap 1..k /\ \A y \in D \cap 1..k : k >= y
      BY <2>1
    <3> QED BY <2>1, <3>1, LargestIsMax DEF Latest
  <2>2. CASE k \notin D
    <3>1. D \cap 1..k = D \cap 1..(k - 1)
      BY <2>2
    <3> QED BY <2>2, <3>1 DEF Latest
  <2> QED BY <2>1, <2>2
<1> QED BY <1>1, <1>2 DEF Latest

Errors(lines)   == {i \in 1..Len(lines) : HasPrefix(lines[i], 2, "error")}
Warnings(lines) == {i \in 1..Len(lines) : HasPrefix(lines[i], 2, "warning")}

MessageAt(lines, i, n) == IF i = 0 THEN NoText ELSE ChopN(lines[i], n)

(* What the service keeps of the lines it has read. *)
LEMMA ConnectKeepsLatest ==
  ASSUME NEW lines \in Seq(Line)
  PROVE  LET priv == FoldLeft(ConnectLine, Silent, lines)
             n    == Len(lines)
         IN /\ priv.connected <=> \E i \in 1..n : HasPrefix(lines[i], 2, "connected")
            /\ priv.last_error = MessageAt(lines, Latest(Errors(lines), n), 12)
            /\ priv.last_warning = MessageAt(lines, Latest(Warnings(lines), n), 14)
<1> DEFINE n == Len(lines)
           E == Errors(lines)
           W == Warnings(lines)
<1>1. PICK f : /\ f[0] = Silent
               /\ \A k \in 1..n : f[k] = ConnectLine(f[k - 1], lines[k])
               /\ f[n] = FoldLeft(ConnectLine, Silent, lines)
  BY ConnectLoop
<1> DEFINE Kept(k) == /\ f[k] \in [connected : BOOLEAN, last_warning : {f[k].last_warning}, last_error : {f[k].last_error}]
                      /\ f[k].connected <=> \E i \in 1..k : HasPrefix(lines[i], 2, "connected")
                      /\ f[k].last_error = MessageAt(lines, Latest(E, k), 12)
                      /\ f[k].last_warning = MessageAt(lines, Latest(W, k), 14)
           G == {k \in 0..n : Kept(k)}
<1>2. n \in Nat /\ E \in SUBSET (1..n) /\ W \in SUBSET (1..n)
  BY DEF Errors, Warnings
<1>3. 0 \in G
  <2>1. MessageAt(lines, 0, 12) = NoText /\ MessageAt(lines, 0, 14) = NoText
    BY DEF MessageAt
  <2>2. 1..0 = {}
    OBVIOUS
  <2> HIDE DEF E, W
  <2>3. Kept(0)
    BY <1>1, <2>1, <2>2, LatestMoves DEF Silent
  <2> QED BY <1>2, <2>3
<1>4. ASSUME NEW k \in 0..(n - 1), k \in G PROVE k + 1 \in G
  <2> DEFINE m == k + 1
             l == lines[m]
             p == f[k]
             q == f[m]
  <2>1. m \in 1..n /\ m - 1 = k
    BY <1>2
  <2>2. q = ConnectLine(p, l)
    BY <1>1, <2>1
  <2>5. m # 0 /\ m \in Nat \ {0} /\ m \in 0..n
    BY <1>2
  <2>3. /\ Latest(E, m) = IF m \in E THEN m ELSE Latest(E, k)
        /\ Latest(W, m) = IF m \in W THEN m ELSE Latest(W, k)
    <3> HIDE DEF E, W, n, m
    <3> QED BY <2>1, <2>5, LatestMoves
  <2>4. /\ m \in E <=> HasPrefix(l, 2, "error")
        /\ m \in W <=> HasPrefix(l, 2, "warning")
    BY <2>1 DEF Errors, Warnings
  <2>6. (\E i \in 1..m : HasPrefix(lines[i], 2, "connected")) <=> \/ \E i \in 1..k : HasPrefix(lines[i], 2, "connected")
                                                                  \/ HasPrefix(l, 2, "connected")
    BY <1>2
  <2>7. Kept(k)
    BY <1>4
  <2> HIDE DEF m, l, p, q, E, W, n
  <2>8. Kept(m)
    <3>1. CASE HasPrefix(l, 2, "connected")
      <4>1. q = [p EXCEPT !.connected = TRUE]
        BY <2>2, <3>1 DEF ConnectLine
      <4>2. m \notin E /\ m \notin W
        BY <2>4, <3>1 DEF HasPrefix
      <4> QED BY <2>3, <2>6, <2>7, <3>1, <4>1, <4>2 DEF p, q
    <3>2. CASE HasPrefix(l, 2, "warning")
      <4>1. q = [p EXCEPT !.last_warning = ChopN(l, 14)]
        BY <2>2, <3>2 DEF ConnectLine, HasPrefix
      <4>2. m \notin E /\ m \in W /\ ~HasPrefix(l, 2, "connected")
        BY <2>4, <3>2 DEF HasPrefix
      <4> QED BY <2>3, <2>5, <2>6, <2>7, <4>1, <4>2 DEF p, q, l, MessageAt
    <3>3. CASE HasPrefix(l, 2, "error")
      <4>1. q = [p EXCEPT !.last_error = ChopN(l, 12)]
        BY <2>2, <3>3 DEF ConnectLine, HasPrefix
      <4>2. m \in E /\ m \notin W /\ ~HasPrefix(l, 2, "connected")
        BY <2>4, <3>3 DEF HasPrefix
      <4> QED BY <2>3, <2>5, <2>6, <2>7, <4>1, <4>2 DEF p, q, l, MessageAt
    <3>4. CASE ~\E mark \in {"connected", "warning", "error"} : HasPrefix(l, 2, mark)
      <4>1. q = p
        BY <2>2, <3>4 DEF ConnectLine
      <4> QED BY <2>3, <2>4, <2>6, <2>7, <3>4, <4>1 DEF p, q
    <3> QED BY <3>1, <3>2, <3>3, <3>4
  <2> QED BY <2>5, <2>8 DEF m
<1>5. \A k \in 0..n : k \in G
  <2> HIDE DEF G
  <2> QED BY <1>2, <1>3, <1>4, Counting
<1> QED BY <1>1, <1>2, <1>5

(* What a line is after g_strstrip. *)
LEMMA StrippedMarks ==
  ASSUME NEW l \in Line
  PROVE  /\ Stripped(l).indent = 0 /\ Stripped(l).trail = 0 /\ Stripped(l).body = l.body
         /\ Stripped(l).mark = IF l.body = 0 /\ l.mark \in {"warning", "error"} THEN "other" ELSE l.mark
BY DEF Line, Stripped

StrippedErrors(lines)   == {i \in 1..Len(lines) : lines[i].mark = "error" /\ lines[i].body > 0}
StrippedWarnings(lines) == {i \in 1..Len(lines) : lines[i].mark = "warning" /\ lines[i].body > 0}

StrippedAt(lines, i, n) == IF i = 0 THEN NoText ELSE ChopN(Stripped(lines[i]), n)

(* What it keeps of the lines of `disconnect'. *)
LEMMA DisconnectKeepsLatest ==
  ASSUME NEW lines \in Seq(Line), NEW connected \in BOOLEAN
  PROVE  LET priv == FoldLeft(DisconnectLine, [Silent EXCEPT !.connected = connected], lines)
             n    == Len(lines)
         IN /\ priv.connected <=> connected /\ ~\E i \in 1..n : lines[i].mark = "disconnected"
            /\ priv.last_error = StrippedAt(lines, Latest(StrippedErrors(lines), n), 12)
            /\ priv.last_warning = StrippedAt(lines, Latest(StrippedWarnings(lines), n), 14)
<1> DEFINE n == Len(lines)
           E == StrippedErrors(lines)
           W == StrippedWarnings(lines)
<1>2. n \in Nat /\ E \in SUBSET (1..n) /\ W \in SUBSET (1..n)
  BY DEF StrippedErrors, StrippedWarnings
<1>1. PICK f : /\ f[0] = [Silent EXCEPT !.connected = connected]
               /\ \A k \in 1..n : f[k] = DisconnectLine(f[k - 1], lines[k])
               /\ f[n] = FoldLeft(DisconnectLine, [Silent EXCEPT !.connected = connected], lines)
  BY DisconnectLoop
<1> DEFINE Kept(k) == /\ f[k] \in [connected : BOOLEAN, last_warning : {f[k].last_warning}, last_error : {f[k].last_error}]
                      /\ f[k].connected <=> connected /\ ~\E i \in 1..k : lines[i].mark = "disconnected"
                      /\ f[k].last_error = StrippedAt(lines, Latest(E, k), 12)
                      /\ f[k].last_warning = StrippedAt(lines, Latest(W, k), 14)
           G == {k \in 0..n : Kept(k)}
<1>3. 0 \in G
  <2>1. StrippedAt(lines, 0, 12) = NoText /\ StrippedAt(lines, 0, 14) = NoText
    BY DEF StrippedAt
  <2>2. 1..0 = {}
    OBVIOUS
  <2> HIDE DEF E, W
  <2>3. Kept(0)
    BY <1>1, <2>1, <2>2, LatestMoves DEF Silent
  <2> QED BY <1>2, <2>3
<1>4. ASSUME NEW k \in 0..(n - 1), k \in G PROVE k + 1 \in G
  <2> DEFINE m == k + 1
             l == Stripped(lines[m])
             p == f[k]
             q == f[m]
  <2>1. m \in 1..n /\ m - 1 = k
    BY <1>2
  <2>0. lines[m] \in Line
    BY <2>1
  <2>2. q = DisconnectLine(p, lines[m])
    BY <1>1, <2>1
  <2>5. m # 0 /\ m \in Nat \ {0} /\ m \in 0..n
    BY <1>2
  <2>3. /\ Latest(E, m) = IF m \in E THEN m ELSE Latest(E, k)
        /\ Latest(W, m) = IF m \in W THEN m ELSE Latest(W, k)
    <3> HIDE DEF E, W, n, m
    <3> QED BY <2>1, <2>5, LatestMoves
  <2>4. /\ m \in E <=> HasPrefix(l, 0, "error")
        /\ m \in W <=> HasPrefix(l, 0, "warning")
    <3>1. lines[m].body \in Nat
      BY <2>0, LinesAssumption DEF Line
    <3>2. /\ m \in E <=> lines[m].mark = "error" /\ lines[m].body > 0
          /\ m \in W <=> lines[m].mark = "warning" /\ lines[m].body > 0
      BY <2>1 DEF StrippedErrors, StrippedWarnings
    <3>3. /\ l.indent = 0
          /\ l.mark = IF lines[m].body = 0 /\ lines[m].mark \in {"warning", "error"} THEN "other" ELSE lines[m].mark
      BY <2>0, StrippedMarks
    <3> HIDE DEF l, m, E, W
    <3> QED BY <3>1, <3>2, <3>3 DEF HasPrefix
  <2>6. (\E i \in 1..m : lines[i].mark = "disconnected") <=> \/ \E i \in 1..k : lines[i].mark = "disconnected"
                                                         \/ HasPrefix(l, 0, "disconnected")
    BY <1>2, <2>0, StrippedMarks DEF HasPrefix
  <2>7. Kept(k)
    BY <1>4
  <2> HIDE DEF m, l, p, q, E, W, n
  <2>8. Kept(m)
    <3>1. CASE HasPrefix(l, 0, "disconnected")
      <4>1. q = IF p.connected THEN [p EXCEPT !.connected = FALSE] ELSE p
        BY <2>2, <3>1 DEF DisconnectLine, HasPrefix, l
      <4>2. m \notin E /\ m \notin W
        BY <2>4, <3>1 DEF HasPrefix
      <4> QED BY <2>3, <2>6, <2>7, <3>1, <4>1, <4>2 DEF p, q
    <3>2. CASE HasPrefix(l, 0, "warning")
      <4>1. q = [p EXCEPT !.last_warning = ChopN(l, 14)]
        BY <2>2, <3>2 DEF DisconnectLine, HasPrefix, l
      <4>2. m \notin E /\ m \in W /\ ~HasPrefix(l, 0, "disconnected")
        BY <2>4, <3>2 DEF HasPrefix
      <4> QED BY <2>3, <2>5, <2>6, <2>7, <4>1, <4>2 DEF p, q, l, StrippedAt
    <3>3. CASE HasPrefix(l, 0, "error")
      <4>1. q = [p EXCEPT !.last_error = ChopN(l, 12)]
        BY <2>2, <3>3 DEF DisconnectLine, HasPrefix, l
      <4>2. m \in E /\ m \notin W /\ ~HasPrefix(l, 0, "disconnected")
        BY <2>4, <3>3 DEF HasPrefix
      <4> QED BY <2>3, <2>5, <2>6, <2>7, <4>1, <4>2 DEF p, q, l, StrippedAt
    <3>4. CASE ~\E mark \in {"disconnected", "warning", "error"} : HasPrefix(l, 0, mark)
      <4>1. q = p
        BY <2>2, <3>4 DEF DisconnectLine, l
      <4> QED BY <2>3, <2>4, <2>6, <2>7, <3>4, <4>1 DEF p, q
    <3> QED BY <3>1, <3>2, <3>3, <3>4
  <2> QED BY <2>5, <2>8 DEF m
<1>5. \A k \in 0..n : k \in G
  <2> HIDE DEF G
  <2> QED BY <1>2, <1>3, <1>4, Counting
<1> QED BY <1>1, <1>2, <1>5

-----------------------------------------------------------------------------
GatewayStep(ctx, store, line) == AddGateway(store, line)
Gateways == INSTANCE FoldFacts WITH Op <- GatewayStep

(* The latest position is one of those it is the latest of. *)
LEMMA LatestIsOne ==
  ASSUME NEW D, NEW n \in Nat
  PROVE  Latest(D, n) = 0 \/ Latest(D, n) \in D
<1> DEFINE G == {k \in 0..n : Latest(D, k) = 0 \/ Latest(D, k) \in D}
<1>1. 0 \in G
  BY LatestMoves
<1>2. ASSUME NEW k \in 0..(n - 1), k \in G PROVE k + 1 \in G
  <2>1. k + 1 \in Nat \ {0} /\ k + 1 \in 0..n /\ (k + 1) - 1 = k
    OBVIOUS
  <2>2. Latest(D, k + 1) = IF k + 1 \in D THEN k + 1 ELSE Latest(D, k)
    BY <2>1, LatestMoves
  <2> QED BY <1>2, <2>1, <2>2
<1>3. \A k \in 0..n : k \in G
  <2> HIDE DEF G
  <2> QED BY <1>1, <1>2, Counting
<1> QED BY <1>3

(* The last line of some kind is the latest of their positions. *)
LEMMA LatestIsLast ==
  ASSUME NEW n \in Nat, NEW D \in SUBSET (1..n)
  PROVE  Latest(D, n) = IF D # {} THEN Max(D) ELSE 0
<1>1. D \cap 1..n = D
  OBVIOUS
<1> QED BY <1>1 DEF Latest

(* How long a line with a message is, and where the message begins. *)
LEMMA LengthOfMessages ==
  ASSUME NEW l \in Line, NEW m \in {"warning", "error", "host"}, l.mark = m
  PROVE  /\ l.body \in Nat /\ l.trail \in Nat /\ l.indent \in Nat
         /\ m = "error"   => MessageStart(l) = l.indent + 10 /\ Length(l) = l.indent + 10 + l.body + l.trail
         /\ m = "warning" => MessageStart(l) = l.indent + 12 /\ Length(l) = l.indent + 12 + l.body + l.trail
         /\ m = "host"    => MessageStart(l) = l.indent + 2  /\ Length(l) = l.indent + 2 + l.body + l.trail
<1>1. MarkLength["error"] = 10 /\ MarkLength["warning"] = 12 /\ MarkLength["host"] = 2
  BY DEF MarkLength
<1>2. l.body \in Nat /\ l.trail \in Nat /\ l.indent \in Nat
  <2>1. l.body \in Bodies /\ l.trail \in 0..1 /\ l.indent \in Indents
    BY DEF Line
  <2>2. Bodies \subseteq Nat /\ Indents \subseteq Nat
    BY LinesAssumption
  <2>3. l.body \in Nat
    BY <2>1, <2>2
  <2>4. l.trail \in Nat
    BY <2>1
  <2>5. l.indent \in Nat
    BY <2>1, <2>2
  <2> QED BY <2>3, <2>4, <2>5
<1> QED BY <1>1, <1>2 DEF Length, MessageStart

(* With a body, g_strstrip takes the blanks alone. *)
LEMMA StrippedLine ==
  ASSUME NEW l \in Line, l.body > 0
  PROVE  Stripped(l) = [l EXCEPT !.indent = 0, !.trail = 0]
<1>1. l.body # 0
  BY LinesAssumption DEF Line
<1>2. Stripped(l) = [l EXCEPT !.indent = 0, !.trail = 0, !.mark = @]
  BY <1>1 DEF Stripped
<1> QED BY <1>2 DEF Line

(* No message is an empty one.                                             *)
LEMMA NoTextIsEmpty == Empty(NoText)
BY DEF Empty, NoText, Length, MarkLength

(* After `connect' the message is that of the last error or warning, whole. *)
THEOREM ConnectShowsMessage ==
  ASSUME NEW lines \in Seq(Line)
  PROVE  LET e == LastOf(lines, LAMBDA l : HasPrefix(l, 2, "error"))
             w == LastOf(lines, LAMBDA l : HasPrefix(l, 2, "warning"))
             shown == IF e # 0 /\ lines[e].body + lines[e].trail > 0 THEN e ELSE w
             r == ConnectFeedback(lines)
         IN IF \/ shown = 0
               \/ \E i \in DOMAIN lines : HasPrefix(lines[i], 2, "connected")
            THEN Empty(r)
            ELSE r = [line |-> lines[shown], gone |-> MessageStart(lines[shown])]
<1> DEFINE n == Len(lines)
           e == Latest(Errors(lines), n)
           w == Latest(Warnings(lines), n)
           shown == IF e # 0 /\ lines[e].body + lines[e].trail > 0 THEN e ELSE w
           priv == FoldLeft(ConnectLine, Silent, lines)
           r == ConnectFeedback(lines)
<1>1. n \in Nat /\ DOMAIN lines = 1..n /\ Errors(lines) \in SUBSET (1..n) /\ Warnings(lines) \in SUBSET (1..n)
  BY DEF Errors, Warnings
<1>2. /\ LastOf(lines, LAMBDA l : HasPrefix(l, 2, "error")) = e
      /\ LastOf(lines, LAMBDA l : HasPrefix(l, 2, "warning")) = w
  <2>1. LastOf(lines, LAMBDA l : HasPrefix(l, 2, "error")) = IF Errors(lines) # {} THEN Max(Errors(lines)) ELSE 0
    BY DEF LastOf, SelectLastInSeq, Errors
  <2>2. LastOf(lines, LAMBDA l : HasPrefix(l, 2, "warning")) = IF Warnings(lines) # {} THEN Max(Warnings(lines)) ELSE 0
    BY DEF LastOf, SelectLastInSeq, Warnings
  <2> HIDE DEF n
  <2> QED BY <1>1, <2>1, <2>2, LatestIsLast
<1>3. (e = 0 \/ e \in Errors(lines)) /\ (w = 0 \/ w \in Warnings(lines))
  BY <1>1, LatestIsOne
<1>4. /\ priv.connected <=> \E i \in 1..n : HasPrefix(lines[i], 2, "connected")
      /\ priv.last_error = MessageAt(lines, e, 12) /\ priv.last_warning = MessageAt(lines, w, 14)
  BY ConnectKeepsLatest
<1>5. r = IF priv.connected THEN NoText ELSE Notification(priv)
  BY DEF ConnectFeedback
<1> HIDE DEF e, w, priv, r, n
<1>6. ASSUME e # 0
      PROVE  /\ lines[e].body \in Nat /\ lines[e].trail \in Nat
             /\ MessageAt(lines, e, 12) = [line |-> lines[e], gone |-> MessageStart(lines[e])]
             /\ Empty(MessageAt(lines, e, 12)) <=> ~(lines[e].body + lines[e].trail > 0)
  <2>1. lines[e] \in Line /\ lines[e].indent = 2 /\ lines[e].mark = "error"
    BY <1>1, <1>3, <1>6 DEF Errors, HasPrefix
  <2>2. /\ lines[e].body \in Nat /\ lines[e].trail \in Nat
        /\ MessageStart(lines[e]) = 12 /\ Length(lines[e]) = 12 + lines[e].body + lines[e].trail
    BY <2>1, LengthOfMessages
  <2> QED BY <1>6, <2>2 DEF MessageAt, ChopN, Empty
<1>7. ASSUME w # 0
      PROVE  MessageAt(lines, w, 14) = [line |-> lines[w], gone |-> MessageStart(lines[w])]
  <2>1. lines[w] \in Line /\ lines[w].indent = 2 /\ lines[w].mark = "warning"
    BY <1>1, <1>3, <1>7 DEF Warnings, HasPrefix
  <2>2. /\ lines[w].body \in Nat /\ lines[w].trail \in Nat
        /\ MessageStart(lines[w]) = 14 /\ Length(lines[w]) = 14 + lines[w].body + lines[w].trail
    BY <2>1, LengthOfMessages
  <2> QED BY <1>7, <2>2 DEF MessageAt, ChopN
<1>8. MessageAt(lines, 0, 12) = NoText /\ MessageAt(lines, 0, 14) = NoText
  BY DEF MessageAt
<1>9. IF shown = 0 \/ priv.connected THEN Empty(r)
      ELSE r = [line |-> lines[shown], gone |-> MessageStart(lines[shown])]
  BY <1>4, <1>5, <1>6, <1>7, <1>8, NoTextIsEmpty DEF Notification
<1> HIDE DEF shown
<1>10. IF shown = 0 \/ \E i \in DOMAIN lines : HasPrefix(lines[i], 2, "connected") THEN Empty(r)
       ELSE r = [line |-> lines[shown], gone |-> MessageStart(lines[shown])]
  BY <1>1, <1>4, <1>9
<1> QED BY <1>2, <1>10 DEF shown, r

(* After `disconnect' two characters of the message are gone. *)
THEOREM DisconnectShowsMessage ==
  ASSUME NEW lines \in Seq(Line), NEW connected \in BOOLEAN
  PROVE  LET e == LastOf(lines, LAMBDA l : l.mark = "error" /\ l.body > 0)
             w == LastOf(lines, LAMBDA l : l.mark = "warning" /\ l.body > 0)
             shown == IF e # 0 /\ lines[e].body # 2 THEN e ELSE w
             whole == [lines[shown] EXCEPT !.indent = 0, !.trail = 0]
             r == DisconnectFeedback(connected, lines)
         IN IF \/ ~connected \/ shown = 0
               \/ \E i \in DOMAIN lines : lines[i].mark = "disconnected"
            THEN Empty(r)
            ELSE r = [line |-> whole, gone |-> IF whole.body = 1 THEN 0 ELSE MessageStart(whole) + 2]
<1> DEFINE n == Len(lines)
           e == Latest(StrippedErrors(lines), n)
           w == Latest(StrippedWarnings(lines), n)
           shown == IF e # 0 /\ lines[e].body # 2 THEN e ELSE w
           Whole(i) == [lines[i] EXCEPT !.indent = 0, !.trail = 0]
           Left(i) == [line |-> Whole(i), gone |-> IF Whole(i).body = 1 THEN 0 ELSE MessageStart(Whole(i)) + 2]
           priv == FoldLeft(DisconnectLine, [Silent EXCEPT !.connected = connected], lines)
           r == DisconnectFeedback(connected, lines)
<1>1. /\ n \in Nat /\ DOMAIN lines = 1..n
      /\ StrippedErrors(lines) \in SUBSET (1..n) /\ StrippedWarnings(lines) \in SUBSET (1..n)
  BY DEF StrippedErrors, StrippedWarnings
<1>2. /\ LastOf(lines, LAMBDA l : l.mark = "error" /\ l.body > 0) = e
      /\ LastOf(lines, LAMBDA l : l.mark = "warning" /\ l.body > 0) = w
  <2>1. LastOf(lines, LAMBDA l : l.mark = "error" /\ l.body > 0)
          = IF StrippedErrors(lines) # {} THEN Max(StrippedErrors(lines)) ELSE 0
    BY DEF LastOf, SelectLastInSeq, StrippedErrors
  <2>2. LastOf(lines, LAMBDA l : l.mark = "warning" /\ l.body > 0)
          = IF StrippedWarnings(lines) # {} THEN Max(StrippedWarnings(lines)) ELSE 0
    BY DEF LastOf, SelectLastInSeq, StrippedWarnings
  <2> HIDE DEF n
  <2> QED BY <1>1, <2>1, <2>2, LatestIsLast
<1>3. (e = 0 \/ e \in StrippedErrors(lines)) /\ (w = 0 \/ w \in StrippedWarnings(lines))
  BY <1>1, LatestIsOne
<1>4. /\ priv.connected <=> connected /\ ~\E i \in 1..n : lines[i].mark = "disconnected"
      /\ priv.last_error = StrippedAt(lines, e, 12) /\ priv.last_warning = StrippedAt(lines, w, 14)
  BY DisconnectKeepsLatest
<1>5. r = IF priv.connected THEN Notification(priv) ELSE NoText
  BY DEF DisconnectFeedback
<1> HIDE DEF e, w, priv, r, n
<1>6. ASSUME e # 0
      PROVE  /\ StrippedAt(lines, e, 12) = Left(e)
             /\ Empty(StrippedAt(lines, e, 12)) <=> lines[e].body = 2
  <2> DEFINE l == lines[e]
             s == Stripped(l)
  <2>0. e \in 1..n /\ l.mark = "error" /\ l.body > 0
    BY <1>1, <1>3, <1>6 DEF StrippedErrors
  <2>1. l \in Line /\ l.mark = "error" /\ l.body > 0 /\ l.body \in Nat
    <3>1. l \in Line
      BY <1>1, <2>0
    <3> QED BY <2>0, <3>1, LinesAssumption DEF Line
  <2>2. s = Whole(e) /\ s.indent = 0 /\ s.mark = "error" /\ s.body = l.body /\ s.trail = 0
    <3> HIDE DEF l
    <3>1. s = [l EXCEPT !.indent = 0, !.trail = 0]
      BY <2>1, StrippedLine
    <3>2. s.mark = IF l.body = 0 /\ l.mark \in {"warning", "error"} THEN "other" ELSE l.mark
      BY <2>1, StrippedMarks
    <3> QED BY <2>1, <3>1, <3>2, StrippedMarks DEF l
  <2>3. MessageStart(s) = 10 /\ Length(s) = 10 + l.body
    BY <2>1, <2>2 DEF MessageStart, Length, MarkLength
  <2>4. StrippedAt(lines, e, 12) = ChopN(s, 12)
    BY <1>6 DEF StrippedAt
  <2> HIDE DEF l, s, Whole
  <2>5. ChopN(s, 12) = [line |-> s, gone |-> IF l.body = 1 THEN 0 ELSE 12]
    BY <2>1, <2>3 DEF ChopN
  <2>6. Empty(ChopN(s, 12)) <=> l.body = 2
    BY <2>1, <2>3, <2>5 DEF Empty
  <2> QED BY <2>2, <2>3, <2>4, <2>5, <2>6 DEF l
<1>7. ASSUME w # 0
      PROVE  StrippedAt(lines, w, 14) = Left(w)
  <2> DEFINE l == lines[w]
             s == Stripped(l)
  <2>0. w \in 1..n /\ l.mark = "warning" /\ l.body > 0
    BY <1>1, <1>3, <1>7 DEF StrippedWarnings
  <2>1. l \in Line /\ l.mark = "warning" /\ l.body > 0 /\ l.body \in Nat
    <3>1. l \in Line
      BY <1>1, <2>0
    <3> QED BY <2>0, <3>1, LinesAssumption DEF Line
  <2>2. s = Whole(w) /\ s.indent = 0 /\ s.mark = "warning" /\ s.body = l.body /\ s.trail = 0
    <3> HIDE DEF l
    <3>1. s = [l EXCEPT !.indent = 0, !.trail = 0]
      BY <2>1, StrippedLine
    <3>2. s.mark = IF l.body = 0 /\ l.mark \in {"warning", "error"} THEN "other" ELSE l.mark
      BY <2>1, StrippedMarks
    <3> QED BY <2>1, <3>1, <3>2, StrippedMarks DEF l
  <2>3. MessageStart(s) = 12 /\ Length(s) = 12 + l.body
    BY <2>1, <2>2 DEF MessageStart, Length, MarkLength
  <2>4. StrippedAt(lines, w, 14) = ChopN(s, 14)
    BY <1>7 DEF StrippedAt
  <2> HIDE DEF l, s, Whole
  <2>5. ChopN(s, 14) = [line |-> s, gone |-> IF l.body = 1 THEN 0 ELSE 14]
    BY <2>1, <2>3 DEF ChopN
  <2> QED BY <2>2, <2>3, <2>4, <2>5 DEF l
<1>8. StrippedAt(lines, 0, 12) = NoText /\ StrippedAt(lines, 0, 14) = NoText
  BY DEF StrippedAt
<1> HIDE DEF Left
<1>9. IF shown = 0 \/ ~priv.connected THEN Empty(r) ELSE r = Left(shown)
  BY <1>4, <1>5, <1>6, <1>7, <1>8, NoTextIsEmpty DEF Notification
<1> HIDE DEF shown
<1>10. IF ~connected \/ shown = 0 \/ \E i \in DOMAIN lines : lines[i].mark = "disconnected" THEN Empty(r)
       ELSE r = Left(shown)
  BY <1>1, <1>4, <1>9
<1> QED BY <1>2, <1>10 DEF shown, r, Left

(* A line of the host list that is indented by four gives its host. *)
THEOREM HostsAreListed ==
  ASSUME NEW lines \in Seq(Line), NEW i \in DOMAIN lines, lines[i].mark = "host", lines[i].indent = 4
  PROVE  [line |-> lines[i], gone |-> MessageStart(lines[i])] \in ToSet(GatewaysOf(lines))
<1> DEFINE n == Len(lines)
           host == [line |-> lines[i], gone |-> MessageStart(lines[i])]
           T == [line : Line, gone : Nat]
<1>1. n \in Nat /\ i \in 1..n /\ lines[i] \in Line
  OBVIOUS
<1>2. PICK f : /\ f[0] = <<>> /\ \A k \in 1..n : f[k] = AddGateway(f[k - 1], lines[k])
               /\ f[n] = GatewaysOf(lines)
  <2>1. Gateways!Fold(0, <<>>, lines) = GatewaysOf(lines)
    BY DEF Gateways!Fold, FoldLeft, MapThenFoldSet, Gateways!MapThenFoldSet, Max, Gateways!Largest, GatewayStep, GatewaysOf
  <2>2. Gateways!IsTrace(Gateways!Trace(0, <<>>, lines), 0, <<>>, lines)
    BY Gateways!FoldTrace, Smallest
  <2> QED BY <2>1, <2>2 DEF Gateways!IsTrace, GatewayStep
<1>3. ChopN(lines[i], 6) = host /\ HasGtSign(lines[i])
  <2>1. /\ lines[i].body \in Nat /\ lines[i].trail \in Nat /\ MessageStart(lines[i]) = 6
        /\ Length(lines[i]) = 6 + lines[i].body + lines[i].trail
    BY <1>1, LengthOfMessages
  <2> QED BY <2>1 DEF ChopN, HasGtSign
<1> DEFINE G == {k \in 0..n : f[k] \in Seq(T) /\ (i <= k => host \in ToSet(f[k]))}
<1>4. 0 \in G
  <2>1. f[0] \in Seq(T) /\ ~(i <= 0) /\ 0 \in 0..n
    <3> HIDE DEF T, n
    <3> QED BY <1>1, <1>2
  <2> QED BY <2>1
<1>5. ASSUME NEW k \in 0..(n - 1), k \in G PROVE k + 1 \in G
  <2>0. k \in Nat /\ k + 1 \in 0..n /\ f[k] \in Seq(T) /\ (i <= k => host \in ToSet(f[k]))
    BY <1>1, <1>5
  <2>1. k + 1 \in 1..n /\ (k + 1) - 1 = k
    BY <1>1
  <2>2. f[k + 1] = AddGateway(f[k], lines[k + 1])
    BY <1>2, <2>1
  <2>3. ChopN(lines[k + 1], 6) \in T
    BY <2>1 DEF ChopN
  <2>4. ASSUME NEW s \in Seq(T), NEW x \in T PROVE Append(s, x) \in Seq(T) /\ ToSet(Append(s, x)) = ToSet(s) \union {x}
    <3> HIDE DEF T
    <3>1. Append(s, x) \in Seq(T) /\ DOMAIN Append(s, x) = 1..(Len(s) + 1) /\ DOMAIN s = 1..Len(s)
      OBVIOUS
    <3>2. \A j \in 1..Len(s) : Append(s, x)[j] = s[j]
      OBVIOUS
    <3>3. Append(s, x)[Len(s) + 1] = x
      OBVIOUS
    <3> QED BY <3>1, <3>2, <3>3 DEF ToSet
  <2> HIDE DEF T, host
  <2>5. f[k + 1] \in Seq(T) /\ (i <= k + 1 => host \in ToSet(f[k + 1]))
    <3>1. i <= k + 1 => i <= k \/ i = k + 1
      BY <1>1, <2>0
    <3>2. CASE HasGtSign(lines[k + 1])
      <4>1. f[k + 1] = Append(f[k], ChopN(lines[k + 1], 6))
        BY <2>2, <3>2 DEF AddGateway
      <4>2. f[k + 1] \in Seq(T) /\ ToSet(f[k + 1]) = ToSet(f[k]) \union {ChopN(lines[k + 1], 6)}
        BY <2>0, <2>3, <2>4, <4>1
      <4> QED BY <1>3, <2>0, <3>1, <4>2
    <3>3. CASE ~HasGtSign(lines[k + 1])
      <4>1. f[k + 1] = f[k] /\ i # k + 1
        BY <1>3, <2>2, <3>3 DEF AddGateway
      <4> QED BY <2>0, <3>1, <4>1
    <3> QED BY <3>2, <3>3
  <2> QED BY <2>0, <2>5
<1>6. \A k \in 0..n : k \in G
  <2> HIDE DEF G, n
  <2> QED BY <1>1, <1>4, <1>5, Counting
<1> QED BY <1>1, <1>2, <1>6

(* What the user sees is a message: the service's feedback in every state. *)
THEOREM FeedbackStaysMessage == Spec => []FeedbackIsMessage
<1>1. Init => FeedbackIsMessage
  BY DEF Init, Idle, FeedbackIsMessage
<1>2. ASSUME FeedbackIsMessage, [Next]_vars PROVE FeedbackIsMessage'
  <2>1. CASE UNCHANGED vars
    BY <1>2, <2>1, ZenonT(60) DEF vars, FeedbackIsMessage, LastOf, SelectLastInSeq
  <2>2. CASE call' = Idle
    BY <2>2 DEF Idle, FeedbackIsMessage
  <2>3. CASE call' \in Inputs /\ IsAnswer(call', result')
    <3>1. CASE call'.op = "connect"
      <4>1. call'.lines \in Seq(Line) /\ result' = ConnectFeedback(call'.lines)
        BY <2>3, <3>1, InputsAssumption DEF IsAnswer
      <4> QED BY <3>1, <4>1, ConnectShowsMessage, Zenon DEF FeedbackIsMessage, LastOf, SelectLastInSeq
    <3>2. CASE call'.op = "disconnect"
      <4>1. /\ call'.lines \in Seq(Line) /\ call'.connected \in BOOLEAN
            /\ result' = DisconnectFeedback(call'.connected, call'.lines)
        BY <2>3, <3>2, InputsAssumption DEF IsAnswer
      <4> QED BY <3>2, <4>1, DisconnectShowsMessage, Zenon DEF FeedbackIsMessage, LastOf, SelectLastInSeq
    <3>3. CASE call'.op = "hosts"
      <4>1. call'.lines \in Seq(Line) /\ result' = GatewaysOf(call'.lines)
        BY <2>3, <3>3, InputsAssumption DEF IsAnswer
      <4> QED BY <3>3, <4>1, HostsAreListed DEF FeedbackIsMessage
    <3>4. CASE call'.op \notin {"connect", "disconnect", "hosts"}
      BY <3>4 DEF FeedbackIsMessage
    <3> QED BY <3>1, <3>2, <3>3, <3>4
  <2> QED BY <1>2, <2>1, <2>2, <2>3, CallsAreAnswered
<1> QED BY <1>1, <1>2, PTL DEF Spec

-----------------------------------------------------------------------------
SumStep(ctx, n, c)   == 10 * n + c - 48
BoundStep(ctx, n, c) == IF n > MaxInt64 + 1 THEN n ELSE 10 * n + c - 48
Sums   == INSTANCE FoldFacts WITH Op <- SumStep
Bounds == INSTANCE FoldFacts WITH Op <- BoundStep

(* A part of a text is its characters from one place to another. *)
LEMMA Parts ==
  ASSUME NEW S, NEW s \in Seq(S), NEW p \in Nat \ {0}, NEW q \in 0..Len(s)
  PROVE  /\ SubSeq(s, p, q) \in Seq(S)
         /\ Len(SubSeq(s, p, q)) = IF p <= q THEN q - p + 1 ELSE 0
         /\ \A i \in 1..(q - p + 1) : SubSeq(s, p, q)[i] = s[p + i - 1]
<1>1. p \in Int /\ q \in Int /\ \A i \in p..q : s[i] \in S
  BY ElementOfSeq
<1> QED BY <1>1, SubSeqProperties

(* How many characters of C a text begins with: there is such a number,    *)
(* and only one.                                                           *)
LEMMA SpanCounts ==
  ASSUME NEW S, NEW s \in Seq(S), NEW C
  PROVE  /\ Span(s, C) \in 0..Len(s)
         /\ \A i \in 1..Span(s, C) : s[i] \in C
         /\ Span(s, C) < Len(s) => s[Span(s, C) + 1] \notin C
<1> DEFINE T == {k \in 0..Len(s) : k = Len(s) \/ s[k + 1] \notin C}
<1>1. Len(s) \in Nat /\ Len(s) \in T /\ T \in SUBSET Nat
  OBVIOUS
<1>2. PICK n \in T : \A m \in T : n <= m
  <2> HIDE DEF T
  <2> QED BY <1>1, Smallest
<1>3. n \in 0..Len(s) /\ (n < Len(s) => s[n + 1] \notin C)
  BY <1>1, <1>2
<1>4. ASSUME NEW i \in 1..n PROVE s[i] \in C
  <2>1. i - 1 \in 0..Len(s) /\ ~(n <= i - 1) /\ i - 1 # Len(s) /\ (i - 1) + 1 = i
    BY <1>1, <1>3
  <2>2. i - 1 \notin T
    BY <1>2, <2>1
  <2> QED BY <2>1, <2>2
<1> QED BY <1>3, <1>4 DEF Span

(* The number of characters that Span gives is the only one of its kind.   *)
LEMMA SpanIsOne ==
  ASSUME NEW S, NEW s \in Seq(S), NEW C, NEW n \in 0..Len(s),
         \A i \in 1..n : s[i] \in C, n < Len(s) => s[n + 1] \notin C
  PROVE  Span(s, C) = n
<1> DEFINE m == Span(s, C)
<1>1. m \in 0..Len(s) /\ (\A i \in 1..m : s[i] \in C) /\ (m < Len(s) => s[m + 1] \notin C)
  BY SpanCounts
<1>2. Len(s) \in Nat
  OBVIOUS
<1> HIDE DEF m
<1>3. ~(m < n)
  <2> SUFFICES ASSUME m < n PROVE FALSE
    OBVIOUS
  <2>1. m + 1 \in 1..n /\ m < Len(s)
    BY <1>1, <1>2
  <2> QED BY <1>1, <2>1
<1>4. ~(n < m)
  <2> SUFFICES ASSUME n < m PROVE FALSE
    OBVIOUS
  <2>1. n + 1 \in 1..m /\ n < Len(s)
    BY <1>1, <1>2
  <2> QED BY <1>1, <2>1
<1> QED BY <1>1, <1>3, <1>4 DEF m

(* Only what is a character of C throughout is skipped whole. *)
LEMMA SkippedWhole ==
  ASSUME NEW S, NEW s \in Seq(S), NEW C
  PROVE  Skip(s, C) = <<>> <=> \A i \in 1..Len(s) : s[i] \in C
<1> DEFINE n == Span(s, C)
<1>1. n \in 0..Len(s) /\ (\A i \in 1..n : s[i] \in C) /\ (n < Len(s) => s[n + 1] \notin C)
  BY SpanCounts
<1>2. Len(s) \in Nat /\ n + 1 \in Nat \ {0}
  BY <1>1
<1> HIDE DEF n
<1>3. /\ SubSeq(s, n + 1, Len(s)) \in Seq(S)
      /\ Len(SubSeq(s, n + 1, Len(s))) = IF n + 1 <= Len(s) THEN Len(s) - (n + 1) + 1 ELSE 0
  BY <1>2, Parts
<1>4. SubSeq(s, n + 1, Len(s)) = <<>> <=> n = Len(s)
  <2>1. \A t \in Seq(S) : t = <<>> <=> Len(t) = 0
    BY EmptySeq
  <2>2. SubSeq(s, n + 1, Len(s)) = <<>> <=> Len(SubSeq(s, n + 1, Len(s))) = 0
    BY <1>3, <2>1
  <2>3. (IF n + 1 <= Len(s) THEN Len(s) - (n + 1) + 1 ELSE 0) = 0 <=> n = Len(s)
    BY <1>1, <1>2
  <2> QED BY <1>3, <2>2, <2>3
<1> QED BY <1>1, <1>2, <1>4 DEF n, Skip

-----------------------------------------------------------------------------
(* A number that may be too large for the machine is the one that its      *)
(* digits spell as long as that is not too large.                          *)
LEMMA MagnitudeIsNumeral ==
  ASSUME NEW d \in Seq(Digits)
  PROVE  /\ Numeral(d) \in Nat /\ Magnitude(d) \in Nat
         /\ Numeral(d) <= MaxInt64 + 1 => Magnitude(d) = Numeral(d)
         /\ Numeral(d) > MaxInt64 + 1 => Magnitude(d) > MaxInt64 + 1
<1> DEFINE n == Len(d)
           f == Sums!Trace(0, 0, d)
           g == Bounds!Trace(0, 0, d)
           most == MaxInt64 + 1
<1>1. n \in Nat /\ most \in Nat
  BY WidthAssumption
<1>2. f[0] = 0 /\ f[n] = Numeral(d) /\ \A k \in 1..n : f[k] = 10 * f[k - 1] + d[k] - 48
  <2>1. Sums!Fold(0, 0, d) = Numeral(d)
    BY DEF Sums!Fold, FoldLeft, MapThenFoldSet, Sums!MapThenFoldSet, Max, Sums!Largest, SumStep, Numeral
  <2>2. Sums!IsTrace(f, 0, 0, d)
    BY Sums!FoldTrace, Smallest
  <2> QED BY <2>1, <2>2 DEF Sums!IsTrace, SumStep
<1>3. /\ g[0] = 0 /\ g[n] = Magnitude(d)
      /\ \A k \in 1..n : g[k] = IF g[k - 1] > most THEN g[k - 1] ELSE 10 * g[k - 1] + d[k] - 48
  <2>1. Bounds!Fold(0, 0, d) = Magnitude(d)
    BY DEF Bounds!Fold, FoldLeft, MapThenFoldSet, Bounds!MapThenFoldSet, Max, Bounds!Largest, BoundStep, Magnitude
  <2>2. Bounds!IsTrace(g, 0, 0, d)
    BY Bounds!FoldTrace, Smallest
  <2> QED BY <2>1, <2>2 DEF Bounds!IsTrace, BoundStep
<1> DEFINE Kept(k) == /\ f[k] \in Nat /\ g[k] \in Nat
                      /\ f[k] <= most => g[k] = f[k]
                      /\ f[k] > most => g[k] > most
           G == {k \in 0..n : Kept(k)}
<1> HIDE DEF f, g, n, most
<1>4. 0 \in G
  BY <1>1, <1>2, <1>3
<1>5. ASSUME NEW k \in 0..(n - 1), k \in G PROVE k + 1 \in G
  <2>1. k + 1 \in 1..n /\ (k + 1) - 1 = k /\ k + 1 \in 0..n
    BY <1>1
  <2>2. d[k + 1] \in 48..57
    BY <2>1 DEF n, Digits
  <2>3. f[k + 1] = 10 * f[k] + d[k + 1] - 48
    BY <1>2, <2>1
  <2>4. g[k + 1] = IF g[k] > most THEN g[k] ELSE 10 * g[k] + d[k + 1] - 48
    BY <1>3, <2>1
  <2>5. Kept(k)
    BY <1>5
  <2>6. Kept(k + 1)
    <3> DEFINE x == f[k]
               y == g[k]
               c == d[k + 1]
    <3>1. x \in Nat /\ y \in Nat /\ c \in 48..57 /\ (x <= most => y = x) /\ (x > most => y > most)
      BY <2>2, <2>5
    <3>2. f[k + 1] = 10 * x + c - 48 /\ g[k + 1] = IF y > most THEN y ELSE 10 * y + c - 48
      BY <2>3, <2>4
    <3> DEFINE v == f[k + 1]
               w == g[k + 1]
    <3> HIDE DEF x, y, c, v, w
    <3>3. v \in Nat
      BY <3>1, <3>2 DEF v
    <3>4. CASE x <= most
      <4>1. w = v
        BY <1>1, <3>1, <3>2, <3>4 DEF v, w
      <4> QED BY <3>3, <4>1 DEF v, w
    <3>5. CASE x > most
      <4>1. w = y /\ v = 10 * x + c - 48
        BY <3>1, <3>2, <3>5 DEF v, w
      <4>2. v > most
        BY <1>1, <3>1, <3>5, <4>1
      <4> QED BY <1>1, <3>1, <3>3, <3>5, <4>1, <4>2 DEF v, w
    <3> QED BY <1>1, <3>1, <3>4, <3>5
  <2> QED BY <2>1, <2>6
<1>6. \A k \in 0..n : k \in G
  <2> HIDE DEF G
  <2> QED BY <1>1, <1>4, <1>5, Counting
<1> QED BY <1>1, <1>2, <1>3, <1>6 DEF most

-----------------------------------------------------------------------------
(* A numeral in a text: digits from p to q, or a sign and digits, and only *)
(* white space around it.                                                  *)
Signed(c) == c \in {43, 45}
Begin(str, p) == IF Signed(str[p]) THEN p + 1 ELSE p
IsNumeral(str, p, q) ==
  /\ p \in DOMAIN str /\ q \in DOMAIN str /\ Begin(str, p) <= q
  /\ \A k \in Begin(str, p)..q : str[k] \in Digits
  /\ \A k \in DOMAIN str \ (p..q) : str[k] \in Spaces
DigitsOf(str, p, q) == SubSeq(str, Begin(str, p), q)
Value(str, p, q) == (IF str[p] = 45 THEN -1 ELSE 1) * Numeral(DigitsOf(str, p, q))

(* Digits, signs and white space are different characters.                 *)
LEMMA CharacterKinds == Digits \cap Spaces = {} /\ {43, 45} \cap (Digits \union Spaces) = {}
BY DEF Digits, Spaces

(* Where a numeral stands in a text: its sign and its digits.              *)
LEMMA NumeralFacts ==
  ASSUME NEW str \in Text, NEW p, NEW q, IsNumeral(str, p, q)
  PROVE  /\ Len(str) \in Nat /\ p \in 1..Len(str) /\ q \in p..Len(str)
         /\ Begin(str, p) \in p..q /\ Begin(str, p) \in Nat \ {0}
         /\ str[p] \notin Spaces /\ str[q] \notin Spaces /\ str[Begin(str, p)] \in Digits
         /\ SubSeq(str, p, q) \in Text /\ Len(SubSeq(str, p, q)) = q - p + 1
         /\ Unsigned(SubSeq(str, p, q)) = DigitsOf(str, p, q)
         /\ SubSeq(str, p, q)[1] = str[p]
         /\ DigitsOf(str, p, q) \in Seq(Digits) /\ Len(DigitsOf(str, p, q)) = q - Begin(str, p) + 1
         /\ Value(str, p, q) \in Int
<1>1. Len(str) \in Nat /\ DOMAIN str = 1..Len(str) /\ str \in Seq(1..255)
  BY DEF Text
<1>2. p \in 1..Len(str) /\ q \in 1..Len(str) /\ Begin(str, p) <= q /\ Begin(str, p) \in {p, p + 1}
  BY <1>1 DEF IsNumeral, Begin
<1>3. q \in p..Len(str) /\ Begin(str, p) \in p..q /\ Begin(str, p) \in Nat \ {0} /\ q \in 0..Len(str)
  BY <1>1, <1>2
<1>4. str[q] \in Digits /\ str[Begin(str, p)] \in Digits
  BY <1>3 DEF IsNumeral
<1>5. str[p] \notin Spaces
  BY <1>4, CharacterKinds DEF Begin, Signed
<1> DEFINE t == SubSeq(str, p, q)
           d == DigitsOf(str, p, q)
<1>6. t \in Seq(1..255) /\ Len(t) = q - p + 1 /\ \A i \in 1..(q - p + 1) : t[i] = str[p + i - 1]
  <2>1. p \in Nat \ {0} /\ p <= q
    BY <1>1, <1>2, <1>3
  <2>2. t \in Seq(1..255)
    BY <1>1, <1>3, <2>1, Parts, ZenonT(30)
  <2>3. Len(t) = IF p <= q THEN q - p + 1 ELSE 0
    BY <1>1, <1>3, <2>1, Parts
  <2>4. \A i \in 1..(q - p + 1) : t[i] = str[p + i - 1]
    BY <1>1, <1>3, <2>1, Parts
  <2> HIDE DEF t
  <2> QED BY <2>1, <2>2, <2>3, <2>4
<1>7. \A k \in Begin(str, p)..q : str[k] \in Digits
  BY DEF IsNumeral
<1>8. d \in Seq(Digits) /\ Len(d) = q - Begin(str, p) + 1
  BY <1>1, <1>2, <1>3, <1>7, SubSeqProperties DEF DigitsOf
<1>9. t[1] = str[p] /\ t # <<>>
  <2>1. 1 \in 1..(q - p + 1) /\ p + 1 - 1 = p /\ q - p + 1 # 0
    BY <1>1, <1>2, <1>3
  <2> HIDE DEF t
  <2> QED BY <1>6, <2>1
<1>10. Unsigned(t) = d
  <2>1. CASE Signed(str[p])
    <3>1. Unsigned(t) = Tail(t)
      BY <1>9, <2>1 DEF Unsigned, Signed
    <3>2. Head(t) = str[p] /\ Tail(t) = SubSeq(str, p + 1, q)
      BY <1>1, <1>2, <1>3, HeadTailOfSubSeq
    <3> QED BY <2>1, <3>1, <3>2 DEF DigitsOf, Begin
  <2>2. CASE ~Signed(str[p])
    BY <1>9, <2>2 DEF Unsigned, Signed, DigitsOf, Begin
  <2> QED BY <2>1, <2>2
<1>11. Value(str, p, q) \in Int
  BY <1>8, MagnitudeIsNumeral DEF Value
<1> HIDE DEF t, d
<1> QED BY <1>1, <1>2, <1>3, <1>4, <1>5, <1>6, <1>8, <1>9, <1>10, <1>11, CharacterKinds DEF t, d, Text

(* There is one numeral in a text at most. *)
LEMMA NumeralIsOne ==
  ASSUME NEW str \in Text, NEW p, NEW q, IsNumeral(str, p, q), NEW x, NEW y, IsNumeral(str, x, y)
  PROVE  x = p /\ y = q
<1>1. /\ Len(str) \in Nat /\ p \in 1..Len(str) /\ q \in p..Len(str)
      /\ str[p] \notin Spaces /\ str[q] \notin Spaces
  BY NumeralFacts
<1>2. x \in 1..Len(str) /\ y \in x..Len(str) /\ str[x] \notin Spaces /\ str[y] \notin Spaces
  BY NumeralFacts
<1>3. p \in x..y /\ q \in x..y /\ x \in p..q /\ y \in p..q
  <2>1. DOMAIN str = 1..Len(str)
    BY DEF Text
  <2> QED BY <1>1, <1>2, <2>1 DEF IsNumeral
<1> QED BY <1>1, <1>2, <1>3

(* What a text spells is the value of its numeral. *)
LEMMA SpelledIsValue ==
  ASSUME NEW str \in Text
  PROVE  \A v : v \in Spelled(str) <=> \E p, q \in DOMAIN str : IsNumeral(str, p, q) /\ v = Value(str, p, q)
<1>1. str # Null /\ DOMAIN str = 1..Len(str) /\ Len(str) \in Nat /\ str \in Seq(1..255)
  <2>1. str # Null
    BY TextIsNotNull
  <2> QED BY <2>1 DEF Text
<1>2. ASSUME NEW p \in DOMAIN str, NEW q \in DOMAIN str, IsNumeral(str, p, q)
      PROVE  Value(str, p, q) \in Spelled(str)
  <2> DEFINE t == SubSeq(str, p, q)
  <2>1. t \in Trimmed(str)
    <3> DEFINE r == <<p, q>>
    <3>1. r \in (DOMAIN str) \X (DOMAIN str) /\ r[1] = p /\ r[2] = q
      OBVIOUS
    <3>2. \A k \in DOMAIN str \ (p..q) : str[k] \in Spaces
      BY <1>2 DEF IsNumeral
    <3> HIDE DEF r
    <3> QED BY <3>1, <3>2 DEF Trimmed
  <2>2. /\ Unsigned(t) = DigitsOf(str, p, q) /\ t[1] = str[p]
        /\ DigitsOf(str, p, q) \in Seq(Digits) /\ Len(DigitsOf(str, p, q)) = q - Begin(str, p) + 1
        /\ Begin(str, p) \in p..q
    BY <1>2, NumeralFacts, ZenonT(40)
  <2>3. ToSet(DigitsOf(str, p, q)) \subseteq Digits /\ DigitsOf(str, p, q) # <<>>
    <3>1. q - Begin(str, p) + 1 # 0
      BY <1>1, <2>2
    <3> QED BY <2>2, <3>1 DEF ToSet
  <2> HIDE DEF t
  <2> QED BY <1>1, <2>1, <2>2, <2>3 DEF Spelled, Value
<1>3. ASSUME NEW v \in Spelled(str)
      PROVE  \E p, q \in DOMAIN str : IsNumeral(str, p, q) /\ v = Value(str, p, q)
  <2>1. PICK m \in Trimmed(str) : /\ Unsigned(m) # <<>> /\ ToSet(Unsigned(m)) \subseteq Digits
                                  /\ v = (IF m[1] = 45 THEN -1 ELSE 1) * Numeral(Unsigned(m))
    BY <1>1, <1>3 DEF Spelled
  <2>2. PICK p \in DOMAIN str, q \in DOMAIN str :
               m = SubSeq(str, p, q) /\ \A k \in DOMAIN str \ (p..q) : str[k] \in Spaces
    <3>1. PICK r \in (DOMAIN str) \X (DOMAIN str) :
                 m = SubSeq(str, r[1], r[2]) /\ \A k \in DOMAIN str \ (r[1]..r[2]) : str[k] \in Spaces
      BY DEF Trimmed
    <3> QED BY <3>1
  <2>3. p \in Nat \ {0} /\ q \in 0..Len(str) /\ p \in 1..Len(str) /\ q \in 1..Len(str)
    BY <1>1
  <2>4. /\ m \in Seq(1..255) /\ Len(m) = (IF p <= q THEN q - p + 1 ELSE 0)
        /\ \A i \in 1..(q - p + 1) : m[i] = str[p + i - 1]
    <3>1. SubSeq(str, p, q) \in Seq(1..255)
      BY <1>1, <2>3, Parts, ZenonT(40)
    <3>2. Len(SubSeq(str, p, q)) = (IF p <= q THEN q - p + 1 ELSE 0)
      BY <1>1, <2>3, Parts
    <3>3. \A i \in 1..(q - p + 1) : SubSeq(str, p, q)[i] = str[p + i - 1]
      BY <1>1, <2>3, Parts
    <3> QED BY <2>2, <3>1, <3>2, <3>3
  <2>5. m # <<>> /\ p <= q
    <3>1. m # <<>>
      BY <2>1 DEF Unsigned
    <3>2. Len(m) # 0
      BY <2>4, <3>1, EmptySeq
    <3> QED BY <2>4, <3>1, <3>2
  <2>6. m[1] = str[p]
    BY <2>3, <2>4, <2>5
  <2>7. Unsigned(m) = DigitsOf(str, p, q)
    <3>1. CASE Signed(str[p])
      <4>1. Unsigned(m) = Tail(m)
        BY <2>5, <2>6, <3>1 DEF Unsigned, Signed
      <4>2. p \in 1..Len(str) /\ q \in p..Len(str)
        BY <1>1, <2>3, <2>5
      <4>3. Tail(m) = SubSeq(str, p + 1, q)
        BY <1>1, <2>2, <4>2, HeadTailOfSubSeq
      <4> QED BY <3>1, <4>1, <4>3 DEF DigitsOf, Begin
    <3>2. CASE ~Signed(str[p])
      BY <2>2, <2>6, <3>2 DEF Unsigned, Signed, DigitsOf, Begin
    <3> QED BY <3>1, <3>2
  <2>8. Begin(str, p) \in Nat \ {0}
    BY <2>3 DEF Begin
  <2> DEFINE d == DigitsOf(str, p, q)
             b == Begin(str, p)
  <2>9. /\ d \in Seq(1..255) /\ Len(d) = (IF b <= q THEN q - b + 1 ELSE 0)
        /\ \A i \in 1..(q - b + 1) : d[i] = str[b + i - 1]
    BY <1>1, <2>3, <2>8, Parts, SMTT(30) DEF DigitsOf
  <2>10. b <= q
    <3>1. Len(d) # 0
      BY <2>1, <2>7, <2>9, EmptySeq
    <3> QED BY <2>9, <3>1
  <2>11. ASSUME NEW k \in b..q PROVE str[k] \in Digits
    <3>1. k - b + 1 \in 1..(q - b + 1) /\ b + (k - b + 1) - 1 = k /\ k - b + 1 \in 1..Len(d)
      BY <2>3, <2>8, <2>9, <2>10
    <3>2. d[k - b + 1] = str[k] /\ k - b + 1 \in DOMAIN d
      <4> HIDE DEF d, b
      <4> QED BY <2>9, <3>1
    <3>3. ToSet(d) \subseteq Digits
      BY <2>1, <2>7
    <3> HIDE DEF d
    <3> QED BY <3>2, <3>3 DEF ToSet
  <2>12. IsNumeral(str, p, q)
    BY <2>2, <2>10, <2>11 DEF IsNumeral
  <2> QED BY <2>1, <2>6, <2>7, <2>12 DEF Value
<1> QED BY <1>2, <1>3

-----------------------------------------------------------------------------
(* What is left of a text behind its sign, if it has one. *)
LEMMA WithoutSign ==
  ASSUME NEW str \in Text, NEW p \in 1..Len(str), Span(str, Spaces) = p - 1
  PROVE  LET s == Skip(str, Spaces)
             d == IF s # <<>> /\ s[1] \in {43, 45} THEN Tail(s) ELSE s
             b == Begin(str, p)
             L == Len(str)
         IN /\ s \in Text /\ s # <<>> /\ s[1] = str[p] /\ Len(s) = L - p + 1
            /\ d \in Text /\ d = SubSeq(str, b, L) /\ Len(d) = L - b + 1
            /\ \A i \in 1..(L - b + 1) : d[i] = str[b + i - 1]
            /\ b \in {p, p + 1} /\ L \in Nat
<1> DEFINE s == Skip(str, Spaces)
           d == IF s # <<>> /\ s[1] \in {43, 45} THEN Tail(s) ELSE s
           b == Begin(str, p)
           L == Len(str)
<1>1. L \in Nat /\ str \in Seq(1..255) /\ p \in Nat \ {0} /\ p <= L /\ L \in 0..L
  BY DEF Text
<1>2. s = SubSeq(str, p, L)
  BY <1>1 DEF Skip
<1>3. /\ SubSeq(str, p, L) \in Seq(1..255) /\ Len(SubSeq(str, p, L)) = L - p + 1
      /\ \A i \in 1..(L - p + 1) : SubSeq(str, p, L)[i] = str[p + i - 1]
  BY <1>1, Parts, ZenonT(60)
<1>4. s \in Seq(1..255) /\ Len(s) = L - p + 1 /\ s[1] = str[p] /\ s # <<>>
  <2> HIDE DEF s, L
  <2>1. 1 \in 1..(L - p + 1) /\ p + 1 - 1 = p /\ L - p + 1 # 0
    BY <1>1
  <2> QED BY <1>2, <1>3, <2>1
<1>5. b \in {p, p + 1} /\ b \in Nat \ {0}
  BY <1>1 DEF Begin
<1>6. d = SubSeq(str, b, L)
  <2>1. CASE Signed(str[p])
    <3>1. d = Tail(s)
      BY <1>4, <2>1 DEF Signed
    <3>2. Tail(SubSeq(str, p, L)) = SubSeq(str, p + 1, L)
      <4>1. p \in 1..L /\ L \in p..L
        BY <1>1
      <4> QED BY <1>1, <4>1, HeadTailOfSubSeq
    <3> QED BY <1>2, <2>1, <3>1, <3>2 DEF Begin
  <2>2. CASE ~Signed(str[p])
    <3>1. d = s
      BY <1>4, <2>2 DEF Signed
    <3> QED BY <1>2, <2>2, <3>1 DEF Begin
  <2> QED BY <2>1, <2>2
<1>7. /\ SubSeq(str, b, L) \in Seq(1..255) /\ Len(SubSeq(str, b, L)) = (IF b <= L THEN L - b + 1 ELSE 0)
      /\ \A i \in 1..(L - b + 1) : SubSeq(str, b, L)[i] = str[b + i - 1]
  <2> HIDE DEF b, L
  <2>1. SubSeq(str, b, L) \in Seq(1..255)
    BY <1>1, <1>5, Parts DEF L
  <2>2. Len(SubSeq(str, b, L)) = (IF b <= L THEN L - b + 1 ELSE 0)
    BY <1>1, <1>5, Parts DEF L
  <2>3. \A i \in 1..(L - b + 1) : SubSeq(str, b, L)[i] = str[b + i - 1]
    BY <1>1, <1>5, Parts DEF L
  <2> QED BY <2>1, <2>2, <2>3
<1>8. Len(SubSeq(str, b, L)) = L - b + 1
  <2> HIDE DEF b, L
  <2> QED BY <1>1, <1>5, <1>7
<1> HIDE DEF s, d, b, L
<1>9. /\ d \in Seq(1..255) /\ Len(d) = L - b + 1
      /\ \A i \in 1..(L - b + 1) : d[i] = str[b + i - 1]
  BY <1>6, <1>7, <1>8
<1> QED BY <1>1, <1>4, <1>5, <1>6, <1>9 DEF s, d, b, L, Text

(* A numeral is read as what it is, and nothing but blanks is left. *)
LEMMA NumeralIsRead ==
  ASSUME NEW str \in Text, NEW p, NEW q, IsNumeral(str, p, q)
  PROVE  LET s == Skip(str, Spaces)
             m == Magnitude(DigitsOf(str, p, q))
         IN /\ s # <<>> /\ Skip(Strtoll(s).rest, Spaces) = <<>>
            /\ Strtoll(s).value = IF str[p] = 45 THEN -m ELSE m
            /\ Strtoll(s).overflows <=> m > IF str[p] = 45 THEN MaxInt64 + 1 ELSE MaxInt64
<1> DEFINE s == Skip(str, Spaces)
           signed == s # <<>> /\ s[1] \in {43, 45}
           d == IF signed THEN Tail(s) ELSE s
           b == Begin(str, p)
           L == Len(str)
           n == Span(d, Digits)
           m == Magnitude(SubSeq(d, 1, n))
           rest == IF n = 0 THEN s ELSE SubSeq(d, n + 1, Len(d))
<1>1. /\ L \in Nat /\ p \in 1..L /\ q \in p..L /\ b \in p..q /\ b \in Nat \ {0} /\ p \in Nat \ {0}
      /\ str \in Seq(1..255) /\ DOMAIN str = 1..L /\ str[p] \notin Spaces
  BY NumeralFacts DEF Text
<1>2. Span(str, Spaces) = p - 1
  <2>1. p - 1 \in 0..L /\ (p - 1) + 1 = p /\ \A i \in 1..(p - 1) : i \in DOMAIN str \ (p..q)
    BY <1>1
  <2>2. \A i \in 1..(p - 1) : str[i] \in Spaces
    BY <2>1 DEF IsNumeral
  <2> QED BY <1>1, <2>1, <2>2, SpanIsOne
<1>3. /\ s \in Text /\ s # <<>> /\ s[1] = str[p]
      /\ d \in Text /\ d = SubSeq(str, b, L) /\ Len(d) = L - b + 1
      /\ \A i \in 1..(L - b + 1) : d[i] = str[b + i - 1]
  <2>1. p \in 1..Len(str)
    BY <1>1
  <2> QED BY <1>2, <2>1, WithoutSign, ZenonT(30)
<1>4. Strtoll(s) = [value |-> IF signed /\ s[1] = 45 THEN -m ELSE m, rest |-> rest,
                    overflows |-> m > IF signed /\ s[1] = 45 THEN MaxInt64 + 1 ELSE MaxInt64]
  BY DEF Strtoll
<1>5. signed /\ s[1] = 45 <=> str[p] = 45
  BY <1>3
<1> HIDE DEF s, d, b, L, signed
<1>6. n = q - b + 1
  <2>1. q - b + 1 \in 0..Len(d)
    BY <1>1, <1>3
  <2>2. ASSUME NEW i \in 1..(q - b + 1) PROVE d[i] \in Digits
    <3>1. i \in 1..(L - b + 1) /\ b + i - 1 \in b..q
      BY <1>1
    <3>2. str[b + i - 1] \in Digits
      BY <3>1 DEF IsNumeral, b
    <3> QED BY <1>3, <3>1, <3>2
  <2>3. ASSUME q - b + 1 < Len(d) PROVE d[q - b + 1 + 1] \notin Digits
    <3>1. q - b + 1 + 1 \in 1..(L - b + 1) /\ b + (q - b + 1 + 1) - 1 = q + 1 /\ q + 1 \in 1..L \ (p..q)
      BY <1>1, <1>3, <2>3
    <3>2. str[q + 1] \in Spaces
      BY <1>1, <3>1 DEF IsNumeral
    <3>3. d[q - b + 1 + 1] = str[q + 1]
      BY <1>3, <3>1
    <3> QED BY <3>2, <3>3, CharacterKinds
  <2>4. d \in Seq(1..255)
    BY <1>3 DEF Text
  <2> QED BY <2>1, <2>2, <2>3, <2>4, SpanIsOne
<1> HIDE DEF n, m, rest
<1>7. n \in Nat \ {0} /\ n <= Len(d) /\ Len(d) \in Nat
  BY <1>1, <1>3, <1>6
<1>8. SubSeq(d, 1, n) = DigitsOf(str, p, q)
  <2>1. /\ b \in 1..L /\ L \in 1..L /\ 1 \in 1..(L - b + 1) /\ n \in 1..(L - b + 1)
        /\ b + 1 - 1 = b /\ b + n - 1 = q
    BY <1>1, <1>6
  <2>2. SubSeq(SubSeq(str, b, L), 1, n) = SubSeq(str, b + 1 - 1, b + n - 1)
    BY <1>1, <2>1, SubSeqOfSubSeq DEF L
  <2> QED BY <1>3, <2>1, <2>2 DEF DigitsOf, b
<1>9. Skip(rest, Spaces) = <<>>
  <2>1. rest = SubSeq(d, n + 1, Len(d))
    BY <1>7 DEF rest
  <2>2. n + 1 \in Nat \ {0} /\ Len(d) \in 0..Len(d) /\ d \in Seq(1..255)
    BY <1>3, <1>7, SMTT(30) DEF Text
  <2>3. /\ rest \in Seq(1..255) /\ Len(rest) = (IF n + 1 <= Len(d) THEN Len(d) - (n + 1) + 1 ELSE 0)
        /\ \A i \in 1..(Len(d) - (n + 1) + 1) : rest[i] = d[n + 1 + i - 1]
    <3>1. SubSeq(d, n + 1, Len(d)) \in Seq(1..255)
      BY <2>2, Parts
    <3>2. Len(SubSeq(d, n + 1, Len(d))) = (IF n + 1 <= Len(d) THEN Len(d) - (n + 1) + 1 ELSE 0)
      BY <2>2, Parts
    <3>3. \A i \in 1..(Len(d) - (n + 1) + 1) : SubSeq(d, n + 1, Len(d))[i] = d[n + 1 + i - 1]
      BY <2>2, Parts
    <3> QED BY <2>1, <3>1, <3>2, <3>3
  <2>4. ASSUME NEW i \in 1..Len(rest) PROVE rest[i] \in Spaces
    <3>1. i \in 1..(Len(d) - (n + 1) + 1) /\ n + 1 + i - 1 \in 1..(L - b + 1) /\ b + (n + 1 + i - 1) - 1 = q + i
          /\ q + i \in 1..L \ (p..q)
      BY <1>1, <1>3, <1>6, <1>7, <2>3
    <3>2. str[q + i] \in Spaces
      BY <1>1, <3>1 DEF IsNumeral
    <3> QED BY <1>3, <2>3, <3>1, <3>2
  <2> QED BY <2>3, <2>4, SkippedWhole
<1> DEFINE r == Strtoll(s)
<1>10. /\ r.value = (IF signed /\ s[1] = 45 THEN -m ELSE m) /\ r.rest = rest
       /\ r.overflows <=> m > IF signed /\ s[1] = 45 THEN MaxInt64 + 1 ELSE MaxInt64
  <2> DEFINE value == IF signed /\ s[1] = 45 THEN -m ELSE m
             over == m > IF signed /\ s[1] = 45 THEN MaxInt64 + 1 ELSE MaxInt64
  <2>1. r = [value |-> value, rest |-> rest, overflows |-> over]
    BY <1>4
  <2> HIDE DEF r, value, over
  <2>2. r.value = value /\ r.rest = rest /\ r.overflows = over
    BY <2>1
  <2> QED BY <2>2 DEF value, over
<1> HIDE DEF r
<1>11. m = Magnitude(DigitsOf(str, p, q))
  BY <1>8 DEF m
<1>12. /\ r.value = (IF str[p] = 45 THEN -m ELSE m)
       /\ r.overflows <=> m > IF str[p] = 45 THEN MaxInt64 + 1 ELSE MaxInt64
  BY <1>5, <1>10
<1> QED BY <1>3, <1>9, <1>10, <1>11, <1>12 DEF s, r

(* A text that is read to its end has a numeral. *)
LEMMA ReadIsNumeral ==
  ASSUME NEW str \in Text, Skip(str, Spaces) # <<>>,
         Skip(Strtoll(Skip(str, Spaces)).rest, Spaces) = <<>>
  PROVE  \E p, q \in DOMAIN str : IsNumeral(str, p, q)
<1> DEFINE s == Skip(str, Spaces)
           signed == s # <<>> /\ s[1] \in {43, 45}
           d == IF signed THEN Tail(s) ELSE s
           p == Span(str, Spaces) + 1
           b == Begin(str, p)
           L == Len(str)
           n == Span(d, Digits)
           rest == IF n = 0 THEN s ELSE SubSeq(d, n + 1, Len(d))
           q == b + n - 1
<1>1. L \in Nat /\ str \in Seq(1..255) /\ DOMAIN str = 1..L
  BY DEF Text
<1>2. /\ Span(str, Spaces) \in 0..L /\ \A i \in 1..Span(str, Spaces) : str[i] \in Spaces
      /\ Span(str, Spaces) < L => str[Span(str, Spaces) + 1] \notin Spaces
  BY <1>1, SpanCounts
<1>3. Span(str, Spaces) # L
  <2>1. SubSeq(str, L + 1, L) = <<>>
    BY <1>1, SubSeqEmpty
  <2> QED BY <2>1 DEF Skip
<1>4. p \in 1..L /\ Span(str, Spaces) = p - 1 /\ str[p] \notin Spaces /\ \A i \in 1..(p - 1) : str[i] \in Spaces
  BY <1>1, <1>2, <1>3
<1>5. /\ s \in Text /\ s # <<>> /\ s[1] = str[p]
      /\ d \in Text /\ d = SubSeq(str, b, L) /\ Len(d) = L - b + 1
      /\ \A i \in 1..(L - b + 1) : d[i] = str[b + i - 1]
      /\ b \in {p, p + 1}
  <2> HIDE DEF p
  <2> QED BY <1>4, WithoutSign, ZenonT(30)
<1>6. Skip(rest, Spaces) = <<>>
  <2>1. Strtoll(s).rest = rest
    BY DEF Strtoll
  <2> QED BY <2>1
<1>7. d \in Seq(1..255) /\ s \in Seq(1..255)
  BY <1>5 DEF Text
<1> HIDE DEF s, d, b, L, signed, p
<1>8. n \in 0..Len(d) /\ (\A i \in 1..n : d[i] \in Digits)
  BY <1>7, SpanCounts
<1> HIDE DEF n
<1>9. n # 0
  <2> SUFFICES ASSUME n = 0 PROVE FALSE
    OBVIOUS
  <2>1. Skip(s, Spaces) = <<>> /\ Len(s) \in Nat
    BY <1>6, <1>7
  <2>2. 1 \in 1..Len(s)
    BY <1>5, <1>7
  <2>3. s[1] \in Spaces
    BY <1>7, <2>1, <2>2, SkippedWhole
  <2> QED BY <1>4, <1>5, <2>3
<1>10. Len(d) \in Nat /\ n \in Nat \ {0} /\ n <= L - b + 1 /\ q \in b..L /\ q \in 1..L /\ b \in Nat \ {0}
  BY <1>1, <1>4, <1>5, <1>8, <1>9
<1>11. ASSUME NEW k \in b..q PROVE str[k] \in Digits
  <2>1. k - b + 1 \in 1..n /\ k - b + 1 \in 1..(L - b + 1) /\ b + (k - b + 1) - 1 = k
    BY <1>1, <1>10
  <2> QED BY <1>5, <1>8, <2>1
<1>12. ASSUME NEW k \in 1..L, k > q PROVE str[k] \in Spaces
  <2>1. rest = SubSeq(d, n + 1, Len(d))
    BY <1>9
  <2> HIDE DEF rest
  <2>2. n + 1 \in Nat \ {0} /\ Len(d) \in 0..Len(d) /\ k - q \in 1..(Len(d) - (n + 1) + 1) /\ n + 1 <= Len(d)
        /\ n + 1 + (k - q) - 1 \in 1..(L - b + 1) /\ b + (n + 1 + (k - q) - 1) - 1 = k
    BY <1>1, <1>5, <1>10, <1>12
  <2>3. rest \in Seq(1..255)
    BY <1>7, <2>1, <2>2, Parts
  <2>4. Len(rest) = Len(d) - (n + 1) + 1
    BY <1>7, <2>1, <2>2, Parts
  <2>5. \A i \in 1..(Len(d) - (n + 1) + 1) : rest[i] = d[n + 1 + i - 1]
    BY <1>7, <2>1, <2>2, Parts, ZenonT(40)
  <2>6. rest[k - q] \in Spaces
    BY <1>6, <2>2, <2>3, <2>4, SkippedWhole
  <2>7. rest[k - q] = str[k]
    BY <1>5, <2>2, <2>5
  <2> QED BY <2>6, <2>7
<1>13. IsNumeral(str, p, q)
  <2>1. \A k \in DOMAIN str \ (p..q) : str[k] \in Spaces
    BY <1>1, <1>4, <1>10, <1>12
  <2> QED BY <1>1, <1>4, <1>10, <1>11, <2>1 DEF IsNumeral, b
<1> QED BY <1>1, <1>4, <1>10, <1>13

(* What _nm_utils_ascii_str_to_int64 gives is spelled by the text and in   *)
(* the range, or it is the fallback with an error.                         *)
LEMMA ReadIsSpelled ==
  ASSUME NEW str \in TextOrNot, NEW min \in Int, NEW max \in Int, NEW fallback
  PROVE  LET r == AsciiStrToInt64(str, min, max, fallback) IN
         /\ r.errno = "0" => /\ r.value \in Int /\ min <= r.value /\ r.value <= max
                             /\ Spelled(str) = {r.value}
         /\ r.errno # "0" => r.value = fallback
         /\ r.errno # "0" => \A v \in Spelled(str) :
              /\ v \in Int
              /\ v < -MaxInt64 - 1 \/ v > MaxInt64 \/ v < min \/ v > max
<1> DEFINE r == AsciiStrToInt64(str, min, max, fallback)
           s == IF str = Null THEN <<>> ELSE Skip(str, Spaces)
           n == Strtoll(s)
<1>1. CASE str = Null
  <2>1. Spelled(str) = {} /\ s = <<>>
    BY <1>1 DEF Spelled
  <2> QED BY <2>1 DEF AsciiStrToInt64
<1>2. CASE str # Null /\ ~\E p, q \in DOMAIN str : IsNumeral(str, p, q)
  <2>1. str \in Text
    BY <1>2 DEF TextOrNot
  <2>2. Spelled(str) = {}
    BY <1>2, <2>1, SpelledIsValue
  <2>3. s = <<>> \/ Skip(n.rest, Spaces) # <<>>
    BY <1>2, <2>1, ReadIsNumeral
  <2>4. r.errno # "0" /\ r.value = fallback
    BY <2>3 DEF AsciiStrToInt64
  <2> QED BY <2>2, <2>4
<1>3. CASE str # Null /\ \E p, q \in DOMAIN str : IsNumeral(str, p, q)
  <2>1. str \in Text
    BY <1>3 DEF TextOrNot
  <2>2. PICK p \in DOMAIN str, q \in DOMAIN str : IsNumeral(str, p, q)
    BY <1>3
  <2> DEFINE v == Value(str, p, q)
             N == Numeral(DigitsOf(str, p, q))
             M == Magnitude(DigitsOf(str, p, q))
  <2>3. \A u : u \in Spelled(str) <=> u = v
    BY <2>1, <2>2, SpelledIsValue, NumeralIsOne
  <2>4. /\ s # <<>> /\ Skip(n.rest, Spaces) = <<>>
        /\ n.value = IF str[p] = 45 THEN -M ELSE M
        /\ n.overflows <=> M > IF str[p] = 45 THEN MaxInt64 + 1 ELSE MaxInt64
    BY <1>3, <2>1, <2>2, NumeralIsRead
  <2>5. /\ N \in Nat /\ M \in Nat
        /\ N <= MaxInt64 + 1 => M = N
        /\ N > MaxInt64 + 1 => M > MaxInt64 + 1
    BY <2>1, <2>2, NumeralFacts, MagnitudeIsNumeral
  <2>6. v = IF str[p] = 45 THEN -N ELSE N
    BY <2>5 DEF Value
  <2>7. r = IF n.overflows THEN [value |-> fallback, errno |-> "ERANGE"]
            ELSE IF n.value \in min..max THEN [value |-> n.value, errno |-> "0"]
            ELSE [value |-> fallback, errno |-> "ERANGE"]
    BY <2>4 DEF AsciiStrToInt64
  <2>8. MaxInt64 \in Nat
    BY WidthAssumption
  <2> HIDE DEF s, n, N, M, v, r
  <2>9. ~n.overflows => n.value = v /\ v \in Int
    BY <2>4, <2>5, <2>6, <2>8
  <2>10. n.overflows => v \in Int /\ (v < -MaxInt64 - 1 \/ v > MaxInt64)
    BY <2>4, <2>5, <2>6, <2>8
  <2>11. CASE ~n.overflows /\ min <= v /\ v <= max
    <3>1. r = [value |-> v, errno |-> "0"]
      BY <2>7, <2>9, <2>11
    <3>2. r.value = v /\ r.errno = "0"
      BY <3>1
    <3>3. Spelled(str) = {v}
      BY <2>3
    <3> QED BY <2>9, <2>11, <3>2, <3>3 DEF r
  <2>12. CASE n.overflows \/ ~(min <= v /\ v <= max)
    <3>1. r = [value |-> fallback, errno |-> "ERANGE"]
      BY <2>7, <2>9, <2>10, <2>12
    <3>2. r.value = fallback /\ r.errno # "0"
      BY <3>1
    <3>3. v \in Int /\ (v < -MaxInt64 - 1 \/ v > MaxInt64 \/ v < min \/ v > max)
      BY <2>9, <2>10, <2>12
    <3> QED BY <2>3, <3>2, <3>3 DEF r
  <2> QED BY <2>11, <2>12
<1> QED BY <1>1, <1>2, <1>3

(* _nm_utils_ascii_str_to_int64 gives the number a text spells, if it is   *)
(* in the range, and otherwise the fallback and an error.                  *)
THEOREM NumberIsWhatIsSpelled ==
  ASSUME NEW str \in TextOrNot, NEW min \in Int64, NEW max \in Int64, NEW fallback
  PROVE  LET numbers == {n \in Spelled(str) : min <= n /\ n <= max}
             r == AsciiStrToInt64(str, min, max, fallback)
         IN IF numbers = {} THEN r.errno # "0" /\ r.value = fallback
            ELSE r.errno = "0" /\ numbers = {r.value}
<1> DEFINE r == AsciiStrToInt64(str, min, max, fallback)
<1>1. /\ MaxInt64 \in Nat /\ min \in Int /\ max \in Int
      /\ -MaxInt64 - 1 <= min /\ min <= MaxInt64 /\ -MaxInt64 - 1 <= max /\ max <= MaxInt64
  BY WidthAssumption DEF Int64
<1>2. /\ r.errno = "0" => r.value \in Int /\ min <= r.value /\ r.value <= max /\ Spelled(str) = {r.value}
      /\ r.errno # "0" => r.value = fallback
      /\ r.errno # "0" => \A v \in Spelled(str) :
           v \in Int /\ (v < -MaxInt64 - 1 \/ v > MaxInt64 \/ v < min \/ v > max)
  BY <1>1, ReadIsSpelled
<1> HIDE DEF r
<1>3. CASE r.errno = "0"
  <2>1. {n \in Spelled(str) : min <= n /\ n <= max} = {r.value}
    BY <1>2, <1>3
  <2> QED BY <1>3, <2>1 DEF r
<1>4. CASE r.errno # "0"
  <2>1. \A v \in Spelled(str) : ~(min <= v /\ v <= max)
    BY <1>1, <1>2, <1>4
  <2>2. {n \in Spelled(str) : min <= n /\ n <= max} = {}
    BY <2>1
  <2> QED BY <1>2, <1>4, <2>2 DEF r
<1> QED BY <1>3, <1>4

-----------------------------------------------------------------------------
OptionStep(ctx, state, option) == ParseOption(state, option)
Parses == INSTANCE FoldFacts WITH Op <- OptionStep

(* A reversed text. *)
LEMMA Reversed ==
  ASSUME NEW S, NEW s \in Seq(S)
  PROVE  /\ Reverse(s) \in Seq(S) /\ Len(Reverse(s)) = Len(s) /\ DOMAIN Reverse(s) = 1..Len(s)
         /\ \A i \in 1..Len(s) : Reverse(s)[i] = s[Len(s) - i + 1]
<1>1. Len(s) \in Nat /\ DOMAIN s = 1..Len(s)
  OBVIOUS
<1>2. ASSUME NEW i \in 1..Len(s) PROVE Len(s) - i + 1 \in 1..Len(s) /\ s[Len(s) - i + 1] \in S
  <2>1. Len(s) - i + 1 \in 1..Len(s)
    BY <1>1
  <2> QED BY <2>1, ElementOfSeq
<1>3. Reverse(s) \in [1..Len(s) -> S]
  BY <1>2 DEF Reverse
<1>4. Reverse(s) \in Seq(S)
  BY <1>1, <1>3
<1>5. Len(Reverse(s)) = Len(s)
  BY <1>1, <1>3
<1> QED BY <1>1, <1>3, <1>4, <1>5 DEF Reverse

(* g_strchomp takes the blanks at the end. *)
LEMMA ChompedPart ==
  ASSUME NEW s \in Text
  PROVE  \E j \in 0..Len(s) : /\ Chomp(s) = SubSeq(s, 1, j)
                              /\ j > 0 => s[j] \notin Spaces
                              /\ \A k \in (j + 1)..Len(s) : s[k] \in Spaces
<1> DEFINE L == Len(s)
           r == Reverse(s)
           m == Span(r, Spaces)
           j == L - m
           u == Skip(r, Spaces)
<1>1. L \in Nat /\ s \in Seq(1..255)
  BY DEF Text
<1>2. r \in Seq(1..255) /\ Len(r) = L /\ \A i \in 1..L : r[i] = s[L - i + 1]
  BY <1>1, Reversed
<1> HIDE DEF r
<1>3. m \in 0..L /\ (\A i \in 1..m : r[i] \in Spaces) /\ (m < L => r[m + 1] \notin Spaces)
  BY <1>2, SpanCounts
<1>4. u = SubSeq(r, m + 1, L)
  BY <1>2 DEF Skip
<1> HIDE DEF m, L, u
<1>5. u \in Seq(1..255) /\ Len(u) = j /\ \A i \in 1..j : u[i] = s[j - i + 1]
  <2>1. m + 1 \in Nat \ {0} /\ L \in 0..Len(r)
    BY <1>1, <1>2, <1>3
  <2>2. u \in Seq(1..255)
    BY <1>2, <1>4, <2>1, Parts
  <2>3. Len(u) = IF m + 1 <= L THEN L - (m + 1) + 1 ELSE 0
    BY <1>2, <1>4, <2>1, Parts
  <2>4. \A i \in 1..(L - (m + 1) + 1) : u[i] = r[m + 1 + i - 1]
    BY <1>2, <1>4, <2>1, Parts
  <2>5. Len(u) = j
    BY <1>1, <1>3, <2>3
  <2>6. ASSUME NEW i \in 1..j PROVE u[i] = s[j - i + 1]
    <3>1. i \in 1..(L - (m + 1) + 1) /\ m + 1 + i - 1 \in 1..L /\ L - (m + 1 + i - 1) + 1 = j - i + 1
      BY <1>1, <1>3
    <3> QED BY <1>2, <2>4, <3>1
  <2> QED BY <2>2, <2>5, <2>6
<1>6. j \in 0..L /\ j \in Nat
  BY <1>1, <1>3
<1>7. Chomp(s) = SubSeq(s, 1, j)
  <2> DEFINE a == Chomp(s)
             b == SubSeq(s, 1, j)
  <2>1. a \in Seq(1..255) /\ Len(a) = j /\ \A i \in 1..j : a[i] = u[j - i + 1]
    <3>1. a = Reverse(u)
      BY DEF Chomp, u, r
    <3> HIDE DEF a, j
    <3> QED BY <1>5, <3>1, Reversed
  <2>2. b \in Seq(1..255) /\ Len(b) = j /\ \A i \in 1..j : b[i] = s[i]
    <3>1. 1 \in Nat \ {0} /\ j \in 0..Len(s) /\ (IF 1 <= j THEN j - 1 + 1 ELSE 0) = j /\ j - 1 + 1 = j
      BY <1>6 DEF L
    <3>2. b \in Seq(1..255)
      BY <1>1, <3>1, Parts
    <3>5. Len(b) = IF 1 <= j THEN j - 1 + 1 ELSE 0
      BY <1>1, <3>1, Parts
    <3>3. \A i \in 1..(j - 1 + 1) : b[i] = s[1 + i - 1]
      BY <1>1, <3>1, Parts
    <3>4. \A i \in 1..j : 1 + i - 1 = i
      BY <1>6
    <3> HIDE DEF j, b
    <3> QED BY <3>1, <3>2, <3>3, <3>4, <3>5
  <2>3. ASSUME NEW i \in 1..j PROVE a[i] = b[i]
    <3>1. j - i + 1 \in 1..j /\ j - (j - i + 1) + 1 = i
      BY <1>6
    <3> HIDE DEF j, a, b
    <3> QED BY <1>5, <2>1, <2>2, <3>1
  <2> HIDE DEF a, b, j
  <2>4. a = b
    BY <2>1, <2>2, <2>3, SeqEqual
  <2> QED BY <2>4 DEF a, b
<1>8. j > 0 => s[j] \notin Spaces
  <2>1. j > 0 => m < L /\ m + 1 \in 1..L /\ L - (m + 1) + 1 = j
    BY <1>1, <1>3
  <2> QED BY <1>2, <1>3, <2>1
<1>9. ASSUME NEW k \in (j + 1)..L PROVE s[k] \in Spaces
  <2>1. L - k + 1 \in 1..m /\ L - k + 1 \in 1..L /\ L - (L - k + 1) + 1 = k
    BY <1>1, <1>3
  <2> QED BY <1>2, <1>3, <2>1
<1> QED BY <1>6, <1>7, <1>8, <1>9 DEF L

(* g_strstrip takes the blanks at both ends, and no other character. *)
LEMMA StrippedPart ==
  ASSUME NEW str \in Text
  PROVE  \E i, j \in 0..Len(str) :
           /\ Strip(str) = SubSeq(str, i + 1, j)
           /\ \A k \in DOMAIN str \ ((i + 1)..j) : str[k] \in Spaces
           /\ i < j => str[i + 1] \notin Spaces /\ str[j] \notin Spaces
           /\ i >= j => Strip(str) = <<>> /\ \A k \in DOMAIN str : str[k] \in Spaces
<1> DEFINE L == Len(str)
           i == Span(str, Spaces)
           s == Skip(str, Spaces)
<1>1. L \in Nat /\ str \in Seq(1..255) /\ DOMAIN str = 1..L
  BY DEF Text
<1>2. i \in 0..L /\ (\A k \in 1..i : str[k] \in Spaces) /\ (i < L => str[i + 1] \notin Spaces)
  BY <1>1, SpanCounts
<1>3. s = SubSeq(str, i + 1, L)
  BY DEF Skip
<1> HIDE DEF L, i, s
<1>4. s \in Seq(1..255) /\ Len(s) = L - i /\ \A k \in 1..(L - i) : s[k] = str[i + k]
  <2>1. i + 1 \in Nat \ {0} /\ L \in 0..Len(str)
    BY <1>1, <1>2 DEF L
  <2>2. s \in Seq(1..255)
    BY <1>1, <1>3, <2>1, Parts, ZenonT(40)
  <2>3. Len(s) = IF i + 1 <= L THEN L - (i + 1) + 1 ELSE 0
    BY <1>1, <1>3, <2>1, Parts
  <2>4. \A k \in 1..(L - (i + 1) + 1) : s[k] = str[i + 1 + k - 1]
    BY <1>1, <1>3, <2>1, Parts
  <2>5. L - (i + 1) + 1 = L - i /\ \A k \in 1..(L - i) : i + 1 + k - 1 = i + k
    BY <1>1, <1>2
  <2>6. Len(s) = L - i
    BY <1>1, <1>2, <2>3
  <2> QED BY <2>2, <2>4, <2>5, <2>6
<1>5. PICK e \in 0..Len(s) : /\ Chomp(s) = SubSeq(s, 1, e)
                             /\ e > 0 => s[e] \notin Spaces
                             /\ \A k \in (e + 1)..Len(s) : s[k] \in Spaces
  BY <1>4, ChompedPart DEF Text
<1> DEFINE j == i + e
<1>6. i \in 0..L /\ j \in 0..L /\ e \in Nat
  BY <1>1, <1>2, <1>4, <1>5
<1>7. Strip(str) = SubSeq(str, i + 1, j)
  <2>1. Strip(str) = SubSeq(s, 1, e)
    BY <1>5 DEF Strip, s
  <2>2. CASE e = 0
    <3>1. SubSeq(s, 1, e) = <<>> /\ SubSeq(str, i + 1, j) = <<>>
      BY <1>2, <1>6, <2>2, SubSeqEmpty
    <3> QED BY <2>1, <3>1
  <2>3. CASE e > 0
    <3>1. /\ i + 1 \in 1..Len(str) /\ L \in 1..Len(str) /\ 1 \in 1..(L - (i + 1) + 1) /\ e \in 1..(L - (i + 1) + 1)
          /\ i + 1 + 1 - 1 = i + 1 /\ i + 1 + e - 1 = j
      BY <1>1, <1>2, <1>4, <1>5, <2>3 DEF L
    <3>2. SubSeq(SubSeq(str, i + 1, L), 1, e) = SubSeq(str, i + 1 + 1 - 1, i + 1 + e - 1)
      BY <1>1, <3>1, SubSeqOfSubSeq, SMTT(30)
    <3> DEFINE a == i + 1 + 1 - 1
               z == i + 1 + e - 1
    <3>a. a = i + 1 /\ z = j
      BY <3>1
    <3>3. SubSeq(str, a, z) = SubSeq(str, i + 1, j)
      <4> HIDE DEF a, z, j
      <4> QED BY <3>a, Zenon
    <3>4. SubSeq(s, 1, e) = SubSeq(str, i + 1, j)
      BY <1>3, <3>2, <3>3, Zenon
    <3> QED BY <2>1, <3>4, Zenon
  <2> QED BY <1>6, <2>2, <2>3
<1>8. ASSUME NEW k \in 1..L, k \notin (i + 1)..j PROVE str[k] \in Spaces
  <2>1. CASE k <= i
    BY <1>1, <1>2, <2>1
  <2>2. CASE k > j
    <3>1. k - i \in (e + 1)..Len(s) /\ k - i \in 1..(L - i) /\ i + (k - i) = k
      BY <1>1, <1>2, <1>4, <1>5, <2>2
    <3> QED BY <1>4, <1>5, <3>1
  <2> QED BY <1>2, <1>6, <1>8, <2>1, <2>2
<1>9. ASSUME i < j PROVE str[i + 1] \notin Spaces /\ str[j] \notin Spaces
  <2>1. i < L /\ e > 0 /\ e \in 1..(L - i) /\ i + e = j
    BY <1>1, <1>2, <1>4, <1>5, <1>6, <1>9
  <2> QED BY <1>2, <1>4, <1>5, <2>1
<1>10. ASSUME i >= j PROVE Strip(str) = <<>> /\ \A k \in DOMAIN str : str[k] \in Spaces
  <2>1. (i + 1)..j = {} /\ j < i + 1 /\ i + 1 \in Int /\ j \in Int
    BY <1>6, <1>10
  <2>2. SubSeq(str, i + 1, j) = <<>>
    BY <2>1, SubSeqEmpty
  <2> QED BY <1>1, <1>7, <1>8, <2>1, <2>2
<1> HIDE DEF j
<1> QED BY <1>1, <1>6, <1>7, <1>8, <1>9, <1>10 DEF L

(* What has no blank at its ends and nothing else around it is the text    *)
(* that g_strstrip leaves.                                                 *)
LEMMA StrippedIsOne ==
  ASSUME NEW str \in Text, NEW i \in 0..Len(str), NEW j \in 0..Len(str), i < j,
         \A k \in DOMAIN str \ ((i + 1)..j) : str[k] \in Spaces,
         str[i + 1] \notin Spaces, str[j] \notin Spaces
  PROVE  Strip(str) = SubSeq(str, i + 1, j)
<1>1. PICK x \in 0..Len(str), y \in 0..Len(str) :
           /\ Strip(str) = SubSeq(str, x + 1, y)
           /\ \A k \in DOMAIN str \ ((x + 1)..y) : str[k] \in Spaces
           /\ x < y => str[x + 1] \notin Spaces /\ str[y] \notin Spaces
           /\ x >= y => Strip(str) = <<>> /\ \A k \in DOMAIN str : str[k] \in Spaces
  BY StrippedPart
<1>2. Len(str) \in Nat /\ DOMAIN str = 1..Len(str)
  BY DEF Text
<1>3. i + 1 \in 1..Len(str) /\ j \in 1..Len(str)
  BY <1>2
<1>4. x < y
  BY <1>1, <1>2, <1>3
<1>5. x + 1 \in 1..Len(str) /\ y \in 1..Len(str)
  BY <1>2, <1>4
<1>6. i + 1 \in (x + 1)..y /\ j \in (x + 1)..y
  BY <1>1, <1>2, <1>3
<1>7. x + 1 \in (i + 1)..j /\ y \in (i + 1)..j
  BY <1>1, <1>2, <1>4, <1>5
<1>8. x = i /\ y = j
  BY <1>2, <1>6, <1>7
<1> QED BY <1>1, <1>8

(* The words of truth values are small letters or one digit. *)
LEMMA WordsAreSmall ==
  ASSUME NEW w \in TrueWords \union FalseWords
  PROVE  /\ w \in Seq(Int) /\ Len(w) \in Nat \ {0} /\ DOMAIN w = 1..Len(w)
         /\ \A k \in 1..Len(w) : w[k] \in 97..122 \union {48, 49}
<1>1. CASE w = <<116, 114, 117, 101>>
  BY <1>1
<1>2. CASE w = <<121, 101, 115>>
  BY <1>2
<1>3. CASE w = <<111, 110>>
  BY <1>3
<1>4. CASE w = <<49>>
  BY <1>4
<1>5. CASE w = <<102, 97, 108, 115, 101>>
  BY <1>5
<1>6. CASE w = <<110, 111>>
  BY <1>6
<1>7. CASE w = <<111, 102, 102>>
  BY <1>7
<1>8. CASE w = <<48>>
  BY <1>8
<1> QED BY <1>1, <1>2, <1>3, <1>4, <1>5, <1>6, <1>7, <1>8 DEF TrueWords, FalseWords

(* A character in small letters. *)
Small(x) == IF x \in 65..90 THEN x + 32 ELSE x

(* A small letter is a character.                                          *)
LEMMA SmallIsNumber ==
  ASSUME NEW x \in 1..255
  PROVE  Small(x) \in Int
BY DEF Small

(* A letter, small or capital, or a digit of such a word is no blank. *)
LEMMA LettersAreNoBlanks ==
  ASSUME NEW y \in 97..122 \union {48, 49}, NEW x, x = y \/ (y \in 97..122 /\ x = y - 32)
  PROVE  x \notin Spaces /\ x # 0
BY DEF Spaces

(* What becomes a letter is that letter, small or capital.                 *)
LEMMA SmallOrCapital ==
  ASSUME NEW y \in 97..122 \union {48, 49}, NEW x \in 1..255
  PROVE  Small(x) = y <=> x = y \/ (y \in 97..122 /\ x = y - 32)
BY DEF Small

(* A text is a word in small letters if it is the word in any case. *)
LEMMA LowerIsCased ==
  ASSUME NEW t \in Text, NEW w \in TrueWords \union FalseWords
  PROVE  Lower(t) = w <=> Cased(w, t)
<1>1. Len(t) \in Nat /\ DOMAIN t = 1..Len(t) /\ \A k \in 1..Len(t) : t[k] \in 1..255
  <2>1. t \in Seq(1..255)
    BY DEF Text
  <2>2. \A k \in 1..Len(t) : t[k] \in 1..255
    BY <2>1, ElementOfSeq
  <2> QED BY <2>1, <2>2
<1>2. /\ w \in Seq(Int) /\ Len(w) \in Nat /\ DOMAIN w = 1..Len(w)
      /\ \A k \in 1..Len(w) : w[k] \in 97..122 \union {48, 49}
  BY WordsAreSmall
<1> DEFINE l == Lower(t)
<1>3. l = [i \in 1..Len(t) |-> Small(t[i])]
  BY <1>1 DEF Lower, Small
<1>4. l \in [1..Len(t) -> Int] /\ \A i \in 1..Len(t) : l[i] = Small(t[i])
  <2>1. ASSUME NEW i \in 1..Len(t) PROVE Small(t[i]) \in Int
    <3>1. t[i] \in 1..255
      BY <1>1
    <3> QED BY <3>1, SmallIsNumber
  <2> HIDE DEF l
  <2> QED BY <1>3, <2>1
<1> HIDE DEF l
<1>5. l \in Seq(Int) /\ Len(l) = Len(t)
  <2>1. l \in [1..Len(t) -> Int]
    BY <1>4
  <2>2. l \in Seq(Int)
    BY <1>1, <2>1
  <2>3. Len(l) = Len(t)
    BY <1>1, <2>1
  <2> QED BY <2>2, <2>3
<1>6. ASSUME Len(w) = Len(t), NEW k \in 1..Len(w)
      PROVE  l[k] = w[k] <=> t[k] = w[k] \/ (w[k] \in 97..122 /\ t[k] = w[k] - 32)
  <2>1. l[k] = Small(t[k])
    BY <1>4, <1>6
  <2>2. t[k] \in 1..255 /\ w[k] \in 97..122 \union {48, 49}
    BY <1>1, <1>2, <1>6
  <2>3. Small(t[k]) = w[k] <=> t[k] = w[k] \/ (w[k] \in 97..122 /\ t[k] = w[k] - 32)
    BY <2>2, SmallOrCapital, Zenon
  <2> QED BY <2>1, <2>3
<1>7. ASSUME l = w PROVE Cased(w, t)
  BY <1>2, <1>5, <1>6, <1>7 DEF Cased
<1>8. ASSUME Cased(w, t) PROVE l = w
  <2>1. Len(l) = Len(w) /\ \A k \in 1..Len(l) : l[k] = w[k]
    BY <1>2, <1>5, <1>6, <1>8 DEF Cased
  <2> QED BY <1>2, <1>5, <2>1, SeqEqual
<1> QED BY <1>7, <1>8 DEF l

(* A truth value is one of the words in any case, between white space. *)
Says(str, W) == \E i, j \in 0..Len(str) :
                  /\ \A k \in DOMAIN str \ (i + 1)..j : str[k] \in Spaces
                  /\ \E w \in W : Cased(w, SubSeq(str, i + 1, j))

(* A text says a word if the word is left of it without white space and    *)
(* capitals.                                                               *)
LEMMA SaidIsStripped ==
  ASSUME NEW str \in Text, NEW W \in SUBSET (TrueWords \union FalseWords)
  PROVE  Says(str, W) <=> Lower(Strip(str)) \in W
<1>1. Len(str) \in Nat /\ DOMAIN str = 1..Len(str) /\ str \in Seq(1..255)
  BY DEF Text
<1>2. ASSUME Says(str, W) PROVE Lower(Strip(str)) \in W
  <2>1. PICK i \in 0..Len(str), j \in 0..Len(str) :
               /\ \A k \in DOMAIN str \ (i + 1)..j : str[k] \in Spaces
               /\ \E w \in W : Cased(w, SubSeq(str, i + 1, j))
    BY <1>2 DEF Says
  <2>2. PICK w \in W : Cased(w, SubSeq(str, i + 1, j))
    BY <2>1
  <2> DEFINE t == SubSeq(str, i + 1, j)
  <2>3. i + 1 \in Nat \ {0} /\ j \in 0..Len(str)
    BY <1>1
  <2>4. t \in Seq(1..255)
    BY <1>1, <2>3, Parts
  <2>5. Len(t) = IF i + 1 <= j THEN j - (i + 1) + 1 ELSE 0
    BY <1>1, <2>3, Parts
  <2>6. \A k \in 1..(j - (i + 1) + 1) : t[k] = str[i + 1 + k - 1]
    BY <1>1, <2>3, Parts
  <2>7. Len(w) \in Nat \ {0} /\ DOMAIN w = 1..Len(w) /\ \A k \in 1..Len(w) : w[k] \in 97..122 \union {48, 49}
    <3>1. w \in TrueWords \union FalseWords
      BY <2>2
    <3> QED BY <3>1, WordsAreSmall
  <2> HIDE DEF t
  <2>8. /\ Len(t) = Len(w)
        /\ \A k \in 1..Len(w) : t[k] = w[k] \/ (w[k] \in 97..122 /\ t[k] = w[k] - 32)
    BY <2>2, <2>7 DEF Cased, t
  <2>9. i < j /\ 1 \in 1..Len(w) /\ j - i \in 1..Len(w) /\ j - i \in 1..(j - (i + 1) + 1) /\ 1 \in 1..(j - (i + 1) + 1)
    BY <1>1, <2>5, <2>7, <2>8
  <2>10. ASSUME NEW k \in 1..Len(w) PROVE t[k] \notin Spaces
    <3>1. w[k] \in 97..122 \union {48, 49}
      BY <2>7
    <3>2. t[k] = w[k] \/ (w[k] \in 97..122 /\ t[k] = w[k] - 32)
      BY <2>8
    <3> QED BY <3>1, <3>2, LettersAreNoBlanks, ZenonT(40)
  <2>11. t[1] = str[i + 1] /\ t[j - i] = str[j]
    <3>1. i + 1 + 1 - 1 = i + 1 /\ i + 1 + (j - i) - 1 = j
      BY <1>1
    <3> QED BY <2>6, <2>9, <3>1
  <2>12. str[i + 1] \notin Spaces /\ str[j] \notin Spaces
    BY <2>9, <2>10, <2>11
  <2>13. Strip(str) = t
    BY <2>1, <2>9, <2>12, StrippedIsOne DEF t
  <2>14. Lower(t) = w
    BY <2>2, <2>4, LowerIsCased DEF t, Text
  <2> QED BY <2>13, <2>14
<1>3. ASSUME Lower(Strip(str)) \in W PROVE Says(str, W)
  <2>1. PICK i \in 0..Len(str), j \in 0..Len(str) :
             /\ Strip(str) = SubSeq(str, i + 1, j)
             /\ \A k \in DOMAIN str \ ((i + 1)..j) : str[k] \in Spaces
    BY StrippedPart
  <2> DEFINE t == SubSeq(str, i + 1, j)
             w == Lower(t)
  <2>2. t \in Text
    <3>1. i + 1 \in Nat \ {0} /\ j \in 0..Len(str)
      BY <1>1
    <3> QED BY <1>1, <3>1, Parts DEF Text
  <2>3. w \in W
    BY <1>3, <2>1
  <2> HIDE DEF t
  <2>4. Cased(w, t)
    BY <2>2, <2>3, LowerIsCased
  <2> QED BY <2>1, <2>3, <2>4 DEF Says, t
<1> QED BY <1>2, <1>3

(* A truth value is read whole, in any case. *)
THEOREM TruthIsWhatIsSaid ==
  ASSUME NEW str \in TextOrNot, NEW default
  PROVE  AsciiStrToBool(str, default) =
           IF Says(str, TrueWords) THEN 1 ELSE IF Says(str, FalseWords) THEN 0 ELSE default
<1>1. CASE str = Null
  <2>1. ASSUME NEW W \in SUBSET (TrueWords \union FalseWords) PROVE ~Says(str, W)
    <3> SUFFICES ASSUME Says(str, W) PROVE FALSE
      OBVIOUS
    <3>1. Len(str) = 1 /\ str[1] = 0 /\ str \in Seq({0})
      BY <1>1 DEF Null
    <3>2. PICK i \in 0..1, j \in 0..1, w \in W : Cased(w, SubSeq(str, i + 1, j))
      BY <3>1 DEF Says
    <3> DEFINE t == SubSeq(str, i + 1, j)
    <3>3. i + 1 \in Nat \ {0} /\ j \in 0..Len(str)
      BY <3>1
    <3>4. t \in Seq({0})
      BY <3>1, <3>3, Parts
    <3>5. Len(w) \in Nat \ {0} /\ DOMAIN w = 1..Len(w) /\ \A k \in 1..Len(w) : w[k] \in 97..122 \union {48, 49}
      BY WordsAreSmall
    <3> HIDE DEF t
    <3>6. Len(w) = Len(t) /\ 1 \in 1..Len(w) /\ (t[1] = w[1] \/ (w[1] \in 97..122 /\ t[1] = w[1] - 32))
      <4>1. Len(w) = Len(t) /\ 1 \in 1..Len(w)
        BY <3>2, <3>5 DEF Cased, t
      <4>2. t[1] = w[1] \/ (w[1] \in 97..122 /\ t[1] = w[1] - 32)
        BY <3>2, <3>5, <4>1 DEF Cased, t
      <4> QED BY <4>1, <4>2
    <3>7. t[1] = 0
      BY <3>4, <3>6
    <3>8. w[1] \in 97..122 \union {48, 49}
      BY <3>5, <3>6
    <3> QED BY <3>6, <3>7, <3>8, LettersAreNoBlanks
  <2>2. <<>> \notin TrueWords /\ <<>> \notin FalseWords
    BY WordsAreSmall, EmptySeq
  <2> QED BY <1>1, <2>1, <2>2 DEF AsciiStrToBool
<1>2. CASE str \in Text
  <2>1. str # Null
    BY <1>2, TextIsNotNull
  <2>2. Says(str, TrueWords) <=> Lower(Strip(str)) \in TrueWords
    BY <1>2, SaidIsStripped
  <2>3. Says(str, FalseWords) <=> Lower(Strip(str)) \in FalseWords
    BY <1>2, SaidIsStripped
  <2> QED BY <2>1, <2>2, <2>3 DEF AsciiStrToBool
<1> QED BY <1>1, <1>2 DEF TextOrNot

-----------------------------------------------------------------------------
(* How much the service prints is what the environment says, and otherwise *)
(* as if nothing was said.                                                 *)
THEOREM LevelsAreRead ==
  ASSUME NEW level \in TextOrNot, NEW syslog \in TextOrNot, NEW debug \in BOOLEAN
  PROVE  LET r == LogLevels(level, syslog, debug) IN
         /\ Spelled(level) \cap 0..7 = {} => r = LogLevels(Null, syslog, debug)
         /\ LOG_WARNING \notin Logged(r) => Spelled(level) \cap 0..3 # {}
         /\ r.log_syslog \in {0, 1}
<1> DEFINE x == AsciiStrToInt64(level, 0, LOG_DEBUG, -1)
           y == AsciiStrToInt64(syslog, 0, 1, IF debug THEN 0 ELSE 1)
           r == LogLevels(level, syslog, debug)
<1>1. /\ x.errno = "0" => x.value \in Int /\ 0 <= x.value /\ x.value <= 7 /\ Spelled(level) = {x.value}
      /\ x.errno # "0" => x.value = -1
  BY ReadIsSpelled DEF LOG_DEBUG
<1>2. y.value \in {0, 1}
  <2>1. /\ y.errno = "0" => y.value \in Int /\ 0 <= y.value /\ y.value <= 1
        /\ y.errno # "0" => y.value = IF debug THEN 0 ELSE 1
    BY ReadIsSpelled
  <2> HIDE DEF y
  <2> QED BY <2>1
<1>3. AsciiStrToInt64(Null, 0, LOG_DEBUG, -1).value = -1
  BY DEF AsciiStrToInt64
<1> HIDE DEF x, y
<1>4. ASSUME Spelled(level) \cap 0..7 = {} PROVE r = LogLevels(Null, syslog, debug)
  <2>1. x.value = -1
    BY <1>1, <1>4
  <2> QED BY <1>3, <2>1 DEF LogLevels, x
<1>5. ASSUME LOG_WARNING \notin Logged(r) PROVE Spelled(level) \cap 0..3 # {}
  <2>1. r.log_level = IF x.value >= 0 THEN x.value ELSE IF debug THEN LOG_INFO ELSE LOG_NOTICE
    BY DEF LogLevels, x
  <2>2. ~(r.log_level >= 4)
    BY <1>5 DEF Logged, LOG_WARNING
  <2> HIDE DEF r
  <2>3. x.value >= 0 /\ ~(x.value >= 4)
    BY <1>1, <2>1, <2>2 DEF LOG_INFO, LOG_NOTICE
  <2> QED BY <1>1, <2>3
<1>6. r.log_syslog \in {0, 1}
  BY <1>2 DEF LogLevels, y
<1> HIDE DEF r
<1> QED BY <1>4, <1>5, <1>6 DEF r

(* Before the first option none has been seen.                             *)
LEMMA StartOfState ==
  ASSUME NEW debug \in BOOLEAN
  PROVE  LET State(A) == [exit |-> "no", persist |-> "persist" \in A, debug |-> debug \/ "debug" \in A,
                          bus_name |-> IF "bus-name" \in A THEN "given" ELSE "default"]
         IN [exit |-> "no", persist |-> FALSE, debug |-> debug, bus_name |-> "default"] = State({})
<1>1. ("persist" \in {}) = FALSE
  OBVIOUS
<1>2. (debug \/ "debug" \in {}) = debug
  OBVIOUS
<1>3. (IF "bus-name" \in {} THEN "given" ELSE "default") = "default"
  OBVIOUS
<1> QED BY <1>1, <1>2, <1>3, Zenon

(* The option debug changes one field.                                     *)
LEMMA SetDebug ==
  ASSUME NEW p, NEW d, NEW b, NEW t
  PROVE  [[exit |-> "no", persist |-> p, debug |-> d, bus_name |-> b] EXCEPT !.debug = t]
           = [exit |-> "no", persist |-> p, debug |-> t, bus_name |-> b]
OBVIOUS

(* The option debug is seen from then on.                                  *)
LEMMA DebugOfState ==
  ASSUME NEW debug \in BOOLEAN, NEW A
  PROVE  LET State(B) == [exit |-> "no", persist |-> "persist" \in B, debug |-> debug \/ "debug" \in B,
                          bus_name |-> IF "bus-name" \in B THEN "given" ELSE "default"]
         IN [State(A) EXCEPT !.debug = TRUE] = State(A \union {"debug"})
<1> DEFINE B == A \union {"debug"}
<1>1. ("persist" \in A) = ("persist" \in B)
  OBVIOUS
<1>2. (debug \/ "debug" \in B) = TRUE
  OBVIOUS
<1>3. ("bus-name" \in A) = ("bus-name" \in B)
  OBVIOUS
<1>4. (IF "bus-name" \in A THEN "given" ELSE "default") = (IF "bus-name" \in B THEN "given" ELSE "default")
  BY <1>3
<1> DEFINE p == "persist" \in A
           d == debug \/ "debug" \in A
           b == IF "bus-name" \in A THEN "given" ELSE "default"
<1>5. [[exit |-> "no", persist |-> p, debug |-> d, bus_name |-> b] EXCEPT !.debug = TRUE]
      = [exit |-> "no", persist |-> p, debug |-> TRUE, bus_name |-> b]
  <2> HIDE DEF p, d, b
  <2> QED BY SetDebug, ZenonT(40)
<1> QED BY <1>1, <1>2, <1>4, <1>5, Zenon

(* The options of main mean the same in any order.                         *)
Ends == {"help", "unknown"}

(* What is parsed depends on which options there are, not on their order.  *)
LEMMA OptionsParsed ==
  ASSUME NEW args \in Seq(Options), NEW debug \in BOOLEAN
  PROVE  LET state == FoldLeft(ParseOption, [exit |-> "no", persist |-> FALSE, debug |-> debug,
                                             bus_name |-> "default"], args)
         IN /\ state.exit = "no" <=> Ends \cap ToSet(args) = {}
            /\ state.exit = "no" =>
                 state = [exit |-> "no", persist |-> "persist" \in ToSet(args),
                          debug |-> debug \/ "debug" \in ToSet(args),
                          bus_name |-> IF "bus-name" \in ToSet(args) THEN "given" ELSE "default"]
<1> DEFINE n == Len(args)
           base == [exit |-> "no", persist |-> FALSE, debug |-> debug, bus_name |-> "default"]
           f == Parses!Trace(0, base, args)
           Given(k) == {args[i] : i \in 1..k}
           State(A) == [exit |-> "no", persist |-> "persist" \in A, debug |-> debug \/ "debug" \in A,
                        bus_name |-> IF "bus-name" \in A THEN "given" ELSE "default"]
           Kept(k) == /\ f[k].exit = "no" <=> Ends \cap Given(k) = {}
                      /\ f[k].exit = "no" => f[k] = State(Given(k))
           G == {k \in 0..n : Kept(k)}
<1>1. n \in Nat /\ DOMAIN args = 1..n
  OBVIOUS
<1>2. /\ f[0] = base /\ f[n] = FoldLeft(ParseOption, base, args)
      /\ \A k \in 1..n : f[k] = ParseOption(f[k - 1], args[k])
  <2>1. Parses!Fold(0, base, args) = FoldLeft(ParseOption, base, args)
    BY DEF Parses!Fold, FoldLeft, MapThenFoldSet, Parses!MapThenFoldSet, Max, Parses!Largest, OptionStep
  <2>2. Parses!IsTrace(f, 0, base, args)
    BY Parses!FoldTrace, Smallest
  <2> QED BY <2>1, <2>2 DEF Parses!IsTrace, OptionStep
<1> HIDE DEF f
<1>3. 0 \in G
  <2>1. Given(0) = {}
    OBVIOUS
  <2>2. base = State({})
    BY StartOfState, Zenon
  <2>3. base.exit = "no"
    OBVIOUS
  <2>4. f[0] = State(Given(0)) /\ f[0].exit = "no"
    BY <1>2, <2>1, <2>2, <2>3, Zenon
  <2> HIDE DEF base, State
  <2>5. Kept(0)
    BY <2>1, <2>4
  <2> QED BY <1>1, <2>5
<1>4. ASSUME NEW k \in 0..(n - 1), k \in G PROVE k + 1 \in G
  <2> DEFINE m == k + 1
             a == args[m]
  <2>1. m \in 1..n /\ m - 1 = k /\ m \in 0..n
    BY <1>1
  <2>2. f[m] = ParseOption(f[k], a)
    BY <1>2, <2>1
  <2>3. a \in Options
    BY <2>1
  <2>4. Given(m) = Given(k) \union {a}
    BY <1>1, <2>1
  <2>5. Kept(k)
    BY <1>4
  <2> HIDE DEF m, a, Given
  <2>6. CASE f[k].exit # "no"
    <3>1. f[m] = f[k] /\ Ends \cap Given(m) # {}
      BY <2>2, <2>4, <2>5, <2>6 DEF ParseOption
    <3> QED BY <2>1, <2>6, <3>1 DEF m
  <2>7. CASE f[k].exit = "no" /\ a \in Ends
    <3>1. f[k] = State(Given(k))
      BY <2>5, <2>7
    <3>2. f[m].exit # "no"
      BY <2>2, <2>7, <3>1 DEF ParseOption, Ends
    <3>3. Ends \cap Given(m) # {}
      BY <2>4, <2>7
    <3> QED BY <2>1, <3>2, <3>3
  <2>8. CASE f[k].exit = "no" /\ a \notin Ends
    <3>1. f[k] = State(Given(k)) /\ Ends \cap Given(k) = {}
      BY <2>5, <2>8
    <3>2. Ends \cap Given(m) = {}
      BY <2>4, <2>8, <3>1
    <3>3. f[m] = State(Given(m))
      <4>1. a \in {"persist", "debug", "bus-name"}
        BY <2>3, <2>8 DEF Options, Ends
      <4>2. CASE a = "persist"
        <5>1. f[m] = [State(Given(k)) EXCEPT !.persist = TRUE]
          BY <2>2, <3>1, <4>2 DEF ParseOption
        <5> QED BY <2>4, <4>2, <5>1
      <4>3. CASE a = "debug"
        <5>1. f[m] = [State(Given(k)) EXCEPT !.debug = TRUE]
          BY <2>2, <3>1, <4>3 DEF ParseOption
        <5>2. [State(Given(k)) EXCEPT !.debug = TRUE] = State(Given(k) \union {"debug"})
          BY DebugOfState, Zenon
        <5> QED BY <2>4, <4>3, <5>1, <5>2, Zenon
      <4>4. CASE a = "bus-name"
        <5>1. f[m] = [State(Given(k)) EXCEPT !.bus_name = "given"]
          BY <2>2, <3>1, <4>4 DEF ParseOption
        <5> QED BY <2>4, <4>4, <5>1
      <4> QED BY <4>1, <4>2, <4>3, <4>4
    <3>4. f[m].exit = "no"
      BY <3>3
    <3> QED BY <2>1, <3>2, <3>3, <3>4
  <2> QED BY <2>6, <2>7, <2>8 DEF m
<1>5. \A k \in 0..n : k \in G
  <2> HIDE DEF G, n
  <2> QED BY <1>1, <1>3, <1>4, Counting
<1>6. Given(n) = ToSet(args)
  BY <1>1 DEF ToSet
<1> QED BY <1>1, <1>2, <1>5, <1>6

(* A reversed list has the same options.                                   *)
LEMMA SameOptions ==
  ASSUME NEW args \in Seq(Options)
  PROVE  Reverse(args) \in Seq(Options) /\ ToSet(Reverse(args)) = ToSet(args)
<1>1. /\ Reverse(args) \in Seq(Options) /\ DOMAIN Reverse(args) = 1..Len(args) /\ DOMAIN args = 1..Len(args)
      /\ Len(args) \in Nat /\ \A i \in 1..Len(args) : Reverse(args)[i] = args[Len(args) - i + 1]
  BY Reversed
<1>2. \A i \in 1..Len(args) : Len(args) - i + 1 \in 1..Len(args) /\ Len(args) - (Len(args) - i + 1) + 1 = i
  BY <1>1
<1>3. ToSet(Reverse(args)) \subseteq ToSet(args)
  BY <1>1, <1>2 DEF ToSet
<1>4. ASSUME NEW i \in 1..Len(args) PROVE args[i] \in ToSet(Reverse(args))
  <2>1. args[i] = Reverse(args)[Len(args) - i + 1] /\ Len(args) - i + 1 \in DOMAIN Reverse(args)
    BY <1>1, <1>2
  <2> QED BY <2>1 DEF ToSet
<1>5. ToSet(args) \subseteq ToSet(Reverse(args))
  BY <1>1, <1>4 DEF ToSet
<1> QED BY <1>1, <1>3, <1>5

(* A list with debug in front has that option besides.                     *)
LEMMA DebugIsAdded ==
  ASSUME NEW args \in Seq(Options)
  PROVE  <<"debug">> \o args \in Seq(Options) /\ ToSet(<<"debug">> \o args) = ToSet(args) \union {"debug"}
<1> DEFINE both == <<"debug">> \o args
<1>1. <<"debug">> \in Seq(Options) /\ Len(<<"debug">>) = 1 /\ <<"debug">>[1] = "debug"
  BY DEF Options
<1>2. /\ both \in Seq(Options) /\ Len(both) = 1 + Len(args)
      /\ \A i \in 1..(1 + Len(args)) : both[i] = IF i <= 1 THEN <<"debug">>[i] ELSE args[i - 1]
  BY <1>1, ConcatProperties
<1> HIDE DEF both
<1>3. Len(args) \in Nat /\ DOMAIN args = 1..Len(args) /\ DOMAIN both = 1..(1 + Len(args))
  BY <1>2
<1>4. both[1] = "debug" /\ 1 \in DOMAIN both
  BY <1>1, <1>2, <1>3
<1>5. \A i \in 1..Len(args) : both[i + 1] = args[i] /\ i + 1 \in DOMAIN both
  BY <1>2, <1>3
<1>6. ToSet(both) \subseteq ToSet(args) \union {"debug"}
  <2>1. ASSUME NEW i \in DOMAIN both PROVE both[i] \in ToSet(args) \union {"debug"}
    <3>1. CASE i = 1
      BY <1>4, <3>1
    <3>2. CASE i # 1
      <4>1. i - 1 \in DOMAIN args /\ both[i] = args[i - 1]
        BY <1>2, <1>3, <3>2
      <4> QED BY <4>1 DEF ToSet
    <3> QED BY <3>1, <3>2
  <2> QED BY <2>1 DEF ToSet
<1>7. ToSet(args) \union {"debug"} \subseteq ToSet(both)
  BY <1>3, <1>4, <1>5 DEF ToSet
<1> QED BY <1>2, <1>6, <1>7 DEF both

(* A service started with options is what the same options make of it in   *)
(* any order, and it starts unless an option ends it or there is no name   *)
(* for it.                                                                 *)
THEOREM StartedInAnyOrder ==
  ASSUME NEW args \in Seq(Options), NEW debug \in BOOLEAN, NEW level, NEW syslog, NEW named \in BOOLEAN
  PROVE  LET r == StartedAs(args, debug, level, syslog, named)
         IN /\ r.exit = "no" => r = StartedAs(Reverse(args), debug, level, syslog, named)
            /\ r.exit = "no" <=> named /\ {"help", "unknown"} \cap ToSet(args) = {}
<1> DEFINE Parsed(a, d) == FoldLeft(ParseOption, [exit |-> "no", persist |-> FALSE, debug |-> d,
                                                  bus_name |-> "default"], a)
           Made(s) == [exit       |-> IF s.exit = "no" /\ ~named THEN "failure" ELSE s.exit,
                       quits      |-> ~s.persist,
                       bus_name   |-> s.bus_name,
                       watch_peer |-> ~s.debug,
                       levels     |-> LogLevels(level, syslog, s.debug)]
           Anew(a, d) == StartedAs(a, d, level, syslog, named)
           State(a, d) == [exit |-> "no", persist |-> "persist" \in ToSet(a),
                           debug |-> d \/ "debug" \in ToSet(a),
                           bus_name |-> IF "bus-name" \in ToSet(a) THEN "given" ELSE "default"]
<1>1. \A a, d : Anew(a, d) = Made(Parsed(a, d))
  BY DEF StartedAs
<1>2. ASSUME NEW a \in Seq(Options), NEW d \in BOOLEAN
      PROVE  /\ Parsed(a, d).exit = "no" <=> Ends \cap ToSet(a) = {}
             /\ Parsed(a, d).exit = "no" => Parsed(a, d) = State(a, d)
  BY OptionsParsed
<1>3. \A s : Made(s).exit = IF s.exit = "no" /\ ~named THEN "failure" ELSE s.exit
  OBVIOUS
<1> DEFINE r == Anew(args, debug)
<1> HIDE DEF Parsed, Made, Anew
<1>4. r.exit = "no" <=> named /\ Parsed(args, debug).exit = "no"
  <2>1. r.exit = IF Parsed(args, debug).exit = "no" /\ ~named THEN "failure" ELSE Parsed(args, debug).exit
    BY <1>1, <1>3
  <2> QED BY <2>1
<1>5. ASSUME r.exit = "no" PROVE r = Anew(Reverse(args), debug)
  <2>1. Ends \cap ToSet(args) = {}
    BY <1>2, <1>4, <1>5
  <2>2. Parsed(args, debug) = State(args, debug) /\ Parsed(Reverse(args), debug) = State(Reverse(args), debug)
    BY <1>2, <2>1, SameOptions
  <2> QED BY <1>1, <2>2, SameOptions
<1>6. r.exit = "no" <=> named /\ {"help", "unknown"} \cap ToSet(args) = {}
  BY <1>2, <1>4 DEF Ends
<1> QED BY <1>5, <1>6 DEF Anew

(* To debug the service, the option does what the variable does.           *)
THEOREM DebuggedAlike ==
  ASSUME NEW args \in Seq(Options), NEW level, NEW syslog, NEW named \in BOOLEAN,
         StartedAs(args, FALSE, level, syslog, named).exit = "no"
  PROVE  StartedAs(args, TRUE, level, syslog, named) = StartedAs(<<"debug">> \o args, FALSE, level, syslog, named)
<1> DEFINE Parsed(a, d) == FoldLeft(ParseOption, [exit |-> "no", persist |-> FALSE, debug |-> d,
                                                  bus_name |-> "default"], a)
           Made(s) == [exit       |-> IF s.exit = "no" /\ ~named THEN "failure" ELSE s.exit,
                       quits      |-> ~s.persist,
                       bus_name   |-> s.bus_name,
                       watch_peer |-> ~s.debug,
                       levels     |-> LogLevels(level, syslog, s.debug)]
           Anew(a, d) == StartedAs(a, d, level, syslog, named)
           State(a, d) == [exit |-> "no", persist |-> "persist" \in ToSet(a),
                           debug |-> d \/ "debug" \in ToSet(a),
                           bus_name |-> IF "bus-name" \in ToSet(a) THEN "given" ELSE "default"]
<1>1. \A a, d : Anew(a, d) = Made(Parsed(a, d))
  BY DEF StartedAs
<1>2. ASSUME NEW a \in Seq(Options), NEW d \in BOOLEAN
      PROVE  /\ Parsed(a, d).exit = "no" <=> Ends \cap ToSet(a) = {}
             /\ Parsed(a, d).exit = "no" => Parsed(a, d) = State(a, d)
  BY OptionsParsed
<1>3. \A s : Made(s).exit = IF s.exit = "no" /\ ~named THEN "failure" ELSE s.exit
  OBVIOUS
<1> DEFINE more == <<"debug">> \o args
<1>4. more \in Seq(Options) /\ ToSet(more) = ToSet(args) \union {"debug"}
  BY DebugIsAdded
<1>5. Ends \cap ToSet(args) = {}
  <2>1. {"help", "unknown"} \cap ToSet(args) = {}
    BY StartedInAnyOrder
  <2> QED BY <2>1 DEF Ends
<1> HIDE DEF Parsed, Made, Anew, more
<1>6. Ends \cap ToSet(more) = {}
  BY <1>4, <1>5 DEF Ends
<1>7. Parsed(args, TRUE) = State(args, TRUE) /\ Parsed(more, FALSE) = State(more, FALSE)
  BY <1>2, <1>4, <1>5, <1>6
<1>8. State(args, TRUE) = State(more, FALSE)
  BY <1>4
<1>9. Anew(args, TRUE) = Anew(more, FALSE)
  BY <1>1, <1>7, <1>8
<1> QED BY <1>9 DEF Anew, more

-----------------------------------------------------------------------------
(* Strictness of what is read as a number or a truth value, in every state. *)
THEOREM NumbersStayStrict == Spec => []NumbersAreStrict
<1>1. Init => NumbersAreStrict
  BY DEF Init, Idle, NumbersAreStrict
<1>2. ASSUME NumbersAreStrict, [Next]_vars PROVE NumbersAreStrict'
  <2>1. CASE UNCHANGED vars
    <3>1. call' = call /\ result' = result
      BY <2>1 DEF vars
    <3> QED BY <1>2, <3>1, Zenon DEF NumbersAreStrict
  <2>2. CASE call' = Idle
    BY <2>2 DEF Idle, NumbersAreStrict
  <2>3. CASE call' \in Inputs /\ IsAnswer(call', result')
    <3> DEFINE i == call'
               r == result'
    <3>1. ASSUME i.op = "number"
          PROVE  LET numbers == {n \in Spelled(i.str) : i.range[1] <= n /\ n <= i.range[2]} IN
                 IF numbers = {} THEN r.errno # "0" /\ r.value = 1
                 ELSE r.errno = "0" /\ numbers = {r.value}
      <4>1. i.str \in TextOrNot /\ i.range[1] \in Int64 /\ i.range[2] \in Int64
        BY <2>3, <3>1, InputsAssumption, ZenonT(40)
      <4>2. r = AsciiStrToInt64(i.str, i.range[1], i.range[2], 1)
        BY <2>3, <3>1 DEF IsAnswer
      <4> QED BY <4>1, <4>2, NumberIsWhatIsSpelled
    <3>2. ASSUME i.op = "bool"
          PROVE  r = IF Says(i.str, TrueWords) THEN 1 ELSE IF Says(i.str, FalseWords) THEN 0 ELSE i.default
      <4>1. i.str \in TextOrNot
        BY <2>3, <3>2, InputsAssumption
      <4>2. r = AsciiStrToBool(i.str, i.default)
        BY <2>3, <3>2 DEF IsAnswer
      <4> QED BY <4>1, <4>2, TruthIsWhatIsSaid
    <3>3. ASSUME i.op = "levels"
          PROVE  /\ Spelled(i.level) \cap 0..7 = {} => r = LogLevels(Null, i.syslog, i.debug)
                 /\ LOG_WARNING \notin Logged(r) => Spelled(i.level) \cap 0..3 # {}
                 /\ r.log_syslog \in {0, 1}
      <4>1. i.level \in TextOrNot /\ i.syslog \in TextOrNot /\ i.debug \in BOOLEAN
        BY <2>3, <3>3, InputsAssumption, ZenonT(30)
      <4>2. r = LogLevels(i.level, i.syslog, i.debug)
        BY <2>3, <3>3 DEF IsAnswer
      <4> QED BY <4>1, <4>2, LevelsAreRead
    <3>4. ASSUME i.op = "start_as"
          PROVE  LET Anew(args, debug) == StartedAs(args, debug, i.level, i.syslog, i.named) IN
                 /\ r.exit = "no" =>
                      /\ r = Anew(Reverse(i.args), i.debug)
                      /\ ~i.debug => Anew(i.args, TRUE) = Anew(<<"debug">> \o i.args, FALSE)
                 /\ r.exit = "no" <=> i.named /\ {"help", "unknown"} \cap ToSet(i.args) = {}
      <4>1. i.args \in Seq(Options) /\ i.debug \in BOOLEAN /\ i.named \in BOOLEAN
        BY <2>3, <3>4, InputsAssumption, ZenonT(30)
      <4>2. r = StartedAs(i.args, i.debug, i.level, i.syslog, i.named)
        BY <2>3, <3>4 DEF IsAnswer
      <4> HIDE DEF i, r
      <4>3. /\ r.exit = "no" => r = StartedAs(Reverse(i.args), i.debug, i.level, i.syslog, i.named)
            /\ r.exit = "no" <=> i.named /\ {"help", "unknown"} \cap ToSet(i.args) = {}
        BY <4>1, <4>2, StartedInAnyOrder
      <4>4. ASSUME r.exit = "no", ~i.debug
            PROVE  StartedAs(i.args, TRUE, i.level, i.syslog, i.named)
                     = StartedAs(<<"debug">> \o i.args, FALSE, i.level, i.syslog, i.named)
        <5>1. i.debug = FALSE
          BY <4>1, <4>4
        <5>2. StartedAs(i.args, FALSE, i.level, i.syslog, i.named).exit = "no"
          BY <4>2, <4>4, <5>1, Zenon
        <5> QED BY <4>1, <5>2, DebuggedAlike
      <4> QED BY <4>3, <4>4, Zenon
    <3> HIDE DEF i, r
    <3>5. NumbersAreStrict'
      BY <3>1, <3>2, <3>3, <3>4, Zenon DEF NumbersAreStrict, i, r, Says
    <3> QED BY <3>5
  <2> QED BY <1>2, <2>1, <2>2, <2>3, CallsAreAnswered
<1> QED BY <1>1, <1>2, PTL DEF Spec

-----------------------------------------------------------------------------
(* A prefix length is taken if it spells a number of bits of the family.   *)
LEMMA PrefixFits ==
  ASSUME NEW t, t.prefix \in Text, t.slash, NEW f \in {AF_INET, AF_INET6}
  PROVE  /\ PrefixOf(f, t) # -1 <=> Spelled(t.prefix) \cap 0..(8 * AddrFamilyToSize(f)) # {}
         /\ PrefixOf(f, t) # -1 => PrefixOf(f, t) \in Spelled(t.prefix)
<1> DEFINE most == 8 * AddrFamilyToSize(f)
           r == AsciiStrToInt64(t.prefix, 0, most, -1)
<1>1. most \in {32, 128}
  BY DEF AddrFamilyToSize, AF_INET, AF_INET6
<1>2. PrefixOf(f, t) = r.value
  BY DEF PrefixOf
<1> HIDE DEF most
<1>3. /\ r.errno = "0" => r.value \in Int /\ 0 <= r.value /\ r.value <= most /\ Spelled(t.prefix) = {r.value}
      /\ r.errno # "0" => r.value = -1
      /\ r.errno # "0" => \A v \in Spelled(t.prefix) :
           v \in Int /\ (v < -MaxInt64 - 1 \/ v > MaxInt64 \/ v < 0 \/ v > most)
  BY <1>1, ReadIsSpelled DEF TextOrNot
<1> HIDE DEF r
<1>4. CASE r.errno = "0"
  <2>1. r.value # -1 /\ r.value \in 0..most /\ r.value \in Spelled(t.prefix)
    BY <1>1, <1>3, <1>4
  <2> QED BY <1>2, <2>1 DEF most
<1>5. CASE r.errno # "0"
  <2>1. \A v \in Spelled(t.prefix) : v \notin 0..most
    BY <1>1, <1>3, <1>5, WidthAssumption
  <2> QED BY <1>2, <1>3, <1>5, <2>1 DEF most
<1> QED BY <1>4, <1>5

(* There is no colon in a text that spells a number. *)
LEMMA NumbersHaveNoColon ==
  ASSUME NEW str \in Text, Spelled(str) # {}
  PROVE  Colon \notin ToSet(str)
<1>1. PICK p \in DOMAIN str, q \in DOMAIN str : IsNumeral(str, p, q)
  BY SpelledIsValue
<1> SUFFICES ASSUME NEW i \in DOMAIN str, str[i] = Colon PROVE FALSE
  BY DEF ToSet
<1>2. Len(str) \in Nat /\ DOMAIN str = 1..Len(str)
  BY DEF Text
<1>3. 58 \notin Digits /\ 58 \notin Spaces
  BY DEF Digits, Spaces
<1>4. i \in p..q /\ i \notin Begin(str, p)..q
  BY <1>1, <1>3 DEF IsNumeral, Colon
<1>5. Begin(str, p) = (IF str[p] \in {43, 45} THEN p + 1 ELSE p)
  BY DEF Begin, Signed
<1>6. i = p /\ str[p] \in {43, 45}
  BY <1>1, <1>2, <1>4, <1>5
<1> QED BY <1>6 DEF Colon

(* An address with a prefix length, for every text that inet_pton may be   *)
(* given and every text behind the slash.                                  *)
THEOREM AddressIsWhole ==
  ASSUME NEW family \in Families, NEW t, t.prefix \in Text, t \in AddressTexts({t.prefix})
  PROVE  LET Fits(f) == t.addr = f /\ (t.slash => Spelled(t.prefix) \cap 0..(8 * AddrFamilyToSize(f)) # {})
             families == {AF_INET, AF_INET6} \cap (IF family = AF_UNSPEC THEN Families ELSE {family})
             whole  == ParseInaddr(family, t)
             prefix == ParseInaddrPrefix(family, t)
         IN /\ prefix.ok <=> \E f \in families : Fits(f)
            /\ whole.ok <=> prefix.ok /\ ~t.slash
            /\ prefix.ok /\ t.slash => prefix.prefix \in Spelled(t.prefix)
            /\ prefix.ok /\ family # AF_UNSPEC => prefix.addr = t.addr
            /\ ~prefix.ok => prefix.addr = Untouched /\ prefix.prefix = Untouched
            /\ family # AF_UNSPEC => (AddrToGvariant(family, t) <=> whole.ok)
            /\ ~whole.ok => whole.addr = Untouched
<1> DEFINE Fits(f) == t.addr = f /\ (t.slash => Spelled(t.prefix) \cap 0..(8 * AddrFamilyToSize(f)) # {})
           families == {AF_INET, AF_INET6} \cap (IF family = AF_UNSPEC THEN Families ELSE {family})
           whole  == ParseInaddr(family, t)
           prefix == ParseInaddrPrefix(family, t)
           g   == FamilyOf(family, t)
           ok  == Read(g, t) /\ (t.slash => PrefixOf(g, t) # -1)
<1>1. /\ t.addr \in {AF_INET, AF_INET6, "junk"} /\ t.colon \in BOOLEAN /\ t.slash \in BOOLEAN
      /\ t.addr = AF_INET => ~t.colon
      /\ t.addr = AF_INET6 => t.colon
      /\ ~t.slash => t.prefix = <<>>
  BY DEF AddressTexts
<1>2. /\ prefix.ok <=> ok
      /\ ok => prefix.prefix = PrefixOf(g, t) /\ prefix.addr = Ntop(family, t.addr)
      /\ ~ok => prefix.addr = Untouched /\ prefix.prefix = Untouched
  <2>1. ParseInaddrPrefixBin(family, t) =
          IF ok THEN [ok |-> TRUE, addr |-> t.addr, prefix |-> PrefixOf(g, t)]
          ELSE [ok |-> FALSE, addr |-> Untouched, prefix |-> Untouched]
    BY DEF ParseInaddrPrefixBin
  <2> HIDE DEF ok, g
  <2> QED BY <2>1 DEF ParseInaddrPrefix
<1>3. /\ whole.ok <=> ~t.slash /\ Read(g, t)
      /\ ~whole.ok => whole.addr = Untouched
  <2> DEFINE read == ~t.slash /\ Read(g, t)
  <2>1. ParseInaddrBin(family, t) = [ok |-> read, addr |-> IF read THEN t.addr ELSE Untouched]
    BY DEF ParseInaddrBin
  <2>2. CASE read
    <3>1. ParseInaddrBin(family, t) = [ok |-> TRUE, addr |-> t.addr]
      BY <2>1, <2>2
    <3> HIDE DEF read
    <3>2. whole.ok = TRUE
      BY <3>1 DEF ParseInaddr
    <3> QED BY <2>2, <3>2 DEF read
  <2>3. CASE ~read
    <3>1. ParseInaddrBin(family, t) = [ok |-> FALSE, addr |-> Untouched]
      BY <2>1, <2>3
    <3> HIDE DEF read
    <3>2. whole = [ok |-> FALSE, addr |-> Untouched]
      BY <3>1 DEF ParseInaddr
    <3> HIDE DEF whole
    <3> QED BY <2>3, <3>2 DEF read
  <2> QED BY <2>2, <2>3
<1>4. t.slash /\ g \in {AF_INET, AF_INET6} =>
        /\ PrefixOf(g, t) # -1 <=> Spelled(t.prefix) \cap 0..(8 * AddrFamilyToSize(g)) # {}
        /\ PrefixOf(g, t) # -1 => PrefixOf(g, t) \in Spelled(t.prefix)
  BY PrefixFits
<1>5. Read(g, t) <=> g \in {AF_INET, AF_INET6} /\ t.addr = g
  BY DEF Read
<1>6. ASSUME NEW f \in families, Fits(f) PROVE g = f
  <2>1. CASE family # AF_UNSPEC
    BY <2>1 DEF FamilyOf
  <2>2. CASE family = AF_UNSPEC
    <3>1. Colon \notin ToSet(t.prefix)
      <4>1. CASE t.slash
        <5>1. Spelled(t.prefix) # {}
          BY <1>6, <4>1
        <5> QED BY <5>1, NumbersHaveNoColon
      <4>2. CASE ~t.slash
        BY <1>1, <4>2 DEF ToSet
      <4> QED BY <4>1, <4>2
    <3>2. t.addr = f /\ f \in {AF_INET, AF_INET6}
      BY <1>6
    <3> QED BY <1>1, <2>2, <3>1, <3>2 DEF FamilyOf
  <2> QED BY <2>1, <2>2
<1>7. g \in {AF_INET, AF_INET6} => g \in families
  BY DEF FamilyOf, Families
<1> HIDE DEF g, families, whole, prefix
<1>8. ok <=> \E f \in families : Fits(f)
  <2>1. ASSUME ok PROVE Fits(g) /\ g \in families
    BY <1>4, <1>5, <1>7, <2>1
  <2>2. ASSUME NEW f \in families, Fits(f) PROVE ok
    <3>1. g = f /\ f \in {AF_INET, AF_INET6}
      BY <1>6, <2>2 DEF families
    <3> QED BY <1>4, <1>5, <2>2, <3>1
  <2> HIDE DEF ok, Fits
  <2> QED BY <2>1, <2>2
<1>9. family # AF_UNSPEC => (AddrToGvariant(family, t) <=> whole.ok)
  BY <1>3 DEF AddrToGvariant, FamilyOf, g
<1>10. family # AF_UNSPEC => Ntop(family, t.addr) = t.addr
  BY DEF Ntop
<1>11. ok /\ t.slash => PrefixOf(g, t) \in Spelled(t.prefix)
  BY <1>4, <1>5
<1>12. Read(g, t) /\ ~t.slash <=> ok /\ ~t.slash
  OBVIOUS
<1> HIDE DEF ok, Fits
<1>13. /\ prefix.ok <=> \E f \in families : Fits(f)
       /\ whole.ok <=> prefix.ok /\ ~t.slash
  BY <1>2, <1>3, <1>8, <1>12
<1>14. prefix.ok /\ t.slash => prefix.prefix \in Spelled(t.prefix)
  BY <1>2, <1>11
<1>15. prefix.ok /\ family # AF_UNSPEC => prefix.addr = t.addr
  BY <1>2, <1>10
<1>16. ~prefix.ok => prefix.addr = Untouched /\ prefix.prefix = Untouched
  BY <1>2
<1> QED BY <1>3, <1>9, <1>13, <1>14, <1>15, <1>16 DEF Fits, families, whole, prefix

(* A netmask has as many ones as the prefix length says, the first ones.   *)
THEOREM NetmaskIsPrefix ==
  ASSUME NEW prefix \in Nat
  PROVE  /\ Cardinality(PrefixToNetmask(prefix)) = Min({prefix, 32})
         /\ \A b \in PrefixToNetmask(prefix) : 1..b \subseteq PrefixToNetmask(prefix)
<1> DEFINE n == IF prefix < 32 THEN prefix ELSE 32
<1>1. n \in Nat /\ Min({prefix, 32}) = n
  BY LeastOfTwo
<1>2. PrefixToNetmask(prefix) = 1..n
  <2>1. CASE prefix < 32
    <3>1. \A b \in 1..32 : b \in ShiftRight(Bits, prefix) <=> prefix < b
      <4>1. ASSUME NEW b \in 1..32 PROVE b \in ShiftRight(Bits, prefix) <=> prefix < b
        <5>1. ASSUME prefix < b PROVE b - prefix \in 1..32 /\ (b - prefix) + prefix = b
          BY <5>1
        <5>2. ASSUME NEW c \in 1..32, b = c + prefix PROVE prefix < b
          BY <5>2
        <5> QED BY <5>1, <5>2 DEF ShiftRight, Bits
      <4> QED BY <4>1
    <3>2. \A b : b \in Bits \ ShiftRight(Bits, prefix) <=> b \in 1..32 /\ ~(prefix < b)
      BY <3>1 DEF Bits
    <3>3. \A b : b \in 1..32 /\ ~(prefix < b) <=> b \in 1..prefix
      BY <2>1
    <3> QED BY <2>1, <3>2, <3>3 DEF PrefixToNetmask
  <2>2. CASE ~(prefix < 32)
    BY <2>2 DEF PrefixToNetmask, Bits
  <2> QED BY <2>1, <2>2
<1> HIDE DEF n
<1>3. Cardinality(1..n) = n
  BY <1>1, FS_Interval
<1>4. \A b \in 1..n : 1..b \subseteq 1..n
  BY <1>1
<1> QED BY <1>1, <1>2, <1>3, <1>4

(* What is private in a network of class A is the whole network.           *)
LEMMA PrivateNetworks ==
  ASSUME NEW a \in 0..255, NEW b \in 0..255, NEW x \in 0..255, DefaultPrefix(<<a, b>>) = 8
  PROVE  IpIsSiteLocal(AF_INET, <<a, x>>) = IpIsSiteLocal(AF_INET, <<a, b>>)
<1>1. a <= 127
  BY DEF DefaultPrefix
<1>2. ASSUME NEW y PROVE IpIsSiteLocal(AF_INET, <<a, y>>) <=> a = 10
  <2> DEFINE ip == <<a, y>>
             private == \/ ip[1] = 10
                        \/ ip[1] = 172 /\ ip[2] \div 16 = 1
                        \/ ip[1] = 192 /\ ip[2] = 168
  <2>1. IpIsSiteLocal(AF_INET, ip) = private
    <3> HIDE DEF ip
    <3> QED BY SMT DEF IpIsSiteLocal, AF_INET, AF_INET6
  <2>2. private <=> a = 10
    <3>1. ip[1] = a
      OBVIOUS
    <3> HIDE DEF ip
    <3> QED BY <1>1, <3>1
  <2> HIDE DEF private
  <2> QED BY <2>1, <2>2, Zenon
<1>3. ASSUME NEW y PROVE IpIsSiteLocal(AF_INET, <<a, y>>) \in BOOLEAN
  BY DEF IpIsSiteLocal
<1>4. IpIsSiteLocal(AF_INET, <<a, x>>) <=> IpIsSiteLocal(AF_INET, <<a, b>>)
  BY <1>2
<1> QED BY <1>3, <1>4

(* Addresses, netmasks and networks, in every state.                       *)
THEOREM AddressesStayWhole == Spec => []AddressesAreWhole
<1>1. Init => AddressesAreWhole
  BY DEF Init, Idle, AddressesAreWhole
<1>2. ASSUME AddressesAreWhole, [Next]_vars PROVE AddressesAreWhole'
  <2>1. CASE UNCHANGED vars
    <3>1. call' = call /\ result' = result
      BY <2>1 DEF vars
    <3> QED BY <1>2, <3>1, ZenonT(60) DEF AddressesAreWhole
  <2>2. CASE call' = Idle
    BY <2>2 DEF Idle, AddressesAreWhole
  <2>3. CASE call' \in Inputs /\ IsAnswer(call', result')
    <3> DEFINE i == call'
               r == result'
               t == i.text
               Fits(f) == t.addr = f /\ (t.slash => Spelled(t.prefix) \cap 0..(8 * AddrFamilyToSize(f)) # {})
               families == {AF_INET, AF_INET6} \cap (IF i.family = AF_UNSPEC THEN Families ELSE {i.family})
    <3>1. ASSUME i.op = "address"
          PROVE  /\ r.prefix.ok <=> \E f \in families : Fits(f)
                 /\ r.whole.ok <=> r.prefix.ok /\ ~t.slash
                 /\ r.prefix.ok /\ t.slash => r.prefix.prefix \in Spelled(t.prefix)
                 /\ r.prefix.ok /\ i.family # AF_UNSPEC => r.prefix.addr = t.addr
                 /\ ~r.prefix.ok => r.prefix.addr = Untouched /\ r.prefix.prefix = Untouched
                 /\ i.family # AF_UNSPEC => (r.sent <=> r.whole.ok)
                 /\ ~r.whole.ok => r.whole.addr = Untouched
      <4>1. i.family \in Families /\ t.prefix \in Text /\ t \in AddressTexts({t.prefix})
        BY <2>3, <3>1, InputsAssumption
      <4>2. /\ r.whole = ParseInaddr(i.family, t) /\ r.prefix = ParseInaddrPrefix(i.family, t)
            /\ r.sent <=> AddrToGvariant(i.family, t)
        BY <2>3, <3>1 DEF IsAnswer
      <4> HIDE DEF r, i
      <4> QED BY <4>1, <4>2, AddressIsWhole
    <3>2. ASSUME i.op = "netmask"
          PROVE  /\ Cardinality(r) = Min({i.prefix, 32})
                 /\ \A b \in r : 1..b \subseteq r
      <4>1. i.prefix \in Nat /\ r = PrefixToNetmask(i.prefix)
        BY <2>3, <3>2, InputsAssumption DEF IsAnswer
      <4> QED BY <4>1, NetmaskIsPrefix
    <3>3. ASSUME i.op = "class"
          PROVE  \A x \in 0..255 : r.prefix = 8 => IpIsSiteLocal(AF_INET, <<i.ip[1], x>>) = r.private
      <4>1. i.ip \in (0..255) \X (0..255)
        BY <2>3, <3>3, InputsAssumption, ZenonT(30)
      <4>2. PICK a \in 0..255, b \in 0..255 : i.ip = <<a, b>>
        <5> HIDE DEF i
        <5>1. i.ip = <<i.ip[1], i.ip[2]>> /\ i.ip[1] \in 0..255 /\ i.ip[2] \in 0..255
          BY <4>1
        <5> QED BY <5>1, Zenon
      <4>3. r = [prefix |-> DefaultPrefix(i.ip), private |-> IpIsSiteLocal(AF_INET, i.ip)]
        BY <2>3, <3>3 DEF IsAnswer
      <4> HIDE DEF r, i
      <4>4. r.prefix = DefaultPrefix(<<a, b>>) /\ r.private = IpIsSiteLocal(AF_INET, <<a, b>>)
        BY <4>2, <4>3, Zenon
      <4>5. i.ip[1] = a
        BY <4>2
      <4>6. ASSUME NEW x \in 0..255, r.prefix = 8 PROVE IpIsSiteLocal(AF_INET, <<a, x>>) = r.private
        <5>1. DefaultPrefix(<<a, b>>) = 8
          BY <4>4, <4>6
        <5>2. IpIsSiteLocal(AF_INET, <<a, x>>) = IpIsSiteLocal(AF_INET, <<a, b>>)
          BY <5>1, PrivateNetworks, ZenonT(30)
        <5> QED BY <4>4, <5>2, ZenonT(40)
      <4> QED BY <4>5, <4>6
    <3> HIDE DEF i, r
    <3>4. AddressesAreWhole'
      BY <3>1, <3>2, <3>3, Zenon DEF AddressesAreWhole, i, r
    <3> QED BY <3>4
  <2> QED BY <1>2, <2>1, <2>2, <2>3, CallsAreAnswered
<1> QED BY <1>1, <1>2, PTL DEF Spec

-----------------------------------------------------------------------------
(* A buffer: what is written, and the room that is left, together give the *)
(* size it has; once a text was cut all places but the last are taken.     *)
IsBuffer(b, size) ==
  /\ b \in [text : Text, len : Nat]
  /\ b.len > 0 => Len(b.text) + b.len = size
  /\ b.len = 0 /\ size > 0 => Len(b.text) = size - 1
  /\ b.len = 0 /\ size = 0 => b.text = <<>>

(* The beginning of a text.                                                *)
LEMMA CutText ==
  ASSUME NEW s \in Text, NEW n \in 0..Len(s)
  PROVE  /\ SubSeq(s, 1, n) \in Text /\ Len(SubSeq(s, 1, n)) = n
         /\ \A i \in 1..n : SubSeq(s, 1, n)[i] = s[i]
<1>1. s \in Seq(1..255) /\ Len(s) \in Nat /\ n \in Int
  BY DEF Text
<1>2. ASSUME NEW i \in 1..n PROVE s[i] \in 1..255
  <2>1. i \in 1..Len(s)
    BY <1>1
  <2> QED BY <1>1, <2>1, ElementOfSeq
<1>3. /\ SubSeq(s, 1, n) \in Seq(1..255)
      /\ Len(SubSeq(s, 1, n)) = IF 1 <= n THEN n - 1 + 1 ELSE 0
      /\ \A i \in 1..(n - 1 + 1) : SubSeq(s, 1, n)[i] = s[1 + i - 1]
  BY <1>1, <1>2, SubSeqProperties
<1> QED BY <1>1, <1>3 DEF Text

(* Two texts, one behind the other.                                        *)
LEMMA JoinedText ==
  ASSUME NEW s \in Text, NEW t \in Text
  PROVE  /\ s \o t \in Text /\ Len(s \o t) = Len(s) + Len(t)
         /\ \A i \in 1..Len(s) : (s \o t)[i] = s[i]
         /\ \A i \in 1..Len(t) : (s \o t)[Len(s) + i] = t[i]
BY DEF Text

(* Nothing is written beyond the end of a buffer, and the end of the text  *)
(* always has its place: nm_utils_strbuf_append*, whatever is appended.    *)
THEOREM AppendStaysInside ==
  ASSUME NEW size \in Nat, NEW b, IsBuffer(b, size), NEW s \in Text
  PROVE  /\ IsBuffer(Written(b, s), size)
         /\ size > 0 => Len(Written(b, s).text) < size
         /\ \A i \in 1..Len(b.text) : Written(b, s).text[i] = b.text[i]
<1>1. b.text \in Text /\ b.len \in Nat
  BY DEF IsBuffer
<1>2. Len(s) \in Nat /\ Len(b.text) \in Nat
  BY <1>1 DEF Text
<1>3. CASE Len(s) < b.len
  <2>1. Written(b, s).text = b.text \o s /\ Written(b, s).len = b.len - Len(s)
        /\ Written(b, s) = [text |-> b.text \o s, len |-> b.len - Len(s)]
    BY <1>3 DEF Written
  <2>2. b.text \o s \in Text /\ Len(b.text \o s) = Len(b.text) + Len(s)
        /\ \A i \in 1..Len(b.text) : (b.text \o s)[i] = b.text[i]
    BY <1>1, JoinedText
  <2>3. b.len - Len(s) \in Nat /\ b.len - Len(s) > 0 /\ Len(b.text) + b.len = size
    BY <1>1, <1>2, <1>3 DEF IsBuffer
  <2> DEFINE w == Written(b, s)
             full == b.text \o s
             left == b.len - Len(s)
  <2>4. /\ w \in [text : Text, len : Nat] /\ w.len > 0
        /\ Len(w.text) + w.len = size /\ Len(w.text) < size
    <3>1. w = [text |-> full, len |-> left]
      BY <2>1
    <3>2. full \in Text /\ left \in Nat /\ left > 0
      BY <2>2, <2>3
    <3>3. Len(full) + left = size /\ Len(full) < size
      BY <1>1, <1>2, <2>2, <2>3, SMTT(40)
    <3> HIDE DEF w, full, left
    <3> QED BY <3>1, <3>2, <3>3
  <2>5. IsBuffer(w, size)
    <3> HIDE DEF w
    <3> QED BY <2>4 DEF IsBuffer
  <2> QED BY <2>1, <2>2, <2>4, <2>5
<1>4. CASE ~(Len(s) < b.len) /\ b.len > 0
  <2> DEFINE cut == SubSeq(s, 1, b.len - 1)
  <2>0. b.len - 1 \in 0..Len(s)
    BY <1>1, <1>2, <1>4
  <2>1. cut \in Text /\ Len(cut) = b.len - 1
    BY <2>0, CutText, ZenonT(40)
  <2>2. Written(b, s) = [text |-> b.text \o cut, len |-> 0]
    BY <1>4 DEF Written
  <2> HIDE DEF cut
  <2>3. b.text \o cut \in Text /\ Len(b.text \o cut) = Len(b.text) + b.len - 1
        /\ \A i \in 1..Len(b.text) : (b.text \o cut)[i] = b.text[i]
    BY <1>1, <1>2, <2>1, JoinedText, ZenonT(30)
  <2>4. Len(b.text) + b.len = size
    BY <1>4 DEF IsBuffer
  <2> DEFINE w == Written(b, s)
             full == b.text \o cut
  <2>5. /\ w \in [text : Text, len : Nat] /\ w.len = 0 /\ size > 0
        /\ Len(w.text) = size - 1 /\ w.text = full
    <3>1. w = [text |-> full, len |-> 0]
      BY <2>2
    <3>2. full \in Text /\ Len(full) = size - 1 /\ size > 0
      BY <1>1, <1>2, <1>4, <2>3, <2>4
    <3> HIDE DEF w, full
    <3> QED BY <3>1, <3>2
  <2>6. IsBuffer(w, size) /\ Len(w.text) < size
    <3> HIDE DEF w
    <3> QED BY <2>5 DEF IsBuffer
  <2> QED BY <2>3, <2>5, <2>6
<1>5. CASE b.len = 0
  <2>1. SubSeq(s, 1, b.len - 1) = <<>>
    BY <1>5, SubSeqEmpty
  <2>2. Written(b, s) = [text |-> b.text \o <<>>, len |-> 0]
    <3>1. ~(Len(s) < b.len)
      BY <1>2, <1>5
    <3> QED BY <2>1, <3>1 DEF Written
  <2>3. b.text \o <<>> = b.text
    BY <1>1 DEF Text
  <2> QED BY <1>1, <1>2, <1>5, <2>2, <2>3 DEF IsBuffer
<1> QED BY <1>1, <1>2, <1>3, <1>4, <1>5

(* nm_strquote with a buffer of a size, and nm_strquote_a that makes its   *)
(* buffer to fit, give the same text: of any text and at any size that has *)
(* room for the quotes, cut at the same place and marked alike.            *)
THEOREM QuotesAgree ==
  ASSUME NEW size \in Nat, size >= 3, NEW str \in Text, str # Null
  PROVE  Strquote(size, str) = StrquoteA(size - 3, str)
<1>1. Len(str) \in Nat
  BY DEF Text
<1> DEFINE b    == [text |-> <<Quote>>, len |-> size - 1]
           open == Written(b, str)
<1>2. Strquote(size, str) =
        IF open.len <= 1 THEN [open.text EXCEPT ![Len(open.text)] = Caret]
        ELSE Append(open.text, Quote)
  BY DEF Strquote, StrbufAppendStr
<1>3. CASE Len(str) <= size - 3
  <2>1. open.text = <<Quote>> \o str /\ open.len = size - 1 - Len(str)
    BY <1>1, <1>3 DEF Written
  <2>2. Min({Len(str), size - 3}) = Len(str)
    BY <1>1, <1>3, LeastOfTwo
  <2>3. StrquoteA(size - 3, str) = <<Quote>> \o SubSeq(str, 1, Len(str)) \o <<Quote>>
    <3>1. ~(Len(str) < Len(str))
      BY <1>1
    <3> QED BY <2>2, <3>1 DEF StrquoteA
  <2>4. SubSeq(str, 1, Len(str)) = str
    BY DEF Text
  <2>5. Append(<<Quote>> \o str, Quote) = <<Quote>> \o str \o <<Quote>>
    BY DEF Text, Quote
  <2>6. ~(open.len <= 1)
    BY <1>1, <1>3, <2>1
  <2> QED BY <1>2, <2>1, <2>3, <2>4, <2>5, <2>6
<1>4. CASE Len(str) > size - 3
  <2> DEFINE n == size - 3
  <2>1. /\ open.text = <<Quote>> \o SubSeq(str, 1, n + 1)
        /\ open.len <= 1
    <3>1. CASE Len(str) = n + 1
      <4>1. SubSeq(str, 1, n + 1) = str
        BY <3>1 DEF Text
      <4>2. open = [text |-> <<Quote>> \o str, len |-> size - 1 - Len(str)]
        BY <1>1, <3>1 DEF Written
      <4>3. size - 1 - Len(str) <= 1
        BY <1>1, <3>1
      <4>4. open.text = <<Quote>> \o str /\ open.len = size - 1 - Len(str)
        BY <4>2
      <4> QED BY <4>1, <4>3, <4>4
    <3>2. CASE Len(str) > n + 1
      <4>1. open = [text |-> <<Quote>> \o SubSeq(str, 1, size - 1 - 1), len |-> 0]
        BY <1>1, <3>2 DEF Written
      <4>2. size - 1 - 1 = n + 1
        OBVIOUS
      <4> QED BY <4>1, <4>2
    <3> QED BY <1>1, <1>4, <3>1, <3>2, SMTT(30)
  <2>2. Min({Len(str), n}) = n
    BY <1>1, <1>4, LeastOfTwo
  <2>3. StrquoteA(n, str) = <<Quote>> \o SubSeq(str, 1, n) \o <<Caret>>
    BY <1>1, <1>4, <2>2 DEF StrquoteA
  <2>4. n \in Nat /\ n + 1 <= Len(str)
    BY <1>1, <1>4
  <2> HIDE DEF n, open
  <2> DEFINE x == <<Quote>> \o SubSeq(str, 1, n + 1)
             y == <<Quote>> \o SubSeq(str, 1, n) \o <<Caret>>
  <2>5. /\ x \in Text /\ Len(x) = n + 2
        /\ x[1] = Quote /\ \A i \in 1..(n + 1) : x[i + 1] = str[i]
    <3>1. <<Quote>> \in Text /\ Len(<<Quote>>) = 1 /\ <<Quote>>[1] = Quote
      BY DEF Text, Quote
    <3>2. /\ SubSeq(str, 1, n + 1) \in Text /\ Len(SubSeq(str, 1, n + 1)) = n + 1
          /\ \A i \in 1..(n + 1) : SubSeq(str, 1, n + 1)[i] = str[i]
      BY <2>4, <1>1, CutText
    <3> QED BY <2>4, <3>1, <3>2, JoinedText
  <2>6. /\ y \in Text /\ Len(y) = n + 2 /\ y[n + 2] = Caret
        /\ y[1] = Quote /\ \A i \in 1..n : y[i + 1] = str[i]
    <3>1. /\ <<Quote>> \in Text /\ Len(<<Quote>>) = 1 /\ <<Quote>>[1] = Quote
          /\ <<Caret>> \in Text /\ Len(<<Caret>>) = 1 /\ <<Caret>>[1] = Caret
      BY DEF Text, Quote, Caret
    <3>2. /\ SubSeq(str, 1, n) \in Text /\ Len(SubSeq(str, 1, n)) = n
          /\ \A i \in 1..n : SubSeq(str, 1, n)[i] = str[i]
      BY <2>4, <1>1, CutText
    <3> DEFINE z == <<Quote>> \o SubSeq(str, 1, n)
    <3>3. /\ z \in Text /\ Len(z) = n + 1
          /\ z[1] = Quote /\ \A i \in 1..n : z[i + 1] = str[i]
      BY <2>4, <3>1, <3>2, JoinedText
    <3> HIDE DEF z
    <3>4. /\ z \o <<Caret>> \in Text /\ Len(z \o <<Caret>>) = n + 2
          /\ (z \o <<Caret>>)[n + 2] = Caret
          /\ \A i \in 1..(n + 1) : (z \o <<Caret>>)[i] = z[i]
      BY <2>4, <3>1, <3>3, JoinedText
    <3> QED BY <2>4, <3>3, <3>4 DEF z
  <2> HIDE DEF x, y
  <2>7. [x EXCEPT ![n + 2] = Caret] = y
    <3> DEFINE m == n + 2
    <3>0. m \in Nat /\ m \in 1..m /\ Caret \in 1..255
      BY <2>4 DEF Caret
    <3>1. x \in [1..m -> 1..255] /\ y \in [1..m -> 1..255]
      <4>1. \A t \in Text : t \in [1..Len(t) -> 1..255]
        BY LenProperties DEF Text
      <4>2. Len(x) = m /\ Len(y) = m
        BY <2>5, <2>6
      <4> HIDE DEF m
      <4>3. x \in [1..Len(x) -> 1..255] /\ y \in [1..Len(y) -> 1..255]
        BY <4>1, <2>5, <2>6
      <4> QED BY <4>2, <4>3
    <3>3. [x EXCEPT ![m] = Caret] \in [1..m -> 1..255]
      <4> HIDE DEF m
      <4> QED BY <3>0, <3>1
    <3>2. ASSUME NEW i \in 1..(n + 2) PROVE [x EXCEPT ![n + 2] = Caret][i] = y[i]
      <4>1. CASE i = n + 2
        BY <2>4, <2>5, <2>6, <4>1 DEF Text
      <4>2. CASE i = 1
        BY <2>4, <2>5, <2>6, <4>2 DEF Text
      <4>3. CASE i # 1 /\ i # n + 2
        <5>1. PICK k \in 1..n : i = k + 1
          BY <2>4, <4>3
        <5>2. [x EXCEPT ![n + 2] = Caret][i] = x[i]
          BY <3>1, <4>3
        <5>3. x[i] = str[k] /\ y[i] = str[k]
          BY <2>4, <2>5, <2>6, <5>1
        <5> QED BY <5>2, <5>3
      <4> QED BY <4>1, <4>2, <4>3
    <3> QED BY <3>1, <3>2, <3>3
  <2> QED BY <1>2, <2>1, <2>3, <2>5, <2>7 DEF x, y, n
<1> QED BY <1>1, <1>3, <1>4

-----------------------------------------------------------------------------
(* Texts s and t are the same up to a place where s ends or has the lower  *)
(* character.                                                              *)
SameStart(s, t, n) == n <= Len(s) /\ n <= Len(t) /\ \A k \in 1..n : s[k] = t[k]
LowerAt(s, t, n)   == SameStart(s, t, n) /\ n < Len(t) /\ (n < Len(s) => s[n + 1] < t[n + 1])

(* Beginnings of texts are the same if their characters are.               *)
LEMMA SameParts ==
  ASSUME NEW s \in Text, NEW t \in Text, NEW n \in Nat, n <= Len(s), n <= Len(t)
  PROVE  SubSeq(s, 1, n) = SubSeq(t, 1, n) <=> \A k \in 1..n : s[k] = t[k]
<1>1. n \in 0..Len(s) /\ n \in 0..Len(t)
  OBVIOUS
<1> DEFINE x == SubSeq(s, 1, n)
           y == SubSeq(t, 1, n)
<1>2. x \in Text /\ Len(x) = n /\ \A k \in 1..n : x[k] = s[k]
  BY <1>1, CutText
<1>3. y \in Text /\ Len(y) = n /\ \A k \in 1..n : y[k] = t[k]
  BY <1>1, CutText
<1> HIDE DEF x, y
<1>4. ASSUME \A k \in 1..n : s[k] = t[k] PROVE x = y
  <2>1. \A k \in 1..Len(x) : x[k] = y[k]
    BY <1>2, <1>3, <1>4
  <2> QED BY <1>2, <1>3, <2>1, SeqEqual DEF Text
<1>5. ASSUME x = y PROVE \A k \in 1..n : s[k] = t[k]
  BY <1>2, <1>3, <1>5
<1> QED BY <1>4, <1>5 DEF x, y

(* A text is before another one if it is lower at the first difference.    *)
LEMMA LessIsLower ==
  ASSUME NEW s \in Text, NEW t \in Text
  PROVE  Less(s, t) <=> \E n \in Nat : LowerAt(s, t, n)
<1>1. Len(s) \in Nat /\ Len(t) \in Nat
  BY DEF Text
<1>2. ASSUME NEW n \in 0..Len(s), n < Len(t)
      PROVE  SubSeq(s, 1, n) = SubSeq(t, 1, n) <=> \A k \in 1..n : s[k] = t[k]
  BY <1>1, <1>2, SameParts
<1>3. ASSUME Less(s, t) PROVE \E n \in Nat : LowerAt(s, t, n)
  <2>1. PICK n \in 0..Len(s) : /\ n < Len(t) /\ SubSeq(s, 1, n) = SubSeq(t, 1, n)
                               /\ n < Len(s) => s[n + 1] < t[n + 1]
    BY <1>3 DEF Less
  <2>2. LowerAt(s, t, n) /\ n \in Nat
    BY <1>1, <1>2, <2>1 DEF LowerAt, SameStart
  <2> QED BY <2>2
<1>4. ASSUME NEW n \in Nat, LowerAt(s, t, n) PROVE Less(s, t)
  <2>1. /\ n \in 0..Len(s) /\ n < Len(t) /\ SubSeq(s, 1, n) = SubSeq(t, 1, n)
        /\ n < Len(s) => s[n + 1] < t[n + 1]
    BY <1>1, <1>2, <1>4 DEF LowerAt, SameStart
  <2> QED BY <2>1 DEF Less
<1> QED BY <1>3, <1>4

(* strcmp: of two texts one is less, but not each of the other. *)
LEMMA LessOneWay ==
  ASSUME NEW s \in Text, NEW t \in Text
  PROVE  ~(Less(s, t) /\ Less(t, s))
<1> SUFFICES ASSUME NEW m \in Nat, LowerAt(s, t, m), NEW n \in Nat, LowerAt(t, s, n) PROVE FALSE
  BY LessIsLower
<1>1. /\ Len(s) \in Nat /\ Len(t) \in Nat
      /\ \A k \in 1..Len(s) : s[k] \in Int
      /\ \A k \in 1..Len(t) : t[k] \in Int
  BY Characters
<1>2. CASE m < n
  <2>1. m + 1 \in 1..n /\ m + 1 \in 1..Len(s) /\ m + 1 \in 1..Len(t) /\ m < Len(s)
    BY <1>1, <1>2 DEF LowerAt, SameStart
  <2>2. t[m + 1] = s[m + 1] /\ s[m + 1] < t[m + 1]
    BY <2>1 DEF LowerAt, SameStart
  <2> QED BY <1>1, <2>1, <2>2
<1>3. CASE n < m
  <2>1. n + 1 \in 1..m /\ n + 1 \in 1..Len(s) /\ n + 1 \in 1..Len(t) /\ n < Len(t)
    BY <1>1, <1>3 DEF LowerAt, SameStart
  <2>2. s[n + 1] = t[n + 1] /\ t[n + 1] < s[n + 1]
    BY <2>1 DEF LowerAt, SameStart
  <2> QED BY <1>1, <2>1, <2>2
<1>4. CASE m = n
  <2>1. n < Len(s) /\ n < Len(t) /\ n + 1 \in 1..Len(s) /\ n + 1 \in 1..Len(t)
    BY <1>1, <1>4 DEF LowerAt
  <2>2. s[n + 1] < t[n + 1] /\ t[n + 1] < s[n + 1]
    BY <1>4, <2>1 DEF LowerAt
  <2> QED BY <1>1, <2>1, <2>2
<1> QED BY <1>2, <1>3, <1>4

(* Of two different texts one is before the other.                         *)
LEMMA LessOrMore ==
  ASSUME NEW s \in Text, NEW t \in Text, s # t
  PROVE  Less(s, t) \/ Less(t, s)
<1>1. /\ Len(s) \in Nat /\ Len(t) \in Nat
      /\ \A k \in 1..Len(s) : s[k] \in Int
      /\ \A k \in 1..Len(t) : t[k] \in Int
  BY Characters
<1> DEFINE D == {k \in Nat : k >= Len(s) \/ k >= Len(t) \/ s[k + 1] # t[k + 1]}
<1>2. Len(s) \in D /\ D \in SUBSET Nat
  BY <1>1
<1>3. PICK n \in D : \A m \in D : n <= m
  <2> HIDE DEF D
  <2> QED BY <1>2, Smallest
<1>4. \A k \in 0..(n - 1) : k < Len(s) /\ k < Len(t) /\ s[k + 1] = t[k + 1]
  <2> SUFFICES ASSUME NEW k \in 0..(n - 1) PROVE k < Len(s) /\ k < Len(t) /\ s[k + 1] = t[k + 1]
    OBVIOUS
  <2>1. k \in Nat /\ ~(n <= k)
    BY <1>3
  <2>2. k \notin D
    BY <1>3, <2>1
  <2>3. ~(k >= Len(s)) /\ ~(k >= Len(t)) /\ s[k + 1] = t[k + 1]
    BY <2>1, <2>2
  <2> QED BY <1>1, <2>1, <2>3
<1>5. n <= Len(s) /\ n <= Len(t)
  <2>1. CASE n = 0
    BY <1>1, <2>1
  <2>2. CASE n # 0
    <3>1. n - 1 \in 0..(n - 1)
      BY <1>3, <2>2
    <3> QED BY <1>1, <1>3, <1>4, <3>1
  <2> QED BY <2>1, <2>2
<1>6. \A k \in 1..n : s[k] = t[k]
  <2> SUFFICES ASSUME NEW k \in 1..n PROVE s[k] = t[k]
    OBVIOUS
  <2>1. k - 1 \in 0..(n - 1) /\ (k - 1) + 1 = k
    BY <1>3
  <2> QED BY <1>4, <2>1
<1>7. SameStart(s, t, n) /\ SameStart(t, s, n)
  BY <1>5, <1>6 DEF SameStart
<1>8. CASE n = Len(s) /\ n = Len(t)
  <2>1. s \in Seq(1..255) /\ t \in Seq(1..255) /\ Len(s) = Len(t) /\ \A k \in 1..Len(s) : s[k] = t[k]
    BY <1>6, <1>8 DEF Text
  <2> QED BY <2>1, SeqEqual
<1>9. CASE n = Len(s) /\ n < Len(t)
  <2>1. LowerAt(s, t, n)
    BY <1>1, <1>7, <1>9 DEF LowerAt
  <2> QED BY <1>3, <2>1, LessIsLower
<1>10. CASE n < Len(s) /\ n = Len(t)
  <2>1. LowerAt(t, s, n)
    BY <1>1, <1>7, <1>10 DEF LowerAt
  <2> QED BY <1>3, <2>1, LessIsLower
<1>11. CASE n < Len(s) /\ n < Len(t)
  <2>1. s[n + 1] # t[n + 1] /\ s[n + 1] \in Int /\ t[n + 1] \in Int
    <3>1. n + 1 \in 1..Len(s) /\ n + 1 \in 1..Len(t)
      BY <1>1, <1>3, <1>11
    <3> QED BY <1>1, <1>3, <1>11, <3>1
  <2>2. s[n + 1] < t[n + 1] \/ t[n + 1] < s[n + 1]
    BY <2>1
  <2>3. LowerAt(s, t, n) \/ LowerAt(t, s, n)
    BY <1>7, <1>11, <2>2 DEF LowerAt
  <2> QED BY <1>3, <2>3, LessIsLower
<1> QED BY <1>1, <1>3, <1>5, <1>8, <1>9, <1>10, <1>11

(* What is before a text is before all that come after it.                 *)
LEMMA LessGoesOn ==
  ASSUME NEW s \in Text, NEW t \in Text, NEW u \in Text, Less(s, t), Less(t, u)
  PROVE  Less(s, u)
<1>1. PICK m \in Nat : LowerAt(s, t, m)
  BY LessIsLower
<1>2. PICK n \in Nat : LowerAt(t, u, n)
  BY LessIsLower
<1>3. /\ Len(s) \in Nat /\ Len(t) \in Nat /\ Len(u) \in Nat
      /\ \A k \in 1..Len(s) : s[k] \in Int
      /\ \A k \in 1..Len(t) : t[k] \in Int
      /\ \A k \in 1..Len(u) : u[k] \in Int
  BY Characters
<1>4. CASE m < n
  <2>1. SameStart(s, u, m) /\ m < Len(u)
    BY <1>1, <1>2, <1>3, <1>4 DEF LowerAt, SameStart
  <2>2. m < Len(s) => s[m + 1] < u[m + 1]
    <3>1. m + 1 \in 1..n
      BY <1>4
    <3>2. t[m + 1] = u[m + 1]
      BY <1>2, <3>1 DEF LowerAt, SameStart
    <3> QED BY <1>1, <3>2 DEF LowerAt
  <2>3. LowerAt(s, u, m)
    BY <2>1, <2>2 DEF LowerAt
  <2> QED BY <2>3, LessIsLower
<1>5. CASE n < m
  <2>1. SameStart(s, u, n) /\ n < Len(u)
    BY <1>1, <1>2, <1>3, <1>5 DEF LowerAt, SameStart
  <2>2. s[n + 1] < u[n + 1]
    <3>1. n + 1 \in 1..m /\ n < Len(t)
      BY <1>1, <1>3, <1>5 DEF LowerAt, SameStart
    <3>2. s[n + 1] = t[n + 1]
      BY <1>1, <3>1 DEF LowerAt, SameStart
    <3> QED BY <1>2, <3>1, <3>2 DEF LowerAt
  <2>3. LowerAt(s, u, n)
    BY <2>1, <2>2 DEF LowerAt
  <2> QED BY <2>3, LessIsLower
<1>6. CASE m = n
  <2>1. SameStart(s, u, n) /\ n < Len(u)
    BY <1>1, <1>2, <1>3, <1>6 DEF LowerAt, SameStart
  <2>2. n < Len(s) => s[n + 1] < u[n + 1]
    <3> SUFFICES ASSUME n < Len(s) PROVE s[n + 1] < u[n + 1]
      OBVIOUS
    <3>1. n < Len(t) /\ n < Len(u) /\ n + 1 \in 1..Len(s) /\ n + 1 \in 1..Len(t) /\ n + 1 \in 1..Len(u)
      BY <1>1, <1>2, <1>3, <1>6 DEF LowerAt
    <3>2. s[n + 1] < t[n + 1] /\ t[n + 1] < u[n + 1]
      BY <1>1, <1>2, <1>6, <3>1 DEF LowerAt
    <3>3. s[n + 1] \in Int /\ t[n + 1] \in Int /\ u[n + 1] \in Int
      BY <1>3, <3>1
    <3> QED BY <3>2, <3>3
  <2>3. LowerAt(s, u, n)
    BY <2>1, <2>2 DEF LowerAt
  <2> QED BY <2>3, LessIsLower
<1> QED BY <1>4, <1>5, <1>6

(* strcmp orders the texts. *)
THEOREM StrcmpOrders ==
  ASSUME NEW s \in Text, NEW t \in Text, NEW u \in Text
  PROVE  /\ Strcmp(s, t) \in {-1, 0, 1} /\ Strcmp(s, t) = -Strcmp(t, s)
         /\ Strcmp(s, t) = 0 <=> s = t
         /\ Strcmp(s, t) <= 0 /\ Strcmp(t, u) <= 0 => Strcmp(s, u) <= 0
<1>1. \A x, y \in Text : x = y \/ (Less(x, y) /\ ~Less(y, x)) \/ (~Less(x, y) /\ Less(y, x))
  BY LessOneWay, LessOrMore
<1>2. \A x, y \in Text : /\ Strcmp(x, y) \in {-1, 0, 1} /\ (Strcmp(x, y) = 0 <=> x = y)
                         /\ Strcmp(x, y) <= 0 <=> x = y \/ Less(x, y)
  BY DEF Strcmp
<1>3. Strcmp(s, t) = -Strcmp(t, s)
  BY <1>1 DEF Strcmp
<1>4. Strcmp(s, t) <= 0 /\ Strcmp(t, u) <= 0 => Strcmp(s, u) <= 0
  BY <1>2, LessGoesOn
<1> QED BY <1>2, <1>3, <1>4

-----------------------------------------------------------------------------
(* A number's digits: what they spell, one after the other. *)
LEMMA NumeralGrows ==
  ASSUME NEW d \in Seq(Digits)
  PROVE  \E f : /\ f[0] = 0 /\ f[Len(d)] = Numeral(d)
                /\ \A k \in 1..Len(d) : f[k] = 10 * f[k - 1] + d[k] - 48
                /\ \A k \in 0..Len(d) : f[k] \in Nat
<1> DEFINE n == Len(d)
           f == Sums!Trace(0, 0, d)
           G == {k \in 0..n : f[k] \in Nat}
<1>1. n \in Nat
  OBVIOUS
<1>2. f[0] = 0 /\ f[n] = Numeral(d) /\ \A k \in 1..n : f[k] = 10 * f[k - 1] + d[k] - 48
  <2>1. Sums!Fold(0, 0, d) = Numeral(d)
    BY DEF Sums!Fold, FoldLeft, MapThenFoldSet, Sums!MapThenFoldSet, Max, Sums!Largest, SumStep, Numeral
  <2>2. Sums!IsTrace(f, 0, 0, d)
    BY Sums!FoldTrace, Smallest
  <2> QED BY <2>1, <2>2 DEF Sums!IsTrace, SumStep
<1> HIDE DEF f, n
<1>3. 0 \in G
  BY <1>1, <1>2
<1>4. ASSUME NEW k \in 0..(n - 1), k \in G PROVE k + 1 \in G
  <2>1. k + 1 \in 1..n /\ (k + 1) - 1 = k /\ k + 1 \in 0..n /\ f[k] \in Nat
    BY <1>1, <1>4
  <2>2. d[k + 1] \in Digits
    BY <2>1, ElementOfSeq DEF n
  <2>3. f[k + 1] = 10 * f[k] + d[k + 1] - 48
    BY <1>2, <2>1
  <2>4. d[k + 1] \in Int /\ 48 <= d[k + 1]
    BY <2>2 DEF Digits
  <2>5. f[k + 1] \in Nat
    BY <2>1, <2>3, <2>4
  <2> QED BY <2>1, <2>5
<1>5. \A k \in 0..n : k \in G
  <2> HIDE DEF G
  <2> QED BY <1>1, <1>3, <1>4, Counting
<1>6. \A k \in 0..n : f[k] \in Nat
  BY <1>5
<1> QED BY <1>2, <1>6 DEF n

(* Equal numbers end in the same digits, and have as many. *)
LEMMA SameNumber ==
  ASSUME NEW p \in Text, NEW q \in Text, IsNumber(p), IsNumber(q), Numeral(p) = Numeral(q), Len(p) <= Len(q)
  PROVE  p = q
<1> DEFINE n == Len(p)
           m == Len(q)
<1>1. /\ n \in Nat /\ m \in Nat /\ DOMAIN p = 1..n /\ DOMAIN q = 1..m
      /\ n # 0 /\ n <= m
  <2>1. n = 0 => p = <<>>
    BY EmptySeq DEF Text
  <2> QED BY <2>1, Characters DEF IsNumber
<1>2. \A k \in 1..n : p[k] \in Digits
  BY <1>1 DEF IsNumber, ToSet
<1>3. \A k \in 1..m : q[k] \in Digits
  BY <1>1 DEF IsNumber, ToSet
<1>4. p \in Seq(Digits) /\ q \in Seq(Digits)
  <2>1. p \in Seq(Digits)
    BY <1>2, SeqDef DEF Text
  <2>2. q \in Seq(Digits)
    BY <1>3, SeqDef DEF Text
  <2> QED BY <2>1, <2>2
<1>5. PICK f : /\ f[0] = 0 /\ f[n] = Numeral(p)
               /\ \A k \in 1..n : f[k] = 10 * f[k - 1] + p[k] - 48
               /\ \A k \in 0..n : f[k] \in Nat
  BY <1>4, NumeralGrows
<1>6. PICK g : /\ g[0] = 0 /\ g[m] = Numeral(q)
               /\ \A k \in 1..m : g[k] = 10 * g[k - 1] + q[k] - 48
               /\ \A k \in 0..m : g[k] \in Nat
  BY <1>4, NumeralGrows
<1> DEFINE Same(k) == f[n - k] = g[m - k] /\ \A j \in 0..(k - 1) : p[n - j] = q[m - j]
           G == {k \in 0..n : Same(k)}
<1> HIDE DEF n, m
<1>7. 0 \in G
  <2>1. n - 0 = n /\ m - 0 = m
    BY <1>1
  <2>2. f[n - 0] = g[m - 0]
    BY <1>5, <1>6, <2>1
  <2> QED BY <1>1, <2>2
<1>8. ASSUME NEW k \in 0..(n - 1), k \in G PROVE k + 1 \in G
  <2>1. /\ k \in Nat /\ k + 1 \in 0..n
        /\ n - k \in 1..n /\ m - k \in 1..m /\ (n - k) - 1 = n - (k + 1) /\ (m - k) - 1 = m - (k + 1)
        /\ n - (k + 1) \in 0..n /\ m - (k + 1) \in 0..m
    BY <1>1
  <2> DEFINE a == f[n - (k + 1)]
             b == g[m - (k + 1)]
             x == p[n - k]
             y == q[m - k]
  <2>2. /\ f[n - k] = 10 * a + x - 48 /\ g[m - k] = 10 * b + y - 48
        /\ a \in Nat /\ b \in Nat /\ x \in 48..57 /\ y \in 48..57
    <3>1. f[n - k] = 10 * a + x - 48
      BY <1>5, <2>1
    <3>2. g[m - k] = 10 * b + y - 48
      BY <1>6, <2>1
    <3>3. a \in Nat /\ b \in Nat
      BY <1>5, <1>6, <2>1
    <3>4. x \in 48..57 /\ y \in 48..57
      BY <1>2, <1>3, <2>1 DEF Digits
    <3> QED BY <3>1, <3>2, <3>3, <3>4
  <2>3. Same(k)
    BY <1>8
  <2>4. 10 * a + x - 48 = 10 * b + y - 48
    BY <2>2, <2>3
  <2> HIDE DEF a, b, x, y
  <2>5. a = b /\ x = y
    BY <2>2, <2>4
  <2>6. ASSUME NEW j \in 0..((k + 1) - 1) PROVE p[n - j] = q[m - j]
    <3>1. j \in 0..(k - 1) \/ j = k
      BY <2>1
    <3> QED BY <2>3, <2>5, <3>1 DEF x, y
  <2> QED BY <2>1, <2>5, <2>6 DEF a, b
<1>9. Same(n)
  <2>1. \A k \in 0..n : k \in G
    <3> HIDE DEF G
    <3> QED BY <1>1, <1>7, <1>8, Counting
  <2> QED BY <1>1, <2>1, SMTT(40)
<1>10. n = m
  <2> SUFFICES ASSUME n < m PROVE FALSE
    BY <1>1
  <2> DEFINE H == {k \in 0..m : k = 0 \/ g[k] >= 1}
  <2>1. q[1] # 48 /\ q[1] \in Digits
    BY <1>1, <1>3 DEF IsNumber, m
  <2>2. 0 \in H
    BY <1>1
  <2>3. ASSUME NEW k \in 0..(m - 1), k \in H PROVE k + 1 \in H
    <3>1. k + 1 \in 1..m /\ (k + 1) - 1 = k /\ k + 1 \in 0..m /\ k \in 0..m
      BY <1>1
    <3> DEFINE a == g[k]
               y == q[k + 1]
    <3>2. g[k + 1] = 10 * a + y - 48
      BY <1>6, <3>1
    <3>3. a \in Nat /\ y \in 48..57
      BY <1>3, <1>6, <3>1 DEF Digits
    <3>4. a >= 1 \/ y >= 49
      <4>1. CASE k = 0
        BY <2>1, <4>1 DEF Digits
      <4>2. CASE k # 0
        BY <2>3, <4>2
      <4> QED BY <4>1, <4>2
    <3> HIDE DEF a, y
    <3>5. g[k + 1] >= 1
      BY <3>2, <3>3, <3>4
    <3> QED BY <3>1, <3>5
  <2>4. \A k \in 0..m : k \in H
    <3> HIDE DEF H
    <3> QED BY <1>1, <2>2, <2>3, Counting
  <2>5. m - n \in 0..m /\ m - n # 0 /\ n - n = 0
    BY <1>1
  <2>6. g[m - n] >= 1
    BY <2>4, <2>5
  <2>7. g[m - n] = 0
    BY <1>5, <1>9, <2>5
  <2> QED BY <2>6, <2>7
<1>11. \A i \in 1..n : p[i] = q[i]
  <2> SUFFICES ASSUME NEW i \in 1..n PROVE p[i] = q[i]
    OBVIOUS
  <2>1. n - i \in 0..(n - 1) /\ n - (n - i) = i
    BY <1>1
  <2>2. p[n - (n - i)] = q[m - (n - i)]
    BY <1>9, <2>1
  <2> QED BY <1>10, <2>1, <2>2
<1> QED BY <1>4, <1>10, <1>11, SeqEqual DEF n, m

(* Digits spell one number. *)
LEMMA DigitsSpell ==
  ASSUME NEW s \in Text, s # <<>>, ToSet(s) \subseteq Digits
  PROVE  Numeral(s) \in Nat /\ Spelled(s) = {Numeral(s)}
<1> DEFINE n == Len(s)
<1>1. n \in Nat /\ DOMAIN s = 1..n /\ n # 0
  <2>1. n = 0 => s = <<>>
    BY EmptySeq DEF Text
  <2> QED BY <2>1, Characters
<1>2. \A k \in 1..n : s[k] \in Digits
  BY <1>1 DEF ToSet
<1>3. s \in Seq(Digits)
  BY <1>2, SeqDef DEF Text
<1>4. Numeral(s) \in Nat
  BY <1>3, MagnitudeIsNumeral
<1>5. s[1] \notin {43, 45} /\ s[1] # 45
  <2>1. s[1] \in Digits
    BY <1>1, <1>2
  <2> QED BY <2>1 DEF Digits
<1>6. Begin(s, 1) = 1
  BY <1>5 DEF Begin, Signed
<1>7. IsNumeral(s, 1, n)
  BY <1>1, <1>2, <1>6 DEF IsNumeral
<1>8. DigitsOf(s, 1, n) = s
  <2>1. SubSeq(s, 1, Len(s)) = s
    BY DEF Text
  <2> QED BY <1>6, <2>1 DEF DigitsOf
<1>9. Value(s, 1, n) = Numeral(s)
  BY <1>4, <1>5, <1>8 DEF Value
<1> HIDE DEF n
<1>10. \A v : v \in Spelled(s) <=> v = Numeral(s)
  <2>1. 1 \in DOMAIN s /\ n \in DOMAIN s
    BY <1>1
  <2>2. \A p, q : IsNumeral(s, p, q) => p = 1 /\ q = n
    BY <1>7, NumeralIsOne
  <2>3. \A v : v \in Spelled(s) <=> \E p, q \in DOMAIN s : IsNumeral(s, p, q) /\ v = Value(s, p, q)
    BY SpelledIsValue
  <2> QED BY <1>7, <1>9, <2>1, <2>2, <2>3, Zenon
<1> QED BY <1>4, <1>10

-----------------------------------------------------------------------------
(* What a component is as a number: what it spells, if it is one way only. *)
Small64(p) == IsNumber(p) /\ Numeral(p) <= MaxInt64

(* The last part of a path is read as the number it is, or as none.        *)
LEMMA ComponentIsNumber ==
  ASSUME NEW p \in Text
  PROVE  ComponentAsNum(p) = IF Small64(p) THEN Numeral(p) ELSE -1
<1>1. Len(p) \in Nat /\ DOMAIN p = 1..Len(p) /\ (Len(p) = 0 <=> p = <<>>)
  BY EmptySeq, Characters DEF Text
<1>2. 48 \in Digits /\ MaxInt64 \in Nat
  BY WidthAssumption DEF Digits
<1>3. CASE p = <<48>>
  <2>1. p # <<>> /\ Len(p) = 1 /\ p[1] = 48 /\ ToSet(p) = {48}
    BY <1>3 DEF ToSet
  <2>2. p \in Seq(Digits)
    BY <1>2, <1>3
  <2>3. Numeral(p) = 0
    <3>1. PICK f : f[0] = 0 /\ f[Len(p)] = Numeral(p) /\ \A k \in 1..Len(p) : f[k] = 10 * f[k - 1] + p[k] - 48
      BY <2>2, NumeralGrows
    <3>2. f[1] = 10 * f[0] + 48 - 48
      BY <2>1, <3>1
    <3> QED BY <2>1, <3>1, <3>2
  <2>4. Small64(p)
    BY <1>2, <2>1, <2>3 DEF Small64, IsNumber
  <2> QED BY <1>3, <2>3, <2>4 DEF ComponentAsNum
<1>4. CASE p # <<48>> /\ p # <<>> /\ p[1] # 48 /\ ToSet(p) \subseteq Digits
  <2>1. IsNumber(p)
    BY <1>4 DEF IsNumber
  <2>2. Numeral(p) \in Nat /\ Spelled(p) = {Numeral(p)}
    BY <1>4, DigitsSpell
  <2> DEFINE r == AsciiStrToInt64(p, 0, MaxInt64, -1)
  <2>3. /\ r.errno = "0" => r.value \in Int /\ 0 <= r.value /\ r.value <= MaxInt64 /\ Spelled(p) = {r.value}
        /\ r.errno # "0" => r.value = -1
        /\ r.errno # "0" => \A v \in Spelled(p) : v < -MaxInt64 - 1 \/ v > MaxInt64 \/ v < 0 \/ v > MaxInt64
    BY <1>2, ReadIsSpelled DEF TextOrNot
  <2>4. ComponentAsNum(p) = r.value
    BY <1>4 DEF ComponentAsNum
  <2> HIDE DEF r
  <2>5. CASE r.errno = "0"
    <3>1. r.value = Numeral(p) /\ Numeral(p) <= MaxInt64
      BY <2>2, <2>3, <2>5
    <3> QED BY <2>1, <2>4, <3>1 DEF Small64
  <2>6. CASE r.errno # "0"
    <3>1. ~(Numeral(p) <= MaxInt64)
      BY <1>2, <2>2, <2>3, <2>6
    <3> QED BY <2>3, <2>4, <2>6, <3>1 DEF Small64
  <2> QED BY <2>5, <2>6
<1>5. CASE p # <<48>> /\ ~(p # <<>> /\ p[1] # 48 /\ ToSet(p) \subseteq Digits)
  <2>1. ComponentAsNum(p) = -1
    BY <1>5 DEF ComponentAsNum
  <2>2. ~IsNumber(p)
    <3> SUFFICES ASSUME IsNumber(p) PROVE FALSE
      OBVIOUS
    <3>1. p # <<>> /\ p[1] = 48
      BY <1>5 DEF IsNumber
    <3>2. Len(p) = 1
      BY <1>1, <3>1 DEF IsNumber
    <3>3. p = <<48>>
      <4>1. p \in Seq(1..255) /\ <<48>> \in Seq(1..255) /\ Len(<<48>>) = 1 /\ <<48>>[1] = 48
        BY DEF Text
      <4>2. \A i \in 1..Len(p) : p[i] = <<48>>[i]
        BY <3>1, <3>2, <4>1
      <4> QED BY <3>2, <4>1, <4>2, SeqEqual
    <3> QED BY <1>5, <3>3
  <2> QED BY <2>1, <2>2 DEF Small64
<1> QED BY <1>3, <1>4, <1>5

(* Components are ordered: texts as by strcmp, and then numbers. *)
LEMMA ComponentsAreOrdered ==
  ASSUME NEW p \in Text, NEW q \in Text, NEW r \in Text
  PROVE  /\ ComponentCmp(p, q) \in {-1, 0, 1} /\ ComponentCmp(p, q) = -ComponentCmp(q, p)
         /\ ComponentCmp(p, q) = 0 <=> p = q
         /\ ComponentCmp(p, q) <= 0 /\ ComponentCmp(q, r) <= 0 => ComponentCmp(p, r) <= 0
<1> DEFINE N(x) == ComponentAsNum(x)
<1>1. ASSUME NEW x \in Text
      PROVE  N(x) \in Nat \union {-1} /\ (N(x) # -1 => IsNumber(x) /\ N(x) = Numeral(x))
  <2>1. N(x) = IF Small64(x) THEN Numeral(x) ELSE -1
    BY ComponentIsNumber
  <2>2. IsNumber(x) => Numeral(x) \in Nat
    BY DigitsSpell DEF IsNumber
  <2> QED BY <2>1, <2>2 DEF Small64
<1>2. ASSUME NEW x \in Text, NEW y \in Text, N(x) # -1, N(x) = N(y) PROVE x = y
  <2>1. IsNumber(x) /\ IsNumber(y) /\ Numeral(x) = Numeral(y)
    BY <1>1, <1>2
  <2>2. Len(x) \in Nat /\ Len(y) \in Nat
    BY Characters
  <2>3. CASE Len(x) <= Len(y)
    BY <2>1, <2>3, SameNumber
  <2>4. CASE Len(y) <= Len(x)
    BY <2>1, <2>4, SameNumber
  <2> QED BY <2>2, <2>3, <2>4
<1>3. \A x, y \in Text : ComponentCmp(x, y) =
        IF N(x) = -1 /\ N(y) = -1 THEN Strcmp(x, y)
        ELSE IF N(x) = -1 THEN -1 ELSE IF N(y) = -1 THEN 1 ELSE CmpDirect(N(x), N(y))
  BY DEF ComponentCmp
<1>4. /\ Strcmp(p, q) \in {-1, 0, 1} /\ Strcmp(p, q) = -Strcmp(q, p) /\ (Strcmp(p, q) = 0 <=> p = q)
      /\ Strcmp(p, q) <= 0 /\ Strcmp(q, r) <= 0 => Strcmp(p, r) <= 0
  BY StrcmpOrders
<1>5. N(p) \in Nat \union {-1} /\ N(q) \in Nat \union {-1} /\ N(r) \in Nat \union {-1}
  BY <1>1
<1>6. N(p) # -1 => (N(p) = N(q) <=> p = q)
  BY <1>2
<1> HIDE DEF N
<1> DEFINE pq == ComponentCmp(p, q)
           qp == ComponentCmp(q, p)
           qr == ComponentCmp(q, r)
           pr == ComponentCmp(p, r)
<1>7. /\ pq = IF N(p) = -1 /\ N(q) = -1 THEN Strcmp(p, q)
              ELSE IF N(p) = -1 THEN -1 ELSE IF N(q) = -1 THEN 1 ELSE CmpDirect(N(p), N(q))
      /\ qp = IF N(q) = -1 /\ N(p) = -1 THEN Strcmp(q, p)
              ELSE IF N(q) = -1 THEN -1 ELSE IF N(p) = -1 THEN 1 ELSE CmpDirect(N(q), N(p))
      /\ qr = IF N(q) = -1 /\ N(r) = -1 THEN Strcmp(q, r)
              ELSE IF N(q) = -1 THEN -1 ELSE IF N(r) = -1 THEN 1 ELSE CmpDirect(N(q), N(r))
      /\ pr = IF N(p) = -1 /\ N(r) = -1 THEN Strcmp(p, r)
              ELSE IF N(p) = -1 THEN -1 ELSE IF N(r) = -1 THEN 1 ELSE CmpDirect(N(p), N(r))
  BY <1>3
<1> HIDE DEF pq, qp, qr, pr
<1>8. pq \in {-1, 0, 1} /\ pq = -qp
  BY <1>4, <1>5, <1>7 DEF CmpDirect
<1>9. pq = 0 <=> p = q
  BY <1>4, <1>5, <1>6, <1>7 DEF CmpDirect
<1>10. pq <= 0 /\ qr <= 0 => pr <= 0
  BY <1>4, <1>5, <1>7 DEF CmpDirect
<1> QED BY <1>8, <1>9, <1>10 DEF pq, qp, qr, pr

(* A path is what is before its last component, and that. *)
LEMMA PathParts ==
  ASSUME NEW a \in Text
  PROVE  /\ LastSlash(a) \in 0..Len(a)
         /\ Prefix(a) \in Text /\ Len(Prefix(a)) = LastSlash(a)
         /\ \A i \in 1..LastSlash(a) : Prefix(a)[i] = a[i]
         /\ LastSlash(a) > 0 => /\ LastComponent(a) \in Text /\ Len(LastComponent(a)) = Len(a) - LastSlash(a)
                                /\ \A i \in 1..(Len(a) - LastSlash(a)) : LastComponent(a)[i] = a[LastSlash(a) + i]
<1> DEFINE n == Len(a)
           I == {i \in 1..n : a[i] = Slash}
           l == LastSlash(a)
<1>1. n \in Nat
  BY Characters
<1>2. l = IF I # {} THEN Max(I) ELSE 0
  BY DEF LastSlash, SelectLastInSeq
<1>3. l \in 0..n
  <2> HIDE DEF l, n
  <2>1. I \in SUBSET (1..n)
    OBVIOUS
  <2> HIDE DEF I
  <2>2. l = Latest(I, n)
    BY <1>1, <1>2, <2>1, LatestIsLast
  <2>3. l = 0 \/ l \in I
    BY <1>1, <2>2, LatestIsOne
  <2>4. \A x \in I : x \in 1..n
    BY <2>1
  <2>5. CASE l = 0
    BY <1>1, <2>5
  <2>6. CASE l \in I
    <3>1. l \in 1..n
      BY <2>4, <2>6
    <3> QED BY <1>1, <3>1
  <2> QED BY <2>3, <2>5, <2>6
<1>4. Prefix(a) = SubSeq(a, 1, l)
  BY DEF Prefix
<1>5. l > 0 => LastComponent(a) = SubSeq(a, l + 1, n)
  <2>1. l # 0 => LastComponent(a) = SubSeq(a, l + 1, n)
    BY DEF LastComponent
  <2> HIDE DEF l, n
  <2> QED BY <1>1, <1>3, <2>1
<1> HIDE DEF l
<1>6. /\ Prefix(a) \in Text /\ Len(Prefix(a)) = l
      /\ \A i \in 1..l : Prefix(a)[i] = a[i]
  BY <1>3, <1>4, CutText
<1>7. ASSUME l > 0
      PROVE  /\ LastComponent(a) \in Text /\ Len(LastComponent(a)) = n - l
             /\ \A i \in 1..(n - l) : LastComponent(a)[i] = a[l + i]
  <2> DEFINE c == SubSeq(a, l + 1, n)
  <2>1. l + 1 \in Nat \ {0} /\ n \in 0..Len(a) /\ a \in Seq(1..255)
    BY <1>1, <1>3 DEF Text
  <2>2. c \in Seq(1..255)
    BY <2>1, Parts
  <2>3. Len(c) = IF l + 1 <= n THEN n - (l + 1) + 1 ELSE 0
    BY <2>1, Parts
  <2>4. \A i \in 1..(n - (l + 1) + 1) : c[i] = a[l + 1 + i - 1]
    BY <2>1, Parts
  <2>5. LastComponent(a) = c
    BY <1>5, <1>7
  <2> HIDE DEF c, n
  <2>6. n - (l + 1) + 1 = n - l /\ \A i \in 1..(n - l) : l + 1 + i - 1 = l + i
    BY <1>1, <1>3
  <2>7. Len(c) = n - l
    BY <1>1, <1>3, <2>3
  <2>8. \A i \in 1..(n - l) : c[i] = a[l + i]
    BY <2>4, <2>6
  <2> QED BY <2>2, <2>5, <2>7, <2>8 DEF Text
<1> QED BY <1>3, <1>6, <1>7 DEF l

(* Paths with the same parts are the same.                                 *)
LEMMA SamePath ==
  ASSUME NEW a \in Text, NEW b \in Text, LastSlash(a) = LastSlash(b), LastSlash(a) > 0,
         Prefix(a) = Prefix(b), LastComponent(a) = LastComponent(b)
  PROVE  a = b
<1> DEFINE l == LastSlash(a)
<1>1. Len(a) \in Nat /\ Len(b) \in Nat
  BY Characters
<1>2. /\ l \in 0..Len(a) /\ l \in 0..Len(b)
      /\ Len(LastComponent(a)) = Len(a) - l /\ Len(LastComponent(b)) = Len(b) - l
      /\ \A i \in 1..l : Prefix(a)[i] = a[i] /\ Prefix(b)[i] = b[i]
      /\ \A i \in 1..(Len(a) - l) : LastComponent(a)[i] = a[l + i]
      /\ \A i \in 1..(Len(b) - l) : LastComponent(b)[i] = b[l + i]
  BY PathParts
<1>3. l \in Nat
  BY <1>2
<1> HIDE DEF l
<1>4. Len(a) = Len(b)
  BY <1>1, <1>2, <1>3
<1>5. ASSUME NEW i \in 1..Len(a) PROVE a[i] = b[i]
  <2>1. CASE i <= l
    <3>1. i \in 1..l
      BY <1>3, <2>1
    <3> QED BY <1>2, <3>1
  <2>2. CASE l < i
    <3>1. i - l \in 1..(Len(a) - l) /\ l + (i - l) = i
      BY <1>1, <1>3, <2>2
    <3> QED BY <1>2, <1>4, <3>1
  <2> QED BY <1>3, <2>1, <2>2
<1> QED BY <1>4, <1>5, SeqEqual DEF Text

-----------------------------------------------------------------------------
(* Two paths, or none: the one comes before the other, or they are the same. *)
LEMMA TwoPaths ==
  ASSUME NEW a \in TextOrNot, NEW b \in TextOrNot
  PROVE  /\ DbusPathCmp(a, b) \in {-1, 0, 1} /\ DbusPathCmp(a, b) = -DbusPathCmp(b, a)
         /\ DbusPathCmp(a, b) = 0 <=> a = b
<1>1. CASE a = b
  <2>1. DbusPathCmp(a, b) = 0 /\ DbusPathCmp(b, a) = 0
    BY <1>1 DEF DbusPathCmp
  <2>2. \A x \in Int : -x = 0 - x
    OBVIOUS
  <2>3. DbusPathCmp(a, b) = -DbusPathCmp(b, a)
    <3>1. DbusPathCmp(b, a) \in Int
      BY <2>1
    <3>2. -DbusPathCmp(b, a) = 0 - DbusPathCmp(b, a)
      BY <2>2, <3>1, Zenon
    <3>3. 0 - DbusPathCmp(b, a) = 0
      BY <2>1
    <3> QED BY <2>1, <3>2, <3>3, Zenon
  <2>4. DbusPathCmp(a, b) = 0 <=> a = b
    BY <1>1, <2>1
  <2> QED BY <2>1, <2>3, <2>4
<1>2. CASE a # b /\ (a = Null \/ b = Null)
  BY <1>2 DEF DbusPathCmp
<1>3. CASE a # b /\ a # Null /\ b # Null
  <2>1. a \in Text /\ b \in Text
    BY <1>3 DEF TextOrNot
  <2>2. CASE 0 \in {LastSlash(a), LastSlash(b)} \/ LastSlash(a) # LastSlash(b)
    <3>1. DbusPathCmp(a, b) = Strcmp(a, b) /\ DbusPathCmp(b, a) = Strcmp(b, a)
      BY <1>3, <2>2 DEF DbusPathCmp
    <3> QED BY <2>1, <3>1, StrcmpOrders
  <2>3. CASE 0 \notin {LastSlash(a), LastSlash(b)} /\ LastSlash(a) = LastSlash(b) /\ Prefix(a) # Prefix(b)
    <3>1. DbusPathCmp(a, b) = Strcmp(Prefix(a), Prefix(b)) /\ DbusPathCmp(b, a) = Strcmp(Prefix(b), Prefix(a))
      BY <1>3, <2>3 DEF DbusPathCmp
    <3>2. Prefix(a) \in Text /\ Prefix(b) \in Text
      BY <2>1, PathParts
    <3>3. /\ Strcmp(Prefix(a), Prefix(b)) \in {-1, 0, 1}
          /\ Strcmp(Prefix(a), Prefix(b)) = -Strcmp(Prefix(b), Prefix(a))
          /\ Strcmp(Prefix(a), Prefix(b)) = 0 <=> Prefix(a) = Prefix(b)
      BY <3>2, StrcmpOrders
    <3> QED BY <1>3, <2>3, <3>1, <3>3
  <2>4. CASE 0 \notin {LastSlash(a), LastSlash(b)} /\ LastSlash(a) = LastSlash(b) /\ Prefix(a) = Prefix(b)
    <3> DEFINE m == LastComponent(a)
               n == LastComponent(b)
    <3>1. DbusPathCmp(a, b) = ComponentCmp(m, n) /\ DbusPathCmp(b, a) = ComponentCmp(n, m)
      BY <1>3, <2>4 DEF DbusPathCmp
    <3>2. LastSlash(a) \in 0..Len(a) /\ LastSlash(a) > 0 /\ LastSlash(b) > 0
      BY <2>1, <2>4, PathParts
    <3>3. m \in Text /\ n \in Text
      BY <2>1, <3>2, PathParts
    <3>4. m # n
      BY <1>3, <2>1, <2>4, <3>2, SamePath
    <3>5. ComponentCmp(m, n) \in {-1, 0, 1} /\ ComponentCmp(m, n) = -ComponentCmp(n, m)
          /\ (ComponentCmp(m, n) = 0 <=> m = n)
      BY <3>3, ComponentsAreOrdered
    <3> HIDE DEF m, n
    <3> QED BY <1>3, <3>1, <3>4, <3>5
  <2> QED BY <2>2, <2>3, <2>4
<1> QED BY <1>1, <1>2, <1>3

(* Where all before is the same, the last components decide. *)
LEMMA PathsAlike ==
  ASSUME NEW a \in Text, NEW b \in Text, LastSlash(a) > 0, Prefix(a) = Prefix(b)
  PROVE  /\ LastSlash(b) > 0 /\ LastComponent(a) \in Text /\ LastComponent(b) \in Text
         /\ DbusPathCmp(a, b) = ComponentCmp(LastComponent(a), LastComponent(b))
<1>1. Len(Prefix(a)) = LastSlash(a) /\ Len(Prefix(b)) = LastSlash(b)
  BY PathParts
<1>2. LastSlash(b) = LastSlash(a)
  BY <1>1
<1>3. LastComponent(a) \in Text /\ LastComponent(b) \in Text
  BY <1>2, PathParts
<1>4. CASE a = b
  <2>1. DbusPathCmp(a, b) = 0
    BY <1>4 DEF DbusPathCmp
  <2>2. ComponentCmp(LastComponent(a), LastComponent(b)) = 0
    BY <1>3, <1>4, ComponentsAreOrdered
  <2> QED BY <1>2, <1>3, <2>1, <2>2
<1>5. CASE a # b
  <2>1. a # Null /\ b # Null
    BY TextIsNotNull
  <2>2. LastSlash(a) # 0
    OBVIOUS
  <2> QED BY <1>2, <1>3, <1>5, <2>1, <2>2 DEF DbusPathCmp
<1> QED BY <1>4, <1>5

(* Components that are numbers are compared as numbers. *)
LEMMA NumbersCompare ==
  ASSUME NEW p \in Text, NEW q \in Text, IsNumber(p), IsNumber(q),
         NEW x \in Spelled(p), NEW y \in Spelled(q), x <= MaxInt64, y <= MaxInt64
  PROVE  ComponentCmp(p, q) = CmpDirect(x, y)
<1>1. Spelled(p) = {Numeral(p)} /\ Spelled(q) = {Numeral(q)} /\ Numeral(p) \in Nat /\ Numeral(q) \in Nat
  BY DigitsSpell DEF IsNumber
<1>2. x = Numeral(p) /\ y = Numeral(q) /\ x \in Nat /\ y \in Nat
  BY <1>1
<1>3. ComponentAsNum(p) = x /\ ComponentAsNum(q) = y
  BY <1>2, ComponentIsNumber DEF Small64
<1> QED BY <1>2, <1>3 DEF ComponentCmp

(* Paths compared, in every state. *)
THEOREM PathsStayOrdered == Spec => []PathsAreOrdered
<1>1. Init => PathsAreOrdered
  BY DEF Init, Idle, PathsAreOrdered
<1>2. ASSUME PathsAreOrdered, [Next]_vars PROVE PathsAreOrdered'
  <2>1. CASE UNCHANGED vars
    <3>1. call' = call /\ result' = result
      BY <2>1 DEF vars
    <3> QED BY <1>2, <3>1, Zenon DEF PathsAreOrdered
  <2>2. CASE call' = Idle
    BY <2>2 DEF Idle, PathsAreOrdered
  <2>3. CASE call' \in Inputs /\ IsAnswer(call', result')
    <3> DEFINE i == call'
               r == result'
               a == i.paths[1]
               b == i.paths[2]
               c == i.paths[3]
               Alike(p, q) == Null \notin {p, q} /\ LastSlash(p) > 0 /\ Prefix(p) = Prefix(q)
               m == LastComponent(a)
               n == LastComponent(b)
    <3>1. ASSUME i.op = "compare"
          PROVE  /\ r.ab = -r.ba
                 /\ r.ab = 0 <=> a = b
                 /\ Alike(a, b) /\ Alike(b, c) => (r.ab <= 0 /\ r.bc <= 0 => r.ac <= 0)
                 /\ Alike(a, b) /\ IsNumber(m) /\ IsNumber(n) =>
                      \A x \in Spelled(m), y \in Spelled(n) :
                        x <= MaxInt64 /\ y <= MaxInt64 => r.ab = CmpDirect(x, y)
      <4>1. i.paths \in TextOrNot \X TextOrNot \X TextOrNot
        BY <2>3, <3>1, InputsAssumption
      <4>2. r = [ab |-> DbusPathCmp(a, b), ba |-> DbusPathCmp(b, a),
                 bc |-> DbusPathCmp(b, c), ac |-> DbusPathCmp(a, c)]
        BY <2>3, <3>1 DEF IsAnswer
      <4> HIDE DEF i, r
      <4>3. a \in TextOrNot /\ b \in TextOrNot /\ c \in TextOrNot
        BY <4>1
      <4>4. r.ab = DbusPathCmp(a, b) /\ r.ba = DbusPathCmp(b, a) /\ r.bc = DbusPathCmp(b, c) /\ r.ac = DbusPathCmp(a, c)
        BY <4>2
      <4> HIDE DEF a, b, c
      <4>5. r.ab = -r.ba /\ (r.ab = 0 <=> a = b)
        BY <4>3, <4>4, TwoPaths
      <4>6. ASSUME Alike(a, b), Alike(b, c), r.ab <= 0, r.bc <= 0 PROVE r.ac <= 0
        <5>1. a \in Text /\ b \in Text /\ c \in Text
          BY <4>3, <4>6 DEF TextOrNot
        <5>2. Prefix(a) = Prefix(c) /\ LastSlash(a) > 0 /\ LastSlash(b) > 0 /\ Prefix(a) = Prefix(b) /\ Prefix(b) = Prefix(c)
          BY <4>6
        <5>3. /\ r.ab = ComponentCmp(LastComponent(a), LastComponent(b))
              /\ r.bc = ComponentCmp(LastComponent(b), LastComponent(c))
              /\ r.ac = ComponentCmp(LastComponent(a), LastComponent(c))
              /\ LastComponent(a) \in Text /\ LastComponent(b) \in Text /\ LastComponent(c) \in Text
          BY <4>4, <5>1, <5>2, PathsAlike
        <5> QED BY <4>6, <5>3, ComponentsAreOrdered
      <4>7. ASSUME Alike(a, b), IsNumber(m), IsNumber(n), NEW x \in Spelled(m), NEW y \in Spelled(n),
                   x <= MaxInt64, y <= MaxInt64
            PROVE  r.ab = CmpDirect(x, y)
        <5>1. a \in Text /\ b \in Text
          BY <4>3, <4>7 DEF TextOrNot
        <5>2. r.ab = ComponentCmp(m, n) /\ m \in Text /\ n \in Text
          BY <4>4, <4>7, <5>1, PathsAlike
        <5> HIDE DEF m, n
        <5> QED BY <4>7, <5>2, NumbersCompare
      <4> HIDE DEF Alike, m, n
      <4> QED BY <4>5, <4>6, <4>7, Zenon
    <3> HIDE DEF i, r
    <3>2. PathsAreOrdered'
      BY <3>1, Zenon DEF PathsAreOrdered, i, r
    <3> QED BY <3>2
  <2> QED BY <1>2, <2>1, <2>2, <2>3, CallsAreAnswered
<1> QED BY <1>1, <1>2, PTL DEF Spec

-----------------------------------------------------------------------------
(* What a buffer of a size holds of a text: all of it and the room that is *)
(* left, or what fits.                                                     *)
Held(full, size) ==
  [text |-> SubSeq(full, 1, Min({Len(full), size - 1})),
   len  |-> IF Len(full) < size THEN size - Len(full) ELSE 0]

(* What a buffer holds, with room for it or without.                       *)
LEMMA HeldIs ==
  ASSUME NEW S, NEW full \in Seq(S), NEW size \in Nat
  PROVE  /\ Len(full) < size => Held(full, size) = [text |-> full, len |-> size - Len(full)]
         /\ ~(Len(full) < size) => Held(full, size) = [text |-> SubSeq(full, 1, size - 1), len |-> 0]
<1>1. Len(full) \in Nat
  OBVIOUS
<1>2. ASSUME Len(full) < size PROVE Held(full, size) = [text |-> full, len |-> size - Len(full)]
  <2>1. size - 1 \in Nat /\ Len(full) <= size - 1
    BY <1>1, <1>2
  <2>2. Min({Len(full), size - 1}) = Len(full)
    BY <1>1, <2>1, LeastOfTwo
  <2>3. SubSeq(full, 1, Len(full)) = full
    BY SubSeqFull
  <2> QED BY <1>2, <2>2, <2>3 DEF Held
<1>3. ASSUME ~(Len(full) < size) PROVE Held(full, size) = [text |-> SubSeq(full, 1, size - 1), len |-> 0]
  <2>1. Min({Len(full), size - 1}) = size - 1
    <3>1. size - 1 \in Int /\ size - 1 <= Len(full)
      BY <1>1, <1>3
    <3> DEFINE m == size - 1
               n == Len(full)
    <3>2. m \in {n, m} /\ \A y \in {n, m} : m <= y
      BY <1>1, <3>1
    <3> HIDE DEF m, n
    <3>3. \A x \in {n, m} : (\A y \in {n, m} : x <= y) => x = m
      BY <1>1, <3>1, <3>2 DEF m, n
    <3>4. Min({n, m}) = m
      BY <3>2, <3>3 DEF Min
    <3> QED BY <3>4 DEF m, n
  <2> QED BY <1>3, <2>1 DEF Held
<1> QED BY <1>2, <1>3

(* Places up to one in the first of two texts, and those in the second. *)
LEMMA CutJoined ==
  ASSUME NEW S, NEW s \in Seq(S), NEW t \in Seq(S)
  PROVE  /\ \A k \in 0..Len(s) : SubSeq(s \o t, 1, k) = SubSeq(s, 1, k)
         /\ \A k \in 0..Len(t) : SubSeq(s \o t, 1, Len(s) + k) = s \o SubSeq(t, 1, k)
<1> DEFINE st == s \o t
<1>1. /\ st \in Seq(S) /\ Len(st) = Len(s) + Len(t) /\ Len(s) \in Nat /\ Len(t) \in Nat
      /\ \A i \in 1..(Len(s) + Len(t)) : st[i] = IF i <= Len(s) THEN s[i] ELSE t[i - Len(s)]
  BY ConcatProperties
<1> HIDE DEF st
<1>2. ASSUME NEW k \in 0..Len(s) PROVE SubSeq(st, 1, k) = SubSeq(s, 1, k)
  <2> DEFINE a == SubSeq(st, 1, k)
             b == SubSeq(s, 1, k)
  <2>1. a \in Seq(S) /\ Len(a) = k /\ \A i \in 1..k : a[i] = st[i]
    <3>1. k \in 0..Len(st) /\ k - 1 + 1 = k
      BY <1>1
    <3>2. a \in Seq(S) /\ Len(a) = IF 1 <= k THEN k - 1 + 1 ELSE 0
      BY <1>1, <3>1, Parts
    <3>3. \A i \in 1..(k - 1 + 1) : a[i] = st[1 + i - 1]
      BY <1>1, <3>1, Parts
    <3> HIDE DEF a
    <3> QED BY <3>1, <3>2, <3>3
  <2>2. b \in Seq(S) /\ Len(b) = k /\ \A i \in 1..k : b[i] = s[i]
    <3>2. b \in Seq(S) /\ Len(b) = IF 1 <= k THEN k - 1 + 1 ELSE 0
      BY Parts
    <3>3. \A i \in 1..(k - 1 + 1) : b[i] = s[1 + i - 1]
      BY Parts
    <3> HIDE DEF b
    <3> QED BY <3>2, <3>3
  <2> HIDE DEF a, b
  <2>3. ASSUME NEW i \in 1..k PROVE a[i] = b[i]
    <3>1. i \in 1..(Len(s) + Len(t)) /\ i <= Len(s)
      BY <1>1
    <3>2. st[i] = s[i]
      BY <1>1, <3>1
    <3> QED BY <2>1, <2>2, <3>2, Zenon
  <2> QED BY <2>1, <2>2, <2>3, SeqEqual DEF a, b
<1>3. ASSUME NEW k \in 0..Len(t) PROVE SubSeq(st, 1, Len(s) + k) = s \o SubSeq(t, 1, k)
  <2> DEFINE n == Len(s) + k
             a == SubSeq(st, 1, n)
             c == SubSeq(t, 1, k)
             b == s \o c
  <2>0. n \in 0..Len(st) /\ n - 1 + 1 = n
    BY <1>1
  <2>1. a \in Seq(S) /\ Len(a) = n /\ \A i \in 1..n : a[i] = st[i]
    <3> HIDE DEF n
    <3>2. a \in Seq(S) /\ Len(a) = IF 1 <= n THEN n - 1 + 1 ELSE 0
      BY <1>1, <2>0, Parts
    <3>3. \A i \in 1..(n - 1 + 1) : a[i] = st[1 + i - 1]
      BY <1>1, <2>0, Parts
    <3> HIDE DEF a
    <3> QED BY <2>0, <3>2, <3>3
  <2>2. c \in Seq(S) /\ Len(c) = k /\ \A i \in 1..k : c[i] = t[i]
    <3>2. c \in Seq(S) /\ Len(c) = IF 1 <= k THEN k - 1 + 1 ELSE 0
      BY Parts
    <3>3. \A i \in 1..(k - 1 + 1) : c[i] = t[1 + i - 1]
      BY Parts
    <3> HIDE DEF c
    <3> QED BY <3>2, <3>3
  <2> HIDE DEF c
  <2>3. /\ b \in Seq(S) /\ Len(b) = n
        /\ \A i \in 1..n : b[i] = IF i <= Len(s) THEN s[i] ELSE c[i - Len(s)]
    BY <2>2, ConcatProperties
  <2> HIDE DEF a, b
  <2>4. ASSUME NEW i \in 1..n PROVE a[i] = b[i]
    <3>1. i \in 1..(Len(s) + Len(t)) /\ i \in Nat /\ n \in Nat
      BY <1>1
    <3>2. CASE i <= Len(s)
      <4>1. st[i] = s[i] /\ b[i] = s[i]
        BY <1>1, <2>3, <3>1, <3>2
      <4> QED BY <2>1, <4>1, Zenon
    <3>3. CASE ~(i <= Len(s))
      <4>1. st[i] = t[i - Len(s)] /\ b[i] = c[i - Len(s)]
        BY <1>1, <2>3, <3>1, <3>3
      <4>2. i - Len(s) \in 1..k
        BY <1>1, <3>1, <3>3
      <4>3. c[i - Len(s)] = t[i - Len(s)]
        BY <2>2, <4>2
      <4> QED BY <2>1, <4>1, <4>3, Zenon
    <3> QED BY <3>2, <3>3
  <2> QED BY <2>1, <2>3, <2>4, SeqEqual DEF a, b, c
<1> QED BY <1>2, <1>3 DEF st

(* What is appended to a buffer is appended to what it was to hold. *)
LEMMA WrittenIsHeld ==
  ASSUME NEW S, NEW full \in Seq(S), NEW s \in Seq(S), NEW size \in Nat
  PROVE  full \o s \in Seq(S) /\ Written(Held(full, size), s) = Held(full \o s, size)
<1> DEFINE b == Held(full, size)
           n == Len(full)
           m == Len(s)
<1>1. /\ full \o s \in Seq(S) /\ Len(full \o s) = n + m /\ n \in Nat /\ m \in Nat
  BY ConcatProperties
<1>2. CASE n + m < size
  <2>1. b = [text |-> full, len |-> size - n]
    BY <1>1, <1>2, HeldIs
  <2>2. Held(full \o s, size) = [text |-> full \o s, len |-> size - (n + m)]
    BY <1>1, <1>2, HeldIs
  <2>3. m < size - n /\ size - (n + m) = size - n - m
    BY <1>1, <1>2
  <2>4. Written(b, s) = [text |-> full \o s, len |-> size - n - m]
    BY <2>1, <2>3 DEF Written
  <2> QED BY <1>1, <2>2, <2>3, <2>4
<1>3. CASE ~(n + m < size) /\ n < size
  <2>1. b = [text |-> full, len |-> size - n]
    BY <1>3, HeldIs
  <2>2. Held(full \o s, size) = [text |-> SubSeq(full \o s, 1, size - 1), len |-> 0]
    BY <1>1, <1>3, HeldIs
  <2>3. ~(m < size - n) /\ size - n - 1 \in 0..m /\ size - 1 = n + (size - n - 1)
    BY <1>1, <1>3
  <2>4. Written(b, s) = [text |-> full \o SubSeq(s, 1, size - n - 1), len |-> 0]
    BY <2>1, <2>3 DEF Written
  <2>5. SubSeq(full \o s, 1, n + (size - n - 1)) = full \o SubSeq(s, 1, size - n - 1)
    BY <2>3, CutJoined
  <2> QED BY <1>1, <2>2, <2>3, <2>4, <2>5
<1>4. CASE ~(n < size)
  <2>1. b = [text |-> SubSeq(full, 1, size - 1), len |-> 0]
    BY <1>4, HeldIs
  <2>0. ~(Len(full \o s) < size)
    BY <1>1, <1>4
  <2>2. Held(full \o s, size) = [text |-> SubSeq(full \o s, 1, size - 1), len |-> 0]
    BY <1>1, <2>0, HeldIs
  <2>3. ~(m < 0) /\ SubSeq(s, 1, 0 - 1) = <<>>
    BY <1>1, SubSeqEmpty
  <2>4. SubSeq(full, 1, size - 1) \in Seq(S)
    <3>1. CASE size = 0
      <4>1. SubSeq(full, 1, size - 1) = <<>>
        BY <3>1, SubSeqEmpty
      <4> QED BY <4>1, EmptySeq
    <3>2. CASE size # 0
      <4>1. size - 1 \in 0..Len(full)
        BY <1>1, <1>4, <3>2
      <4> QED BY <4>1, Parts
    <3> QED BY <3>1, <3>2
  <2>5. Written(b, s) = [text |-> SubSeq(full, 1, size - 1), len |-> 0]
    <3>1. b.text = SubSeq(full, 1, size - 1) /\ b.len = 0
      BY <2>1
    <3>2. Written(b, s) = [text |-> SubSeq(full, 1, size - 1) \o <<>>, len |-> 0]
      BY <2>3, <3>1 DEF Written
    <3> QED BY <2>4, <3>2, ConcatEmptySeq
  <2>6. SubSeq(full \o s, 1, size - 1) = SubSeq(full, 1, size - 1)
    <3>1. CASE size = 0
      BY <3>1, SubSeqEmpty
    <3>2. CASE size # 0
      <4>1. size - 1 \in 0..Len(full)
        BY <1>1, <1>4, <3>2
      <4> QED BY <4>1, CutJoined
    <3> QED BY <3>1, <3>2
  <2> QED BY <1>1, <2>2, <2>5, <2>6
<1> QED BY <1>1, <1>2, <1>3, <1>4

(* An empty buffer, and g_strlcpy. *)
LEMMA HeldInit ==
  ASSUME NEW size \in Nat
  PROVE  StrbufInit(size) = Held(<<>>, size)
<1>1. <<>> \in Seq(Nat) /\ Len(<<>>) = 0
  OBVIOUS
<1>2. CASE 0 < size
  <2>1. Held(<<>>, size) = [text |-> <<>>, len |-> size - Len(<<>>)]
    BY <1>1, <1>2, HeldIs
  <2>2. size - Len(<<>>) = size
    BY <1>1
  <2> QED BY <2>1, <2>2, Zenon DEF StrbufInit
<1>3. CASE size = 0
  <2>1. Held(<<>>, size) = [text |-> SubSeq(<<>>, 1, size - 1), len |-> 0]
    <3>1. ~(Len(<<>>) < size)
      BY <1>1, <1>3
    <3> QED BY <1>1, <3>1, HeldIs
  <2>2. SubSeq(<<>>, 1, size - 1) = <<>>
    BY <1>3, SubSeqEmpty
  <2> QED BY <1>3, <2>1, <2>2, Zenon DEF StrbufInit
<1> QED BY <1>2, <1>3

(* A buffer that was filled bit by bit holds what a copy would.            *)
LEMMA HeldCopy ==
  ASSUME NEW S, NEW full \in Seq(S), NEW size \in Nat
  PROVE  Held(full, size).text = Strlcpy(full, size)
<1>1. CASE Len(full) < size
  <2>1. Held(full, size) = [text |-> full, len |-> size - Len(full)]
    BY <1>1, HeldIs
  <2> QED BY <1>1, <2>1 DEF Strlcpy
<1>2. CASE ~(Len(full) < size)
  <2>1. Held(full, size) = [text |-> SubSeq(full, 1, size - 1), len |-> 0]
    BY <1>2, HeldIs
  <2> QED BY <1>2, <2>1 DEF Strlcpy
<1> QED BY <1>1, <1>2

(* nm_utils_strbuf_append of three texts, one of them none maybe. *)
Appended(size, one, two, c) == StrbufAppendC(StrbufAppendStr(StrbufAppend(StrbufInit(size), one), two), c)
AllOf(one, two, c) == one \o (IF two = Null THEN <<>> ELSE two) \o <<c>>

(* What was appended in three ways is held as one text.                    *)
LEMMA ThreeAppended ==
  ASSUME NEW size \in Nat, NEW one \in Text, NEW two \in TextOrNot, NEW c \in 1..255
  PROVE  Appended(size, one, two, c) = Held(AllOf(one, two, c), size)
<1> DEFINE mid == IF two = Null THEN <<>> ELSE two
           a == StrbufAppend(StrbufInit(size), one)
           b == StrbufAppendStr(a, two)
           r == Appended(size, one, two, c)
           S == 1..255
<1>0. r = StrbufAppendC(b, c)
  BY DEF Appended
<1>1. one \in Seq(S) /\ mid \in Seq(S) /\ <<c>> \in Seq(S)
  BY DEF Text, TextOrNot
<1> HIDE DEF S
<1>2. a = Held(one, size)
  <2>1. <<>> \in Seq(S) /\ <<>> \o one = one
    BY <1>1, ConcatEmptySeq
  <2>2. Written(Held(<<>>, size), one) = Held(<<>> \o one, size)
    BY <1>1, <2>1, WrittenIsHeld
  <2>3. a = Written(Held(<<>>, size), one)
    BY HeldInit DEF StrbufAppend
  <2> QED BY <2>1, <2>2, <2>3, Zenon
<1> HIDE DEF a
<1>3. b = Held(one \o mid, size) /\ one \o mid \in Seq(S)
  <2>1. CASE two = Null
    <3>1. one \o <<>> = one
      BY <1>1, ConcatEmptySeq
    <3> QED BY <1>1, <1>2, <2>1, <3>1 DEF StrbufAppendStr
  <2>2. CASE two # Null
    <3>1. mid = two /\ b = Written(a, two)
      BY <2>2 DEF StrbufAppendStr
    <3> HIDE DEF b, mid
    <3>2. one \o mid \in Seq(S) /\ Written(Held(one, size), mid) = Held(one \o mid, size)
      BY <1>1, WrittenIsHeld
    <3> QED BY <1>2, <3>1, <3>2, Zenon
  <2> QED BY <2>1, <2>2
<1> HIDE DEF b, mid, r
<1>4. r = Held(one \o mid \o <<c>>, size)
  BY <1>0, <1>1, <1>3, WrittenIsHeld DEF StrbufAppendC
<1>5. AllOf(one, two, c) = one \o mid \o <<c>>
  BY DEF mid, AllOf
<1> QED BY <1>4, <1>5, Zenon DEF r

-----------------------------------------------------------------------------
(* nm_strquote leaves the last place of its buffer to the end of the text. *)
LEMMA QuotesFit ==
  ASSUME NEW size \in Nat, size > 0, NEW str \in TextOrNot
  PROVE  Len(Strquote(size, str)) < size
<1>1. CASE str = Null
  <2> DEFINE b == StrbufInit(size)
             r == Written(b, NullText)
  <2>1. NullText \in Text
    BY DEF NullText, Text
  <2>2. IsBuffer(b, size)
    <3>1. <<>> \in Text /\ Len(<<>>) = 0
      BY DEF Text
    <3>2. b.text = <<>> /\ b.len = size /\ b \in [text : Text, len : Nat]
      BY <3>1 DEF StrbufInit
    <3> HIDE DEF b
    <3> QED BY <3>1, <3>2 DEF IsBuffer
  <2> HIDE DEF b
  <2>3. Len(r.text) < size
    BY <2>1, <2>2, AppendStaysInside
  <2>4. NullText # Null
    BY <2>1, TextIsNotNull
  <2>5. Strquote(size, str) = r.text
    BY <1>1, <2>4 DEF Strquote, StrbufAppendStr, b
  <2> HIDE DEF r
  <2> QED BY <2>3, <2>5
<1>2. CASE str # Null /\ size <= 2
  <2>1. Strquote(size, str) = IF size = 2 THEN <<Caret>> ELSE <<>>
    BY <1>2 DEF Strquote
  <2>2. Len(<<Caret>>) = 1 /\ Len(<<>>) = 0
    OBVIOUS
  <2> QED BY <1>2, <2>1, <2>2
<1>3. CASE str # Null /\ size >= 3
  <2> DEFINE n == Min({Len(str), size - 3})
             mid == SubSeq(str, 1, n)
             end == IF n < Len(str) THEN Caret ELSE Quote
  <2>1. str \in Text /\ Len(str) \in Nat /\ size - 3 \in Nat
    BY <1>3, Characters DEF TextOrNot
  <2>2. n \in 0..Len(str) /\ n <= size - 3
    BY <2>1, LeastOfTwo
  <2>3. Strquote(size, str) = StrquoteA(size - 3, str)
    BY <1>3, <2>1, QuotesAgree
  <2>4. StrquoteA(size - 3, str) = <<Quote>> \o mid \o <<end>>
    BY <1>3 DEF StrquoteA
  <2> HIDE DEF n
  <2>5. mid \in Text /\ Len(mid) = n
    BY <2>1, <2>2, CutText
  <2>6. /\ <<Quote>> \in Text /\ Len(<<Quote>>) = 1
        /\ <<end>> \in Text /\ Len(<<end>>) = 1
    BY DEF Text, Quote, Caret
  <2> HIDE DEF mid, end
  <2>7. <<Quote>> \o mid \in Text /\ Len(<<Quote>> \o mid) = 1 + n
    BY <2>5, <2>6, JoinedText
  <2>8. Len(<<Quote>> \o mid \o <<end>>) = n + 2
    BY <2>2, <2>6, <2>7, JoinedText
  <2> QED BY <2>1, <2>2, <2>3, <2>4, <2>8
<1> QED BY <1>1, <1>2, <1>3

(* A name in its format is never cut, though the buffer is made to fit.    *)
LEMMA NameIsWhole ==
  ASSUME NEW before \in Text, NEW after \in Text, NEW name \in Text
  PROVE  ConstructName(before, after, name).text = before \o name \o after
<1> DEFINE full == before \o name \o after
           size == Len(before) + 2 + Len(after) + Len(name)
<1>1. Len(before) \in Nat /\ Len(after) \in Nat /\ Len(name) \in Nat
  BY Characters
<1>2. Len(full) = Len(before) + Len(name) + Len(after)
  <2>1. before \o name \in Text /\ Len(before \o name) = Len(before) + Len(name)
    BY JoinedText
  <2> QED BY <2>1, JoinedText
<1>3. Len(full) < size
  BY <1>1, <1>2
<1>4. Strlcpy(full, size) = full
  <2> HIDE DEF full, size
  <2> QED BY <1>3 DEF Strlcpy
<1>5. ConstructName(before, after, name) =
        IF size < 200 THEN [text |-> Strlcpy(full, size), free |-> FALSE] ELSE [text |-> full, free |-> TRUE]
  BY DEF ConstructName
<1> HIDE DEF full, size
<1>6. ConstructName(before, after, name).text = full
  BY <1>4, <1>5
<1> QED BY <1>6 DEF full

(* The number of one digit. *)
LEMMA DigitSpells ==
  ASSUME NEW n \in 0..9
  PROVE  Spelled(<<48 + n>>) = {n}
<1> DEFINE d == 48 + n
           s == <<d>>
<1>1. d \in Digits /\ d \in 1..255 /\ d - 48 = n
  BY DEF Digits
<1> HIDE DEF d
<1>2. s \in Text /\ s \in Seq(Digits) /\ s # <<>> /\ Len(s) = 1 /\ s[1] = d
  BY <1>1 DEF Text
<1>3. ToSet(s) \subseteq Digits
  BY <1>1, <1>2 DEF ToSet
<1>4. Spelled(s) = {Numeral(s)}
  BY <1>2, <1>3, DigitsSpell
<1>5. PICK f : f[0] = 0 /\ f[Len(s)] = Numeral(s) /\ \A k \in 1..Len(s) : f[k] = 10 * f[k - 1] + s[k] - 48
  BY <1>2, NumeralGrows, ZenonT(30)
<1>6. f[1] = 10 * f[0] + d - 48
  <2>1. 1 \in 1..Len(s) /\ 1 - 1 = 0
    BY <1>2
  <2>2. f[1] = 10 * f[1 - 1] + s[1] - 48
    BY <1>5, <2>1
  <2> QED BY <1>2, <2>1, <2>2
<1>7. d \in Int
  BY <1>1
<1>8. Numeral(s) = n
  BY <1>1, <1>2, <1>5, <1>6, <1>7
<1> QED BY <1>4, <1>8 DEF d

(* What is written of an enumeration's value is all that fits of its name  *)
(* or, where it has none, of its number, and tells which value it is.      *)
LEMMA EnumIsWhole ==
  ASSUME NEW names, AreNames(names), NEW val \in 0..9, NEW size
  PROVE  LET whole == Enum2Str(names, val, NoBuffer)
             named == {v \in DOMAIN names : names[v] = whole}
         IN /\ Enum2Str(names, val, size) = Strlcpy(whole, ToStringBufferInit(size))
            /\ IF named # {} THEN named = {val}
               ELSE whole[1] = 40 /\ Spelled(SubSeq(whole, 2, Len(whole) - 1)) = {val}
<1> DEFINE number == <<40, 48 + val, 41>>
           w == IF val \in DOMAIN names THEN names[val] ELSE number
           whole == Enum2Str(names, val, NoBuffer)
           named == {v \in DOMAIN names : names[v] = whole}
<1>1. number \in Text /\ Len(number) = 3 /\ number[1] = 40 /\ number[2] = 48 + val
  BY DEF Text
<1> HIDE DEF number
<1>2. Len(w) < StaticSize
  <2>1. CASE val \in DOMAIN names
    BY <2>1 DEF AreNames
  <2>2. CASE val \notin DOMAIN names
    <3>1. w = number
      BY <2>2
    <3> HIDE DEF w
    <3>2. 3 < StaticSize
      BY StaticSizeAssumption
    <3> QED BY <1>1, <3>1, <3>2
  <2> QED BY <2>1, <2>2
<1>3. \A n : Enum2Str(names, val, n) = Strlcpy(w, ToStringBufferInit(n))
  BY DEF Enum2Str, number
<1> HIDE DEF w
<1>4. whole = w
  <2>1. ToStringBufferInit(NoBuffer) = StaticSize
    BY DEF ToStringBufferInit
  <2>2. Strlcpy(w, StaticSize) = w
    BY <1>2 DEF Strlcpy
  <2>3. whole = Strlcpy(w, ToStringBufferInit(NoBuffer))
    BY <1>3
  <2> QED BY <2>1, <2>2, <2>3
<1> HIDE DEF whole
<1>5. Enum2Str(names, val, size) = Strlcpy(whole, ToStringBufferInit(size))
  BY <1>3, <1>4
<1>6. CASE val \in DOMAIN names
  <2>1. whole = names[val]
    BY <1>4, <1>6 DEF w
  <2>2. named = {val}
    BY <1>6, <2>1 DEF AreNames
  <2> HIDE DEF named
  <2>3. IF named # {} THEN named = {val}
        ELSE whole[1] = 40 /\ Spelled(SubSeq(whole, 2, Len(whole) - 1)) = {val}
    BY <2>2
  <2> QED BY <1>5, <2>3 DEF named, whole
<1>7. CASE val \notin DOMAIN names
  <2>1. whole = number
    BY <1>4, <1>7 DEF w
  <2>2. named = {}
    BY <1>1, <2>1 DEF AreNames
  <2>3. SubSeq(number, 2, 2) = <<48 + val>>
    <3>1. 48 + val \in 1..255
      OBVIOUS
    <3>2. /\ SubSeq(number, 2, 2) \in Seq(1..255)
          /\ Len(SubSeq(number, 2, 2)) = IF 2 <= 2 THEN 2 - 2 + 1 ELSE 0
          /\ \A i \in 1..(2 - 2 + 1) : SubSeq(number, 2, 2)[i] = number[2 + i - 1]
      <4>1. number \in Seq(1..255) /\ 2 \in Nat \ {0} /\ 2 \in 0..Len(number)
        BY <1>1 DEF Text
      <4>2. SubSeq(number, 2, 2) \in Seq(1..255)
        BY <4>1, Parts
      <4>3. Len(SubSeq(number, 2, 2)) = IF 2 <= 2 THEN 2 - 2 + 1 ELSE 0
        BY <4>1, Parts
      <4>4. \A i \in 1..(2 - 2 + 1) : SubSeq(number, 2, 2)[i] = number[2 + i - 1]
        BY <4>1, Parts
      <4> QED BY <4>2, <4>3, <4>4
    <3>3. Len(SubSeq(number, 2, 2)) = 1 /\ SubSeq(number, 2, 2)[1] = 48 + val
      BY <1>1, <3>2
    <3>4. <<48 + val>> \in Seq(1..255) /\ Len(<<48 + val>>) = 1 /\ <<48 + val>>[1] = 48 + val
      BY <3>1
    <3>5. \A i \in 1..1 : SubSeq(number, 2, 2)[i] = <<48 + val>>[i]
      BY <3>3, <3>4
    <3> QED BY <3>2, <3>3, <3>4, <3>5, SeqEqual, ZenonT(40)
  <2>4. Len(number) - 1 = 2
    BY <1>1
  <2>5. whole[1] = 40 /\ Spelled(SubSeq(whole, 2, Len(whole) - 1)) = {val}
    BY <1>1, <2>1, <2>3, <2>4, DigitSpells
  <2> HIDE DEF named
  <2> QED BY <1>5, <2>2, <2>5 DEF named, whole
<1> QED BY <1>6, <1>7

-----------------------------------------------------------------------------
(* The two loops over flags: what nm_utils_flags2str does for each name,   *)
(* and the names that are joined with commas between them.                 *)
Parted(b) == IF b.text # <<>> THEN StrbufAppendC(b, Comma) ELSE b
FlagStep(ctx, s, d) ==
  IF d.flag # {} /\ d.flag \subseteq s.flags
  THEN [flags |-> s.flags \ d.flag, buf |-> StrbufAppendStr(Parted(s.buf), d.name)]
  ELSE s
JoinStep(ctx, s, w) == s \o (IF s = <<>> \/ w = <<>> THEN w ELSE <<Comma>> \o w)
Flagged == INSTANCE FoldFacts WITH Op <- FlagStep
Joining == INSTANCE FoldFacts WITH Op <- JoinStep

Desc == [name : Text \ {<<>>}, flag : SUBSET (0..3)]
FlagsStart(flags, z) == [flags |-> flags, buf |-> StrbufInit(z)]

(* What is written without a flag, and at the end of the loop: the number  *)
(* of what is left.                                                        *)
WithoutFlags(b, descs) ==
  LET none == SelectInSeq(descs, LAMBDA d : d.flag = {}) IN
  IF none = 0 THEN <<>> ELSE StrbufAppendStr(b, descs[none].name).text
AfterFlags(s) == IF s.flags = {} THEN s.buf.text ELSE StrbufAppend(Parted(s.buf), Hex(s.flags)).text

(* The names of flags are passed one after the other.                      *)
LEMMA FlagLoop ==
  ASSUME NEW descs \in Seq(Desc), NEW flags, NEW size
  PROVE  \E f : /\ f[0] = FlagsStart(flags, ToStringBufferInit(size))
                /\ \A k \in 1..Len(descs) : f[k] = FlagStep(0, f[k - 1], descs[k])
                /\ Flags2Str(descs, flags, size) =
                     IF flags = {} THEN WithoutFlags(f[0].buf, descs) ELSE AfterFlags(f[Len(descs)])
<1> DEFINE start == FlagsStart(flags, ToStringBufferInit(size))
           f == Flagged!Trace(0, start, descs)
           all == Flagged!Fold(0, start, descs)
<1>1. Flags2Str(descs, flags, size) = IF flags = {} THEN WithoutFlags(start.buf, descs) ELSE AfterFlags(all)
  BY DEF Flags2Str, Flagged!Fold, FoldLeft, MapThenFoldSet, Flagged!MapThenFoldSet,
         Max, Flagged!Largest, FlagStep, FlagsStart, Parted, WithoutFlags, AfterFlags
<1>2. Flagged!IsTrace(f, 0, start, descs)
  BY Flagged!FoldTrace, Smallest
<1> HIDE DEF f, all, start
<1>3. f[0] = start /\ f[Len(descs)] = all /\ \A k \in 1..Len(descs) : f[k] = FlagStep(0, f[k - 1], descs[k])
  BY <1>2 DEF Flagged!IsTrace, all
<1> QED BY <1>1, <1>3, Zenon DEF start

(* The words are joined one after the other.                               *)
LEMMA JoinLoop ==
  ASSUME NEW T, NEW ws \in Seq(T)
  PROVE  \E g : /\ g[0] = <<>> /\ g[Len(ws)] = Joined(ws)
                /\ \A k \in 1..Len(ws) : g[k] = JoinStep(0, g[k - 1], ws[k])
<1>1. Joining!Fold(0, <<>>, ws) = Joined(ws)
  BY DEF Joining!Fold, FoldLeft, MapThenFoldSet, Joining!MapThenFoldSet, Max, Joining!Largest,
         JoinStep, Joined
<1>2. Joining!IsTrace(Joining!Trace(0, <<>>, ws), 0, <<>>, ws)
  BY Joining!FoldTrace, Smallest
<1> QED BY <1>1, <1>2 DEF Joining!IsTrace

(* Where a comma is needed, and where it is only tried in a buffer that is *)
(* full, the buffer holds what it has to.                                  *)
LEMMA PartedIsHeld ==
  ASSUME NEW S, Comma \in S, NEW full \in Seq(S), NEW size \in Nat
  PROVE  /\ full = <<>> => Parted(Held(full, size)) = Held(full, size)
         /\ full # <<>> => Parted(Held(full, size)) = Held(full \o <<Comma>>, size)
<1> DEFINE b == Held(full, size)
<1>0. Len(full) \in Nat /\ (Len(full) = 0 <=> full = <<>>) /\ <<Comma>> \in Seq(S) /\ Len(<<Comma>>) = 1
  BY EmptySeq
<1>1. CASE full = <<>>
  <2>1. Held(<<>>, size) = [text |-> <<>>, len |-> size]
    BY HeldInit DEF StrbufInit
  <2> QED BY <1>1, <2>1 DEF Parted
<1>2. CASE full # <<>> /\ b.text # <<>>
  <2>1. Parted(b) = Written(b, <<Comma>>)
    BY <1>2 DEF Parted, StrbufAppendC
  <2>2. Written(b, <<Comma>>) = Held(full \o <<Comma>>, size)
    BY <1>0, WrittenIsHeld
  <2> QED BY <1>2, <2>1, <2>2, Zenon
<1>3. CASE full # <<>> /\ b.text = <<>>
  <2>1. ~(Len(full) < size)
    <3>1. SUFFICES ASSUME Len(full) < size PROVE FALSE
      OBVIOUS
    <3>2. b = [text |-> full, len |-> size - Len(full)]
      BY <3>1, HeldIs
    <3> QED BY <1>3, <3>2
  <2>2. b = [text |-> SubSeq(full, 1, size - 1), len |-> 0]
    BY <2>1, HeldIs
  <2>3. size <= 1
    <3>1. SUFFICES ASSUME size >= 2 PROVE FALSE
      OBVIOUS
    <3>2. size - 1 \in 0..Len(full) /\ size - 1 >= 1
      BY <1>0, <2>1, <3>1
    <3>3. Len(SubSeq(full, 1, size - 1)) = IF 1 <= size - 1 THEN size - 1 - 1 + 1 ELSE 0
      BY <3>2, Parts
    <3>4. Len(SubSeq(full, 1, size - 1)) = size - 1
      BY <3>2, <3>3
    <3>5. SubSeq(full, 1, size - 1) = <<>>
      BY <1>3, <2>2
    <3>6. Len(<<>>) = 0
      OBVIOUS
    <3> QED BY <3>2, <3>4, <3>5, <3>6
  <2>4. full \o <<Comma>> \in Seq(S) /\ Len(full \o <<Comma>>) = Len(full) + 1
    BY <1>0, ConcatProperties
  <2>5. ~(Len(full \o <<Comma>>) < size)
    BY <1>0, <2>1, <2>4
  <2>6. Held(full \o <<Comma>>, size) = [text |-> SubSeq(full \o <<Comma>>, 1, size - 1), len |-> 0]
    BY <2>4, <2>5, HeldIs
  <2>7. SubSeq(full \o <<Comma>>, 1, size - 1) = <<>> /\ SubSeq(full, 1, size - 1) = <<>>
    BY <2>3, SubSeqEmpty
  <2>8. Parted(b) = b
    BY <1>3 DEF Parted
  <2> QED BY <1>3, <2>2, <2>6, <2>7, <2>8, Zenon
<1> QED BY <1>1, <1>2, <1>3

(* One more word in the buffer is one more word that is joined. *)
LEMMA WordIsHeld ==
  ASSUME NEW S, Comma \in S, NEW full \in Seq(S), NEW w \in Seq(S), w # <<>>, NEW size \in Nat
  PROVE  /\ JoinStep(0, full, w) \in Seq(S)
         /\ Written(Parted(Held(full, size)), w) = Held(JoinStep(0, full, w), size)
<1>0. <<Comma>> \in Seq(S)
  OBVIOUS
<1>1. CASE full = <<>>
  <2>1. JoinStep(0, full, w) = full \o w
    BY <1>1 DEF JoinStep
  <2>2. Parted(Held(full, size)) = Held(full, size)
    BY <1>1, PartedIsHeld
  <2>3. full \o w \in Seq(S) /\ Written(Held(full, size), w) = Held(full \o w, size)
    BY WrittenIsHeld
  <2> QED BY <2>1, <2>2, <2>3, Zenon
<1>2. CASE full # <<>>
  <2>1. JoinStep(0, full, w) = full \o (<<Comma>> \o w)
    BY <1>2 DEF JoinStep
  <2>2. full \o (<<Comma>> \o w) = (full \o <<Comma>>) \o w
    BY <1>0, ConcatAssociative
  <2>3. Parted(Held(full, size)) = Held(full \o <<Comma>>, size)
    BY <1>2, PartedIsHeld
  <2>4. full \o <<Comma>> \in Seq(S)
    BY <1>0, ConcatProperties
  <2>5. /\ (full \o <<Comma>>) \o w \in Seq(S)
        /\ Written(Held(full \o <<Comma>>, size), w) = Held((full \o <<Comma>>) \o w, size)
    BY <2>4, WrittenIsHeld
  <2> QED BY <2>1, <2>2, <2>3, <2>5, Zenon
<1> QED BY <1>1, <1>2

-----------------------------------------------------------------------------
(* The places whose names a loop over flags takes, and their bits up to k. *)
NamedBy(f, descs) == {i \in DOMAIN descs : descs[i].flag # {} /\ descs[i].flag \subseteq f[i - 1].flags}
BitsOf(descs, named, k) == UNION {descs[j].flag : j \in named \cap 1..k}
FlagTrace(f, descs, flags, z) ==
  /\ f[0] = FlagsStart(flags, z)
  /\ \A k \in 1..Len(descs) : f[k] = FlagStep(0, f[k - 1], descs[k])

HasCharacters(S) == 1..255 \subseteq S
WordTrace(g, ws, descs, names) ==
  /\ g[0] = <<>>
  /\ \A k \in 1..Len(descs) : /\ g[k] = JoinStep(0, g[k - 1], ws[k])
                               /\ ws[k] = IF k \in names THEN descs[k].name ELSE <<>>

(* A name that is taken is written and takes its bits, another one changes *)
(* nothing.                                                                *)
LEMMA OneFlag ==
  ASSUME NEW descs \in Seq(Desc), NEW flags, NEW z, NEW f, FlagTrace(f, descs, flags, z),
         NEW k \in 1..Len(descs)
  PROVE  /\ descs[k].name \in Text /\ descs[k].name # <<>>
         /\ k \in NamedBy(f, descs) =>
              /\ f[k].flags = f[k - 1].flags \ descs[k].flag
              /\ f[k].buf = Written(Parted(f[k - 1].buf), descs[k].name)
         /\ k \notin NamedBy(f, descs) => f[k] = f[k - 1]
<1>1. descs[k] \in Desc /\ k \in DOMAIN descs
  BY ElementOfSeq
<1>2. descs[k].name \in Text /\ descs[k].name # <<>>
  BY <1>1 DEF Desc
<1>3. f[k] = FlagStep(0, f[k - 1], descs[k])
  BY DEF FlagTrace
<1>4. StrbufAppendStr(Parted(f[k - 1].buf), descs[k].name) = Written(Parted(f[k - 1].buf), descs[k].name)
  BY <1>2, TextIsNotNull DEF StrbufAppendStr
<1>5. CASE k \in NamedBy(f, descs)
  <2>1. f[k] = [flags |-> f[k - 1].flags \ descs[k].flag,
                buf |-> StrbufAppendStr(Parted(f[k - 1].buf), descs[k].name)]
    BY <1>3, <1>5 DEF FlagStep, NamedBy
  <2> QED BY <1>2, <1>4, <1>5, <2>1
<1>6. CASE k \notin NamedBy(f, descs)
  <2>1. f[k] = f[k - 1]
    BY <1>1, <1>3, <1>6 DEF FlagStep, NamedBy
  <2> QED BY <1>2, <1>6, <2>1
<1> QED BY <1>5, <1>6

(* The flags that are left are those that no name has taken.               *)
LEMMA FlagsAreTaken ==
  ASSUME NEW descs \in Seq(Desc), NEW flags, NEW z, NEW f, FlagTrace(f, descs, flags, z)
  PROVE  \A k \in 0..Len(descs) : f[k].flags = flags \ BitsOf(descs, NamedBy(f, descs), k)
<1> DEFINE n == Len(descs)
           named == NamedBy(f, descs)
           B(k) == BitsOf(descs, named, k)
           G == {k \in 0..n : f[k].flags = flags \ B(k)}
<1>0. n \in Nat
  OBVIOUS
<1>1. 0 \in G
  <2>1. B(0) = {}
    BY DEF BitsOf
  <2>2. f[0].flags = flags
    BY DEF FlagTrace, FlagsStart
  <2>3. 0 \in 0..n /\ flags \ {} = flags
    BY <1>0
  <2> HIDE DEF B, n
  <2> QED BY <2>1, <2>2, <2>3
<1>2. ASSUME NEW k \in 0..(n - 1), k \in G PROVE k + 1 \in G
  <2>1. k + 1 \in 1..n /\ k + 1 \in 0..n /\ (k + 1) - 1 = k /\ k \in Nat
    BY <1>0
  <2>2. f[k].flags = flags \ B(k)
    BY <1>2
  <2>3. k + 1 \in named => f[k + 1].flags = f[k].flags \ descs[k + 1].flag
    BY <2>1, OneFlag
  <2>4. k + 1 \notin named => f[k + 1] = f[k]
    BY <2>1, OneFlag
  <2>5. 1..(k + 1) = (1..k) \union {k + 1}
    BY <2>1
  <2>6. B(k + 1) = IF k + 1 \in named THEN B(k) \union descs[k + 1].flag ELSE B(k)
    <3> HIDE DEF named
    <3> QED BY <2>5 DEF BitsOf
  <2>7. f[k + 1].flags = flags \ B(k + 1)
    <3> HIDE DEF B, named
    <3>1. CASE k + 1 \in named
      BY <2>2, <2>3, <2>6, <3>1
    <3>2. CASE k + 1 \notin named
      BY <2>2, <2>4, <2>6, <3>2
    <3> QED BY <3>1, <3>2
  <2> HIDE DEF B
  <2> QED BY <2>1, <2>7
<1>3. \A k \in 0..n : k \in G
  <2> HIDE DEF G, n
  <2> QED BY <1>0, <1>1, <1>2, Counting
<1> QED BY <1>3

(* A sequence over a set is one over any larger set.                       *)
LEMMA SeqWidens ==
  ASSUME NEW S, NEW T, S \subseteq T, NEW s \in Seq(S)
  PROVE  s \in Seq(T)
<1>1. Len(s) \in Nat /\ s \in [1..Len(s) -> S]
  BY LenProperties
<1>2. s \in [1..Len(s) -> T]
  BY <1>1
<1> QED BY <1>1, <1>2, SeqDef

(* The buffer holds as much of the joined names as it has room for.        *)
LEMMA NamesAreHeld ==
  ASSUME NEW descs \in Seq(Desc), NEW flags, NEW z \in Nat, NEW f, FlagTrace(f, descs, flags, z),
         NEW S, HasCharacters(S), NEW g, NEW ws, WordTrace(g, ws, descs, NamedBy(f, descs))
  PROVE  \A k \in 0..Len(descs) : g[k] \in Seq(S) /\ f[k].buf = Held(g[k], z)
<1> DEFINE n == Len(descs)
           named == NamedBy(f, descs)
           G == {k \in 0..n : g[k] \in Seq(S) /\ f[k].buf = Held(g[k], z)}
<1>0. n \in Nat /\ <<>> \in Seq(S) /\ Comma \in S
  BY EmptySeq DEF Comma, HasCharacters
<1>1. 0 \in G
  <2>1. f[0].buf = Held(<<>>, z)
    BY HeldInit DEF FlagTrace, FlagsStart
  <2>2. 0 \in 0..n /\ g[0] = <<>>
    BY <1>0 DEF WordTrace
  <2>3. g[0] \in Seq(S) /\ f[0].buf = Held(g[0], z)
    BY <1>0, <2>1, <2>2
  <2> HIDE DEF n
  <2> QED BY <2>2, <2>3
<1>2. ASSUME NEW k \in 0..(n - 1), k \in G PROVE k + 1 \in G
  <2>1. k + 1 \in 1..n /\ k + 1 \in 0..n /\ (k + 1) - 1 = k /\ k \in Nat
    BY <1>0
  <2>2. g[k] \in Seq(S) /\ f[k].buf = Held(g[k], z)
    BY <1>2
  <2>3. g[k + 1] = JoinStep(0, g[k], ws[k + 1])
        /\ ws[k + 1] = IF k + 1 \in named THEN descs[k + 1].name ELSE <<>>
    BY <2>1 DEF WordTrace
  <2> DEFINE m == k + 1
  <2>5. m \in 1..Len(descs) /\ m - 1 = k
    BY <2>1
  <2>6. /\ m \in named => f[m].buf = Written(Parted(f[m - 1].buf), descs[m].name)
        /\ m \notin named => f[m] = f[m - 1]
    <3> HIDE DEF m, n
    <3> QED BY <2>5, OneFlag
  <2>4. g[k + 1] \in Seq(S) /\ f[k + 1].buf = Held(g[k + 1], z)
    <3>1. CASE k + 1 \in named
      <4> DEFINE w == descs[k + 1].name
      <4>1. w \in Text /\ w # <<>> /\ f[k + 1].buf = Written(Parted(f[k].buf), w)
        <5>1. w \in Text /\ w # <<>>
          BY <2>1, OneFlag
        <5>2. f[k + 1].buf = Written(Parted(f[(k + 1) - 1].buf), descs[k + 1].name)
          <6> HIDE DEF w
          <6> QED BY <2>6, <3>1, Zenon
        <5> QED BY <2>1, <5>1, <5>2, Zenon
      <4>2. w \in Seq(S)
        <5>1. w \in Seq(1..255)
          BY <4>1 DEF Text
        <5> HIDE DEF w
        <5> QED BY <5>1, SeqWidens, ZenonT(40) DEF HasCharacters
      <4>3. ws[k + 1] = w
        BY <2>3, <3>1
      <4> HIDE DEF w, n, named
      <4>4. /\ JoinStep(0, g[k], w) \in Seq(S)
            /\ Written(Parted(Held(g[k], z)), w) = Held(JoinStep(0, g[k], w), z)
        <5> DEFINE full == g[k]
        <5>1. full \in Seq(S) /\ w # <<>>
          BY <2>2, <4>1
        <5> HIDE DEF full
        <5>2. /\ JoinStep(0, full, w) \in Seq(S)
              /\ Written(Parted(Held(full, z)), w) = Held(JoinStep(0, full, w), z)
          BY <1>0, <4>2, <5>1, WordIsHeld
        <5> QED BY <5>2 DEF full
      <4> QED BY <2>2, <2>3, <4>1, <4>3, <4>4, Zenon
    <3>2. CASE k + 1 \notin named
      <4>1. f[k + 1] = f[k]
        <5>1. f[k + 1] = f[(k + 1) - 1]
          BY <2>6, <3>2, Zenon
        <5> QED BY <2>1, <5>1, Zenon
      <4>2. ws[k + 1] = <<>>
        BY <2>3, <3>2
      <4>3. JoinStep(0, g[k], <<>>) = g[k] \o <<>>
        BY DEF JoinStep
      <4>4. g[k] \o <<>> = g[k]
        BY <2>2, ConcatEmptySeq
      <4> QED BY <2>2, <2>3, <4>1, <4>2, <4>3, <4>4, Zenon
    <3> QED BY <3>1, <3>2
  <2> QED BY <2>1, <2>4
<1>3. \A k \in 0..n : k \in G
  <2> HIDE DEF G, n
  <2> QED BY <1>0, <1>1, <1>2, Counting
<1> QED BY <1>3

-----------------------------------------------------------------------------
(* The words that are joined: a name or nothing for each flag, and a number. *)
WordsOf(descs, names) == [i \in DOMAIN descs |-> IF i \in names THEN descs[i].name ELSE <<>>]

(* The words are texts: one for each flag, and what follows.               *)
LEMMA WordsAreTexts ==
  ASSUME NEW descs \in Seq(Desc), NEW names, NEW S, HasCharacters(S), NEW tail \in Seq(Seq(S))
  PROVE  LET ws == WordsOf(descs, names) \o tail
             n  == Len(descs)
         IN /\ ws \in Seq(Seq(S)) /\ Len(ws) = n + Len(tail)
            /\ \A k \in 1..n : ws[k] = IF k \in names THEN descs[k].name ELSE <<>>
            /\ \A k \in 1..Len(tail) : ws[n + k] = tail[k]
<1> DEFINE n == Len(descs)
           words == WordsOf(descs, names)
           T == Seq(S)
           ws == words \o tail
<1>1. n \in Nat /\ DOMAIN descs = 1..n
  OBVIOUS
<1>2. ASSUME NEW k \in 1..n PROVE (IF k \in names THEN descs[k].name ELSE <<>>) \in T
  <2>1. descs[k] \in Desc
    BY ElementOfSeq
  <2>2. descs[k].name \in Text
    BY <2>1 DEF Desc
  <2>3. descs[k].name \in Seq(1..255)
    BY <2>2 DEF Text
  <2>4. descs[k].name \in Seq(S)
    <3> DEFINE w == descs[k].name
    <3>1. w \in Seq(1..255)
      BY <2>3
    <3> HIDE DEF w
    <3>2. w \in Seq(S)
      BY <3>1, SeqWidens, ZenonT(30) DEF HasCharacters
    <3> QED BY <3>2 DEF w
  <2>5. <<>> \in Seq(S)
    BY EmptySeq
  <2> QED BY <2>4, <2>5
<1> HIDE DEF T
<1>3. /\ words \in Seq(T) /\ Len(words) = n
      /\ \A k \in 1..n : words[k] = IF k \in names THEN descs[k].name ELSE <<>>
  <2>1. words = [k \in 1..n |-> IF k \in names THEN descs[k].name ELSE <<>>]
    BY <1>1 DEF WordsOf
  <2>2. words \in [1..n -> T]
    <3> HIDE DEF words, n
    <3> QED BY <1>2, <2>1
  <2>3. \A k \in 1..n : words[k] = IF k \in names THEN descs[k].name ELSE <<>>
    <3> HIDE DEF words, n
    <3> QED BY <2>1
  <2> HIDE DEF words, n
  <2>4. words \in Seq(T)
    BY <1>1, <2>2, SeqDef
  <2>5. DOMAIN words = 1..n
    BY <2>2
  <2>6. Len(words) = n
    BY <1>1, <2>4, <2>5, LenProperties
  <2> QED BY <2>3, <2>4, <2>6
<1>4. tail \in Seq(T) /\ Len(tail) \in Nat
  BY DEF T
<1> HIDE DEF words, n
<1>5. /\ ws \in Seq(T) /\ Len(ws) = n + Len(tail)
      /\ \A k \in 1..(n + Len(tail)) : ws[k] = IF k <= n THEN words[k] ELSE tail[k - n]
  BY <1>3, <1>4, ConcatProperties, ZenonT(40)
<1> HIDE DEF ws
<1>6. ASSUME NEW k \in 1..n PROVE ws[k] = IF k \in names THEN descs[k].name ELSE <<>>
  <2>1. k \in 1..(n + Len(tail)) /\ k <= n
    BY <1>1, <1>4
  <2>2. ws[k] = words[k]
    BY <1>5, <2>1
  <2> QED BY <1>3, <2>2, Zenon
<1>7. ASSUME NEW k \in 1..Len(tail) PROVE ws[n + k] = tail[k]
  <2>1. n + k \in 1..(n + Len(tail)) /\ ~(n + k <= n) /\ (n + k) - n = k
    BY <1>1, <1>4
  <2>2. ws[n + k] = tail[(n + k) - n]
    BY <1>5, <2>1
  <2> QED BY <2>1, <2>2, Zenon
<1> QED BY <1>5, <1>6, <1>7 DEF ws, words, n, T

(* One word at most is what is joined. *)
LEMMA OneWord ==
  ASSUME NEW descs \in Seq(Desc), NEW m \in 1..Len(descs), NEW names, names \subseteq {m},
         NEW g, NEW ws, WordTrace(g, ws, descs, names)
  PROVE  g[Len(descs)] = IF m \in names THEN descs[m].name ELSE <<>>
<1> DEFINE n == Len(descs)
           At(k) == IF m \in names /\ m <= k THEN descs[m].name ELSE <<>>
           G == {k \in 0..n : g[k] = At(k)}
<1>0. n \in Nat /\ m \in 1..n
  OBVIOUS
<1>w. descs[m].name \in Seq(1..255)
  <2>1. descs[m] \in Desc
    BY ElementOfSeq
  <2> QED BY <2>1 DEF Desc, Text
<1>1. 0 \in G
  <2>1. g[0] = <<>> /\ 0 \in 0..n /\ ~(m <= 0)
    BY <1>0 DEF WordTrace
  <2> HIDE DEF n
  <2> QED BY <2>1
<1>2. ASSUME NEW k \in 0..(n - 1), k \in G PROVE k + 1 \in G
  <2>1. k + 1 \in 1..n /\ k + 1 \in 0..n /\ (k + 1) - 1 = k /\ k \in Nat
    BY <1>0
  <2>2. g[k] = At(k)
    BY <1>2
  <2>3. g[k + 1] = JoinStep(0, g[k], ws[k + 1])
        /\ ws[k + 1] = IF k + 1 \in names THEN descs[k + 1].name ELSE <<>>
    BY <2>1 DEF WordTrace
  <2>4. <<>> \o descs[m].name = descs[m].name /\ descs[m].name \o <<>> = descs[m].name /\ <<>> \o <<>> = <<>>
    BY <1>w, ConcatEmptySeq, EmptySeq
  <2> HIDE DEF n
  <2>5. CASE k + 1 \in names
    <3>1. k + 1 = m /\ ~(m <= k) /\ m <= k + 1 /\ m \in names
      BY <1>0, <2>1, <2>5
    <3>2. g[k] = <<>> /\ ws[k + 1] = descs[m].name /\ At(k + 1) = descs[m].name
      BY <2>2, <2>3, <2>5, <3>1
    <3>3. g[k + 1] = <<>> \o descs[m].name
      BY <2>3, <3>2 DEF JoinStep
    <3> QED BY <2>1, <2>4, <3>2, <3>3
  <2>6. CASE k + 1 \notin names
    <3>1. m \in names => (m <= k + 1 <=> m <= k)
      BY <1>0, <2>1, <2>6
    <3>2. ws[k + 1] = <<>> /\ At(k + 1) = At(k)
      BY <2>3, <2>6, <3>1
    <3>3. g[k + 1] = At(k) \o <<>>
      BY <2>2, <2>3, <3>2 DEF JoinStep
    <3>4. At(k) \o <<>> = At(k)
      BY <2>4
    <3> HIDE DEF At
    <3> QED BY <2>1, <3>2, <3>3, <3>4
  <2> QED BY <2>5, <2>6
<1>3. \A k \in 0..n : k \in G
  <2> HIDE DEF G, n
  <2> QED BY <1>0, <1>1, <1>2, Counting
<1>4. g[n] = At(n)
  BY <1>0, <1>3
<1>5. m <= n
  BY <1>0
<1> HIDE DEF n
<1>6. g[n] = IF m \in names THEN descs[m].name ELSE <<>>
  BY <1>4, <1>5
<1> QED BY <1>6 DEF n

-----------------------------------------------------------------------------
(* "0x", a digit: a text with its own characters. *)
LEMMA HexIsText ==
  ASSUME NEW rest
  PROVE  \E S : HasCharacters(S) /\ Hex(rest) \in Seq(S) /\ Hex(rest) # <<>>
<1> DEFINE x == Hex(rest)[3]
           S == (1..255) \union {x}
<1>1. \E y : Hex(rest) = <<48, 120, y>>
  BY DEF Hex
<1>2. PICK y : Hex(rest) = <<48, 120, y>>
  BY <1>1
<1>3. x = y
  BY <1>2
<1>4. 48 \in S /\ 120 \in S /\ y \in S
  BY <1>3
<1>5. HasCharacters(S)
  BY DEF HasCharacters
<1> HIDE DEF S
<1>6. <<48, 120, y>> \in Seq(S) /\ <<48, 120, y>> # <<>>
  BY <1>4
<1> QED BY <1>2, <1>5, <1>6

(* All the flags: the names written are those whose bits are there, and    *)
(* what is left of them is a number.                                       *)
LEMMA SomeFlags ==
  ASSUME NEW descs \in Seq(Desc), NEW flags, NEW z \in Nat, NEW f, FlagTrace(f, descs, flags, z)
  PROVE  LET rest == flags \ BitsOf(descs, NamedBy(f, descs), Len(descs)) IN
         AfterFlags(f[Len(descs)]) =
           Strlcpy(Joined(WordsOf(descs, NamedBy(f, descs)) \o (IF rest = {} THEN <<>> ELSE <<Hex(rest)>>)), z)
<1> DEFINE n == Len(descs)
           named == NamedBy(f, descs)
           rest == flags \ BitsOf(descs, named, n)
           h == Hex(rest)
           tail == IF rest = {} THEN <<>> ELSE <<h>>
           ws == WordsOf(descs, named) \o tail
           r == AfterFlags(f[n])
<1>1. n \in Nat /\ z \in Nat /\ n \in 0..n
  OBVIOUS
<1>2. f[n].flags = rest
  BY <1>1, FlagsAreTaken
<1>3. PICK S : HasCharacters(S) /\ h \in Seq(S) /\ h # <<>>
  BY HexIsText
<1> DEFINE T == Seq(S)
<1> HIDE DEF T, rest, h
<1>4. tail \in Seq(T)
  BY <1>3, EmptySeq DEF T
<1> HIDE DEF tail
<1>5. /\ ws \in Seq(T) /\ Len(ws) = n + Len(tail)
      /\ \A k \in 1..n : ws[k] = IF k \in named THEN descs[k].name ELSE <<>>
      /\ \A k \in 1..Len(tail) : ws[n + k] = tail[k]
  BY <1>3, <1>4, WordsAreTexts, SMTT(30) DEF T
<1> HIDE DEF ws
<1>6. PICK g : /\ g[0] = <<>> /\ g[Len(ws)] = Joined(ws)
               /\ \A k \in 1..Len(ws) : g[k] = JoinStep(0, g[k - 1], ws[k])
  BY <1>5, JoinLoop
<1>7. Len(tail) = IF rest = {} THEN 0 ELSE 1
  BY DEF tail
<1>8. WordTrace(g, ws, descs, named)
  <2>1. \A k \in 1..n : k \in 1..Len(ws)
    BY <1>1, <1>5, <1>7
  <2> QED BY <1>5, <1>6, <2>1 DEF WordTrace
<1>9. g[n] \in Seq(S) /\ f[n].buf = Held(g[n], z)
  <2>1. HasCharacters(S) /\ z \in Nat
    BY <1>1, <1>3
  <2>2. \A k \in 0..Len(descs) : g[k] \in Seq(S) /\ f[k].buf = Held(g[k], z)
    <3> HIDE DEF n
    <3> QED BY <1>8, <2>1, NamesAreHeld
  <2> QED BY <1>1, <2>2
<1>10. r = IF rest = {} THEN f[n].buf.text ELSE StrbufAppend(Parted(f[n].buf), h).text
  BY <1>2 DEF h, AfterFlags
<1> HIDE DEF r, n, named
<1>11. r = Strlcpy(Joined(ws), z)
  <2>1. CASE rest = {}
    <3>1. Len(ws) = n
      BY <1>1, <1>5, <1>7, <2>1
    <3>2. g[n] = Joined(ws)
      BY <1>6, <3>1
    <3>3. Held(g[n], z).text = Strlcpy(g[n], z)
      BY <1>1, <1>9, HeldCopy
    <3> QED BY <1>9, <1>10, <2>1, <3>2, <3>3
  <2>2. CASE rest # {}
    <3>1. Len(ws) = n + 1 /\ n + 1 \in 1..Len(ws) /\ (n + 1) - 1 = n /\ 1 \in 1..Len(tail)
      BY <1>1, <1>5, <1>7, <2>2
    <3>2. tail[1] = h
      BY <2>2 DEF tail
    <3>3. ws[n + 1] = h
      BY <1>5, <3>1, <3>2
    <3>4. g[n + 1] = JoinStep(0, g[n], h)
      BY <1>6, <3>1, <3>3
    <3>5. g[n + 1] = Joined(ws)
      BY <1>6, <3>1
    <3>6. Comma \in S
      BY <1>3 DEF Comma, HasCharacters
    <3> DEFINE full == g[n]
    <3>7. full \in Seq(S)
      BY <1>9
    <3> HIDE DEF full
    <3>8. /\ JoinStep(0, full, h) \in Seq(S)
          /\ Written(Parted(Held(full, z)), h) = Held(JoinStep(0, full, h), z)
      BY <1>1, <1>3, <3>6, <3>7, WordIsHeld
    <3>9. Held(JoinStep(0, full, h), z).text = Strlcpy(JoinStep(0, full, h), z)
      BY <1>1, <3>8, HeldCopy
    <3>10. r = Written(Parted(Held(full, z)), h).text
      BY <1>9, <1>10, <2>2 DEF StrbufAppend, full
    <3> QED BY <3>4, <3>5, <3>8, <3>9, <3>10 DEF full
  <2> QED BY <2>1, <2>2
<1> QED BY <1>11 DEF r, ws, tail, h, rest, named, n

(* No flags: the name that stands for none, the first one. *)
LEMMA NoFlags ==
  ASSUME NEW descs \in Seq(Desc), NEW z \in Nat
  PROVE  LET none  == {i \in DOMAIN descs : descs[i].flag = {}}
             names == {i \in none : \A j \in none : i <= j}
         IN WithoutFlags(StrbufInit(z), descs) = Strlcpy(Joined(WordsOf(descs, names) \o <<>>), z)
<1> DEFINE n == Len(descs)
           I == {i \in 1..n : descs[i].flag = {}}
           none == {i \in DOMAIN descs : descs[i].flag = {}}
           names == {i \in none : \A j \in none : i <= j}
           ws == WordsOf(descs, names) \o <<>>
           r == WithoutFlags(StrbufInit(z), descs)
           first == IF I # {} THEN Min(I) ELSE 0
<1>1. n \in Nat /\ z \in Nat /\ DOMAIN descs = 1..n /\ none = I
  OBVIOUS
<1>2. r = IF first = 0 THEN <<>> ELSE StrbufAppendStr(Held(<<>>, z), descs[first].name).text
  <2>1. StrbufInit(z) = Held(<<>>, z)
    BY HeldInit
  <2> QED BY <2>1 DEF SelectInSeq, WithoutFlags
<1> DEFINE S == 1..255
<1>s. HasCharacters(S)
  BY DEF HasCharacters
<1> HIDE DEF S, ws, r
<1>4. <<>> \in Seq(Seq(S))
  BY EmptySeq
<1>5. /\ ws \in Seq(Seq(S)) /\ Len(ws) = n + 0
      /\ \A k \in 1..n : ws[k] = IF k \in names THEN descs[k].name ELSE <<>>
  <2> DEFINE tail == <<>>
             T == Seq(S)
             us == WordsOf(descs, names) \o tail
  <2>1. tail \in Seq(T) /\ Len(tail) = 0
    BY <1>4
  <2> HIDE DEF tail, T, names
  <2>2. /\ us \in Seq(T) /\ Len(us) = n + Len(tail)
        /\ \A k \in 1..n : us[k] = IF k \in names THEN descs[k].name ELSE <<>>
    <3>1. tail \in Seq(Seq(S))
      BY <2>1 DEF T
    <3>2. us \in Seq(Seq(S)) /\ Len(us) = n + Len(tail)
      BY <1>s, <3>1, WordsAreTexts
    <3>3. \A k \in 1..n : us[k] = IF k \in names THEN descs[k].name ELSE <<>>
      BY <1>s, <3>1, WordsAreTexts
    <3> QED BY <3>2, <3>3 DEF T
  <2> HIDE DEF us, n
  <2>3. ws = us
    BY DEF ws, us, tail
  <2> QED BY <2>1, <2>2, <2>3 DEF T
<1>6. PICK g : /\ g[0] = <<>> /\ g[Len(ws)] = Joined(ws)
               /\ \A k \in 1..Len(ws) : g[k] = JoinStep(0, g[k - 1], ws[k])
  BY <1>5, JoinLoop
<1>7. Len(ws) = n
  BY <1>1, <1>5
<1>8. WordTrace(g, ws, descs, names) /\ g[n] = Joined(ws)
  <2> HIDE DEF names
  <2> QED BY <1>5, <1>6, <1>7 DEF WordTrace
<1>9. CASE I = {}
  <2>1. names = {} /\ r = <<>>
    BY <1>1, <1>2, <1>9
  <2>2. g[n] = <<>>
    <3>1. CASE n = 0
      BY <1>6, <3>1
    <3>2. CASE n # 0
      <4> HIDE DEF names
      <4>1. 1 \in 1..n /\ names \subseteq {1} /\ 1 \notin names
        <5>1. 1 \in 1..n
          BY <1>1, <3>2
        <5> QED BY <2>1, <5>1
      <4>2. g[Len(descs)] = IF 1 \in names THEN descs[1].name ELSE <<>>
        BY <1>8, <4>1, OneWord, ZenonT(30)
      <4> QED BY <4>1, <4>2
    <3> QED BY <3>1, <3>2
  <2>3. Strlcpy(<<>>, z) = <<>>
    <3>1. SubSeq(<<>>, 1, z - 1) = <<>> \/ 0 < z
      <4>1. CASE z = 0
        BY <4>1, SubSeqEmpty
      <4>2. CASE z # 0
        BY <1>1, <4>2
      <4> QED BY <4>1, <4>2
    <3>2. Len(<<>>) = 0
      OBVIOUS
    <3> QED BY <3>1, <3>2 DEF Strlcpy
  <2> HIDE DEF names, n
  <2> QED BY <1>8, <2>1, <2>2, <2>3 DEF r, ws, names
<1>10. CASE I # {}
  <2>1. PICK m \in I : \A j \in I : m <= j
    <3>1. I \in SUBSET Nat
      BY <1>1
    <3> HIDE DEF I
    <3> QED BY <1>10, <3>1, Smallest
  <2>2. m \in 1..n /\ I \in SUBSET Int
    BY <1>1
  <2>3. first = m /\ names = {m}
    <3>1. \A x \in I : (\A y \in I : x <= y) => x = m
      BY <2>1, <2>2
    <3>2. Min(I) = m
      <4> HIDE DEF I
      <4> QED BY <2>1, <3>1 DEF Min
    <3>3. names = {i \in I : \A j \in I : i <= j}
      BY <1>1
    <3>4. names = {m}
      <4> HIDE DEF names, I
      <4> QED BY <2>1, <3>1, <3>3
    <3> HIDE DEF I
    <3> QED BY <1>10, <3>2, <3>4
  <2> HIDE DEF I, names, first
  <2> DEFINE w == descs[m].name
  <2>4. w \in Text
    <3>1. descs[m] \in Desc
      BY <2>2, ElementOfSeq
    <3> QED BY <3>1 DEF Desc
  <2>5. g[n] = w
    <3>1. names \subseteq {m} /\ m \in names
      BY <2>3
    <3>2. g[Len(descs)] = IF m \in names THEN descs[m].name ELSE <<>>
      BY <1>8, <2>2, <3>1, OneWord
    <3> QED BY <3>1, <3>2
  <2> HIDE DEF w
  <2>6. r = Written(Held(<<>>, z), w).text
    <3>1. first # 0
      BY <1>1, <2>2, <2>3
    <3>2. w # Null
      BY <2>4, TextIsNotNull
    <3>3. r = StrbufAppendStr(Held(<<>>, z), w).text
      BY <1>2, <2>3, <3>1 DEF w
    <3> QED BY <3>2, <3>3 DEF StrbufAppendStr
  <2>7. w \in Seq(S) /\ <<>> \in Seq(S) /\ <<>> \o w = w
    <3>1. w \in Seq(S)
      BY <2>4 DEF Text, S
    <3> QED BY <3>1, ConcatEmptySeq, EmptySeq
  <2>8. Written(Held(<<>>, z), w) = Held(<<>> \o w, z)
    <3> DEFINE e == <<>>
    <3>1. e \in Seq(S)
      BY <2>7
    <3> HIDE DEF e
    <3>2. Written(Held(e, z), w) = Held(e \o w, z)
      BY <1>1, <2>7, <3>1, WrittenIsHeld
    <3> QED BY <3>2 DEF e
  <2>9. Held(w, z).text = Strlcpy(w, z)
    BY <1>1, <2>7, HeldCopy
  <2>10. r = Strlcpy(Joined(ws), z)
    BY <1>8, <2>5, <2>6, <2>7, <2>8, <2>9
  <2> QED BY <2>10 DEF r, ws, names
<1> QED BY <1>9, <1>10

-----------------------------------------------------------------------------
FlagsWhole(descs, flags, size, r) ==
  \E named \in SUBSET DOMAIN descs :
    LET bits(i) == UNION {descs[j].flag : j \in named \cap 1..i}
        rest    == flags \ bits(Len(descs))
        none    == {i \in DOMAIN descs : descs[i].flag = {}}
        names   == IF flags # {} THEN named ELSE {i \in none : \A j \in none : i <= j}
    IN /\ \A i \in DOMAIN descs :
            LET flag == descs[i].flag IN
            i \in named <=> flag # {} /\ flag \subseteq flags \ bits(i - 1)
       /\ r = Strlcpy(Joined([i \in DOMAIN descs |-> IF i \in names THEN descs[i].name ELSE <<>>]
                             \o (IF rest = {} THEN <<>> ELSE <<Hex(rest)>>)),
                      ToStringBufferInit(size))

(* OutputIsWhole, of an input and what it gives. *)
OutputOf(i, r) ==
  /\ i.op = "append" =>
       LET full == i.one \o (IF i.two = Null THEN <<>> ELSE i.two) \o <<i.c>> IN
       /\ r.text = SubSeq(full, 1, Min({Len(full), i.size - 1}))
       /\ r.len = IF Len(full) < i.size THEN i.size - Len(full) ELSE 0
  /\ i.op = "quote" =>
       /\ i.size > 0 => Len(r) < i.size
       /\ i.size >= 3 /\ i.str # Null => r = StrquoteA(i.size - 3, i.str)
  /\ i.op = "flags" => FlagsWhole(i.descs, i.flags, i.size, r)
  /\ i.op = "enum" =>
       LET whole == Enum2Str(i.names, i.val, NoBuffer)
           named == {v \in DOMAIN i.names : i.names[v] = whole}
       IN /\ r = Strlcpy(whole, ToStringBufferInit(i.size))
          /\ IF named # {} THEN named = {i.val}
             ELSE whole[1] = 40 /\ Spelled(SubSeq(whole, 2, Len(whole) - 1)) = {i.val}
  /\ i.op = "name" => r.text = i.before \o i.name \o i.after

(* What nm_utils_flags2str writes are the names of the flags that are      *)
(* there, each with bits that no name before it has taken, joined with     *)
(* commas, and the bits that are left as a number; or all that fits of it. *)
THEOREM FlagsAreWhole ==
  ASSUME NEW descs \in Seq(Desc), NEW flags, NEW size \in Nat \union {NoBuffer}
  PROVE  FlagsWhole(descs, flags, size, Flags2Str(descs, flags, size))
<1> DEFINE n == Len(descs)
           z == ToStringBufferInit(size)
           r == Flags2Str(descs, flags, size)
<1>1. z \in Nat
  BY StaticSizeAssumption DEF ToStringBufferInit, NoBuffer
<1>2. n \in Nat /\ DOMAIN descs = 1..n
  OBVIOUS
<1>3. PICK f : /\ FlagTrace(f, descs, flags, z)
               /\ r = IF flags = {} THEN WithoutFlags(f[0].buf, descs) ELSE AfterFlags(f[n])
  BY FlagLoop DEF FlagTrace
<1> DEFINE named == NamedBy(f, descs)
           bits(i) == BitsOf(descs, named, i)
           rest    == flags \ bits(n)
           none    == {i \in DOMAIN descs : descs[i].flag = {}}
           names   == IF flags # {} THEN named ELSE {i \in none : \A j \in none : i <= j}
           tail    == IF rest = {} THEN <<>> ELSE <<Hex(rest)>>
<1>4. named \in SUBSET DOMAIN descs
  BY DEF NamedBy
<1>5. ASSUME NEW i \in DOMAIN descs
      PROVE  i \in named <=> descs[i].flag # {} /\ descs[i].flag \subseteq flags \ bits(i - 1)
  <2>1. i - 1 \in 0..Len(descs)
    BY <1>2
  <2>2. f[i - 1].flags = flags \ bits(i - 1)
    <3> HIDE DEF z
    <3> QED BY <1>3, <2>1, FlagsAreTaken
  <2> HIDE DEF bits
  <2> QED BY <2>2 DEF NamedBy
<1>6. r = Strlcpy(Joined(WordsOf(descs, names) \o tail), z)
  <2>1. CASE flags # {}
    <3>1. r = AfterFlags(f[Len(descs)]) /\ names = named
      BY <1>3, <2>1
    <3>2. AfterFlags(f[Len(descs)]) = Strlcpy(Joined(WordsOf(descs, named) \o tail), z)
      <4> HIDE DEF z
      <4> QED BY <1>1, <1>3, SomeFlags
    <3> HIDE DEF r, z, names, named, tail
    <3> QED BY <3>1, <3>2
  <2>2. CASE flags = {}
    <3>1. r = WithoutFlags(f[0].buf, descs) /\ f[0].buf = StrbufInit(z)
      BY <1>3, <2>2 DEF FlagTrace, FlagsStart
    <3>2. rest = {} /\ tail = <<>>
      BY <2>2
    <3>3. names = {i \in none : \A j \in none : i <= j}
      BY <2>2
    <3> HIDE DEF tail, names
    <3>4. WithoutFlags(StrbufInit(z), descs) = Strlcpy(Joined(WordsOf(descs, names) \o <<>>), z)
      <4> HIDE DEF z
      <4> QED BY <1>1, <3>3, NoFlags
    <3> HIDE DEF r, z
    <3> QED BY <3>1, <3>2, <3>4
  <2> QED BY <2>1, <2>2
<1>7. WordsOf(descs, names) = [i \in DOMAIN descs |-> IF i \in names THEN descs[i].name ELSE <<>>]
  BY DEF WordsOf
<1> HIDE DEF named
<1>8. r = Strlcpy(Joined([i \in DOMAIN descs |-> IF i \in names THEN descs[i].name ELSE <<>>] \o tail), z)
  BY <1>6, <1>7, Zenon
<1> QED BY <1>4, <1>5, <1>8, Zenon DEF BitsOf, FlagsWhole

(* What is written into buffers, in every state. *)
THEOREM OutputStaysWhole == Spec => []OutputIsWhole
<1>1. Init => OutputIsWhole
  BY DEF Init, Idle, OutputIsWhole
<1>2. OutputIsWhole <=> OutputOf(call, result)
  BY Zenon DEF OutputIsWhole, OutputOf, FlagsWhole
<1>3. OutputIsWhole' <=> OutputOf(call', result')
  BY Zenon DEF OutputIsWhole, OutputOf, FlagsWhole
<1>4. ASSUME NEW i \in Inputs, NEW r, IsAnswer(i, r) PROVE OutputOf(i, r)
  <2>1. ASSUME i.op = "append"
        PROVE  LET full == i.one \o (IF i.two = Null THEN <<>> ELSE i.two) \o <<i.c>> IN
               /\ r.text = SubSeq(full, 1, Min({Len(full), i.size - 1}))
               /\ r.len = IF Len(full) < i.size THEN i.size - Len(full) ELSE 0
    <3>1. i.size \in Nat /\ i.one \in Text /\ i.two \in TextOrNot /\ i.c \in 1..255
      BY <2>1, InputsAssumption
    <3>2. r = Appended(i.size, i.one, i.two, i.c)
      BY <1>4, <2>1 DEF IsAnswer, Appended
    <3> DEFINE full == AllOf(i.one, i.two, i.c)
               x == SubSeq(full, 1, Min({Len(full), i.size - 1}))
               y == IF Len(full) < i.size THEN i.size - Len(full) ELSE 0
    <3>3. r = Held(full, i.size)
      BY <3>1, <3>2, ThreeAppended
    <3> HIDE DEF full
    <3>4. r = [text |-> x, len |-> y]
      BY <3>3, Zenon DEF Held
    <3>5. r.text = x /\ r.len = y
      <4> HIDE DEF x, y
      <4> QED BY <3>4
    <3> QED BY <3>5, Zenon DEF full, AllOf
  <2>2. ASSUME i.op = "quote"
        PROVE  /\ i.size > 0 => Len(r) < i.size
               /\ i.size >= 3 /\ i.str # Null => r = StrquoteA(i.size - 3, i.str)
    <3>1. i.size \in Nat /\ i.str \in TextOrNot
      BY <2>2, InputsAssumption
    <3>2. r = Strquote(i.size, i.str)
      BY <1>4, <2>2 DEF IsAnswer
    <3>3. i.str # Null => i.str \in Text
      BY <3>1 DEF TextOrNot
    <3> QED BY <3>1, <3>2, <3>3, QuotesFit, QuotesAgree
  <2>3. ASSUME i.op = "flags" PROVE FlagsWhole(i.descs, i.flags, i.size, r)
    <3>1. i.descs \in Seq(Desc) /\ i.size \in Nat \union {NoBuffer}
      BY <2>3, InputsAssumption DEF Desc
    <3>2. r = Flags2Str(i.descs, i.flags, i.size)
      BY <1>4, <2>3 DEF IsAnswer
    <3> QED BY <3>1, <3>2, FlagsAreWhole
  <2>4. ASSUME i.op = "enum"
        PROVE  LET whole == Enum2Str(i.names, i.val, NoBuffer)
                   named == {v \in DOMAIN i.names : i.names[v] = whole}
               IN /\ r = Strlcpy(whole, ToStringBufferInit(i.size))
                  /\ IF named # {} THEN named = {i.val}
                     ELSE whole[1] = 40 /\ Spelled(SubSeq(whole, 2, Len(whole) - 1)) = {i.val}
    <3>1. AreNames(i.names) /\ i.val \in 0..9
      BY <2>4, InputsAssumption, ZenonT(40)
    <3>2. r = Enum2Str(i.names, i.val, i.size)
      BY <1>4, <2>4 DEF IsAnswer
    <3> QED BY <3>1, <3>2, EnumIsWhole, ZenonT(40)
  <2>5. ASSUME i.op = "name" PROVE r.text = i.before \o i.name \o i.after
    <3>1. i.before \in Text /\ i.after \in Text /\ i.name \in Text
      BY <2>5, InputsAssumption, ZenonT(40)
    <3>2. r = ConstructName(i.before, i.after, i.name)
      BY <1>4, <2>5 DEF IsAnswer
    <3> QED BY <3>1, <3>2, NameIsWhole
  <2> QED BY <2>1, <2>2, <2>3, <2>4, <2>5, Zenon DEF OutputOf
<1>5. ASSUME OutputIsWhole, [Next]_vars PROVE OutputIsWhole'
  <2>1. CASE UNCHANGED vars
    BY <1>2, <1>3, <1>5, <2>1, Zenon DEF vars
  <2>2. CASE call' = Idle
    BY <2>2 DEF Idle, OutputIsWhole
  <2>3. CASE call' \in Inputs /\ IsAnswer(call', result')
    BY <1>3, <1>4, <2>3, Zenon
  <2> QED BY <1>5, <2>1, <2>2, <2>3, CallsAreAnswered
<1> QED BY <1>1, <1>5, PTL DEF Spec

-----------------------------------------------------------------------------
(* Where a word begins, and how many words have begun up to m.             *)
Begins(str, D)    == {i \in DOMAIN str : str[i] \notin D /\ (i = 1 \/ str[i - 1] \in D)}
Begun(str, D, m) == Cardinality(Begins(str, D) \cap 1..m)

(* How many of the positions B are at most m: one more at each of them, so *)
(* that none before a position is counted like it.                         *)
Rank(B, m) == Cardinality(B \cap 1..m)
LEMMA RanksMove ==
  ASSUME NEW B \in SUBSET (Nat \ {0})
  PROVE  /\ Rank(B, 0) = 0
         /\ \A m \in Nat : /\ Rank(B, m) \in Nat
                           /\ Rank(B, m + 1) = IF m + 1 \in B THEN Rank(B, m) + 1 ELSE Rank(B, m)
         /\ \A i, m \in Nat : i <= m => Rank(B, i) <= Rank(B, m)
         /\ \A m \in Nat : \A i \in B : i > m => Rank(B, m) < Rank(B, i)
<1>0. B \subseteq Nat \ {0}
  OBVIOUS
<1>1. \A m \in Nat : IsFiniteSet(B \cap 1..m)
  <2> TAKE m \in Nat
  <2>1. IsFiniteSet(1..m) /\ B \cap 1..m \in SUBSET (1..m)
    BY FS_Interval
  <2> QED BY <2>1, FS_Subset
<1>2. Cardinality(B \cap 1..0) = 0
  <2>1. B \cap 1..0 = {}
    OBVIOUS
  <2> QED BY <2>1, FS_EmptySet
<1>3. \A m \in Nat : Cardinality(B \cap 1..m) \in Nat
  BY <1>1, FS_CardinalityType
<1>4. \A m \in Nat : Cardinality(B \cap 1..(m + 1)) =
                       IF m + 1 \in B THEN Cardinality(B \cap 1..m) + 1 ELSE Cardinality(B \cap 1..m)
  <2> TAKE m \in Nat
  <2>1. CASE m + 1 \in B
    <3>1. B \cap 1..(m + 1) = (B \cap 1..m) \union {m + 1} /\ m + 1 \notin B \cap 1..m
      BY <2>1
    <3>2. IsFiniteSet(B \cap 1..m)
      BY <1>1
    <3>3. Cardinality((B \cap 1..m) \union {m + 1}) = Cardinality(B \cap 1..m) + 1
      BY <3>1, <3>2, FS_AddElement
    <3> QED BY <2>1, <3>1, <3>3
  <2>2. CASE m + 1 \notin B
    <3>1. B \cap 1..(m + 1) = B \cap 1..m
      BY <2>2
    <3> QED BY <2>2, <3>1
  <2> QED BY <2>1, <2>2
<1>5. \A i, m \in Nat : i <= m => Cardinality(B \cap 1..i) <= Cardinality(B \cap 1..m)
  <2> TAKE i, m \in Nat
  <2> HAVE i <= m
  <2>1. B \cap 1..i \in SUBSET (B \cap 1..m) /\ IsFiniteSet(B \cap 1..m)
    BY <1>1
  <2> QED BY <2>1, FS_Subset
<1>6. \A m \in Nat : \A i \in B : i > m => Cardinality(B \cap 1..m) < Cardinality(B \cap 1..i)
  <2> TAKE m \in Nat
  <2> TAKE i \in B
  <2> HAVE i > m
  <2>1. i - 1 \in Nat /\ (i - 1) + 1 = i /\ m <= i - 1
    BY <1>0
  <2>2. Cardinality(B \cap 1..m) <= Cardinality(B \cap 1..(i - 1))
    BY <1>5, <2>1
  <2>3. Cardinality(B \cap 1..i) = Cardinality(B \cap 1..(i - 1)) + 1
    BY <1>4, <2>1
  <2> QED BY <1>3, <2>1, <2>2, <2>3
<1> QED BY <1>2, <1>3, <1>4, <1>5, <1>6 DEF Rank

(* A word begins, or none does, and the ones that begin before are fewer.  *)
LEMMA BegunMoves ==
  ASSUME NEW str \in Text, NEW D
  PROVE  /\ Begun(str, D, 0) = 0
         /\ \A m \in Nat : /\ Begun(str, D, m) \in Nat
                           /\ Begun(str, D, m + 1) =
                                IF m + 1 \in Begins(str, D) THEN Begun(str, D, m) + 1 ELSE Begun(str, D, m)
         /\ \A i, m \in Nat : i <= m => Begun(str, D, i) <= Begun(str, D, m)
         /\ \A m \in Nat : \A i \in Begins(str, D) : i > m => Begun(str, D, m) < Begun(str, D, i)
<1> DEFINE B == Begins(str, D)
<1>1. B \in SUBSET (Nat \ {0})
  BY Characters DEF Begins
<1> HIDE DEF B
<1>2. /\ Rank(B, 0) = 0
      /\ \A m \in Nat : /\ Rank(B, m) \in Nat
                        /\ Rank(B, m + 1) = IF m + 1 \in B THEN Rank(B, m) + 1 ELSE Rank(B, m)
      /\ \A i, m \in Nat : i <= m => Rank(B, i) <= Rank(B, m)
      /\ \A m \in Nat : \A i \in B : i > m => Rank(B, m) < Rank(B, i)
  BY <1>1, RanksMove, Zenon
<1> QED BY <1>2, Zenon DEF Begun, Rank, B

(* A character that is no delimiter is part of a word, that is the last    *)
(* that has begun.                                                         *)
LEMMA WordOfCharacter ==
  ASSUME NEW str \in Text, NEW D, NEW m \in 1..Len(str), str[m] \notin D
  PROVE  \E b \in Begins(str, D) :
           /\ b <= m /\ \A x \in b..m : str[x] \notin D
           /\ \A i \in Begins(str, D) : i <= m => i <= b
           /\ Begun(str, D, b) = Begun(str, D, m)
<1> DEFINE T == {k \in 1..m : \A x \in k..m : str[x] \notin D}
<1>1. Len(str) \in Nat /\ DOMAIN str = 1..Len(str)
  OBVIOUS
<1>2. m \in T /\ T \in SUBSET Nat
  OBVIOUS
<1>3. PICK b \in T : \A k \in T : b <= k
  <2> HIDE DEF T
  <2> QED BY <1>2, Smallest
<1>4. b \in 1..m /\ \A x \in b..m : str[x] \notin D
  BY <1>3
<1>5. b \in Begins(str, D)
  <2>1. b \in DOMAIN str /\ str[b] \notin D
    BY <1>1, <1>4
  <2>2. b # 1 => str[b - 1] \in D
    <3> SUFFICES ASSUME b # 1, str[b - 1] \notin D PROVE FALSE
      OBVIOUS
    <3>1. b - 1 \in 1..m /\ \A x \in (b - 1)..m : x = b - 1 \/ x \in b..m
      BY <1>4
    <3>2. b - 1 \in T
      BY <1>4, <3>1
    <3>3. ~(b <= b - 1)
      BY <1>4
    <3> QED BY <1>3, <3>2, <3>3
  <2> QED BY <2>1, <2>2 DEF Begins
<1>6. ASSUME NEW i \in Begins(str, D), i <= m PROVE i <= b
  <2> SUFFICES ASSUME ~(i <= b) PROVE FALSE
    OBVIOUS
  <2>1. i \in 1..Len(str) /\ (i = 1 \/ str[i - 1] \in D)
    BY <1>1 DEF Begins
  <2>2. i # 1 /\ i - 1 \in b..m
    BY <1>4, <1>6, <2>1
  <2> QED BY <1>4, <2>1, <2>2
<1>7. Begins(str, D) \cap 1..b = Begins(str, D) \cap 1..m
  <2>1. Begins(str, D) \subseteq Nat
    BY <1>1 DEF Begins
  <2> QED BY <1>4, <1>6, <2>1
<1>8. Begun(str, D, b) = Begun(str, D, m)
  BY <1>7 DEF Begun
<1>9. b \in Begins(str, D) /\ b <= m
  BY <1>4, <1>5
<1> HIDE DEF T
<1> QED BY <1>4, <1>6, <1>8, <1>9

(* The words of str up to m, the last one as far as it has been read.      *)
IsWordAt(w, str, D, i, j, m) ==
  /\ w = SubSeq(str, i, j)
  /\ \A x \in i..j : str[x] \notin D
  /\ j = m \/ str[j + 1] \in D
WordsUpTo(words, str, D, m) ==
  /\ words \in Seq(Text)
  /\ Len(words) = Begun(str, D, m)
  /\ \A i \in Begins(str, D) :
       i <= m => \E j \in i..m : IsWordAt(words[Begun(str, D, i)], str, D, i, j, m)

(* A part of a text, from p to q. *)
LEMMA PartOf ==
  ASSUME NEW s \in Text, NEW p \in Nat \ {0}, NEW q \in 1..Len(s), p <= q
  PROVE  /\ SubSeq(s, p, q) \in Seq(1..255)
         /\ Len(SubSeq(s, p, q)) = q - p + 1
         /\ \A i \in 1..(q - p + 1) : SubSeq(s, p, q)[i] = s[p + i - 1]
         /\ SubSeq(s, p, q)[1] = s[p]
<1>1. s \in Seq(1..255) /\ q \in 0..Len(s) /\ 1 \in 1..(q - p + 1) /\ p + 1 - 1 = p
  BY DEF Text
<1>2. SubSeq(s, p, q) \in Seq(1..255) /\ Len(SubSeq(s, p, q)) = IF p <= q THEN q - p + 1 ELSE 0
  BY <1>1, Parts
<1>3. \A i \in 1..(q - p + 1) : SubSeq(s, p, q)[i] = s[p + i - 1]
  BY <1>1, Parts
<1>4. SubSeq(s, p, q)[1] = s[p]
  BY <1>1, <1>3
<1> QED BY <1>2, <1>3, <1>4

(* A delimiter changes nothing. *)
LEMMA DelimiterIsPassed ==
  ASSUME NEW str \in Text, NEW D, NEW m \in 0..(Len(str) - 1), NEW words,
         WordsUpTo(words, str, D, m), str[m + 1] \in D
  PROVE  WordsUpTo(words, str, D, m + 1)
<1>1. m \in Nat /\ m + 1 \notin Begins(str, D) /\ Begins(str, D) \subseteq Nat
  BY Characters DEF Begins
<1>2. Len(words) = Begun(str, D, m + 1)
  BY <1>1, BegunMoves DEF WordsUpTo
<1>3. ASSUME NEW i \in Begins(str, D), i <= m + 1
      PROVE  \E j \in i..(m + 1) : IsWordAt(words[Begun(str, D, i)], str, D, i, j, m + 1)
  <2>1. i <= m
    BY <1>1, <1>3
  <2>2. PICK j \in i..m : IsWordAt(words[Begun(str, D, i)], str, D, i, j, m)
    BY <2>1 DEF WordsUpTo
  <2>3. IsWordAt(words[Begun(str, D, i)], str, D, i, j, m + 1)
    BY <2>2 DEF IsWordAt
  <2>4. j \in i..(m + 1)
    BY <1>1, <2>2
  <2> QED BY <2>3, <2>4
<1> QED BY <1>2, <1>3 DEF WordsUpTo

(* A character that begins a word. *)
LEMMA WordBegins ==
  ASSUME NEW str \in Text, NEW D, NEW m \in 0..(Len(str) - 1), NEW words,
         WordsUpTo(words, str, D, m), m + 1 \in Begins(str, D)
  PROVE  WordsUpTo(Append(words, <<str[m + 1]>>), str, D, m + 1)
<1> DEFINE w == <<str[m + 1]>>
           all == Append(words, w)
<1>1. m \in Nat /\ Begins(str, D) \subseteq 1..Len(str) /\ Len(str) \in Nat
  BY Characters DEF Begins
<1>2. str[m + 1] \in 1..255 /\ str[m + 1] \notin D /\ (m = 0 \/ str[m] \in D)
  <2>1. m + 1 \in 1..Len(str) /\ (m + 1) - 1 = m /\ (m + 1 = 1 <=> m = 0)
    BY <1>1
  <2>2. str[m + 1] \in 1..255
    BY <2>1, Characters
  <2>3. str[m + 1] \notin D /\ (m + 1 = 1 \/ str[(m + 1) - 1] \in D)
    BY DEF Begins
  <2> QED BY <2>1, <2>2, <2>3
<1>3. w \in Text
  BY <1>2 DEF Text
<1>4. words \in Seq(Text) /\ Len(words) = Begun(str, D, m)
  BY DEF WordsUpTo
<1>5. /\ all \in Seq(Text) /\ Len(all) = Len(words) + 1
      /\ \A n \in 1..Len(words) : all[n] = words[n]
      /\ all[Len(words) + 1] = w
  BY <1>3, <1>4, AppendProperties
<1>6. Begun(str, D, m + 1) = Len(words) + 1
  BY <1>1, <1>4, BegunMoves
<1> HIDE DEF all
<1>7. ASSUME NEW i \in Begins(str, D), i <= m
      PROVE  \E j \in i..(m + 1) : IsWordAt(all[Begun(str, D, i)], str, D, i, j, m + 1)
  <2>1. PICK j \in i..m : IsWordAt(words[Begun(str, D, i)], str, D, i, j, m)
    BY <1>7 DEF WordsUpTo
  <2>2. i \in 1..Len(str) /\ i \in Nat
    BY <1>1
  <2>3. str[j + 1] \in D
    <3>1. CASE j = m
      <4>1. m # 0 /\ m \in i..j
        BY <1>1, <1>7, <2>2, <3>1
      <4> QED BY <1>2, <2>1, <4>1 DEF IsWordAt
    <3> QED BY <2>1, <3>1 DEF IsWordAt
  <2>4. Begun(str, D, i) \in 1..Len(words)
    <3>1. Begun(str, D, 0) < Begun(str, D, i) /\ Begun(str, D, 0) = 0
      BY <2>2, BegunMoves
    <3>2. Begun(str, D, i) <= Begun(str, D, m) /\ Begun(str, D, i) \in Nat /\ Begun(str, D, m) \in Nat
      BY <1>1, <1>7, <2>2, BegunMoves
    <3> QED BY <1>4, <3>1, <3>2
  <2>5. IsWordAt(all[Begun(str, D, i)], str, D, i, j, m + 1)
    <3>1. all[Begun(str, D, i)] = words[Begun(str, D, i)]
      BY <1>5, <2>4
    <3> QED BY <2>1, <2>3, <3>1, Zenon DEF IsWordAt
  <2>6. j \in i..(m + 1)
    BY <1>1, <2>1, <2>2
  <2> QED BY <2>5, <2>6
<1>8. IsWordAt(all[Begun(str, D, m + 1)], str, D, m + 1, m + 1, m + 1)
  <2>1. SubSeq(str, m + 1, m + 1) = w
    <3> DEFINE p == m + 1
    <3>1. p \in 1..Len(str) /\ p \in Nat \ {0} /\ p <= p /\ p - p + 1 = 1
      BY <1>1
    <3> HIDE DEF p
    <3>2. /\ SubSeq(str, p, p) \in Seq(1..255)
          /\ Len(SubSeq(str, p, p)) = 1 /\ SubSeq(str, p, p)[1] = str[p]
      BY <3>1, PartOf, Zenon
    <3> USE DEF p
    <3>3. w \in Seq(1..255) /\ Len(w) = 1 /\ w[1] = str[m + 1]
      BY <1>2
    <3> HIDE DEF w
    <3> QED BY <3>2, <3>3, SeqEqual
  <2>2. \A x \in (m + 1)..(m + 1) : str[x] \notin D
    BY <1>1, <1>2
  <2>3. all[Begun(str, D, m + 1)] = w
    BY <1>5, <1>6
  <2> QED BY <2>1, <2>2, <2>3, Zenon DEF IsWordAt
<1>9. ASSUME NEW i \in Begins(str, D), i <= m + 1
      PROVE  \E j \in i..(m + 1) : IsWordAt(all[Begun(str, D, i)], str, D, i, j, m + 1)
  <2>1. CASE i <= m
    BY <1>7, <2>1
  <2>2. CASE i = m + 1
    <3>1. m + 1 \in i..(m + 1)
      BY <1>1, <2>2
    <3> QED BY <1>8, <2>2, <3>1, Zenon
  <2> QED BY <1>1, <1>9, <2>1, <2>2
<1>10. Len(all) = Begun(str, D, m + 1)
  BY <1>5, <1>6
<1>11. WordsUpTo(all, str, D, m + 1)
  BY <1>5, <1>9, <1>10 DEF WordsUpTo
<1> QED BY <1>11 DEF all

(* A character that continues the last word. *)
LEMMA WordGoesOn ==
  ASSUME NEW str \in Text, NEW D, NEW m \in 0..(Len(str) - 1), NEW words,
         WordsUpTo(words, str, D, m), str[m + 1] \notin D, m + 1 \notin Begins(str, D)
  PROVE  /\ Len(words) > 0
         /\ WordsUpTo([words EXCEPT ![Len(words)] = Append(@, str[m + 1])], str, D, m + 1)
<1> DEFINE n == Len(words)
           w == Append(words[n], str[m + 1])
           all == [words EXCEPT ![n] = w]
<1>1. m \in Nat /\ Begins(str, D) \subseteq 1..Len(str) /\ Len(str) \in Nat
  BY Characters DEF Begins
<1>2. str[m + 1] \in 1..255 /\ m # 0 /\ str[m] \notin D /\ m \in 1..Len(str)
  BY <1>1, Characters DEF Begins
<1>3. PICK b \in Begins(str, D) :
        /\ b <= m /\ \A x \in b..m : str[x] \notin D
        /\ \A i \in Begins(str, D) : i <= m => i <= b
        /\ Begun(str, D, b) = Begun(str, D, m)
  BY <1>2, WordOfCharacter
<1>4. words \in Seq(Text) /\ n = Begun(str, D, m) /\ n \in Nat
  BY DEF WordsUpTo
<1>5. b \in 1..m
  BY <1>1, <1>3
<1>6. n = Begun(str, D, b) /\ n > 0
  <2>1. Begun(str, D, 0) < Begun(str, D, b) /\ Begun(str, D, 0) = 0
    BY <1>5, BegunMoves
  <2> QED BY <1>3, <1>4, <2>1
<1>7. words[n] = SubSeq(str, b, m)
  <2>1. PICK j \in b..m : IsWordAt(words[Begun(str, D, b)], str, D, b, j, m)
    BY <1>3 DEF WordsUpTo
  <2>2. j = m
    <3> SUFFICES ASSUME j # m PROVE FALSE
      OBVIOUS
    <3>1. str[j + 1] \in D /\ j + 1 \in b..m
      BY <1>1, <1>5, <2>1 DEF IsWordAt
    <3> QED BY <1>3, <3>1
  <2> QED BY <1>6, <2>1, <2>2 DEF IsWordAt
<1>8. w = SubSeq(str, b, m + 1) /\ w \in Text
  <2> DEFINE p == m + 1
  <2>1. b \in Nat \ {0} /\ m \in 1..Len(str) /\ p \in 1..Len(str) /\ b <= m /\ b <= p
    BY <1>1, <1>2, <1>5
  <2> HIDE DEF p
  <2>2. /\ SubSeq(str, b, m) \in Seq(1..255) /\ Len(SubSeq(str, b, m)) = m - b + 1
        /\ \A x \in 1..(m - b + 1) : SubSeq(str, b, m)[x] = str[b + x - 1]
    BY <2>1, PartOf, ZenonT(60)
  <2>3. /\ SubSeq(str, b, p) \in Seq(1..255) /\ Len(SubSeq(str, b, p)) = p - b + 1
        /\ \A x \in 1..(p - b + 1) : SubSeq(str, b, p)[x] = str[b + x - 1]
    BY <2>1, PartOf, ZenonT(60)
  <2> USE DEF p
  <2>4. /\ w \in Seq(1..255) /\ Len(w) = m - b + 2
        /\ \A x \in 1..(m - b + 1) : w[x] = str[b + x - 1]
        /\ w[m - b + 2] = str[m + 1]
    <3> DEFINE v == SubSeq(str, b, m)
    <3>1. w = Append(v, str[m + 1])
      BY <1>7
    <3> HIDE DEF v, w
    <3>2. v \in Seq(1..255) /\ Len(v) = m - b + 1 /\ \A x \in 1..(m - b + 1) : v[x] = str[b + x - 1]
      BY <2>2 DEF v
    <3>3. /\ Append(v, str[m + 1]) \in Seq(1..255) /\ Len(Append(v, str[m + 1])) = Len(v) + 1
          /\ \A x \in 1..Len(v) : Append(v, str[m + 1])[x] = v[x]
          /\ Append(v, str[m + 1])[Len(v) + 1] = str[m + 1]
      BY <1>2, <3>2, AppendProperties
    <3>4. Len(v) + 1 = m - b + 2
      BY <1>1, <1>5, <3>2
    <3> QED BY <3>1, <3>2, <3>3, <3>4
  <2> HIDE DEF w
  <2>5. m + 1 - b + 1 = m - b + 2 /\ b + (m - b + 2) - 1 = m + 1
    BY <1>1, <1>5
  <2>6. \A x \in 1..(m - b + 2) : w[x] = SubSeq(str, b, m + 1)[x]
    <3> TAKE x \in 1..(m - b + 2)
    <3>1. x \in 1..(m - b + 1) \/ x = m - b + 2
      BY <1>1, <1>5
    <3>2. SubSeq(str, b, m + 1)[x] = str[b + x - 1]
      BY <2>3, <2>5
    <3> QED BY <2>4, <2>5, <3>1, <3>2
  <2>7. SubSeq(str, b, m + 1) \in Seq(1..255) /\ Len(SubSeq(str, b, m + 1)) = Len(w)
    BY <2>3, <2>4, <2>5
  <2>8. \A x \in 1..Len(w) : w[x] = SubSeq(str, b, m + 1)[x]
    BY <2>4, <2>6
  <2>9. w = SubSeq(str, b, m + 1)
    <3> DEFINE v == SubSeq(str, b, m + 1)
    <3>1. v \in Seq(1..255) /\ w \in Seq(1..255) /\ Len(w) = Len(v) /\ \A x \in 1..Len(w) : w[x] = v[x]
      BY <2>4, <2>7, <2>8
    <3> HIDE DEF v
    <3>2. w = v
      BY <3>1, SeqEqual
    <3> QED BY <3>2 DEF v
  <2> QED BY <2>4, <2>9 DEF Text
<1>9. n \in DOMAIN words
  BY <1>4, <1>6
<1>10. /\ all \in Seq(Text) /\ Len(all) = n
       /\ all[n] = w
       /\ \A x \in 1..n : x # n => all[x] = words[x]
  <2> HIDE DEF w
  <2>1. all \in Seq(Text) /\ Len(all) = n
    BY <1>4, <1>6, <1>8, ExceptSeq
  <2>2. DOMAIN words = 1..n
    BY <1>4
  <2>3. all[n] = w /\ \A x \in 1..n : x # n => all[x] = words[x]
    BY <1>9, <2>2
  <2> QED BY <2>1, <2>3
<1> HIDE DEF all, w
<1>11. ASSUME NEW i \in Begins(str, D), i < b
       PROVE  \E j \in i..(m + 1) : IsWordAt(all[Begun(str, D, i)], str, D, i, j, m + 1)
  <2>1. PICK j \in i..m : IsWordAt(words[Begun(str, D, i)], str, D, i, j, m)
    BY <1>1, <1>5, <1>11 DEF WordsUpTo
  <2>2. i \in 1..Len(str) /\ i \in Nat /\ i <= m
    BY <1>1, <1>5, <1>11
  <2>3. str[j + 1] \in D
    <3>1. CASE j = m
      <4>1. b - 1 \in i..j /\ b # 1
        BY <1>1, <1>5, <1>11, <2>2, <3>1
      <4>2. str[b - 1] \in D
        BY <4>1 DEF Begins
      <4> QED BY <2>1, <4>1, <4>2 DEF IsWordAt
    <3> QED BY <2>1, <3>1 DEF IsWordAt
  <2>4. Begun(str, D, i) \in 1..n /\ Begun(str, D, i) # n
    <3>1. Begun(str, D, 0) < Begun(str, D, i) /\ Begun(str, D, 0) = 0
      BY <2>2, BegunMoves
    <3>2. Begun(str, D, i) < Begun(str, D, b) /\ Begun(str, D, i) \in Nat
      BY <1>11, <2>2, BegunMoves
    <3> QED BY <1>4, <1>6, <3>1, <3>2
  <2>5. IsWordAt(all[Begun(str, D, i)], str, D, i, j, m + 1)
    <3>1. all[Begun(str, D, i)] = words[Begun(str, D, i)]
      BY <1>10, <2>4
    <3> QED BY <2>1, <2>3, <3>1, Zenon DEF IsWordAt
  <2>6. j \in i..(m + 1)
    BY <1>1, <2>1, <2>2
  <2> QED BY <2>5, <2>6
<1>12. IsWordAt(all[Begun(str, D, b)], str, D, b, m + 1, m + 1) /\ m + 1 \in b..(m + 1)
  <2>1. \A x \in b..(m + 1) : str[x] \notin D
    <3> TAKE x \in b..(m + 1)
    <3>1. x \in b..m \/ x = m + 1
      BY <1>1, <1>5
    <3> QED BY <1>3, <3>1
  <2>2. m + 1 \in b..(m + 1)
    BY <1>1, <1>5
  <2>3. all[Begun(str, D, b)] = SubSeq(str, b, m + 1)
    BY <1>6, <1>8, <1>10
  <2> QED BY <2>1, <2>2, <2>3, Zenon DEF IsWordAt
<1>13. ASSUME NEW i \in Begins(str, D), i <= m + 1
       PROVE  \E j \in i..(m + 1) : IsWordAt(all[Begun(str, D, i)], str, D, i, j, m + 1)
  <2>1. i <= m /\ i <= b
    BY <1>1, <1>3, <1>13
  <2>2. CASE i < b
    BY <1>11, <2>2
  <2>3. CASE i = b
    BY <1>12, <2>3, Zenon
  <2> QED BY <1>1, <1>5, <2>1, <2>2, <2>3
<1>14. Len(all) = Begun(str, D, m + 1)
  BY <1>1, <1>4, <1>10, BegunMoves
<1>15. WordsUpTo(all, str, D, m + 1)
  BY <1>10, <1>13, <1>14 DEF WordsUpTo
<1>16. all = [words EXCEPT ![Len(words)] = Append(@, str[m + 1])]
  BY DEF all, w
<1> QED BY <1>6, <1>15, <1>16

-----------------------------------------------------------------------------
(* One step of the loop over the text s, with the delimiters D.            *)
SplitStep(ctx, a, i) ==
  IF ctx.s[i] \in ctx.D THEN a
  ELSE IF i > 1 /\ ctx.s[i - 1] \notin ctx.D
  THEN [a EXCEPT !.words[Len(a.words)] = Append(@, ctx.s[i])]
  ELSE [words |-> Append(a.words, <<ctx.s[i]>>),
        alloc |-> Grown(a.alloc, Len(a.words))]
Splits == INSTANCE FoldFacts WITH Op <- SplitStep
NoWords == [words |-> <<>>, alloc |-> InitialAlloc]
Delimiters(delimiters) == IF delimiters = Null THEN {9, 10, 32} ELSE ToSet(delimiters)
TextOf(str) == IF str = Null THEN <<>> ELSE str
SplitTrace(f, s, D) ==
  f[0] = NoWords /\ \A k \in 1..Len(s) : f[k] = SplitStep([s |-> s, D |-> D], f[k - 1], k)

(* What is left of a text, without the characters of C that it begins with. *)
LEMMA SkippedText ==
  ASSUME NEW str \in Text, NEW C
  PROVE  /\ Skip(str, C) \in Text
         /\ Len(Skip(str, C)) = Len(str) - Span(str, C)
         /\ \A i \in 1..(Len(str) - Span(str, C)) : Skip(str, C)[i] = str[Span(str, C) + i]
<1> DEFINE n == Span(str, C)
           p == n + 1
<1>1. str \in Seq(1..255) /\ Len(str) \in Nat
  BY DEF Text
<1>2. n \in 0..Len(str)
  BY <1>1, SpanCounts
<1> HIDE DEF n
<1>3. p \in Nat \ {0} /\ Len(str) \in 0..Len(str)
  BY <1>1, <1>2
<1> HIDE DEF p
<1>4. /\ SubSeq(str, p, Len(str)) \in Seq(1..255)
      /\ Len(SubSeq(str, p, Len(str))) = IF p <= Len(str) THEN Len(str) - p + 1 ELSE 0
  BY <1>1, <1>3, Parts, Zenon
<1>5. \A i \in 1..(Len(str) - p + 1) : SubSeq(str, p, Len(str))[i] = str[p + i - 1]
  BY <1>1, <1>3, Parts
<1>6. Len(SubSeq(str, p, Len(str))) = Len(str) - n
  BY <1>1, <1>2, <1>4 DEF p
<1>7. \A i \in 1..(Len(str) - n) : SubSeq(str, p, Len(str))[i] = str[n + i]
  <2> TAKE i \in 1..(Len(str) - n)
  <2>1. i \in 1..(Len(str) - p + 1) /\ p + i - 1 = n + i
    BY <1>1, <1>2 DEF p
  <2> QED BY <1>5, <2>1
<1>8. Skip(str, C) = SubSeq(str, p, Len(str))
  BY DEF Skip, p, n
<1> QED BY <1>4, <1>6, <1>7, <1>8 DEF n, Text

(* Nothing is left of an empty text. *)
LEMMA SkippedEmpty ==
  ASSUME NEW C
  PROVE  Skip(<<>>, C) = <<>>
<1>1. <<>> \in Text /\ Len(<<>>) = 0
  BY DEF Text
<1>2. Skip(<<>>, C) \in Text /\ Len(Skip(<<>>, C)) = Len(<<>>) - Span(<<>>, C)
  BY <1>1, SkippedText
<1>3. Span(<<>>, C) \in 0..Len(<<>>)
  <2>1. <<>> \in Seq(1..255)
    OBVIOUS
  <2> QED BY <2>1, SpanCounts
<1>4. Len(Skip(<<>>, C)) = 0
  BY <1>1, <1>2, <1>3
<1> QED BY <1>2, <1>4, EmptySeq DEF Text

(* The characters after the delimiters at the start are passed one after   *)
(* the other.                                                              *)
LEMMA SplitLoop ==
  ASSUME NEW str \in TextOrNot, NEW delimiters
  PROVE  LET s == Skip(TextOf(str), Delimiters(delimiters)) IN
         \E f : /\ SplitTrace(f, s, Delimiters(delimiters))
               /\ f[Len(s)] = StrsplitSet(str, delimiters)
<1> DEFINE D == Delimiters(delimiters)
           s == Skip(TextOf(str), D)
           is == [i \in DOMAIN s |-> i]
           ctx == [s |-> s, D |-> D]
           f == Splits!Trace(ctx, NoWords, is)
<1>1. s \in Text
  <2>1. TextOf(str) \in Text
    <3>1. <<>> \in Text
      BY DEF Text
    <3> QED BY <3>1 DEF TextOf, TextOrNot
  <2> QED BY <2>1, SkippedText
<1>2. s = IF str = Null THEN <<>> ELSE Skip(str, D)
  <2>1. Skip(<<>>, D) = <<>>
    BY SkippedEmpty
  <2> QED BY <2>1 DEF TextOf
<1>3. StrsplitSet(str, delimiters) = Splits!Fold(ctx, NoWords, is)
  <2> HIDE DEF s
  <2> QED BY <1>2 DEF StrsplitSet, Splits!Fold, FoldLeftDomain, FoldLeft, MapThenFoldSet, Splits!MapThenFoldSet, Max,
         Splits!Largest, SplitStep, NoWords, Delimiters
<1>4. is \in Seq(Nat) /\ Len(is) = Len(s) /\ \A k \in 1..Len(s) : is[k] = k
  <2> HIDE DEF s
  <2> QED BY <1>1, Characters
<1>5. Splits!IsTrace(f, ctx, NoWords, is)
  <2> HIDE DEF s, ctx, is
  <2> QED BY <1>4, Splits!FoldTrace, Smallest
<1> HIDE DEF f, s, D, is
<1>6. f[Len(s)] = StrsplitSet(str, delimiters)
  BY <1>3, <1>4, <1>5 DEF Splits!IsTrace
<1>7. SplitTrace(f, s, D)
  <2> HIDE DEF ctx
  <2>1. f[0] = NoWords
    BY <1>5 DEF Splits!IsTrace
  <2>2. \A k \in 1..Len(s) : f[k] = SplitStep(ctx, f[k - 1], k)
    BY <1>4, <1>5 DEF Splits!IsTrace
  <2> QED BY <2>1, <2>2, Zenon DEF SplitTrace, ctx
<1> QED BY <1>6, <1>7 DEF s, D

(* The words after k steps, and the room for them. *)
SplitUpTo(a, str, D, m) ==
  /\ a = [words |-> a.words, alloc |-> a.alloc]
  /\ WordsUpTo(a.words, str, D, m)
  /\ a.alloc \in Nat /\ a.alloc > 0 /\ Len(a.words) <= a.alloc

(* Sequences with the same positions are of one length. *)
LEMMA SameLength ==
  ASSUME NEW S, NEW s \in Seq(S), NEW t \in Seq(S), DOMAIN s = DOMAIN t
  PROVE  Len(s) = Len(t)
<1>1. DOMAIN s = 1..Len(s) /\ DOMAIN t = 1..Len(t) /\ Len(s) \in Nat /\ Len(t) \in Nat
  OBVIOUS
<1>2. \A m, n \in Nat : 1..m = 1..n => ~(m < n)
  <2> TAKE m, n \in Nat
  <2> SUFFICES ASSUME 1..m = 1..n, m < n PROVE FALSE
    OBVIOUS
  <2>1. n \in 1..n /\ n \notin 1..m
    OBVIOUS
  <2> QED BY <2>1
<1> DEFINE m == Len(s)
           n == Len(t)
<1>3. m \in Nat /\ n \in Nat /\ 1..m = 1..n /\ 1..n = 1..m
  BY <1>1, Zenon
<1> HIDE DEF m, n
<1>4. m = n
  BY <1>2, <1>3
<1> QED BY <1>4 DEF m, n

(* One more character is passed. *)
LEMMA OneCharacter ==
  ASSUME NEW str \in Text, NEW D, NEW k \in 0..(Len(str) - Span(str, D) - 1),
         NEW a, SplitUpTo(a, str, D, Span(str, D) + k)
  PROVE  SplitUpTo(SplitStep([s |-> Skip(str, D), D |-> D], a, k + 1), str, D, Span(str, D) + (k + 1))
<1> DEFINE sp == Span(str, D)
           m == sp + k
           s == Skip(str, D)
           c == str[m + 1]
           b == SplitStep([s |-> s, D |-> D], a, k + 1)
<1>1. /\ Len(str) \in Nat /\ sp \in 0..Len(str)
      /\ \A i \in 1..sp : str[i] \in D
      /\ sp < Len(str) => str[sp + 1] \notin D
  BY Characters, SpanCounts DEF Text
<1>2. \A i \in 1..(Len(str) - sp) : s[i] = str[sp + i]
  BY SkippedText
<1>3. SplitUpTo(a, str, D, m)
  OBVIOUS
<1> HIDE DEF sp, s
<1>4. k \in 0..(Len(str) - sp - 1) /\ k \in Nat
  BY <1>1 DEF sp
<1>5. m \in 0..(Len(str) - 1) /\ m \in Nat /\ sp + (k + 1) = m + 1
  BY <1>1, <1>4
<1>6. s[k + 1] = c
  <2>1. k + 1 \in 1..(Len(str) - sp) /\ sp + (k + 1) = m + 1
    BY <1>1, <1>4
  <2> QED BY <1>2, <2>1
<1>7. k + 1 > 1 => s[(k + 1) - 1] = str[m]
  <2> HAVE k + 1 > 1
  <2>1. (k + 1) - 1 = k /\ k \in 1..(Len(str) - sp)
    BY <1>1, <1>4
  <2> QED BY <1>2, <2>1
<1>8. m + 1 \in Begins(str, D) <=> c \notin D /\ ~(k + 1 > 1 /\ s[(k + 1) - 1] \notin D)
  <2>1. m + 1 \in DOMAIN str /\ (m + 1) - 1 = m
    BY <1>5, Characters
  <2>2. m + 1 \in Begins(str, D) <=> c \notin D /\ (m + 1 = 1 \/ str[m] \in D)
    BY <2>1 DEF Begins
  <2>3. CASE k = 0
    <3>1. m + 1 = 1 \/ str[m] \in D
      BY <1>1, <1>4, <2>3
    <3> QED BY <2>2, <2>3, <3>1
  <2>4. CASE k # 0
    <3>1. k + 1 > 1 /\ m + 1 # 1
      BY <1>1, <1>4, <2>4
    <3> QED BY <1>7, <2>2, <3>1
  <2> QED BY <2>3, <2>4
<1> HIDE DEF m
<1>9. SplitUpTo(b, str, D, m + 1)
  <2>1. CASE c \in D
    <3>1. b = a
      BY <1>6, <2>1 DEF SplitStep
    <3>2. WordsUpTo(a.words, str, D, m + 1)
      BY <1>3, <1>5, <2>1, DelimiterIsPassed DEF SplitUpTo
    <3> HIDE DEF b
    <3> QED BY <1>3, <3>1, <3>2 DEF SplitUpTo
  <2>2. CASE m + 1 \in Begins(str, D)
    <3> DEFINE ws == Append(a.words, <<c>>)
               room == Grown(a.alloc, Len(a.words))
    <3>1. b = [words |-> ws, alloc |-> room]
      BY <1>6, <1>8, <2>2 DEF SplitStep
    <3>2. WordsUpTo(ws, str, D, m + 1)
      BY <1>3, <1>5, <2>2, WordBegins DEF SplitUpTo
    <3>3. Len(ws) = Len(a.words) + 1 /\ Len(a.words) \in Nat
      <4>1. a.words \in Seq(Text)
        BY <1>3 DEF SplitUpTo, WordsUpTo
      <4> QED BY <4>1
    <3>4. room \in Nat /\ room > 0 /\ Len(a.words) + 1 <= room
      BY <1>3, <3>3 DEF SplitUpTo, Grown
    <3> HIDE DEF b, ws, room
    <3>5. b.words = ws /\ b.alloc = room
      BY <3>1
    <3> QED BY <3>1, <3>2, <3>3, <3>4, <3>5 DEF SplitUpTo
  <2>3. CASE c \notin D /\ m + 1 \notin Begins(str, D)
    <3> DEFINE ws == [a.words EXCEPT ![Len(a.words)] = Append(@, c)]
    <3>1. b = [a EXCEPT !.words = ws]
      BY <1>3, <1>6, <1>8, <2>3 DEF SplitStep, SplitUpTo
    <3>2. WordsUpTo(ws, str, D, m + 1)
      BY <1>3, <1>5, <2>3, WordGoesOn DEF SplitUpTo
    <3>3. Len(ws) = Len(a.words)
      <4>1. a.words \in Seq(Text)
        BY <1>3 DEF SplitUpTo, WordsUpTo
      <4>2. Len(a.words) > 0
        BY <1>3, <1>5, <2>3, WordGoesOn DEF SplitUpTo
      <4>3. ws \in Seq(Text)
        BY <3>2 DEF WordsUpTo
      <4>4. DOMAIN ws = DOMAIN a.words
        OBVIOUS
      <4> HIDE DEF ws
      <4> QED BY <4>1, <4>3, <4>4, SameLength
    <3> HIDE DEF ws
    <3>4. b = [words |-> ws, alloc |-> a.alloc]
      BY <1>3, <3>1 DEF SplitUpTo
    <3> HIDE DEF b
    <3>5. b.words = ws /\ b.alloc = a.alloc
      BY <3>4
    <3> QED BY <1>3, <3>2, <3>3, <3>4, <3>5 DEF SplitUpTo
  <2> QED BY <2>1, <2>2, <2>3
<1> HIDE DEF b
<1>10. SplitUpTo(b, str, D, sp + (k + 1))
  BY <1>5, <1>9
<1> QED BY <1>10 DEF b, s, sp

(* WordsAreSplit, of an input and what it gives. *)
SplitOf(str, delimiters, r) ==
  LET D == Delimiters(delimiters)
  IN /\ Len(r.words) = Cardinality(Begins(str, D))
     /\ \A i \in Begins(str, D) : \E j \in i..Len(str) :
          /\ r.words[Cardinality(Begins(str, D) \cap 1..i)] = SubSeq(str, i, j)
          /\ \A x \in i..j : str[x] \notin D
          /\ j = Len(str) \/ str[j + 1] \in D
     /\ Len(r.words) <= r.alloc

(* What nm_utils_strsplit_set gives for a text of any length and any       *)
(* delimiters: every word, from where it begins to where it ends, all of   *)
(* them and in their order, in an array that is never too small.           *)
THEOREM WordsAreWhole ==
  ASSUME NEW str \in TextOrNot, NEW delimiters
  PROVE  SplitOf(TextOf(str), delimiters, StrsplitSet(str, delimiters))
<1> DEFINE D == Delimiters(delimiters)
           t == TextOf(str)
           s == Skip(t, D)
           sp == Span(t, D)
           r == StrsplitSet(str, delimiters)
<1>1. t \in Text /\ Len(t) \in Nat /\ DOMAIN t = 1..Len(t)
  <2>1. <<>> \in Text
    BY DEF Text
  <2>2. t \in Text
    BY <2>1 DEF TextOf, TextOrNot
  <2> QED BY <2>2, Characters
<1>2. PICK f : SplitTrace(f, s, D) /\ f[Len(s)] = r
  BY SplitLoop, Zenon
<1> HIDE DEF D, t, r
<1>3. sp \in 0..Len(t) /\ \A i \in 1..sp : t[i] \in D
  BY <1>1, SpanCounts DEF Text
<1>4. Len(s) = Len(t) - sp /\ Len(s) \in Nat
  <2>1. Len(s) = Len(t) - sp
    BY <1>1, SkippedText
  <2> HIDE DEF s, sp
  <2> QED BY <1>1, <1>3, <2>1
<1> DEFINE G == {k \in 0..Len(s) : SplitUpTo(f[k], t, D, sp + k)}
<1>5. 0 \in G
  <2>1. NoWords = [words |-> <<>>, alloc |-> 8] /\ NoWords.words = <<>> /\ NoWords.alloc = 8
    BY DEF NoWords, InitialAlloc
  <2>2. Begins(t, D) \cap 1..sp = {}
    <3> HIDE DEF sp
    <3> QED BY <1>1, <1>3 DEF Begins
  <2> HIDE DEF sp
  <2>3. Begun(t, D, sp) = 0
    BY <2>2, FS_EmptySet DEF Begun
  <2>4. <<>> \in Seq(Text) /\ Len(<<>>) = 0
    OBVIOUS
  <2>5. \A i \in Begins(t, D) : ~(i <= sp)
    <3>1. \A i \in Begins(t, D) : i \in 1..Len(t)
      BY <1>1 DEF Begins
    <3> QED BY <1>3, <2>2, <3>1
  <2>6. WordsUpTo(<<>>, t, D, sp)
    BY <2>3, <2>4, <2>5 DEF WordsUpTo
  <2>7. sp + 0 = sp
    BY <1>3
  <2>8. f[0] = NoWords
    BY <1>2 DEF SplitTrace
  <2> HIDE DEF s
  <2>9. SplitUpTo(NoWords, t, D, sp)
    BY <2>1, <2>4, <2>6 DEF SplitUpTo
  <2>10. 0 \in 0..Len(s)
    BY <1>4
  <2>11. SplitUpTo(f[0], t, D, sp + 0)
    BY <2>7, <2>8, <2>9, Zenon
  <2> QED BY <2>10, <2>11
<1>6. ASSUME NEW k \in 0..(Len(s) - 1), k \in G PROVE k + 1 \in G
  <2>1. k \in 0..(Len(t) - Span(t, D) - 1) /\ k + 1 \in 1..Len(s) /\ (k + 1) - 1 = k /\ k + 1 \in 0..Len(s)
    <3> HIDE DEF s
    <3>1. k \in 0..(Len(t) - sp - 1) /\ k + 1 \in 1..Len(s) /\ (k + 1) - 1 = k /\ k + 1 \in 0..Len(s)
      <4> HIDE DEF sp
      <4> QED BY <1>1, <1>3, <1>4
    <3> QED BY <3>1
  <2>2. f[k + 1] = SplitStep([s |-> s, D |-> D], f[k], k + 1)
    <3> HIDE DEF s
    <3> QED BY <1>2, <2>1 DEF SplitTrace
  <2>3. SplitUpTo(f[k], t, D, Span(t, D) + k)
    BY <1>6
  <2>4. SplitUpTo(SplitStep([s |-> s, D |-> D], f[k], k + 1), t, D, Span(t, D) + (k + 1))
    BY <1>1, <2>1, <2>3, OneCharacter
  <2> HIDE DEF s
  <2> QED BY <2>1, <2>2, <2>4
<1>7. \A k \in 0..Len(s) : k \in G
  <2> HIDE DEF G, s
  <2> QED BY <1>4, <1>5, <1>6, Counting
<1>8. SplitUpTo(r, t, D, Len(t))
  <2> HIDE DEF s, sp
  <2>1. Len(s) \in 0..Len(s) /\ sp + Len(s) = Len(t)
    BY <1>1, <1>3, <1>4
  <2>2. SplitUpTo(f[Len(s)], t, D, sp + Len(s))
    BY <1>7, <2>1
  <2> QED BY <1>2, <2>1, <2>2
<1>9. Begins(t, D) \cap 1..Len(t) = Begins(t, D)
  BY <1>1 DEF Begins
<1>10. Len(r.words) = Cardinality(Begins(t, D)) /\ Len(r.words) <= r.alloc
  BY <1>8, <1>9 DEF SplitUpTo, WordsUpTo, Begun
<1>11. \A i \in Begins(t, D) : \E j \in i..Len(t) : IsWordAt(r.words[Begun(t, D, i)], t, D, i, j, Len(t))
  <2>1. \A i \in Begins(t, D) : i <= Len(t)
    BY <1>1 DEF Begins
  <2> QED BY <1>8, <2>1 DEF SplitUpTo, WordsUpTo
<1>12. \A i \in Begins(t, D) : \E j \in i..Len(t) :
          /\ r.words[Cardinality(Begins(t, D) \cap 1..i)] = SubSeq(t, i, j)
          /\ \A x \in i..j : t[x] \notin D
          /\ j = Len(t) \/ t[j + 1] \in D
  BY <1>11, Zenon DEF IsWordAt, Begun
<1> QED BY <1>10, <1>12, Zenon DEF SplitOf, D, t, r

SplitAnswer(i, r) ==
  i.op = "split" =>
    SplitOf(IF i.str = Null THEN <<>> ELSE i.str, i.delimiters, r)

(* The words of a text are where they begin in it, in every state.         *)
THEOREM WordsStaySplit == Spec => []WordsAreSplit
<1>1. Init => WordsAreSplit
  BY DEF Init, Idle, WordsAreSplit
<1>2. WordsAreSplit <=> SplitAnswer(call, result)
  BY Zenon DEF WordsAreSplit, SplitAnswer, SplitOf, Begins, Delimiters
<1>3. WordsAreSplit' <=> SplitAnswer(call', result')
  BY Zenon DEF WordsAreSplit, SplitAnswer, SplitOf, Begins, Delimiters
<1>4. ASSUME NEW i \in Inputs, NEW r, IsAnswer(i, r) PROVE SplitAnswer(i, r)
  <2> SUFFICES ASSUME i.op = "split" PROVE SplitOf(TextOf(i.str), i.delimiters, r)
    BY Zenon DEF SplitAnswer, TextOf
  <2>1. i.str \in TextOrNot
    BY InputsAssumption
  <2>2. r = StrsplitSet(i.str, i.delimiters)
    BY <1>4 DEF IsAnswer
  <2> QED BY <2>1, <2>2, WordsAreWhole
<1>5. ASSUME WordsAreSplit, [Next]_vars PROVE WordsAreSplit'
  <2>1. CASE UNCHANGED vars
    BY <1>2, <1>3, <1>5, <2>1, Zenon DEF vars
  <2>2. CASE call' = Idle
    BY <2>2 DEF Idle, WordsAreSplit
  <2>3. CASE call' \in Inputs /\ IsAnswer(call', result')
    BY <1>3, <1>4, <2>3, Zenon
  <2> QED BY <1>5, <2>1, <2>2, <2>3, CallsAreAnswered
<1> QED BY <1>1, <1>5, PTL DEF Spec

-----------------------------------------------------------------------------
(* The fields behind the name, each behind a blank.                        *)
FieldStep(ctx, s, f) == s \o <<32>> \o f
Filling == INSTANCE FoldFacts WITH Op <- FieldStep
Behind(fields) == FoldLeft(LAMBDA s, f : s \o <<32>> \o f, <<>>, fields)

(* The fields of t begin behind the places that L gives, and nothing but a *)
(* blank is between them: t has k of them.                                 *)
IsFilled(t, fields, L, k) ==
  /\ t \in Text /\ L[0] = 0 /\ Len(t) = L[k]
  /\ \A x \in 1..Len(t) : t[x] # 41
  /\ \A h \in 1..k :
       /\ L[h - 1] \in Nat /\ L[h] = L[h - 1] + 1 + Len(fields[h]) /\ L[h] <= Len(t)
       /\ Len(fields[h]) >= 1 /\ t[L[h - 1] + 1] = 32
       /\ \A i \in 1..Len(fields[h]) : t[L[h - 1] + 1 + i] = fields[h][i]

(* A field is a text without blanks and parentheses, and not empty.        *)
LEMMA FieldIsText ==
  ASSUME NEW f \in Field
  PROVE  f \in Text /\ Len(f) \in Nat /\ Len(f) >= 1 /\ \A i \in 1..Len(f) : f[i] # 32 /\ f[i] # 41
<1>1. f \in Seq((1..255) \ {32, 41}) /\ f # <<>>
  BY DEF Field
<1>2. \A i \in 1..Len(f) : f[i] \in (1..255) \ {32, 41}
  BY <1>1, ElementOfSeq
<1>3. f \in Seq(1..255) /\ Len(f) \in Nat
  BY <1>1
<1>4. Len(f) # 0
  BY <1>1, EmptySeq
<1> QED BY <1>2, <1>3, <1>4 DEF Text

(* One more field. *)
LEMMA OneField ==
  ASSUME NEW t, NEW fields, NEW L, NEW k \in Nat, IsFilled(t, fields, L, k),
         fields[k + 1] \in Field, L[k + 1] = L[k] + 1 + Len(fields[k + 1])
  PROVE  IsFilled(FieldStep(0, t, fields[k + 1]), fields, L, k + 1)
<1> DEFINE f == fields[k + 1]
           u == t \o <<32>>
           v == u \o f
<1>1. f \in Text /\ Len(f) \in Nat /\ Len(f) >= 1 /\ \A i \in 1..Len(f) : f[i] # 32 /\ f[i] # 41
  BY FieldIsText
<1>2. t \in Text /\ Len(t) = L[k] /\ Len(t) \in Nat
  BY Characters DEF IsFilled
<1>3. <<32>> \in Text /\ Len(<<32>>) = 1 /\ <<32>>[1] = 32
  BY DEF Text
<1>4. /\ u \in Text /\ Len(u) = L[k] + 1
      /\ \A x \in 1..L[k] : u[x] = t[x]
      /\ u[L[k] + 1] = 32
  <2>1. /\ u \in Text /\ Len(u) = Len(t) + Len(<<32>>)
        /\ \A i \in 1..Len(t) : u[i] = t[i]
        /\ \A i \in 1..Len(<<32>>) : u[Len(t) + i] = <<32>>[i]
    BY <1>2, <1>3, JoinedText
  <2>2. 1 \in 1..Len(<<32>>)
    BY <1>3
  <2> HIDE DEF u
  <2> QED BY <1>2, <1>3, <2>1, <2>2
<1> HIDE DEF u, f
<1>5. /\ v \in Text /\ Len(v) = L[k] + 1 + Len(f)
      /\ \A x \in 1..(L[k] + 1) : v[x] = u[x]
      /\ \A i \in 1..Len(f) : v[L[k] + 1 + i] = f[i]
  <2>1. /\ v \in Text /\ Len(v) = Len(u) + Len(f)
        /\ \A i \in 1..Len(u) : v[i] = u[i]
        /\ \A i \in 1..Len(f) : v[Len(u) + i] = f[i]
    BY <1>1, <1>4, JoinedText, Zenon
  <2> HIDE DEF v
  <2> QED BY <1>4, <2>1
<1> HIDE DEF v
<1>6. \A x \in 1..Len(t) : v[x] = t[x]
  <2> TAKE x \in 1..Len(t)
  <2>1. x \in 1..L[k] /\ x \in 1..(L[k] + 1)
    BY <1>2
  <2> QED BY <1>4, <1>5, <2>1
<1>7. v[L[k] + 1] = 32
  <2>1. L[k] + 1 \in 1..(L[k] + 1)
    BY <1>2
  <2> QED BY <1>4, <1>5, <2>1
<1>8. L[0] = 0 /\ Len(v) = L[k + 1]
  BY <1>5 DEF IsFilled, f
<1>9. \A x \in 1..Len(v) : v[x] # 41
  <2> TAKE x \in 1..Len(v)
  <2>1. CASE x \in 1..Len(t)
    BY <1>6, <2>1, Zenon DEF IsFilled
  <2>2. CASE x = L[k] + 1
    BY <1>7, <2>2
  <2>3. CASE x > L[k] + 1
    <3>1. x - (L[k] + 1) \in 1..Len(f) /\ L[k] + 1 + (x - (L[k] + 1)) = x
      BY <1>1, <1>2, <1>5, <2>3
    <3>2. v[L[k] + 1 + (x - (L[k] + 1))] = f[x - (L[k] + 1)]
      BY <1>5, <3>1
    <3> QED BY <1>1, <3>1, <3>2
  <2> QED BY <1>1, <1>2, <1>5, <2>1, <2>2, <2>3
<1>10. ASSUME NEW h \in 1..(k + 1)
       PROVE  /\ L[h - 1] \in Nat /\ L[h] = L[h - 1] + 1 + Len(fields[h]) /\ L[h] <= Len(v)
              /\ Len(fields[h]) >= 1 /\ v[L[h - 1] + 1] = 32
              /\ \A i \in 1..Len(fields[h]) : v[L[h - 1] + 1 + i] = fields[h][i]
  <2>1. CASE h \in 1..k
    <3>1. /\ L[h - 1] \in Nat /\ L[h] = L[h - 1] + 1 + Len(fields[h]) /\ L[h] <= Len(t)
          /\ Len(fields[h]) >= 1 /\ t[L[h - 1] + 1] = 32
          /\ \A i \in 1..Len(fields[h]) : t[L[h - 1] + 1 + i] = fields[h][i]
      BY <2>1 DEF IsFilled
    <3> DEFINE l == L[h - 1]
               n == Len(fields[h])
    <3> HIDE DEF l, n
    <3>2. l \in Nat /\ L[h] = l + 1 + n /\ L[h] <= Len(t)
      BY <3>1 DEF l, n
    <3>3. n \in Int
      BY <1>2, <3>2 DEF n
    <3>4. n >= 0 => l + 1 \in 1..Len(t)
      BY <1>2, <3>2, <3>3
    <3>5. \A i \in 1..n : l + 1 + i \in 1..Len(t) /\ n >= 0
      BY <1>2, <3>2, <3>3
    <3>6. L[h] <= Len(v)
      BY <1>1, <1>2, <1>5, <3>2, <3>3
    <3>7. n >= 1
      BY <3>1 DEF n
    <3>9. v[l + 1] = 32
      BY <1>6, <3>1, <3>3, <3>4, <3>7 DEF l
    <3>10. \A i \in 1..n : v[l + 1 + i] = fields[h][i]
      BY <1>6, <3>1, <3>5 DEF l, n
    <3> QED BY <3>2, <3>6, <3>7, <3>9, <3>10 DEF l, n
  <2>2. CASE h = k + 1
    <3>1. h - 1 = k /\ fields[h] = f
      BY <2>2 DEF f
    <3>2. L[k + 1] = L[k] + 1 + Len(f) /\ L[k + 1] <= Len(v)
      BY <1>1, <1>2, <1>5 DEF f
    <3>3. L[k] \in Nat /\ L[h] = L[h - 1] + 1 + Len(fields[h])
      BY <1>2, <2>2, <3>1
    <3> QED BY <1>1, <1>2, <1>5, <1>7, <2>2, <3>1, <3>2, <3>3
  <2> QED BY <2>1, <2>2
<1>11. v = FieldStep(0, t, fields[k + 1])
  BY DEF v, u, f, FieldStep
<1> QED BY <1>5, <1>8, <1>9, <1>10, <1>11 DEF IsFilled

(* All fields. *)
LEMMA FieldsAreBehind ==
  ASSUME NEW fields \in Seq(Field)
  PROVE  \E L : IsFilled(Behind(fields), fields, L, Len(fields))
<1> DEFINE n == Len(fields)
           f == Filling!Trace(0, <<>>, fields)
           L == [k \in 0..n |-> Len(f[k])]
<1>1. Filling!Fold(0, <<>>, fields) = Behind(fields)
  BY DEF Filling!Fold, FoldLeft, MapThenFoldSet, Filling!MapThenFoldSet, Max, Filling!Largest, FieldStep, Behind
<1>2. Filling!IsTrace(f, 0, <<>>, fields)
  BY Filling!FoldTrace, Smallest
<1> HIDE DEF f
<1>3. /\ f[0] = <<>> /\ f[n] = Behind(fields)
      /\ \A k \in 1..n : f[k] = FieldStep(0, f[k - 1], fields[k])
  BY <1>1, <1>2 DEF Filling!IsTrace
<1>4. n \in Nat
  OBVIOUS
<1> HIDE DEF n
<1>5. \A k \in 0..n : L[k] = Len(f[k])
  OBVIOUS
<1> DEFINE G == {k \in 0..n : IsFilled(f[k], fields, L, k)}
<1> HIDE DEF L
<1>6. 0 \in G
  <2>1. <<>> \in Text /\ Len(<<>>) = 0
    BY DEF Text
  <2>2. L[0] = 0 /\ 0 \in 0..n
    BY <1>3, <1>4, <1>5, <2>1
  <2> QED BY <1>3, <2>1, <2>2 DEF IsFilled
<1>7. ASSUME NEW k \in 0..(n - 1), k \in G PROVE k + 1 \in G
  <2>1. k \in Nat /\ k + 1 \in 1..n /\ k + 1 \in 0..n /\ (k + 1) - 1 = k
    BY <1>4
  <2>2. fields[k + 1] \in Field
    BY <2>1, ElementOfSeq DEF n
  <2>3. IsFilled(f[k], fields, L, k)
    BY <1>7
  <2>4. f[k + 1] = FieldStep(0, f[k], fields[k + 1])
    BY <1>3, <2>1
  <2>5. L[k + 1] = L[k] + 1 + Len(fields[k + 1])
    <3>1. f[k] \in Text /\ fields[k + 1] \in Text /\ <<32>> \in Text /\ Len(<<32>>) = 1
      BY <2>2, <2>3, FieldIsText DEF IsFilled, Text
    <3>2. f[k] \o <<32>> \in Text /\ Len(f[k] \o <<32>>) = Len(f[k]) + 1
      BY <3>1, JoinedText
    <3>3. Len((f[k] \o <<32>>) \o fields[k + 1]) = Len(f[k] \o <<32>>) + Len(fields[k + 1])
      BY <3>1, <3>2, JoinedText
    <3>4. Len(f[k + 1]) = Len(f[k]) + 1 + Len(fields[k + 1])
      BY <2>4, <3>2, <3>3, Zenon DEF FieldStep
    <3>5. L[k + 1] = Len(f[k + 1]) /\ L[k] = Len(f[k])
      BY <1>4, <1>5, <2>1
    <3> QED BY <3>4, <3>5, Zenon
  <2>6. IsFilled(FieldStep(0, f[k], fields[k + 1]), fields, L, k + 1)
    BY <2>1, <2>2, <2>3, <2>5, OneField
  <2> QED BY <2>1, <2>4, <2>6
<1>8. \A k \in 0..n : k \in G
  <2> HIDE DEF G
  <2> QED BY <1>4, <1>6, <1>7, Counting
<1>9. IsFilled(f[n], fields, L, n)
  BY <1>4, <1>8
<1> QED BY <1>3, <1>9 DEF n

-----------------------------------------------------------------------------
(* The beginning of a sequence, with one more element.                     *)
LEMMA OneMore ==
  ASSUME NEW S, NEW s \in Seq(S), NEW i \in 1..Len(s)
  PROVE  /\ SubSeq(s, 1, i) = Append(SubSeq(s, 1, i - 1), s[i])
         /\ SubSeq(s, 1, i - 1) \in Seq(S) /\ Len(SubSeq(s, 1, i - 1)) = i - 1
<1>1. 1 \in 1..Len(s) /\ i \in 1..Len(s) /\ s[i] \in S /\ 1 \in Nat \ {0} /\ i - 1 \in 0..Len(s)
  BY ElementOfSeq
<1>2. SubSeq(s, 1, i) = SubSeq(s, 1, i - 1) \o <<s[i]>>
  BY <1>1, SubSeqRecursiveSecond
<1> DEFINE q == i - 1
<1>3. q \in 0..Len(s) /\ q - 1 + 1 = q
  BY <1>1
<1> HIDE DEF q
<1>4. SubSeq(s, 1, q) \in Seq(S) /\ Len(SubSeq(s, 1, q)) = IF 1 <= q THEN q - 1 + 1 ELSE 0
  BY <1>1, <1>3, Parts
<1>5. Len(SubSeq(s, 1, q)) = q
  BY <1>3, <1>4
<1>6. Append(SubSeq(s, 1, q), s[i]) = SubSeq(s, 1, q) \o <<s[i]>>
  BY <1>1, <1>4, AppendIsConcat
<1> QED BY <1>2, <1>4, <1>5, <1>6 DEF q

(* The last element of a sequence is replaced.                             *)
LEMMA LastReplaced ==
  ASSUME NEW S, NEW s \in Seq(S), NEW v \in S, NEW w \in S
  PROVE  [Append(s, v) EXCEPT ![Len(Append(s, v))] = w] = Append(s, w)
<1> DEFINE a == Append(s, v)
           b == Append(s, w)
           n == Len(s) + 1
           c == [a EXCEPT ![n] = w]
<1>1. /\ a \in Seq(S) /\ Len(a) = n /\ \A i \in 1..Len(s) : a[i] = s[i]
      /\ b \in Seq(S) /\ Len(b) = n /\ \A i \in 1..Len(s) : b[i] = s[i]
      /\ b[n] = w
  BY AppendProperties
<1>2. n \in Nat /\ n \in 1..n /\ \A i \in 1..n : i = n \/ i \in 1..Len(s)
  OBVIOUS
<1> HIDE DEF a, b, n
<1>3. /\ c \in Seq(S) /\ Len(c) = n
      /\ \A j \in 1..n : c[j] = IF j = n THEN w ELSE a[j]
  BY <1>1, <1>2, ExceptSeq
<1> HIDE DEF c
<1>4. \A j \in 1..n : c[j] = b[j]
  BY <1>1, <1>2, <1>3
<1>5. c = b
  BY <1>1, <1>3, <1>4, SeqEqual
<1>6. c = [a EXCEPT ![Len(a)] = w]
  BY <1>1 DEF c
<1> QED BY <1>5, <1>6 DEF a, b

(* The text behind the first blank is split into the fields.               *)
LEMMA FieldsAreWords ==
  ASSUME NEW fields \in Seq(Field), NEW n \in Nat \ {0}, n = Len(fields),
         NEW t, NEW L, IsFilled(t, fields, L, n)
  PROVE  StrsplitSet(SubSeq(t, 2, Len(t)), <<32>>).words = fields
<1> DEFINE u == SubSeq(t, 2, Len(t))
<1>1. t \in Text /\ Len(t) \in Nat /\ Len(t) = L[n] /\ L[0] = 0
  BY Characters DEF IsFilled
<1>2. \A h \in 1..n : /\ fields[h] \in Field /\ fields[h] \in Text /\ Len(fields[h]) \in Nat /\ Len(fields[h]) >= 1
                       /\ \A i \in 1..Len(fields[h]) : fields[h][i] # 32
  BY FieldIsText, ElementOfSeq
<1>3. \A h \in 1..n : /\ L[h - 1] \in Nat /\ L[h] = L[h - 1] + 1 + Len(fields[h]) /\ L[h] \in Nat
                       /\ L[h] <= Len(t) /\ L[h - 1] + 2 <= L[h]
                       /\ t[L[h - 1] + 1] = 32
                       /\ \A i \in 1..Len(fields[h]) : t[L[h - 1] + 1 + i] = fields[h][i]
  <2> TAKE h \in 1..n
  <2> DEFINE l == L[h - 1]
             k == Len(fields[h])
  <2>1. /\ l \in Nat /\ L[h] = l + 1 + k /\ L[h] <= Len(t) /\ k >= 1 /\ t[l + 1] = 32
        /\ \A i \in 1..k : t[l + 1 + i] = fields[h][i]
    BY DEF IsFilled
  <2>2. k \in Nat
    BY <1>2
  <2> HIDE DEF l, k
  <2>3. L[h] \in Nat /\ l + 2 <= L[h]
    BY <2>1, <2>2
  <2> QED BY <2>1, <2>3 DEF l, k
<1>4. Len(t) >= 2
  <2>1. n \in 1..n
    OBVIOUS
  <2> QED BY <1>1, <1>3, <2>1
<1>5. /\ u \in Text /\ Len(u) = Len(t) - 1
      /\ \A x \in 1..(Len(t) - 1) : u[x] = t[x + 1]
  <2> DEFINE p == 2
             q == Len(t)
  <2>1. p \in Nat \ {0} /\ q \in 1..Len(t) /\ p <= q /\ q - p + 1 = Len(t) - 1
    BY <1>1, <1>4
  <2>2. \A x \in 1..(Len(t) - 1) : p + x - 1 = x + 1
    BY <1>1
  <2> HIDE DEF p, q
  <2>3. /\ SubSeq(t, p, q) \in Seq(1..255) /\ Len(SubSeq(t, p, q)) = q - p + 1
        /\ \A x \in 1..(q - p + 1) : SubSeq(t, p, q)[x] = t[p + x - 1]
    BY <1>1, <2>1, PartOf, ZenonT(30)
  <2>4. u = SubSeq(t, p, q)
    BY DEF p, q
  <2> HIDE DEF u
  <2> QED BY <2>1, <2>2, <2>3, <2>4 DEF Text
<1> HIDE DEF u
<1>6. \A h \in 1..n : \A i \in 1..Len(fields[h]) : u[L[h - 1] + i] = fields[h][i]
  <2> TAKE h \in 1..n
  <2> TAKE i \in 1..Len(fields[h])
  <2> DEFINE l == L[h - 1]
             k == Len(fields[h])
  <2>1. l \in Nat /\ k \in Nat /\ l + 1 + k <= Len(t) /\ i \in 1..k /\ t[l + 1 + i] = fields[h][i]
    BY <1>2, <1>3, Zenon
  <2> HIDE DEF l, k
  <2>2. l + i \in 1..(Len(t) - 1) /\ (l + i) + 1 = l + 1 + i
    BY <1>1, <2>1
  <2>3. u[l + i] = t[l + 1 + i]
    BY <1>5, <2>2
  <2> QED BY <2>1, <2>3 DEF l
<1>7. \A h \in 1..n : h # 1 => u[L[h - 1]] = 32
  <2> TAKE h \in 1..n
  <2> HAVE h # 1
  <2> DEFINE l == L[h - 1]
  <2>1. h - 1 \in 1..n
    OBVIOUS
  <2>2. l \in Nat /\ l >= 2 /\ l + 2 <= Len(t) /\ t[l + 1] = 32
    <3>1. l = L[(h - 1) - 1] + 1 + Len(fields[h - 1]) /\ L[(h - 1) - 1] \in Nat /\ Len(fields[h - 1]) >= 1
            /\ Len(fields[h - 1]) \in Nat
      BY <1>2, <1>3, <2>1
    <3>2. l \in Nat /\ l + 2 <= L[h] /\ L[h] <= Len(t) /\ L[h] \in Nat /\ t[l + 1] = 32
      BY <1>3
    <3> HIDE DEF l
    <3>3. l \in Nat /\ l >= 2
      BY <3>1
    <3>4. l + 2 <= Len(t) /\ t[l + 1] = 32
      BY <1>1, <3>2
    <3> QED BY <3>3, <3>4
  <2> HIDE DEF l
  <2>3. l \in 1..(Len(t) - 1)
    BY <1>1, <2>2
  <2>4. u[l] = t[l + 1]
    BY <1>5, <2>3
  <2> QED BY <2>2, <2>4 DEF l
<1>8. u # Null /\ u \in TextOrNot /\ TextOf(u) = u
  BY <1>5, TextIsNotNull DEF TextOf, TextOrNot
<1>9. Delimiters(<<32>>) = {32}
  <2>1. <<32>> # Null /\ ToSet(<<32>>) = {32}
    BY DEF Null, ToSet
  <2> QED BY <2>1 DEF Delimiters
<1>10. L[1 - 1] = 0 /\ 1 \in 1..n /\ 1 \in 1..Len(fields[1])
  <2>1. 1 \in 1..n /\ 1 - 1 = 0
    OBVIOUS
  <2> QED BY <1>1, <1>2, <2>1
<1>11. Skip(u, {32}) = u
  <2>1. u[1] # 32
    <3>1. u[0 + 1] = fields[1][1] /\ 0 + 1 = 1
      BY <1>6, <1>10
    <3> QED BY <1>2, <1>10, <3>1
  <2>2. u \in Seq(1..255) /\ 0 \in 0..Len(u) /\ 0 + 1 = 1
    BY <1>1, <1>4, <1>5 DEF Text
  <2>3. \A i \in 1..0 : u[i] \in {32}
    OBVIOUS
  <2>4. Span(u, {32}) = 0
    BY <2>1, <2>2, <2>3, SpanIsOne
  <2> QED BY <2>2, <2>4, SubSeqFull DEF Skip
<1>12. PICK f : SplitTrace(f, u, {32}) /\ f[Len(u)] = StrsplitSet(u, <<32>>)
  <2>1. LET s == Skip(TextOf(u), Delimiters(<<32>>)) IN
         \E f : /\ SplitTrace(f, s, Delimiters(<<32>>))
               /\ f[Len(s)] = StrsplitSet(u, <<32>>)
    BY <1>8, SplitLoop
  <2> QED BY <1>8, <1>9, <1>11, <2>1, Zenon
<1> DEFINE Reading(m, h, i) == f[m].words = Append(SubSeq(fields, 1, h - 1), SubSeq(fields[h], 1, i))
           G == {m \in 0..Len(u) :
                   /\ f[m] = [words |-> f[m].words, alloc |-> f[m].alloc]
                   /\ \A h \in 1..n :
                        /\ h # 1 /\ m = L[h - 1] => f[m].words = SubSeq(fields, 1, h - 1)
                        /\ \A i \in 1..Len(fields[h]) : m = L[h - 1] + i => Reading(m, h, i)}
<1>13. 0 \in G
  <2>1. \A h \in 1..n : h # 1 => L[h - 1] # 0
    <3> TAKE h \in 1..n
    <3> HAVE h # 1
    <3> DEFINE g == h - 1
    <3>1. g \in 1..n
      OBVIOUS
    <3> HIDE DEF g
    <3>2. L[g - 1] \in Nat /\ L[g - 1] + 2 <= L[g] /\ L[g] \in Nat
      BY <1>3, <3>1
    <3>3. L[g] # 0
      BY <3>2
    <3> QED BY <3>3 DEF g
  <2>2. \A h \in 1..n : \A i \in 1..Len(fields[h]) : 0 # L[h - 1] + i
    <3> TAKE h \in 1..n
    <3> TAKE i \in 1..Len(fields[h])
    <3>1. L[h - 1] \in Nat
      BY <1>3
    <3>2. Len(fields[h]) \in Nat
      BY <1>2
    <3>3. i \in Nat /\ i >= 1
      BY <3>2
    <3> QED BY <3>1, <3>3
  <2>3. 0 \in 0..Len(u)
    BY <1>1, <1>4, <1>5
  <2>4. f[0] = [words |-> f[0].words, alloc |-> f[0].alloc]
    BY <1>12 DEF SplitTrace, NoWords
  <2> QED BY <2>1, <2>2, <2>3, <2>4
<1>14. ASSUME NEW m \in 0..(Len(u) - 1), m \in G PROVE m + 1 \in G
  <2> DEFINE c == u[m + 1]
             a == f[m]
             b == f[m + 1]
             P(h) == SubSeq(fields, 1, h - 1)
  <2>1. m \in Nat /\ m + 1 \in 1..Len(u) /\ (m + 1) - 1 = m /\ m + 1 \in 0..Len(u)
    BY <1>1, <1>4, <1>5
  <2>2. b = SplitStep([s |-> u, D |-> {32}], a, m + 1)
    BY <1>12, <2>1 DEF SplitTrace
  <2>3. /\ a = [words |-> a.words, alloc |-> a.alloc]
        /\ \A h \in 1..n :
             /\ h # 1 /\ m = L[h - 1] => a.words = SubSeq(fields, 1, h - 1)
             /\ \A i \in 1..Len(fields[h]) : m = L[h - 1] + i => Reading(m, h, i)
    BY <1>14
  <2> HIDE DEF b
  <2>4. c = 32 => b = a
    BY <2>2 DEF SplitStep
  <2>5. c # 32 /\ m # 0 /\ u[m] # 32 =>
          b = [a EXCEPT !.words = [a.words EXCEPT ![Len(a.words)] = Append(@, c)]]
    BY <2>1, <2>2, <2>3 DEF SplitStep
  <2>6. c # 32 /\ (m = 0 \/ u[m] = 32) =>
          b = [words |-> Append(a.words, <<c>>), alloc |-> Grown(a.alloc, Len(a.words))]
    BY <2>1, <2>2 DEF SplitStep
  <2>7. b = [words |-> b.words, alloc |-> b.alloc]
    <3>1. CASE c = 32
      BY <2>3, <2>4, <3>1, Zenon
    <3>2. CASE c # 32 /\ m # 0 /\ u[m] # 32
      <4> DEFINE w == [a.words EXCEPT ![Len(a.words)] = Append(@, c)]
                 r == a.alloc
      <4>1. b = [a EXCEPT !.words = w]
        BY <2>5, <3>2
      <4> HIDE DEF w
      <4>2. b = [words |-> w, alloc |-> r]
        BY <2>3, <4>1
      <4> HIDE DEF r
      <4> QED BY <4>2
    <3>3. CASE c # 32 /\ (m = 0 \/ u[m] = 32)
      <4> DEFINE w == Append(a.words, <<c>>)
                 r == Grown(a.alloc, Len(a.words))
      <4>1. b = [words |-> w, alloc |-> r]
        BY <2>6, <3>3
      <4> HIDE DEF w, r
      <4> QED BY <4>1
    <3> QED BY <3>1, <3>2, <3>3
  <2>8. ASSUME NEW h \in 1..n, h # 1, m + 1 = L[h - 1] PROVE b.words = SubSeq(fields, 1, h - 1)
    <3> DEFINE g == h - 1
               k == Len(fields[g])
    <3>1. c = 32
      BY <1>7, <2>8
    <3>2. g \in 1..n /\ g \in 1..Len(fields)
      BY <2>8
    <3>3. k \in 1..k /\ m = L[g - 1] + k
      <4>1. L[g - 1] \in Nat /\ L[g] = L[g - 1] + 1 + k /\ k \in Nat /\ k >= 1
        BY <1>2, <1>3, <3>2
      <4>2. m + 1 = L[g]
        BY <2>8
      <4> HIDE DEF g, k
      <4> QED BY <2>1, <4>1, <4>2
    <3> HIDE DEF g
    <3>4. Reading(m, g, k)
      BY <2>3, <3>2, <3>3
    <3>5. SubSeq(fields[g], 1, k) = fields[g]
      BY <1>2, <3>2, SubSeqFull DEF Text
    <3>6. SubSeq(fields, 1, g) = Append(SubSeq(fields, 1, g - 1), fields[g])
      BY <3>2, OneMore
    <3>7. a.words = SubSeq(fields, 1, g)
      BY <3>4, <3>5, <3>6
    <3> QED BY <2>4, <3>1, <3>7 DEF g
  <2>9. ASSUME NEW h \in 1..n, NEW i \in 1..Len(fields[h]), m + 1 = L[h - 1] + i PROVE Reading(m + 1, h, i)
    <3> DEFINE l == L[h - 1]
               w == fields[h]
    <3>1. /\ c = w[i] /\ c # 32
          /\ w \in Text /\ w \in Seq(1..255) /\ Len(w) \in Nat /\ i \in 1..Len(w) /\ l \in Nat /\ i \in Nat
      BY <1>2, <1>3, <1>6, <2>9 DEF Text
    <3>2. SubSeq(w, 1, i) = Append(SubSeq(w, 1, i - 1), w[i])
      <4> HIDE DEF w
      <4> QED BY <3>1, OneMore
    <3>3. P(h) \in Seq(Field) /\ Len(P(h)) = h - 1
      <4>1. h \in 1..Len(fields)
        OBVIOUS
      <4> QED BY <4>1, OneMore
    <3>4. CASE i = 1
      <4>1. m = l
        BY <2>1, <2>9, <3>1, <3>4
      <4>2. SubSeq(w, 1, i) = <<c>>
        <5>1. SubSeq(w, 1, i - 1) = <<>>
          BY <3>4, SubSeqEmpty
        <5>2. Append(<<>>, w[i]) = <<w[i]>>
          OBVIOUS
        <5> HIDE DEF w
        <5> QED BY <3>1, <3>2, <5>1, <5>2
      <4>3. a.words = P(h) /\ (m = 0 \/ u[m] = 32)
        <5>1. CASE h = 1
          <6>1. m = 0 /\ f[0] = NoWords
            BY <1>1, <1>10, <1>12, <4>1, <5>1 DEF SplitTrace
          <6>2. P(h) = <<>>
            BY <5>1, SubSeqEmpty
          <6>3. NoWords.words = <<>>
            BY DEF NoWords
          <6> QED BY <6>1, <6>2, <6>3
        <5>2. CASE h # 1
          BY <1>7, <2>3, <4>1, <5>2
        <5> QED BY <5>1, <5>2
      <4>4. b.words = Append(a.words, <<c>>)
        BY <2>6, <3>1, <4>3
      <4> HIDE DEF P, c, w
      <4>5. b.words = Append(P(h), SubSeq(w, 1, i))
        BY <4>2, <4>3, <4>4, Zenon
      <4> QED BY <4>5, Zenon DEF P, b, w
    <3>5. CASE i # 1
      <4>1. i - 1 \in 1..Len(w) /\ m = l + (i - 1) /\ m # 0
        <5>1. m + 1 = l + i
          BY <2>9
        <5> HIDE DEF l, w
        <5> QED BY <2>1, <3>1, <3>5, <5>1
      <4>2. Reading(m, h, i - 1)
        BY <2>3, <4>1
      <4>3. u[m] # 32
        <5>1. u[m] = w[i - 1]
          BY <1>6, <4>1
        <5> QED BY <1>2, <4>1, <5>1
      <4>4. b = [a EXCEPT !.words = [a.words EXCEPT ![Len(a.words)] = Append(@, c)]]
        BY <2>5, <3>1, <4>1, <4>3, Zenon
      <4> DEFINE v == SubSeq(w, 1, i - 1)
      <4>5. a.words = Append(P(h), v)
        BY <4>2
      <4>6. v \in Text /\ Append(v, c) \in Text
        <5> HIDE DEF w
        <5>1. v \in Seq(1..255)
          BY <3>1, OneMore
        <5>2. c \in 1..255
          BY <1>5, <2>1, Characters
        <5> HIDE DEF v, c
        <5>3. Append(v, c) \in Seq(1..255)
          BY <5>1, <5>2, AppendProperties
        <5> QED BY <5>1, <5>3 DEF Text
      <4>7. P(h) \in Seq(Text)
        <5>1. Field \subseteq Text
          BY FieldIsText
        <5> HIDE DEF P
        <5> QED BY <3>3, <5>1, SeqWidens
      <4> HIDE DEF P, v, c, a, w
      <4>8. Append(P(h), v)[Len(Append(P(h), v))] = v
        BY <4>6, <4>7, AppendProperties
      <4>9. [a.words EXCEPT ![Len(a.words)] = Append(@, c)] = Append(P(h), Append(v, c))
        <5>1. [Append(P(h), v) EXCEPT ![Len(Append(P(h), v))] = Append(v, c)] = Append(P(h), Append(v, c))
          <6> DEFINE q == P(h)
                     y == Append(v, c)
          <6>1. q \in Seq(Text) /\ v \in Text /\ y \in Text
            BY <4>6, <4>7
          <6> HIDE DEF q, y
          <6>2. [Append(q, v) EXCEPT ![Len(Append(q, v))] = y] = Append(q, y)
            BY <6>1, LastReplaced
          <6> QED BY <6>2 DEF q, y
        <5> QED BY <4>5, <4>8, <5>1
      <4> DEFINE x == Append(P(h), Append(v, c))
      <4>10. b = [a EXCEPT !.words = x]
        BY <4>4, <4>9, Zenon
      <4> HIDE DEF x
      <4>11. b.words = x
        <5> DEFINE y == a.words
                   z == a.alloc
        <5>1. a = [words |-> y, alloc |-> z]
          BY <2>3 DEF a
        <5> HIDE DEF y, z
        <5> QED BY <4>10, <5>1
      <4>12. SubSeq(w, 1, i) = Append(v, c)
        BY <3>1, <3>2 DEF v
      <4>13. b.words = Append(P(h), SubSeq(w, 1, i))
        BY <4>11, <4>12, Zenon DEF x
      <4> QED BY <4>13, Zenon DEF P, b, w
    <3> QED BY <3>4, <3>5
  <2>10. f[m + 1] = [words |-> f[m + 1].words, alloc |-> f[m + 1].alloc]
    BY <2>7 DEF b
  <2> QED BY <2>1, <2>8, <2>9, <2>10 DEF b
<1>15. \A m \in 0..Len(u) : m \in G
  <2>1. Len(u) \in Nat
    BY <1>1, <1>4, <1>5
  <2> HIDE DEF G
  <2> QED BY <1>13, <1>14, <2>1, Counting
<1>16. f[Len(u)].words = fields
  <2>1. n \in 1..n /\ n \in 1..Len(fields)
    OBVIOUS
  <2> DEFINE k == Len(fields[n])
  <2>2. k \in 1..k /\ Len(u) = L[n - 1] + k
    BY <1>1, <1>2, <1>3, <1>5, <2>1
  <2>3. Reading(Len(u), n, k)
    <3>1. Len(u) \in 0..Len(u)
      BY <1>1, <1>4, <1>5
    <3> QED BY <1>15, <2>1, <2>2, <3>1
  <2>4. SubSeq(fields[n], 1, k) = fields[n]
    BY <1>2, <2>1, SubSeqFull DEF Text
  <2>5. SubSeq(fields, 1, n) = Append(SubSeq(fields, 1, n - 1), fields[n])
    BY <2>1, OneMore
  <2>6. SubSeq(fields, 1, n) = fields
    BY SubSeqFull
  <2> QED BY <2>3, <2>4, <2>5, <2>6
<1> QED BY <1>12, <1>16 DEF u

-----------------------------------------------------------------------------
StatOf(name, t) == <<55, 32, 40>> \o name \o <<41>> \o t

(* What a text with a name in parentheses and fields behind it is read as: *)
(* the last parenthesis is the one behind the name.                        *)
LEMMA NameIsPassed ==
  ASSUME NEW name \in Text, NEW t \in Text, \A x \in 1..Len(t) : t[x] # 41,
         NEW c, c = StatOf(name, t)
  PROVE  /\ EndOfName(c) = Len(name) + 4
         /\ Len(c) = Len(name) + 4 + Len(t) /\ c \in Text
         /\ Len(t) >= 2 => /\ SubSeq(c, EndOfName(c) + 2, Len(c)) = SubSeq(t, 2, Len(t))
                           /\ c[EndOfName(c) + 2] = t[2]
<1> DEFINE v == <<55, 32, 40>> \o name
           u == v \o <<41>>
           n == Len(name) + 4
           I == {i \in 1..Len(c) : c[i] = 41}
<1>1. /\ <<55, 32, 40>> \in Text /\ Len(<<55, 32, 40>>) = 3
      /\ <<41>> \in Text /\ Len(<<41>>) = 1 /\ <<41>>[1] = 41 /\ 1 \in 1..Len(<<41>>)
  BY DEF Text
<1>2. Len(name) \in Nat /\ Len(t) \in Nat
  BY Characters
<1>3. v \in Text /\ Len(v) = 3 + Len(name)
  BY <1>1, JoinedText
<1> HIDE DEF v
<1>4. /\ u \in Text /\ Len(u) = Len(v) + Len(<<41>>)
      /\ \A i \in 1..Len(<<41>>) : u[Len(v) + i] = <<41>>[i]
  BY <1>1, <1>3, JoinedText
<1>5. Len(u) = n /\ u[n] = 41 /\ n \in Nat /\ n \in 1..n
  <2>1. n = Len(v) + 1
    BY <1>2, <1>3
  <2> HIDE DEF u
  <2> QED BY <1>1, <1>2, <1>3, <1>4, <2>1
<1>6. c = u \o t
  BY DEF u, v, StatOf
<1> HIDE DEF u, n
<1>7. /\ c \in Text /\ Len(c) = n + Len(t)
      /\ \A i \in 1..n : c[i] = u[i]
      /\ \A i \in 1..Len(t) : c[n + i] = t[i]
  <2>1. /\ u \o t \in Text /\ Len(u \o t) = Len(u) + Len(t)
        /\ \A i \in 1..Len(u) : (u \o t)[i] = u[i]
        /\ \A i \in 1..Len(t) : (u \o t)[Len(u) + i] = t[i]
    BY <1>4, JoinedText
  <2> QED BY <1>5, <1>6, <2>1
<1>8. c[n] = 41 /\ n \in 1..Len(c)
  BY <1>2, <1>5, <1>7
<1>9. \A i \in I : n >= i
  <2> TAKE i \in I
  <2> SUFFICES ASSUME ~(n >= i) PROVE FALSE
    BY <1>5, <1>7
  <2>1. i - n \in 1..Len(t) /\ n + (i - n) = i /\ c[i] = 41
    BY <1>2, <1>5, <1>7
  <2>2. c[n + (i - n)] = t[i - n]
    BY <1>7, <2>1
  <2> QED BY <2>1, <2>2
<1>10. EndOfName(c) = n
  <2>1. n \in I /\ I \in SUBSET Int
    BY <1>8
  <2>2. EndOfName(c) = IF I # {} THEN Max(I) ELSE 0
    BY DEF EndOfName, SelectLastInSeq
  <2> HIDE DEF I
  <2>3. Max(I) = n
    BY <1>9, <2>1, LargestIsMax
  <2> QED BY <2>1, <2>2, <2>3
<1>11. ASSUME Len(t) >= 2
       PROVE  SubSeq(c, n + 2, Len(c)) = SubSeq(t, 2, Len(t)) /\ c[n + 2] = t[2]
  <2> DEFINE p == n + 2
             q == Len(c)
             p2 == 2
             q2 == Len(t)
             x == SubSeq(c, p, q)
             y == SubSeq(t, p2, q2)
  <2>1. /\ p \in Nat \ {0} /\ q \in 1..Len(c) /\ p <= q
        /\ p2 \in Nat \ {0} /\ q2 \in 1..Len(t) /\ p2 <= q2
        /\ q - p + 1 = Len(t) - 1 /\ q2 - p2 + 1 = Len(t) - 1
    BY <1>2, <1>5, <1>7, <1>11
  <2>2. \A i \in 1..(Len(t) - 1) : c[p + i - 1] = t[p2 + i - 1]
    <3> TAKE i \in 1..(Len(t) - 1)
    <3>1. i + 1 \in 1..Len(t) /\ p + i - 1 = n + (i + 1) /\ p2 + i - 1 = i + 1
      BY <1>2, <1>5
    <3> QED BY <1>7, <3>1
  <2>3. c[p] = t[p2]
    <3>1. 2 \in 1..Len(t)
      BY <1>2, <1>11
    <3> QED BY <1>7, <3>1
  <2> HIDE DEF p, q, p2, q2
  <2>4. /\ x \in Seq(1..255) /\ Len(x) = q - p + 1
        /\ \A i \in 1..(q - p + 1) : x[i] = c[p + i - 1]
    <3>1. c \in Text
      BY <1>7
    <3> QED BY <2>1, <3>1, PartOf, ZenonT(30)
  <2>5. /\ y \in Seq(1..255) /\ Len(y) = q2 - p2 + 1
        /\ \A i \in 1..(q2 - p2 + 1) : y[i] = t[p2 + i - 1]
    BY <2>1, PartOf, ZenonT(30)
  <2> HIDE DEF x, y
  <2>6. Len(x) = Len(y) /\ \A i \in 1..Len(x) : x[i] = y[i]
    <3>1. Len(x) = Len(t) - 1 /\ Len(y) = Len(t) - 1
      BY <2>1, <2>4, <2>5
    <3>2. \A i \in 1..(Len(t) - 1) : x[i] = c[p + i - 1] /\ y[i] = t[p2 + i - 1]
      BY <2>1, <2>4, <2>5
    <3>3. \A i \in 1..(Len(t) - 1) : x[i] = y[i]
      BY <2>2, <3>2, Zenon
    <3> QED BY <3>1, <3>3, Zenon
  <2>7. x = y
    BY <2>4, <2>5, <2>6, SeqEqual
  <2> QED BY <2>3, <2>7 DEF x, y, p, q, p2, q2
<1>12. EndOfName(c) = Len(name) + 4
  BY <1>10 DEF n
<1>13. Len(c) = Len(name) + 4 + Len(t)
  BY <1>7 DEF n
<1>14. Len(t) >= 2 => /\ SubSeq(c, EndOfName(c) + 2, Len(c)) = SubSeq(t, 2, Len(t))
                      /\ c[EndOfName(c) + 2] = t[2]
  BY <1>10, <1>11
<1> QED BY <1>7, <1>12, <1>13, <1>14

(* The number of a field, and 0 if it is none from 1 to max.               *)
LEMMA NumberOfField ==
  ASSUME NEW str \in Text, NEW max \in 0..MaxInt64
  PROVE  LET v == AsciiStrToInt64(str, 1, max, 0).value
             numbers == Spelled(str) \cap 1..max
         IN IF numbers = {} THEN v = 0 ELSE v # 0 /\ numbers = {v}
<1> DEFINE r == AsciiStrToInt64(str, 1, max, 0)
           numbers == {n \in Spelled(str) : 1 <= n /\ n <= max}
<1>1. max \in Int64 /\ 1 \in Int64 /\ max \in Nat /\ str \in TextOrNot
  BY WidthAssumption DEF Int64, TextOrNot
<1>2. IF numbers = {} THEN r.value = 0 ELSE numbers = {r.value}
  BY <1>1, NumberIsWhatIsSpelled
<1>3. \A n \in Spelled(str) : n \in Int
  BY <1>1, ReadIsSpelled DEF Int64
<1> HIDE DEF r
<1>4. Spelled(str) \cap 1..max = numbers
  BY <1>1, <1>3
<1>5. 0 \notin numbers
  OBVIOUS
<1> HIDE DEF numbers
<1> QED BY <1>2, <1>4, <1>5 DEF r

(* StartTimeIsNotFooled, of an input and what it gives.                    *)
StartOf(i, r) ==
  LET starts == Spelled(i.fields[20]) \cap 1..MaxInt64
      ppids  == IF i.want THEN Spelled(i.fields[2]) \cap 1..MaxInt ELSE {0}
  IN IF Len(i.fields) < 20 \/ starts = {} \/ ppids = {} THEN r = NoProcess
     ELSE starts = {r.start} /\ ppids = {r.ppid} /\ r.state = i.fields[1][1]

(* nm_utils_get_start_time_for_pid reads the fields behind the name, for   *)
(* every name, and any fields without blanks and parentheses.              *)
THEOREM StartIsRead ==
  ASSUME NEW i, i.name \in Text, i.fields \in Seq(Field), i.want \in BOOLEAN
  PROVE  StartOf(i, StartTimeForPid(Stat(i), i.want))
<1> DEFINE F == i.fields
           n == Len(F)
           t == Behind(F)
           c == Stat(i)
           p == EndOfName(c)
           r == StartTimeForPid(c, i.want)
<1>1. c = StatOf(i.name, t)
  BY DEF Stat, StatOf, Behind
<1>2. F \in Seq(Field) /\ n \in Nat
  OBVIOUS
<1>3. PICK L : IsFilled(t, F, L, n)
  BY FieldsAreBehind
<1>4. t \in Text /\ Len(t) \in Nat /\ \A x \in 1..Len(t) : t[x] # 41
  BY <1>3, Characters DEF IsFilled
<1> HIDE DEF t, c
<1>5. /\ p = Len(i.name) + 4 /\ Len(c) = Len(i.name) + 4 + Len(t)
      /\ Len(t) >= 2 => SubSeq(c, p + 2, Len(c)) = SubSeq(t, 2, Len(t)) /\ c[p + 2] = t[2]
  <2> DEFINE m == i.name
  <2>1. m \in Text /\ c = StatOf(m, t)
    BY <1>1
  <2> HIDE DEF m
  <2>2. /\ EndOfName(c) = Len(m) + 4 /\ Len(c) = Len(m) + 4 + Len(t)
        /\ Len(t) >= 2 => /\ SubSeq(c, EndOfName(c) + 2, Len(c)) = SubSeq(t, 2, Len(t))
                          /\ c[EndOfName(c) + 2] = t[2]
    BY <1>4, <2>1, NameIsPassed, Zenon
  <2> QED BY <2>2 DEF m
<1>6. Len(i.name) \in Nat
  BY Characters
<1> HIDE DEF p, F, n
<1>7. CASE n = 0
  <2>1. Len(t) = 0
    BY <1>3, <1>7 DEF IsFilled
  <2>2. p + 2 > Len(c)
    BY <1>5, <1>6, <2>1
  <2>3. r = NoProcess
    BY <2>2 DEF StartTimeForPid, p
  <2>4. Len(F) < 20
    BY <1>7 DEF n
  <2> HIDE DEF r
  <2> QED BY <2>3, <2>4 DEF StartOf, r, F, c
<1>8. CASE n # 0
  <2>1. /\ Len(t) >= 2 /\ t[2] = F[1][1]
    <3>1. n \in Nat \ {0} /\ 1 \in 1..n /\ n \in 1..n /\ 1 - 1 = 0
      BY <1>2, <1>8
    <3>2. F[1] \in Field /\ F[n] \in Field
      BY <1>2, <3>1, ElementOfSeq DEF n
    <3>3. Len(F[1]) \in Nat /\ Len(F[1]) >= 1
      BY <3>2, FieldIsText
    <3>4. L[0] = 0 /\ L[1] = L[0] + 1 + Len(F[1]) /\ L[1] <= Len(t) /\ \A x \in 1..Len(F[1]) : t[L[0] + 1 + x] = F[1][x]
      BY <1>3, <3>1 DEF IsFilled
    <3>5. 1 \in 1..Len(F[1]) /\ L[0] + 1 + 1 = 2
      BY <3>3, <3>4
    <3>6. t[L[0] + 1 + 1] = F[1][1]
      BY <3>4, <3>5
    <3> QED BY <1>4, <3>3, <3>4, <3>5, <3>6
  <2>2. /\ ~(p = 0 \/ p + 2 > Len(c))
        /\ c[p + 2] = F[1][1]
        /\ SubSeq(c, p + 2, Len(c)) = SubSeq(t, 2, Len(t))
    BY <1>4, <1>5, <1>6, <2>1
  <2>3. StrsplitSet(SubSeq(c, p + 2, Len(c)), <<32>>).words = F
    <3>1. n \in Nat \ {0} /\ n = Len(F)
      BY <1>2, <1>8 DEF n
    <3>2. StrsplitSet(SubSeq(t, 2, Len(t)), <<32>>).words = F
      BY <1>2, <1>3, <3>1, FieldsAreWords
    <3> QED BY <2>2, <3>2
  <2> DEFINE ppid  == IF i.want THEN AsciiStrToInt64(F[2], 1, MaxInt, 0).value ELSE 0
             start == AsciiStrToInt64(F[20], 1, MaxInt64, 0).value
             starts == Spelled(F[20]) \cap 1..MaxInt64
             ppids  == IF i.want THEN Spelled(F[2]) \cap 1..MaxInt ELSE {0}
             found == [start |-> start, state |-> F[1][1], ppid |-> ppid]
  <2>4. r = IF n < 20 THEN NoProcess
            ELSE IF (i.want /\ ppid = 0) \/ start = 0 THEN NoProcess ELSE found
    <3>1. r = LET fields == StrsplitSet(SubSeq(c, p + 2, Len(c)), <<32>>).words
                  pp   == IF i.want THEN AsciiStrToInt64(fields[2], 1, MaxInt, 0).value ELSE 0
                  st   == AsciiStrToInt64(fields[20], 1, MaxInt64, 0).value
              IN IF p = 0 \/ p + 2 > Len(c) \/ Len(fields) < 20 THEN NoProcess
                 ELSE IF (i.want /\ pp = 0) \/ st = 0 THEN NoProcess
                 ELSE [start |-> st, state |-> c[p + 2], ppid |-> pp]
      BY Zenon DEF StartTimeForPid, p
    <3> HIDE DEF r
    <3> QED BY <2>2, <2>3, <3>1 DEF n
  <2>5. CASE n < 20
    <3>1. r = NoProcess
      BY <2>4, <2>5
    <3> HIDE DEF r
    <3> QED BY <2>5, <3>1, Zenon DEF StartOf, n, F, r, c
  <2>6. CASE ~(n < 20)
    <3>1. F[2] \in Text /\ F[20] \in Text
      <4>1. 2 \in 1..n /\ 20 \in 1..n
        BY <1>2, <2>6
      <4>2. F[2] \in Field /\ F[20] \in Field
        BY <1>2, <4>1, ElementOfSeq DEF n
      <4> QED BY <4>2, FieldIsText
    <3>2. MaxInt64 \in 0..MaxInt64 /\ MaxInt \in 0..MaxInt64
      BY WidthAssumption
    <3>3. IF starts = {} THEN start = 0 ELSE start # 0 /\ starts = {start}
      BY <3>1, <3>2, NumberOfField
    <3>4. i.want => IF ppids = {} THEN ppid = 0 ELSE ppid # 0 /\ ppids = {ppid}
      BY <3>1, <3>2, NumberOfField
    <3>5. ~i.want => ppids = {0} /\ ppid = 0
      OBVIOUS
    <3> HIDE DEF start, ppid, starts, ppids
    <3>6. found.start = start /\ found.ppid = ppid /\ found.state = F[1][1]
      OBVIOUS
    <3> HIDE DEF found, r
    <3>7. CASE starts = {} \/ ppids = {}
      <4>1. r = NoProcess
        BY <2>4, <2>6, <3>3, <3>4, <3>5, <3>7
      <4> QED BY <3>7, <4>1, Zenon DEF StartOf, F, r, c, starts, ppids
    <3>8. CASE starts # {} /\ ppids # {}
      <4>1. r = found
        BY <2>4, <2>6, <3>3, <3>4, <3>5, <3>8
      <4>2. starts = {r.start} /\ ppids = {r.ppid} /\ r.state = F[1][1]
        BY <3>3, <3>4, <3>5, <3>6, <3>8, <4>1
      <4>3. ~(Len(F) < 20)
        BY <2>6 DEF n
      <4> QED BY <3>8, <4>2, <4>3, Zenon DEF StartOf, F, r, c, starts, ppids
    <3> QED BY <3>7, <3>8
  <2> QED BY <2>5, <2>6
<1> QED BY <1>7, <1>8

StartAnswer(i, r) == i.op = "start" => StartOf(i, r)

(* What is read of a process is its own, in every state. *)
THEOREM StartTimeStaysRight == Spec => []StartTimeIsNotFooled
<1>1. Init => StartTimeIsNotFooled
  BY DEF Init, Idle, StartTimeIsNotFooled
<1>2. StartTimeIsNotFooled <=> StartAnswer(call, result)
  BY Zenon DEF StartTimeIsNotFooled, StartAnswer, StartOf
<1>3. StartTimeIsNotFooled' <=> StartAnswer(call', result')
  BY Zenon DEF StartTimeIsNotFooled, StartAnswer, StartOf
<1>4. ASSUME NEW i \in Inputs, NEW r, IsAnswer(i, r) PROVE StartAnswer(i, r)
  <2> SUFFICES ASSUME i.op = "start" PROVE StartOf(i, r)
    BY Zenon DEF StartAnswer
  <2>1. i.name \in Text /\ i.fields \in Seq(Field) /\ i.want \in BOOLEAN
    BY InputsAssumption
  <2>2. r = StartTimeForPid(Stat(i), i.want)
    BY <1>4 DEF IsAnswer
  <2> QED BY <2>1, <2>2, StartIsRead
<1>5. ASSUME StartTimeIsNotFooled, [Next]_vars PROVE StartTimeIsNotFooled'
  <2>1. CASE UNCHANGED vars
    BY <1>2, <1>3, <1>5, <2>1, Zenon DEF vars
  <2>2. CASE call' = Idle
    BY <2>2 DEF Idle, StartTimeIsNotFooled
  <2>3. CASE call' \in Inputs /\ IsAnswer(call', result')
    BY <1>3, <1>4, <2>3, Zenon
  <2> QED BY <1>5, <2>1, <2>2, <2>3, CallsAreAnswered
<1> QED BY <1>1, <1>5, PTL DEF Spec

-----------------------------------------------------------------------------
(* p puts the first n texts of a list in order.                            *)
IsOrder(p, strv, n) ==
  /\ p \in [1..n -> 1..n] /\ IsInjective(p)
  /\ \A i, j \in 1..n : i < j => ~Less(strv[p[j]], strv[p[i]])

(* Every list can be put in order: a text more has a place among others.   *)
LEMMA OrderExists ==
  ASSUME NEW strv \in Seq(Text), NEW n \in 0..Len(strv)
  PROVE  \E p : IsOrder(p, strv, n)
<1> DEFINE G == {m \in 0..n : \E p : IsOrder(p, strv, m)}
<1>0. n \in Nat /\ Len(strv) \in Nat /\ n <= Len(strv) /\ \A i \in 1..Len(strv) : strv[i] \in Text
  BY ElementOfSeq
<1>1. 0 \in G
  <2> DEFINE p == [i \in 1..0 |-> i]
  <2>1. IsOrder(p, strv, 0)
    BY DEF IsOrder, IsInjective
  <2> HIDE DEF p
  <2> QED BY <1>0, <2>1
<1>2. ASSUME NEW m \in 0..(n - 1), m \in G PROVE m + 1 \in G
  <2>1. PICK p : IsOrder(p, strv, m)
    BY <1>2
  <2>2. /\ m \in Nat /\ m + 1 \in 0..n /\ p \in [1..m -> 1..m] /\ IsInjective(p)
        /\ \A i, j \in 1..m : i < j => ~Less(strv[p[j]], strv[p[i]])
    BY <1>0, <2>1 DEF IsOrder
  <2> DEFINE x == strv[m + 1]
             T == {i \in 1..(m + 1) : i = m + 1 \/ Less(x, strv[p[i]])}
  <2>3. m + 1 \in T /\ T \in SUBSET Nat
    BY <2>2
  <2>4. PICK k \in T : \A i \in T : k <= i
    <3> HIDE DEF T
    <3> QED BY <2>3, Smallest
  <2>5. /\ k \in 1..(m + 1)
        /\ \A i \in 1..(k - 1) : i \in 1..m /\ ~Less(x, strv[p[i]])
        /\ k = m + 1 \/ (k \in 1..m /\ Less(x, strv[p[k]]))
    <3>1. k \in 1..(m + 1) /\ (k = m + 1 \/ Less(x, strv[p[k]]))
      BY <2>4
    <3>2. ASSUME NEW i \in 1..(k - 1) PROVE i \in 1..m /\ ~Less(x, strv[p[i]])
      <4>1. i \in 1..m /\ i \in 1..(m + 1) /\ ~(k <= i)
        BY <2>2, <3>1
      <4>2. i \notin T
        BY <2>4, <4>1
      <4> QED BY <4>1, <4>2
    <3> QED BY <2>2, <3>1, <3>2
  <2>6. x \in Text /\ \A i \in 1..m : p[i] \in 1..m /\ strv[p[i]] \in Text
    <3>1. m + 1 \in 1..Len(strv) /\ \A i \in 1..m : p[i] \in 1..m /\ p[i] \in 1..Len(strv)
      BY <1>0, <2>2
    <3> QED BY <1>0, <3>1
  <2> HIDE DEF T, x
  <2> DEFINE q == [i \in 1..(m + 1) |-> IF i < k THEN p[i] ELSE IF i = k THEN m + 1 ELSE p[i - 1]]
  <2>7. ASSUME NEW i \in 1..(m + 1)
        PROVE  /\ i < k => i \in 1..m /\ i \in 1..(k - 1) /\ q[i] = p[i] /\ strv[q[i]] = strv[p[i]]
               /\ i = k => q[i] = m + 1 /\ strv[q[i]] = x
               /\ i > k => i - 1 \in 1..m /\ i - 1 >= k /\ q[i] = p[i - 1] /\ strv[q[i]] = strv[p[i - 1]]
    <3>1. /\ q[i] = IF i < k THEN p[i] ELSE IF i = k THEN m + 1 ELSE p[i - 1]
          /\ k \in 1..(m + 1) /\ i \in Nat /\ m \in Nat
      BY <2>2, <2>5
    <3> HIDE DEF q
    <3>2. i < k => i \in 1..m /\ i \in 1..(k - 1) /\ q[i] = p[i]
      BY <3>1
    <3>3. i = k => q[i] = m + 1
      BY <3>1
    <3>4. i > k => i - 1 \in 1..m /\ i - 1 >= k /\ q[i] = p[i - 1]
      BY <3>1
    <3> QED BY <3>2, <3>3, <3>4 DEF x
  <2>8. q \in [1..(m + 1) -> 1..(m + 1)]
    <3>1. ASSUME NEW i \in 1..(m + 1) PROVE q[i] \in 1..(m + 1)
      <4>1. CASE i < k
        <5>1. q[i] \in 1..m
          BY <2>6, <2>7, <4>1
        <5> QED BY <2>2, <5>1
      <4>2. CASE i = k
        BY <2>2, <2>7, <4>2
      <4>3. CASE i > k
        <5>1. q[i] \in 1..m
          BY <2>6, <2>7, <4>3
        <5> QED BY <2>2, <5>1
      <4> QED BY <2>2, <2>5, <4>1, <4>2, <4>3
    <3>2. q = [i \in 1..(m + 1) |-> q[i]]
      OBVIOUS
    <3> HIDE DEF q
    <3> QED BY <3>1, <3>2
  <2>9. DOMAIN q = 1..(m + 1)
    OBVIOUS
  <2> HIDE DEF q
  <2>10. ASSUME NEW i \in 1..(m + 1), NEW j \in 1..(m + 1), i < j
         PROVE  q[i] # q[j] /\ ~Less(strv[q[j]], strv[q[i]])
    <3>0. i \in Nat /\ j \in Nat /\ k \in Nat
      BY <2>2, <2>5
    <3>1. CASE j < k
      <4>1. i < k /\ i # j
        BY <2>10, <3>0, <3>1
      <4>2. p[i] # p[j]
        BY <2>2, <2>7, <3>1, <4>1 DEF IsInjective
      <4> QED BY <2>2, <2>7, <2>10, <3>1, <4>1, <4>2
    <3>2. CASE j = k
      <4>1. i < k
        BY <2>10, <3>2
      <4>2. q[i] \in 1..m /\ q[j] = m + 1 /\ ~Less(x, strv[p[i]]) /\ strv[q[i]] = strv[p[i]] /\ strv[q[j]] = x
        BY <2>5, <2>6, <2>7, <3>2, <4>1
      <4> QED BY <2>2, <4>2
    <3>3. CASE i < k /\ j > k
      <4>1. i \in 1..m /\ j - 1 \in 1..m /\ i < j - 1
        BY <2>2, <2>7, <3>0, <3>3
      <4>2. p[i] # p[j - 1] /\ ~Less(strv[p[j - 1]], strv[p[i]])
        BY <2>2, <4>1 DEF IsInjective
      <4> QED BY <2>7, <3>3, <4>2
    <3>4. CASE i = k
      <4>1. j > k /\ j - 1 \in 1..m /\ j - 1 >= k /\ k \in 1..m
        BY <2>2, <2>7, <2>10, <3>0, <3>4
      <4>2. Less(x, strv[p[k]])
        BY <2>2, <2>5, <4>1
      <4>3. q[j] \in 1..m /\ q[i] = m + 1 /\ strv[q[j]] = strv[p[j - 1]] /\ strv[q[i]] = x
        BY <2>6, <2>7, <3>4, <4>1
      <4>4. ~Less(strv[p[j - 1]], x)
        <5> SUFFICES ASSUME Less(strv[p[j - 1]], x) PROVE FALSE
          OBVIOUS
        <5>1. Less(strv[p[j - 1]], strv[p[k]])
          BY <2>6, <4>1, <4>2, LessGoesOn
        <5>2. CASE j - 1 = k
          <6>1. Less(strv[p[k]], x)
            BY <5>2
          <6> QED BY <2>6, <4>1, <4>2, <6>1, LessOneWay
        <5>3. CASE j - 1 > k
          BY <2>2, <4>1, <5>1, <5>3
        <5> QED BY <3>0, <4>1, <5>2, <5>3
      <4> QED BY <2>2, <4>3, <4>4
    <3>5. CASE i > k
      <4>1. j > k /\ i - 1 \in 1..m /\ j - 1 \in 1..m /\ i - 1 < j - 1
        BY <2>7, <2>10, <3>0, <3>5
      <4>2. p[i - 1] # p[j - 1] /\ ~Less(strv[p[j - 1]], strv[p[i - 1]])
        BY <2>2, <4>1 DEF IsInjective
      <4> QED BY <2>7, <3>5, <4>1, <4>2
    <3> QED BY <3>0, <3>1, <3>2, <3>3, <3>4, <3>5
  <2>11. IsInjective(q)
    <3>1. ASSUME NEW i \in 1..(m + 1), NEW j \in 1..(m + 1), q[i] = q[j] PROVE i = j
      <4>1. i \in Nat /\ j \in Nat
        OBVIOUS
      <4>2. ~(i < j) /\ ~(j < i)
        BY <2>10, <3>1
      <4> QED BY <4>1, <4>2
    <3> QED BY <2>9, <3>1 DEF IsInjective
  <2>12. IsOrder(q, strv, m + 1)
    BY <2>8, <2>10, <2>11 DEF IsOrder
  <2> QED BY <2>2, <2>12
<1>3. \A m \in 0..n : m \in G
  <2> HIDE DEF G
  <2> QED BY <1>0, <1>1, <1>2, Counting
<1> QED BY <1>0, <1>3

-----------------------------------------------------------------------------
(* How often x is in s.                                                    *)
Count(s, x) == Cardinality({i \in DOMAIN s : s[i] = x})

(* A list in another order has every text as often.                        *)
LEMMA CountsAgree ==
  ASSUME NEW N \in Nat, NEW q \in [1..N -> 1..N], IsInjective(q), NEW r, NEW s,
         DOMAIN r = 1..N, DOMAIN s = 1..N, \A i \in 1..N : r[i] = s[q[i]],
         NEW x
  PROVE  Count(r, x) = Count(s, x)
<1> DEFINE R == {i \in DOMAIN r : r[i] = x}
           S == {i \in DOMAIN s : s[i] = x}
           f == [i \in R |-> q[i]]
<1>1. IsFiniteSet(1..N)
  BY FS_Interval
<1>2. q \in Injection(1..N, 1..N)
  BY DEF Injection
<1>3. q \in Surjection(1..N, 1..N)
  BY <1>1, <1>2, FS_Injection
<1>4. \A j \in 1..N : \E i \in 1..N : q[i] = j
  BY <1>3 DEF Surjection
<1>5. f \in [R -> S]
  OBVIOUS
<1>6. \A a, b \in R : f[a] = f[b] => a = b
  BY DEF IsInjective
<1>7. \A j \in S : \E i \in R : f[i] = j
  <2> TAKE j \in S
  <2>1. PICK i \in 1..N : q[i] = j
    BY <1>4
  <2>2. i \in R
    BY <2>1
  <2> QED BY <2>1, <2>2
<1>8. IsFiniteSet(R)
  <2>1. R \in SUBSET (1..N)
    OBVIOUS
  <2> QED BY <1>1, <2>1, FS_Subset
<1>9. DOMAIN f = R
  OBVIOUS
<1> HIDE DEF R, S, f
<1>10. ExistsBijection(R, S)
  <2>1. f \in Injection(R, S)
    BY <1>5, <1>6, <1>9 DEF Injection, IsInjective
  <2>2. f \in Surjection(R, S)
    BY <1>5, <1>7 DEF Surjection
  <2> QED BY <2>1, <2>2 DEF ExistsBijection, Bijection
<1>11. Cardinality(S) = Cardinality(R)
  BY <1>8, <1>10, FS_Bijection
<1> QED BY <1>11 DEF Count, R, S

(* The same texts, if every text is there as often.                        *)
LEMMA AllAsOften ==
  ASSUME NEW s, NEW t, \A x : Count(s, x) = Count(t, x)
  PROVE  SameTexts(s, t)
BY DEF SameTexts, Count

(* A list, with its first n texts in the order p gives.                    *)
InOrder(strv, n, p) == [i \in DOMAIN strv |-> IF i <= n THEN strv[p[i]] ELSE strv[i]]

(* What is put in order is in order, and nothing is lost or new.           *)
LEMMA InOrderIsWhole ==
  ASSUME NEW strv \in Seq(Text), NEW n \in 0..Len(strv), NEW order, IsOrder(order, strv, n)
  PROVE  /\ InOrder(strv, n, order) \in Seq(Text) /\ Len(InOrder(strv, n, order)) = Len(strv)
         /\ \A i, j \in 1..n : i < j => Strcmp(InOrder(strv, n, order)[i], InOrder(strv, n, order)[j]) <= 0
         /\ \A x : Count(InOrder(strv, n, order), x) = Count(strv, x)
         /\ \A i \in 1..Len(strv) : i > n => InOrder(strv, n, order)[i] = strv[i]
<1> DEFINE N == Len(strv)
           r == InOrder(strv, n, order)
           q == [i \in 1..N |-> IF i <= n THEN order[i] ELSE i]
<1>1. N \in Nat /\ n \in 0..N /\ n \in Nat /\ n <= N /\ DOMAIN strv = 1..N /\ \A i \in 1..N : strv[i] \in Text
  BY ElementOfSeq
<1>2. order \in [1..n -> 1..n] /\ IsInjective(order)
      /\ \A i, j \in 1..n : i < j => ~Less(strv[order[j]], strv[order[i]])
  BY DEF IsOrder
<1>3. r = [i \in 1..N |-> IF i <= n THEN strv[order[i]] ELSE strv[i]]
  BY <1>1 DEF InOrder
<1> HIDE DEF r, N
<1>4. \A i \in 1..n : order[i] \in 1..n /\ order[i] \in 1..N /\ i \in 1..N /\ i <= n
  BY <1>1, <1>2
<1>5. q \in [1..N -> 1..N] /\ DOMAIN q = 1..N
  <2>1. \A i \in 1..N : i <= n => i \in 1..n
    BY <1>1
  <2>2. \A i \in 1..N : (IF i <= n THEN order[i] ELSE i) \in 1..N
    BY <1>4, <2>1
  <2> QED BY <2>2
<1>6. \A i \in 1..N : q[i] = IF i <= n THEN order[i] ELSE i
  OBVIOUS
<1> HIDE DEF q
<1>7. IsInjective(q)
  <2>1. ASSUME NEW a \in 1..N, NEW b \in 1..N, q[a] = q[b] PROVE a = b
    <3>1. (a <= n => a \in 1..n) /\ (b <= n => b \in 1..n)
      BY <1>1
    <3>2. CASE a <= n /\ b <= n
      <4>1. order[a] = order[b] /\ a \in 1..n /\ b \in 1..n
        BY <1>6, <2>1, <3>1, <3>2
      <4> QED BY <1>2, <4>1 DEF IsInjective
    <3>3. CASE a <= n /\ ~(b <= n)
      <4>1. order[a] = b /\ order[a] \in 1..n
        BY <1>4, <1>6, <2>1, <3>1, <3>3
      <4> QED BY <1>1, <3>3, <4>1
    <3>4. CASE ~(a <= n) /\ b <= n
      <4>1. order[b] = a /\ order[b] \in 1..n
        BY <1>4, <1>6, <2>1, <3>1, <3>4
      <4> QED BY <1>1, <3>4, <4>1
    <3>5. CASE ~(a <= n) /\ ~(b <= n)
      BY <1>6, <2>1, <3>5
    <3> QED BY <3>2, <3>3, <3>4, <3>5
  <2> QED BY <1>5, <2>1 DEF IsInjective
<1>8. DOMAIN r = 1..N /\ \A i \in 1..N : r[i] = strv[q[i]]
  BY <1>3, <1>6
<1>9. \A x : Count(r, x) = Count(strv, x)
  BY <1>1, <1>5, <1>7, <1>8, CountsAgree
<1>10. r \in Seq(Text) /\ Len(r) = N
  <2>1. \A i \in 1..N : q[i] \in 1..N
    BY <1>5
  <2>2. \A i \in 1..N : r[i] \in Text
    BY <1>1, <1>8, <2>1
  <2>3. r = [i \in 1..N |-> r[i]]
    BY <1>3
  <2>4. r \in [1..N -> Text]
    BY <2>2, <2>3
  <2> QED BY <1>1, <2>4
<1>11. \A i \in 1..n : r[i] = strv[order[i]]
  BY <1>4, <1>6, <1>8
<1>12. \A i, j \in 1..n : i < j => Strcmp(r[i], r[j]) <= 0
  <2> TAKE i, j \in 1..n
  <2> HAVE i < j
  <2>1. r[i] \in Text /\ r[j] \in Text /\ ~Less(r[j], r[i])
    BY <1>1, <1>2, <1>4, <1>11
  <2>2. r[i] = r[j] \/ Less(r[i], r[j])
    BY <2>1, LessOrMore
  <2> QED BY <2>2 DEF Strcmp
<1>13. \A i \in 1..N : i > n => r[i] = strv[i]
  BY <1>1, <1>3
<1> QED BY <1>9, <1>10, <1>12, <1>13 DEF r, N

(* Sorting puts the texts it is asked for in order.                        *)
Sorted(strv, len) == IF len < 0 THEN Len(strv) ELSE len
LEMMA SortIsOrder ==
  ASSUME NEW strv \in Seq(Text), NEW len \in Int, len <= Len(strv)
  PROVE  /\ Sorted(strv, len) \in 0..Len(strv)
         /\ \E p : IsOrder(p, strv, Sorted(strv, len)) /\ StrvSort(strv, len) = InOrder(strv, Sorted(strv, len), p)
<1> DEFINE n == Sorted(strv, len)
           order == CHOOSE p \in [1..n -> 1..n] :
                      IsInjective(p) /\ \A i, j \in 1..n : i < j => ~Less(strv[p[j]], strv[p[i]])
<1>1. n \in 0..Len(strv)
  BY DEF Sorted
<1>2. StrvSort(strv, len) = InOrder(strv, n, order)
  BY Zenon DEF StrvSort, InOrder, Sorted
<1> HIDE DEF n
<1>3. \E p \in [1..n -> 1..n] :
        IsInjective(p) /\ \A i, j \in 1..n : i < j => ~Less(strv[p[j]], strv[p[i]])
  BY <1>1, OrderExists DEF IsOrder
<1>4. IsOrder(order, strv, n)
  BY <1>3 DEF IsOrder
<1> HIDE DEF order
<1> QED BY <1>1, <1>2, <1>4 DEF n

(* What the sorted list is.                                                *)
SortAnswer(strv, n, r) ==
  /\ r \in Seq(Text) /\ Len(r) = Len(strv)
  /\ \A i, j \in 1..n : i < j => Strcmp(r[i], r[j]) <= 0
  /\ \A x : Count(r, x) = Count(strv, x)
  /\ \A i \in 1..Len(strv) : i > n => r[i] = strv[i]

(* What is sorted is in order, and nothing is lost or new, for every list. *)
THEOREM SortIsWhole ==
  ASSUME NEW strv \in Seq(Text), NEW len \in Int, len <= Len(strv)
  PROVE  Sorted(strv, len) \in 0..Len(strv) /\ SortAnswer(strv, Sorted(strv, len), StrvSort(strv, len))
<1> DEFINE n == Sorted(strv, len)
<1>1. n \in 0..Len(strv)
  BY SortIsOrder
<1>2. PICK p : IsOrder(p, strv, n) /\ StrvSort(strv, len) = InOrder(strv, n, p)
  BY SortIsOrder
<1> HIDE DEF n
<1>3. SortAnswer(strv, n, InOrder(strv, n, p))
  <2> HIDE DEF InOrder
  <2> QED BY <1>1, <1>2, InOrderIsWhole, Zenon DEF SortAnswer
<1> QED BY <1>1, <1>2, <1>3 DEF n

(* The order of a part and what follows it, as the property says it.       *)
LEMMA SortedAsAsked ==
  ASSUME NEW strv \in Seq(Text), NEW n \in 0..Len(strv), NEW r, SortAnswer(strv, n, r)
  PROVE  /\ Ascending(SubSeq(r, 1, n)) /\ SameTexts(r, strv)
         /\ SubSeq(r, n + 1, Len(r)) = SubSeq(strv, n + 1, Len(strv))
<1>1. r \in Seq(Text) /\ Len(r) = Len(strv) /\ Len(strv) \in Nat /\ n \in Nat /\ n \in 0..Len(r)
  BY DEF SortAnswer
<1>2. SubSeq(r, 1, n) \in Seq(Text) /\ Len(SubSeq(r, 1, n)) = n /\ \A i \in 1..n : SubSeq(r, 1, n)[i] = r[i]
  <2> DEFINE one == 1
  <2>1. one \in Nat \ {0}
    OBVIOUS
  <2>2. n - one + 1 = n /\ (one <= n \/ n = 0) /\ \A i \in 1..n : one + i - 1 = i
    BY <1>1
  <2> HIDE DEF one
  <2>3. /\ SubSeq(r, one, n) \in Seq(Text)
        /\ Len(SubSeq(r, one, n)) = IF one <= n THEN n - one + 1 ELSE 0
        /\ \A i \in 1..(n - one + 1) : SubSeq(r, one, n)[i] = r[one + i - 1]
    BY <1>1, <2>1, Parts, ZenonT(30)
  <2>4. Len(SubSeq(r, one, n)) = n /\ \A i \in 1..n : SubSeq(r, one, n)[i] = r[i]
    BY <2>2, <2>3
  <2> QED BY <2>3, <2>4 DEF one
<1>3. Ascending(SubSeq(r, 1, n))
  <2>1. DOMAIN SubSeq(r, 1, n) = 1..n
    BY <1>2
  <2>2. ASSUME NEW i \in 1..n, NEW j \in 1..n, i < j
        PROVE  Strcmp(SubSeq(r, 1, n)[i], SubSeq(r, 1, n)[j]) <= 0
    <3>1. Strcmp(r[i], r[j]) <= 0
      BY <2>2 DEF SortAnswer
    <3> QED BY <1>2, <3>1
  <2> HIDE DEF Strcmp
  <2> QED BY <2>1, <2>2 DEF Ascending
<1>4. SameTexts(r, strv)
  BY AllAsOften DEF SortAnswer
<1>5. SubSeq(r, n + 1, Len(r)) = SubSeq(strv, n + 1, Len(strv))
  <2> DEFINE p == n + 1
             N == Len(strv)
  <2>1. p \in Nat \ {0} /\ N \in 0..Len(strv) /\ N \in 0..Len(r) /\ N \in Nat
    BY <1>1
  <2>2. \A i \in 1..(N - p + 1) : p + i - 1 \in 1..N /\ p + i - 1 > n
    BY <1>1
  <2> HIDE DEF p
  <2>3. \A i \in 1..(N - p + 1) : r[p + i - 1] = strv[p + i - 1]
    BY <2>2 DEF SortAnswer
  <2> HIDE DEF N
  <2>4. /\ SubSeq(r, p, N) \in Seq(Text) /\ Len(SubSeq(r, p, N)) = IF p <= N THEN N - p + 1 ELSE 0
        /\ \A i \in 1..(N - p + 1) : SubSeq(r, p, N)[i] = r[p + i - 1]
    BY <1>1, <2>1, Parts, ZenonT(30)
  <2>5. /\ SubSeq(strv, p, N) \in Seq(Text) /\ Len(SubSeq(strv, p, N)) = IF p <= N THEN N - p + 1 ELSE 0
        /\ \A i \in 1..(N - p + 1) : SubSeq(strv, p, N)[i] = strv[p + i - 1]
    BY <1>1, <2>1, Parts, ZenonT(30)
  <2>6. Len(SubSeq(r, p, N)) = Len(SubSeq(strv, p, N))
    BY <2>4, <2>5
  <2>7. \A i \in 1..Len(SubSeq(r, p, N)) : i \in 1..(N - p + 1)
    BY <2>1, <2>4
  <2>8. \A i \in 1..Len(SubSeq(r, p, N)) : SubSeq(r, p, N)[i] = SubSeq(strv, p, N)[i]
    BY <2>3, <2>4, <2>5, <2>7
  <2>9. SubSeq(r, p, N) = SubSeq(strv, p, N)
    BY <2>4, <2>5, <2>6, <2>8, SeqEqual
  <2> QED BY <1>1, <2>9 DEF p, N
<1> QED BY <1>3, <1>4, <1>5

-----------------------------------------------------------------------------
(* The elements of D one after the other, each once.                       *)
IsListing(e, D) == e \in [1..Cardinality(D) -> D] /\ IsInjective(e)

(* A listing has every element once.                                       *)
LEMMA ListingCounts ==
  ASSUME NEW D, IsFiniteSet(D), NEW e, IsListing(e, D), NEW x
  PROVE  Count(e, x) = IF x \in D THEN 1 ELSE 0
<1> DEFINE n == Cardinality(D)
           I == {i \in DOMAIN e : e[i] = x}
<1>1. n \in Nat
  BY FS_CardinalityType
<1>2. e \in [1..n -> D] /\ IsInjective(e)
  BY DEF IsListing
<1>3. Cardinality(1..n) = n
  BY <1>1, FS_Interval
<1>4. e \in Injection(1..n, D)
  BY <1>2 DEF Injection
<1>5. e \in Surjection(1..n, D)
  BY <1>3, <1>4, FS_Injection
<1>6. CASE x \in D
  <2>1. PICK i \in 1..n : e[i] = x
    BY <1>5, <1>6 DEF Surjection
  <2>2. I = {i}
    BY <1>2, <2>1 DEF IsInjective
  <2>3. Cardinality({i}) = 1
    BY FS_Singleton
  <2> QED BY <1>6, <2>2, <2>3 DEF Count
<1>7. CASE x \notin D
  <2>1. I = {}
    BY <1>2, <1>7
  <2>2. Cardinality(I) = 0
    BY <2>1, FS_EmptySet
  <2> QED BY <1>7, <2>2 DEF Count
<1> QED BY <1>6, <1>7

(* A finite set can be listed, and so the library lists it.                *)
LEMMA SetIsListed ==
  ASSUME NEW D, IsFiniteSet(D)
  PROVE  IsListing(SetToSeq(D), D) /\ \A e \in SetToSeqs(D) : IsListing(e, D)
<1> DEFINE n == Cardinality(D)
<1>1. \E e : e \in Bijection(1..n, D)
  BY FS_CardinalityType DEF ExistsBijection
<1>2. \E e \in [1..n -> D] : IsInjective(e)
  BY <1>1 DEF Bijection, Injection
<1>3. SetToSeq(D) \in [1..n -> D] /\ IsInjective(SetToSeq(D))
  BY <1>2 DEF SetToSeq
<1>4. \A e \in SetToSeqs(D) : e \in [1..n -> D] /\ IsInjective(e)
  BY DEF SetToSeqs, IsInjective
<1> QED BY <1>3, <1>4 DEF IsListing

(* What is said of the arrays of a dictionary's names and values.          *)
DictAnswer(hash, compared, r) ==
  LET names == [i \in DOMAIN r.named |-> r.named[i].name] IN
  /\ Ascending(names) /\ SameTexts(names, SetToSeq(DOMAIN hash))
  /\ \A i \in DOMAIN names : r.named[i].value = hash[names[i]]
  /\ \A k \in r.keys : SameTexts(k, names) /\ (compared => Ascending(k))

(* A dictionary's values are listed by name and its keys are listed, all   *)
(* of them and each once, for every dictionary.                            *)
THEOREM DictionaryIsListed ==
  ASSUME NEW hash, IsFiniteSet(DOMAIN hash), DOMAIN hash \subseteq Text, DOMAIN hash # {},
         NEW compared \in BOOLEAN
  PROVE  DictAnswer(hash, compared, [named |-> NamedValuesFromStrDict(hash), keys |-> StrdictGetKeys(hash, compared)])
<1> DEFINE D == DOMAIN hash
           e == SetToSeq(D)
           ns == StrvSort(e, -1)
           named == NamedValuesFromStrDict(hash)
           keys == StrdictGetKeys(hash, compared)
<1>1. IsListing(e, D) /\ \A k \in SetToSeqs(D) : IsListing(k, D)
  BY SetIsListed
<1>2. named = [i \in DOMAIN ns |-> [name |-> ns[i], value |-> hash[ns[i]]]]
  BY DEF NamedValuesFromStrDict
<1>3. keys = IF compared THEN {ns} ELSE SetToSeqs(D)
  BY DEF StrdictGetKeys, HashKeysToArray
<1> HIDE DEF e, ns
<1>4. e \in Seq(Text) /\ Len(e) \in Nat /\ Sorted(e, -1) = Len(e)
  <2>1. Cardinality(D) \in Nat
    BY FS_CardinalityType
  <2>2. e \in Seq(Text)
    BY <1>1, <2>1 DEF IsListing
  <2> QED BY <2>2 DEF Sorted
<1>5. SortAnswer(e, Len(e), ns)
  <2> DEFINE len == -1
  <2>1. len \in Int /\ len <= Len(e) /\ Sorted(e, len) = Len(e)
    BY <1>4
  <2>2. ns = StrvSort(e, len)
    BY DEF ns
  <2> HIDE DEF len
  <2> QED BY <1>4, <2>1, <2>2, SortIsWhole
<1>6. ns \in Seq(Text) /\ Len(ns) = Len(e) /\ DOMAIN ns = 1..Len(e)
  BY <1>4, <1>5 DEF SortAnswer
<1>7. Ascending(ns)
  <2> HIDE DEF Strcmp
  <2> QED BY <1>5, <1>6 DEF Ascending, SortAnswer
<1>8. \A x : Count(ns, x) = Count(e, x)
  BY <1>5 DEF SortAnswer
<1>9. \A k \in keys : SameTexts(k, ns) /\ (compared => Ascending(k))
  <2> TAKE k \in keys
  <2>1. CASE compared
    <3>1. k = ns
      BY <1>3, <2>1
    <3>2. SameTexts(ns, ns)
      BY AllAsOften
    <3> QED BY <1>7, <3>1, <3>2
  <2>2. CASE ~compared
    <3>1. IsListing(k, D)
      BY <1>1, <1>3, <2>2
    <3>2. \A x : Count(k, x) = IF x \in D THEN 1 ELSE 0
      BY <3>1, ListingCounts
    <3>3. \A x : Count(e, x) = IF x \in D THEN 1 ELSE 0
      BY <1>1, ListingCounts
    <3>4. \A x : Count(k, x) = Count(ns, x)
      BY <1>8, <3>2, <3>3
    <3> QED BY <2>2, <3>4, AllAsOften
  <2> QED BY <2>1, <2>2
<1>10. SameTexts(ns, e)
  BY <1>8, AllAsOften
<1> HIDE DEF named, keys
<1> DEFINE names == [i \in DOMAIN named |-> named[i].name]
<1>11. DOMAIN named = DOMAIN ns /\ \A i \in DOMAIN ns : named[i].name = ns[i] /\ named[i].value = hash[ns[i]]
  BY <1>2
<1>12. names = ns
  <2>1. ns = [i \in DOMAIN ns |-> ns[i]]
    BY <1>6
  <2> QED BY <1>11, <2>1
<1> DEFINE r == [named |-> named, keys |-> keys]
<1>13. r.named = named /\ r.keys = keys
  OBVIOUS
<1>14. \A i \in DOMAIN ns : named[i].value = hash[ns[i]]
  BY <1>11
<1>15. [i \in DOMAIN r.named |-> r.named[i].name] = ns
  BY <1>12, <1>13
<1> HIDE DEF r
<1>16. DictAnswer(hash, compared, r)
  BY <1>7, <1>9, <1>10, <1>13, <1>14, <1>15, Zenon DEF DictAnswer, e
<1> QED BY <1>16 DEF r, named, keys

-----------------------------------------------------------------------------
(* A text is found in a list that has it.                                  *)
LEMMA FoundIfThere ==
  ASSUME NEW list \in Seq(Text), NEW needle
  PROVE  StrvFindFirst(list, Len(list), needle) >= 0 <=> \E p \in 1..Len(list) : list[p] = needle
<1> DEFINE found == {i \in 1..Len(list) : list[i] = needle}
<1>1. Len(list) \in Nat /\ Len(list) >= 0
  OBVIOUS
<1>2. StrvFindFirst(list, Len(list), needle) = IF found = {} THEN -1 ELSE Min(found) - 1
  BY <1>1 DEF StrvFindFirst
<1>3. ASSUME found # {} PROVE Min(found) \in Nat \ {0}
  <2>1. found \in SUBSET Nat
    BY <1>1
  <2>2. found \subseteq Nat \ {0}
    BY <1>1
  <2> HIDE DEF found
  <2>3. \E n \in found : \A m \in found : n <= m
    BY <1>3, <2>1, Smallest
  <2>4. Min(found) \in found
    BY <2>3 DEF Min
  <2> QED BY <2>2, <2>4
<1>4. found # {} <=> \E p \in 1..Len(list) : list[p] = needle
  OBVIOUS
<1> HIDE DEF found
<1>5. CASE found = {}
  BY <1>2, <1>4, <1>5
<1>6. CASE found # {}
  BY <1>2, <1>3, <1>4, <1>6
<1> QED BY <1>5, <1>6

(* The texts of a list, stripped or not, and the places of those to keep.  *)
TextsOf(strv, strip) == [i \in DOMAIN strv |-> IF strip THEN Strip(strv[i]) ELSE strv[i]]
ToKeep(T, empty, repeated) ==
  {i \in DOMAIN T : (empty => T[i] # <<>>) /\ (repeated => \A j \in 1..i - 1 : T[j] # T[i])}

(* One step of the loop that keeps them.                                   *)
KeepStep(ctx, kept, s) ==
  IF \/ ctx.empty /\ s = <<>>
     \/ ctx.repeated /\ StrvFindFirst(kept, Len(kept), s) >= 0
  THEN kept ELSE Append(kept, s)
Keeps == INSTANCE FoldFacts WITH Op <- KeepStep

(* What is kept of the first m texts.                                      *)
KeptUpTo(a, T, K, m) ==
  /\ a \in Seq(Text) /\ Len(a) = Rank(K, m)
  /\ \A i \in K : i <= m => a[Rank(K, i)] = T[i]
  /\ \A p \in 1..Len(a) : \E i \in K : i <= m /\ Rank(K, i) = p

(* Whether one more text is kept.                                          *)
LEMMA KeptIfNew ==
  ASSUME NEW T \in Seq(Text), NEW empty \in BOOLEAN, NEW repeated \in BOOLEAN,
         NEW m \in 0..(Len(T) - 1), NEW a, KeptUpTo(a, T, ToKeep(T, empty, repeated), m)
  PROVE  m + 1 \notin ToKeep(T, empty, repeated) <=>
           \/ empty /\ T[m + 1] = <<>>
           \/ repeated /\ StrvFindFirst(a, Len(a), T[m + 1]) >= 0
<1> DEFINE K == ToKeep(T, empty, repeated)
           s == T[m + 1]
           blank == s = <<>>
           found == StrvFindFirst(a, Len(a), s) >= 0
<1>1. /\ Len(T) \in Nat /\ m \in Nat /\ m + 1 \in 1..Len(T) /\ DOMAIN T = 1..Len(T)
      /\ a \in Seq(Text) /\ (m + 1) - 1 = m
  BY DEF KeptUpTo
<1>2. m + 1 \in K <=> (empty => ~blank) /\ (repeated => \A j \in 1..m : T[j] # s)
  BY <1>1 DEF ToKeep
<1>3. K \in SUBSET (Nat \ {0})
  BY <1>1 DEF ToKeep
<1>4. found <=> \E p \in 1..Len(a) : a[p] = s
  BY <1>1, FoundIfThere
<1>5. ASSUME NEW p \in 1..Len(a), a[p] = s PROVE \E j \in 1..m : T[j] = s
  <2>1. PICK i \in K : i <= m /\ Rank(K, i) = p
    BY DEF KeptUpTo
  <2>2. i \in 1..m /\ T[i] = a[p]
    BY <1>1, <1>3, <2>1 DEF KeptUpTo
  <2> QED BY <1>5, <2>2
<1>6. ASSUME repeated, empty => ~blank, NEW j \in 1..m, T[j] = s PROVE \E p \in 1..Len(a) : a[p] = s
  <2> DEFINE J == {i \in 1..m : T[i] = s}
  <2>1. J \in SUBSET Nat /\ j \in J
    BY <1>1, <1>6
  <2> HIDE DEF J
  <2>2. PICK i \in J : \A l \in J : i <= l
    BY <2>1, Smallest
  <2> USE DEF J
  <2>3. i \in 1..m /\ T[i] = s
    BY <2>2
  <2>4. \A l \in 1..i - 1 : T[l] # s
    <3> SUFFICES ASSUME NEW l \in 1..i - 1, T[l] = s PROVE FALSE
      OBVIOUS
    <3>1. l \in 1..m /\ ~(i <= l)
      BY <1>1, <2>3
    <3> QED BY <2>2, <3>1
  <2>5. i \in K
    BY <1>1, <1>6, <2>3, <2>4 DEF ToKeep
  <2> HIDE DEF K
  <2>6. Rank(K, 0) = 0 /\ Rank(K, 0) < Rank(K, i) /\ Rank(K, i) <= Rank(K, m) /\ Rank(K, i) \in Nat
    <3>1. i \in Nat /\ i > 0 /\ i <= m /\ 0 \in Nat
      BY <2>3
    <3> QED BY <1>1, <1>3, <2>5, <3>1, RanksMove
  <2>7. Rank(K, i) \in 1..Rank(K, m)
    <3>1. Rank(K, m) \in Nat
      BY <1>1, <1>3, RanksMove
    <3> QED BY <2>6, <3>1
  <2>8. a[Rank(K, i)] = T[i] /\ Len(a) = Rank(K, m)
    BY <2>3, <2>5 DEF KeptUpTo, K
  <2> QED BY <2>3, <2>7, <2>8
<1> HIDE DEF K, s, blank, found
<1>7. ASSUME m + 1 \in K PROVE ~(empty /\ blank) /\ ~(repeated /\ found)
  BY <1>2, <1>4, <1>5, <1>7, Zenon
<1>8. ASSUME m + 1 \notin K, ~(empty /\ blank) PROVE repeated /\ found
  <2>1. empty => ~blank
    BY <1>8, Zenon
  <2>2. repeated /\ \E j \in 1..m : T[j] = s
    BY <1>2, <1>8, <2>1, Zenon
  <2> QED BY <1>4, <1>6, <2>1, <2>2, Zenon
<1>9. m + 1 \notin K <=> (empty /\ blank) \/ (repeated /\ found)
  BY <1>7, <1>8, Zenon
<1> QED BY <1>9, Zenon DEF K, s, blank, found

(* One step more.                                                          *)
LEMMA KeepsOneMore ==
  ASSUME NEW T \in Seq(Text), NEW empty \in BOOLEAN, NEW repeated \in BOOLEAN,
         NEW m \in 0..(Len(T) - 1), NEW a, KeptUpTo(a, T, ToKeep(T, empty, repeated), m)
  PROVE  KeptUpTo(KeepStep([empty |-> empty, repeated |-> repeated], a, T[m + 1]),
                  T, ToKeep(T, empty, repeated), m + 1)
<1> DEFINE K == ToKeep(T, empty, repeated)
           s == T[m + 1]
           ctx == [empty |-> empty, repeated |-> repeated]
           new == KeepStep(ctx, a, s)
<1>1. m \in Nat /\ m + 1 \in 1..Len(T) /\ DOMAIN T = 1..Len(T) /\ s \in Text
  <2>1. Len(T) \in Nat /\ DOMAIN T = 1..Len(T)
    OBVIOUS
  <2>2. m + 1 \in 1..Len(T)
    BY <2>1
  <2> QED BY <2>1, <2>2, ElementOfSeq
<1>2. K \in SUBSET (Nat \ {0})
  BY <1>1 DEF ToKeep
<1>3. new = IF m + 1 \notin K THEN a ELSE Append(a, s)
  <2>1. ctx.empty = empty /\ ctx.repeated = repeated
    OBVIOUS
  <2> HIDE DEF ctx
  <2>2. m + 1 \notin K <=> (empty /\ s = <<>>) \/ (repeated /\ StrvFindFirst(a, Len(a), s) >= 0)
    BY KeptIfNew, ZenonT(60)
  <2> QED BY <2>1, <2>2 DEF KeepStep
<1> HIDE DEF new, K, s
<1>4. /\ a \in Seq(Text) /\ Len(a) = Rank(K, m)
      /\ \A i \in K : i <= m => a[Rank(K, i)] = T[i]
      /\ \A p \in 1..Len(a) : \E i \in K : i <= m /\ Rank(K, i) = p
  BY DEF KeptUpTo, K
<1>5. /\ Rank(K, m) \in Nat /\ Rank(K, m + 1) = IF m + 1 \in K THEN Rank(K, m) + 1 ELSE Rank(K, m)
      /\ \A i \in K : i \in Nat /\ i # 0
  BY <1>1, <1>2, RanksMove
<1>6. ASSUME m + 1 \notin K PROVE KeptUpTo(new, T, K, m + 1)
  <2>1. new = a /\ Len(a) = Rank(K, m + 1)
    BY <1>3, <1>4, <1>5, <1>6
  <2>2. \A i \in K : i <= m <=> i <= m + 1
    BY <1>1, <1>5, <1>6
  <2> QED BY <1>4, <2>1, <2>2 DEF KeptUpTo
<1>7. ASSUME m + 1 \in K PROVE KeptUpTo(new, T, K, m + 1)
  <2> DEFINE l == Len(a)
  <2>1. /\ new = Append(a, s) /\ l \in Nat /\ l = Rank(K, m) /\ l + 1 = Rank(K, m + 1)
    BY <1>3, <1>4, <1>5, <1>7
  <2>2. /\ new \in Seq(Text) /\ Len(new) = l + 1 /\ new[l + 1] = s
        /\ \A p \in 1..l : new[p] = a[p]
    BY <1>1, <1>4, <2>1
  <2>3. ASSUME NEW i \in K, i <= m PROVE Rank(K, i) \in 1..l
    <3>1. i \in Nat /\ i > 0 /\ 0 \in Nat
      BY <1>5
    <3>2. Rank(K, 0) = 0 /\ Rank(K, 0) < Rank(K, i) /\ Rank(K, i) <= Rank(K, m) /\ Rank(K, i) \in Nat
      BY <1>1, <1>2, <2>3, <3>1, RanksMove
    <3> QED BY <2>1, <3>2
  <2>4. \A i \in K : i <= m + 1 => i <= m \/ i = m + 1
    BY <1>1, <1>5
  <2> HIDE DEF l
  <2>5. ASSUME NEW i \in K, i <= m + 1 PROVE new[Rank(K, i)] = T[i]
    <3>1. CASE i <= m
      BY <1>4, <2>2, <2>3, <3>1
    <3>2. CASE i = m + 1
      BY <2>1, <2>2, <3>2 DEF s
    <3> QED BY <2>4, <2>5, <3>1, <3>2
  <2>6. ASSUME NEW p \in 1..(l + 1) PROVE \E i \in K : i <= m + 1 /\ Rank(K, i) = p
    <3>1. CASE p = l + 1
      BY <1>1, <1>7, <2>1, <3>1
    <3>2. CASE p # l + 1
      <4>1. p \in 1..Len(a)
        BY <2>1, <3>2 DEF l
      <4>2. PICK i \in K : i <= m /\ Rank(K, i) = p
        BY <1>4, <4>1
      <4>3. i <= m + 1
        BY <1>1, <1>5, <4>2
      <4> QED BY <4>2, <4>3
    <3> QED BY <3>1, <3>2
  <2> QED BY <2>1, <2>2, <2>5, <2>6 DEF KeptUpTo
<1>8. KeptUpTo(new, T, K, m + 1)
  BY <1>6, <1>7
<1> QED BY <1>8 DEF new, K, s

-----------------------------------------------------------------------------
(* A stripped text is a text, and so are those of a stripped list.         *)
LEMMA StrippedTexts ==
  ASSUME NEW strv \in Seq(Text), NEW strip \in BOOLEAN
  PROVE  /\ TextsOf(strv, strip) \in Seq(Text) /\ Len(TextsOf(strv, strip)) = Len(strv)
         /\ TextsOf(strv, strip) = IF strip THEN [i \in DOMAIN strv |-> Strip(strv[i])] ELSE strv
<1> DEFINE T == TextsOf(strv, strip)
<1>1. Len(strv) \in Nat /\ DOMAIN strv = 1..Len(strv) /\ \A i \in 1..Len(strv) : strv[i] \in Text
  BY ElementOfSeq
<1>2. ASSUME NEW s \in Text PROVE Strip(s) \in Text
  <2>1. PICK i \in 0..Len(s), j \in 0..Len(s) : Strip(s) = SubSeq(s, i + 1, j)
    BY StrippedPart
  <2> DEFINE p == i + 1
  <2>2. s \in Seq(1..255) /\ p \in Nat \ {0}
    BY DEF Text
  <2> HIDE DEF p
  <2>3. SubSeq(s, p, j) \in Seq(1..255)
    BY <2>2, Parts
  <2> QED BY <2>1, <2>3 DEF Text, p
<1>3. T = IF strip THEN [i \in DOMAIN strv |-> Strip(strv[i])] ELSE strv
  <2> HIDE DEF Strip
  <2>1. strv = [i \in DOMAIN strv |-> strv[i]]
    BY <1>1
  <2>2. CASE strip
    BY <2>2 DEF TextsOf
  <2>3. CASE ~strip
    BY <2>1, <2>3 DEF TextsOf
  <2> QED BY <2>2, <2>3
<1>4. T \in [1..Len(strv) -> Text]
  <2> HIDE DEF Strip
  <2>1. \A i \in 1..Len(strv) : (IF strip THEN Strip(strv[i]) ELSE strv[i]) \in Text
    BY <1>1, <1>2
  <2> QED BY <1>1, <2>1 DEF TextsOf
<1> HIDE DEF T
<1>5. T \in Seq(Text) /\ Len(T) = Len(strv)
  BY <1>1, <1>4
<1> QED BY <1>3, <1>5 DEF T

(* The loop keeps what is to be kept.                                      *)
LEMMA CleanupLoop ==
  ASSUME NEW T \in Seq(Text), NEW empty \in BOOLEAN, NEW repeated \in BOOLEAN
  PROVE  KeptUpTo(Keeps!Fold([empty |-> empty, repeated |-> repeated], <<>>, T),
                  T, ToKeep(T, empty, repeated), Len(T))
<1> DEFINE ctx == [empty |-> empty, repeated |-> repeated]
           K == ToKeep(T, empty, repeated)
           n == Len(T)
           f == Keeps!Trace(ctx, <<>>, T)
           G == {m \in 0..n : KeptUpTo(f[m], T, K, m)}
<1>1. Keeps!IsTrace(f, ctx, <<>>, T)
  <2> HIDE DEF ctx
  <2> QED BY Keeps!FoldTrace, Smallest
<1> HIDE DEF f
<1>2. /\ f[0] = <<>> /\ f[n] = Keeps!Fold(ctx, <<>>, T)
      /\ \A k \in 1..n : f[k] = KeepStep(ctx, f[k - 1], T[k])
  <2> HIDE DEF ctx
  <2> QED BY <1>1 DEF Keeps!IsTrace
<1>3. n \in Nat /\ DOMAIN T = 1..n
  OBVIOUS
<1>4. K \in SUBSET (Nat \ {0})
  BY <1>3 DEF ToKeep
<1>5. 0 \in G
  <2> HIDE DEF K
  <2>1. <<>> \in Seq(Text) /\ Len(<<>>) = 0
    OBVIOUS
  <2>2. Rank(K, 0) = 0
    BY <1>4, RanksMove
  <2>3. \A i \in K : ~(i <= 0)
    BY <1>4
  <2>4. \A p : p \notin 1..0
    OBVIOUS
  <2>5. KeptUpTo(<<>>, T, K, 0)
    BY <2>1, <2>2, <2>3, <2>4 DEF KeptUpTo
  <2> QED BY <1>2, <1>3, <2>5
<1>6. ASSUME NEW m \in 0..(n - 1), m \in G PROVE m + 1 \in G
  <2> DEFINE q == m + 1
  <2>1. q \in 1..n /\ q \in 0..n /\ q - 1 = m
    BY <1>3
  <2>2. KeptUpTo(f[m], T, K, m)
    BY <1>6
  <2>3. KeptUpTo(KeepStep(ctx, f[m], T[q]), T, K, q)
    BY <2>2, KeepsOneMore, ZenonT(30)
  <2> HIDE DEF q, ctx, K
  <2>4. f[q] = KeepStep(ctx, f[m], T[q])
    BY <1>2, <2>1
  <2>5. KeptUpTo(f[q], T, K, q)
    BY <2>3, <2>4
  <2> QED BY <2>1, <2>5 DEF q
<1>7. \A m \in 0..n : m \in G
  <2> HIDE DEF G
  <2> QED BY <1>3, <1>5, <1>6, Counting
<1>8. KeptUpTo(f[n], T, K, n)
  <2>1. n \in 0..n
    BY <1>3
  <2>2. n \in G
    BY <1>7, <2>1
  <2> HIDE DEF K, n
  <2> QED BY <2>2
<1> HIDE DEF K, ctx
<1>9. KeptUpTo(Keeps!Fold(ctx, <<>>, T), T, K, n)
  BY <1>2, <1>8
<1> QED BY <1>9 DEF K, ctx

(* The kept texts one after the other, as the property says it.            *)
KeptTexts(T, K) ==
  [k \in 1..Cardinality(K) |-> T[CHOOSE i \in K : Cardinality({j \in K : j <= i}) = k]]

(* They are what is kept of all.                                           *)
LEMMA KeptOfAll ==
  ASSUME NEW T \in Seq(Text), NEW K \in SUBSET (1..Len(T)), NEW a, KeptUpTo(a, T, K, Len(T))
  PROVE  a = KeptTexts(T, K)
<1> DEFINE n == Len(T)
<1>1. n \in Nat /\ a \in Seq(Text) /\ Len(a) = Rank(K, n)
      /\ (\A i \in K : i <= n => a[Rank(K, i)] = T[i])
      /\ \A p \in 1..Len(a) : \E i \in K : i <= n /\ Rank(K, i) = p
  BY DEF KeptUpTo
<1>2. \A i \in K : {j \in K : j <= i} = K \cap 1..i
  BY <1>1
<1>3. K \cap 1..n = K
  OBVIOUS
<1>4. Len(a) = Cardinality(K) /\ \A i \in K : i <= n /\ Rank(K, i) = Cardinality({j \in K : j <= i})
  <2>1. Rank(K, n) = Cardinality(K)
    BY <1>3, Zenon DEF Rank
  <2>2. \A i \in K : Rank(K, i) = Cardinality({j \in K : j <= i})
    BY <1>2, Zenon DEF Rank
  <2>3. \A i \in K : i <= n
    BY <1>1
  <2> QED BY <1>1, <2>1, <2>2, <2>3
<1>5. ASSUME NEW k \in 1..Len(a)
      PROVE  a[k] = T[CHOOSE i \in K : Cardinality({j \in K : j <= i}) = k]
  <2> DEFINE c == CHOOSE i \in K : Cardinality({j \in K : j <= i}) = k
  <2>1. \E i \in K : Cardinality({j \in K : j <= i}) = k
    BY <1>1, <1>4
  <2>2. c \in K /\ Cardinality({j \in K : j <= c}) = k
    BY <2>1
  <2> HIDE DEF c
  <2>3. a[k] = T[c]
    BY <1>1, <1>4, <2>2
  <2> QED BY <2>3 DEF c
<1>6. a = [k \in 1..Len(a) |-> a[k]]
  BY <1>1
<1>7. a = [k \in 1..Len(a) |-> T[CHOOSE i \in K : Cardinality({j \in K : j <= i}) = k]]
  BY <1>5, <1>6, Zenon
<1> QED BY <1>4, <1>7, Zenon DEF KeptTexts

(* Without anything to be left out, all are kept.                          *)
LEMMA AllAreKept ==
  ASSUME NEW T \in Seq(Text)
  PROVE  KeptUpTo(T, T, ToKeep(T, FALSE, FALSE), Len(T))
<1> DEFINE n == Len(T)
           K == ToKeep(T, FALSE, FALSE)
<1>1. n \in Nat /\ DOMAIN T = 1..n
  OBVIOUS
<1>2. K = 1..n
  BY <1>1, Zenon DEF ToKeep
<1> HIDE DEF K
<1>3. ASSUME NEW m \in 0..n PROVE Rank(K, m) = m
  <2>1. K \cap 1..m = 1..m
    BY <1>1, <1>2
  <2>2. Cardinality(1..m) = m
    BY <1>1, FS_Interval
  <2> QED BY <2>1, <2>2 DEF Rank
<1>4. n \in 0..n /\ \A i \in 1..n : i \in 0..n /\ i <= n
  BY <1>1
<1>5. Rank(K, n) = n /\ \A i \in 1..n : Rank(K, i) = i
  BY <1>3, <1>4
<1>6. KeptUpTo(T, T, K, n)
  BY <1>2, <1>4, <1>5 DEF KeptUpTo
<1> QED BY <1>6 DEF K

(* A list cleaned up has the texts it should keep, for every list.         *)
THEOREM CleanupKeepsFirst ==
  ASSUME NEW strv \in Seq(Text), NEW strip \in BOOLEAN, NEW empty \in BOOLEAN, NEW repeated \in BOOLEAN
  PROVE  StrvCleanup(strv, strip, empty, repeated) =
           KeptTexts(TextsOf(strv, strip), ToKeep(TextsOf(strv, strip), empty, repeated))
<1> DEFINE T == TextsOf(strv, strip)
           K == ToKeep(T, empty, repeated)
           ctx == [empty |-> empty, repeated |-> repeated]
           r == StrvCleanup(strv, strip, empty, repeated)
<1>1. T \in Seq(Text)
  BY StrippedTexts
<1>2. T = IF strip THEN [i \in DOMAIN strv |-> Strip(strv[i])] ELSE strv
  BY StrippedTexts
<1>3. r = IF empty \/ repeated THEN Keeps!Fold(ctx, <<>>, T) ELSE T
  <2> HIDE DEF T, Strip
  <2> QED BY <1>2 DEF StrvCleanup, Keeps!Fold, FoldLeft, MapThenFoldSet, Keeps!MapThenFoldSet, Max,
         Keeps!Largest, KeepStep
<1> HIDE DEF T, r
<1>4. K \in SUBSET (1..Len(T))
  BY <1>1 DEF ToKeep
<1>5. KeptUpTo(r, T, K, Len(T))
  <2>1. CASE empty \/ repeated
    <3>1. KeptUpTo(Keeps!Fold(ctx, <<>>, T), T, K, Len(T))
      BY <1>1, CleanupLoop, ZenonT(30)
    <3>2. r = Keeps!Fold(ctx, <<>>, T)
      BY <1>3, <2>1, Zenon
    <3> QED BY <3>1, <3>2, Zenon
  <2>2. CASE ~(empty \/ repeated)
    <3>1. empty = FALSE /\ repeated = FALSE
      BY <2>2
    <3>2. KeptUpTo(T, T, ToKeep(T, FALSE, FALSE), Len(T))
      BY <1>1, AllAreKept
    <3>3. r = T
      BY <1>3, <2>2, Zenon
    <3> QED BY <3>1, <3>2, <3>3, Zenon
  <2> QED BY <2>1, <2>2
<1> HIDE DEF K
<1>6. r = KeptTexts(T, K)
  BY <1>1, <1>4, <1>5, KeptOfAll
<1> QED BY <1>6 DEF r, T, K

-----------------------------------------------------------------------------
(* What is said of a text that is stripped.                                *)
StripAnswer(str, r) ==
  /\ \E i, j \in 0..Len(str) :
       /\ r.text = SubSeq(str, i + 1, j)
       /\ \A k \in DOMAIN str \ (i + 1)..j : str[k] \in Spaces
       /\ r.free <=> i < j /\ j < Len(str)
  /\ r.text = <<>> \/ {r.text[1], Last(r.text)} \cap Spaces = {}

(* What begins with no blank ends in one or not like the whole text.       *)
LEMMA RestEndsAlike ==
  ASSUME NEW str \in Text, NEW i \in 0..Len(str), NEW j \in 0..Len(str),
         \A k \in DOMAIN str \ ((i + 1)..j) : str[k] \in Spaces,
         i < j => str[i + 1] \notin Spaces /\ str[j] \notin Spaces,
         i >= j => \A k \in DOMAIN str : str[k] \in Spaces
  PROVE  Skip(str, Spaces) # <<>> /\ Last(Skip(str, Spaces)) \in Spaces <=> i < j /\ j < Len(str)
<1> DEFINE L == Len(str)
           n == Span(str, Spaces)
           s == Skip(str, Spaces)
<1>1. L \in Nat /\ str \in Seq(1..255) /\ DOMAIN str = 1..L /\ i \in Nat /\ j \in Nat /\ i <= L /\ j <= L
  BY DEF Text
<1>2. s = <<>> <=> \A k \in 1..L : str[k] \in Spaces
  BY <1>1, SkippedWhole
<1>3. s \in Text /\ Len(s) = L - n /\ \A k \in 1..(L - n) : s[k] = str[n + k]
  BY SkippedText
<1> HIDE DEF s
<1>4. CASE i >= j
  BY <1>1, <1>2, <1>4 DEF s
<1>5. CASE i < j
  <2>1. \A k \in 1..i : k \in DOMAIN str \ ((i + 1)..j)
    BY <1>1
  <2>2. \A k \in 1..i : str[k] \in Spaces
    BY <2>1
  <2>3. str[i + 1] \notin Spaces /\ str[j] \notin Spaces /\ i + 1 \in 1..L /\ j \in 1..L
    BY <1>1, <1>5
  <2>4. n = i
    BY <1>1, <2>2, <2>3, SpanIsOne
  <2>5. s # <<>>
    BY <1>2, <2>3
  <2>6. Last(s) = str[L]
    <3> HIDE DEF n
    <3>1. L - n \in 1..(L - n) /\ n + (L - n) = L
      BY <1>1, <1>5, <2>4
    <3> QED BY <1>3, <3>1 DEF Last
  <2>7. CASE j = L
    BY <1>5, <2>3, <2>6, <2>7 DEF s
  <2>8. CASE j < L
    <3>1. L \in DOMAIN str \ ((i + 1)..j)
      BY <1>1, <2>8
    <3>2. str[L] \in Spaces
      BY <3>1
    <3> QED BY <1>5, <2>5, <2>6, <2>8, <3>2 DEF s
  <2>9. j = L \/ j < L
    <3>1. L \in Nat /\ j \in Nat /\ j <= L
      BY <1>1
    <3> HIDE DEF L
    <3> QED BY <3>1
  <2> QED BY <2>7, <2>8, <2>9, Zenon
<1> QED BY <1>1, <1>4, <1>5

(* A text is stripped of its blanks, and copied only if it must be.        *)
THEOREM StripLeavesText ==
  ASSUME NEW str \in Text
  PROVE  StripAnswer(str, StrstripAvoidCopy(str))
<1> DEFINE s == Skip(str, Spaces)
           r == StrstripAvoidCopy(str)
<1>1. r = [text |-> Strip(str), free |-> s # <<>> /\ Last(s) \in Spaces]
  BY TextIsNotNull DEF StrstripAvoidCopy, Strip
<1> HIDE DEF s
<1>2. r.text = Strip(str) /\ (r.free <=> s # <<>> /\ Last(s) \in Spaces)
  <2> DEFINE copied == s # <<>> /\ Last(s) \in Spaces
  <2> HIDE DEF Strip, r, copied
  <2>1. r = [text |-> Strip(str), free |-> copied]
    BY <1>1 DEF copied
  <2>2. r.text = Strip(str) /\ r.free = copied
    BY <2>1
  <2> QED BY <2>2, Zenon DEF copied
<1> HIDE DEF r
<1>3. PICK i \in 0..Len(str), j \in 0..Len(str) :
           /\ Strip(str) = SubSeq(str, i + 1, j)
           /\ \A k \in DOMAIN str \ ((i + 1)..j) : str[k] \in Spaces
           /\ i < j => str[i + 1] \notin Spaces /\ str[j] \notin Spaces
           /\ i >= j => Strip(str) = <<>> /\ \A k \in DOMAIN str : str[k] \in Spaces
  BY StrippedPart
<1>4. s # <<>> /\ Last(s) \in Spaces <=> i < j /\ j < Len(str)
  BY <1>3, RestEndsAlike, ZenonT(30) DEF s
<1>5. r.free <=> i < j /\ j < Len(str)
  BY <1>2, <1>4, Zenon
<1>6. r.text = <<>> \/ {r.text[1], Last(r.text)} \cap Spaces = {}
  <2>1. CASE i >= j
    BY <1>2, <1>3, <2>1
  <2>2. CASE i < j
    <3> DEFINE p == i + 1
               t == SubSeq(str, p, j)
    <3>1. p \in Nat \ {0} /\ j \in 1..Len(str) /\ p <= j /\ j - p + 1 \in 1..(j - p + 1) /\ p + (j - p + 1) - 1 = j
      BY <2>2, Characters
    <3>2. r.text = t /\ str[p] \notin Spaces /\ str[j] \notin Spaces
      BY <1>2, <1>3, <2>2
    <3> HIDE DEF p
    <3>3. /\ t \in Seq(1..255) /\ Len(t) = j - p + 1
          /\ \A k \in 1..(j - p + 1) : t[k] = str[p + k - 1]
          /\ t[1] = str[p]
      BY <3>1, PartOf, ZenonT(60)
    <3> HIDE DEF t
    <3>4. t[Len(t)] = str[j]
      BY <3>1, <3>3
    <3> QED BY <3>2, <3>3, <3>4 DEF Last
  <2>3. i \in Nat /\ j \in Nat
    BY Characters
  <2> QED BY <2>1, <2>2, <2>3
<1>7. r.text = SubSeq(str, i + 1, j)
  BY <1>2, <1>3
<1> QED BY <1>3, <1>5, <1>6, <1>7, Zenon DEF StripAnswer, r

-----------------------------------------------------------------------------
(* What is said of lists.                                                  *)
ListAnswer(i, r) ==
  /\ i.op = "cleanup" =>
       r = KeptTexts(TextsOf(i.strv, i.strip), ToKeep(TextsOf(i.strv, i.strip), i.empty, i.repeated))
  /\ i.op = "strip" /\ i.str # Null => StripAnswer(i.str, r)
  /\ i.op = "sort" =>
       /\ Ascending(SubSeq(r, 1, Sorted(i.strv, i.len))) /\ SameTexts(r, i.strv)
       /\ SubSeq(r, Sorted(i.strv, i.len) + 1, Len(r)) = SubSeq(i.strv, Sorted(i.strv, i.len) + 1, Len(i.strv))
  /\ i.op = "dict" =>
       IF DOMAIN i.hash = {} THEN r = [named |-> Null, keys |-> {Null}]
       ELSE DictAnswer(i.hash, i.compared, r)

(* It is what each utility gives.                                          *)
LEMMA ListsAreAnswered ==
  ASSUME NEW i \in Inputs, NEW r, IsAnswer(i, r)
  PROVE  ListAnswer(i, r)
<1>1. ASSUME i.op = "cleanup"
      PROVE  r = KeptTexts(TextsOf(i.strv, i.strip), ToKeep(TextsOf(i.strv, i.strip), i.empty, i.repeated))
  <2>1. i.strv \in Seq(Text) /\ i.strip \in BOOLEAN /\ i.empty \in BOOLEAN /\ i.repeated \in BOOLEAN
    BY <1>1, InputsAssumption
  <2>2. r = StrvCleanup(i.strv, i.strip, i.empty, i.repeated)
    BY <1>1 DEF IsAnswer
  <2> QED BY <2>1, <2>2, CleanupKeepsFirst
<1>2. ASSUME i.op = "strip", i.str # Null PROVE StripAnswer(i.str, r)
  <2>1. i.str \in Text
    BY <1>2, InputsAssumption DEF TextOrNot
  <2>2. r = StrstripAvoidCopy(i.str)
    BY <1>2 DEF IsAnswer
  <2> QED BY <2>1, <2>2, StripLeavesText
<1>3. ASSUME i.op = "sort"
      PROVE /\ Ascending(SubSeq(r, 1, Sorted(i.strv, i.len))) /\ SameTexts(r, i.strv)
            /\ SubSeq(r, Sorted(i.strv, i.len) + 1, Len(r)) = SubSeq(i.strv, Sorted(i.strv, i.len) + 1, Len(i.strv))
  <2>1. i.strv \in Seq(Text) /\ i.len \in Int /\ i.len <= Len(i.strv)
    BY <1>3, InputsAssumption
  <2>2. r = StrvSort(i.strv, i.len)
    BY <1>3 DEF IsAnswer
  <2>3. Sorted(i.strv, i.len) \in 0..Len(i.strv) /\ SortAnswer(i.strv, Sorted(i.strv, i.len), r)
    BY <2>1, <2>2, SortIsWhole
  <2> QED BY <2>1, <2>3, SortedAsAsked, ZenonT(30)
<1>4. ASSUME i.op = "dict"
      PROVE  IF DOMAIN i.hash = {} THEN r = [named |-> Null, keys |-> {Null}]
             ELSE DictAnswer(i.hash, i.compared, r)
  <2>1. IsFiniteSet(DOMAIN i.hash) /\ DOMAIN i.hash \subseteq Text /\ i.compared \in BOOLEAN
    BY <1>4, InputsAssumption
  <2>2. r = [named |-> NamedValuesFromStrDict(i.hash), keys |-> StrdictGetKeys(i.hash, i.compared)]
    BY <1>4 DEF IsAnswer
  <2>3. CASE DOMAIN i.hash = {}
    BY <2>2, <2>3 DEF NamedValuesFromStrDict, StrdictGetKeys, HashKeysToArray
  <2>4. CASE DOMAIN i.hash # {}
    BY <2>1, <2>2, <2>4, DictionaryIsListed
  <2> QED BY <2>3, <2>4
<1> QED BY <1>1, <1>2, <1>3, <1>4 DEF ListAnswer

(* Lists, dictionaries and texts are cleaned and sorted without loss, in   *)
(* every state.                                                            *)
THEOREM ListsStayClean == Spec => []ListsAreClean
<1>1. Init => ListsAreClean
  BY DEF Init, Idle, ListsAreClean
<1>2. ListsAreClean <=> ListAnswer(call, result)
  BY Zenon DEF ListsAreClean, ListAnswer, KeptTexts, TextsOf, ToKeep, StripAnswer, Sorted, DictAnswer
<1>3. ListsAreClean' <=> ListAnswer(call', result')
  BY Zenon DEF ListsAreClean, ListAnswer, KeptTexts, TextsOf, ToKeep, StripAnswer, Sorted, DictAnswer
<1>4. ASSUME ListsAreClean, [Next]_vars PROVE ListsAreClean'
  <2>1. CASE UNCHANGED vars
    BY <1>2, <1>3, <1>4, <2>1, Zenon DEF vars
  <2>2. CASE call' = Idle
    BY <2>2 DEF Idle, ListsAreClean
  <2>3. CASE call' \in Inputs /\ IsAnswer(call', result')
    BY <1>3, <2>3, ListsAreAnswered, Zenon
  <2> QED BY <1>4, <2>1, <2>2, <2>3, CallsAreAnswered
<1> QED BY <1>1, <1>4, PTL DEF Spec

-----------------------------------------------------------------------------
(* What a byte becomes that is not taken as it is, and the number that     *)
(* three octal digits are.                                                 *)
IsOctal(p, c) ==
  /\ p \in Text /\ Len(p) = 4 /\ p[1] = Backslash
  /\ {p[2], p[3], p[4]} \subseteq 48..55
  /\ 64 * (p[2] - 48) + 8 * (p[3] - 48) + (p[4] - 48) = c

(* Every byte becomes its octal digits.                                    *)
LEMMA EscapedIsOctal ==
  ASSUME NEW c \in 1..255
  PROVE  IsOctal(StrAppendEscape(c), c)
<1> DEFINE a == c \div 64
           b == (c \div 8) % 8
           d == c % 8
           p == StrAppendEscape(c)
<1>1. a \in 0..3 /\ b \in 0..7 /\ d \in 0..7 /\ 64 * a + 8 * b + d = c
  OBVIOUS
<1>2. p = <<Backslash, 48 + a, 48 + b, 48 + d>>
  BY DEF StrAppendEscape
<1> HIDE DEF a, b, d, p
<1>3. /\ 48 + a \in 48..55 /\ 48 + b \in 48..55 /\ 48 + d \in 48..55
      /\ 48 + a \in 1..255 /\ 48 + b \in 1..255 /\ 48 + d \in 1..255 /\ Backslash \in 1..255
      /\ 64 * ((48 + a) - 48) + 8 * ((48 + b) - 48) + ((48 + d) - 48) = c
  BY <1>1 DEF Backslash
<1>4. Len(p) = 4 /\ p[1] = Backslash /\ p[2] = 48 + a /\ p[3] = 48 + b /\ p[4] = 48 + d
  BY <1>2
<1>5. p \in Seq(1..255)
  BY <1>2, <1>3
<1> QED BY <1>3, <1>4, <1>5 DEF IsOctal, Text, p

(* What becomes of the byte at i.                                          *)
PieceOf(str, flags, signed, i) ==
  IF i \notin ValidBytes(str) THEN StrAppendEscape(str[i])
  ELSE IF str[i] = Backslash THEN <<Backslash, Backslash>>
  ELSE IF Unwanted(str[i], flags, signed) THEN StrAppendEscape(str[i])
  ELSE <<str[i]>>

(* The ways in which p may stand for the byte c.                           *)
StandsFor(p, c) ==
  \/ IsOctal(p, c)
  \/ c = Backslash /\ p \in Text /\ Len(p) = 2 /\ p[1] = Backslash /\ p[2] = Backslash
  \/ c # Backslash /\ p \in Text /\ Len(p) = 1 /\ p[1] = c

(* Each byte is stood for.                                                 *)
LEMMA PieceStandsFor ==
  ASSUME NEW str \in Text, NEW flags, NEW signed, NEW i \in 1..Len(str)
  PROVE  /\ StandsFor(PieceOf(str, flags, signed, i), str[i])
         /\ PieceOf(str, flags, signed, i) \in Text /\ Len(PieceOf(str, flags, signed, i)) \in 1..4
<1> DEFINE p == PieceOf(str, flags, signed, i)
           c == str[i]
<1>1. c \in 1..255 /\ Backslash \in 1..255
  BY Characters DEF Backslash
<1>2. p = StrAppendEscape(c) \/ (c = Backslash /\ p = <<Backslash, Backslash>>) \/ (c # Backslash /\ p = <<c>>)
  BY Zenon DEF PieceOf
<1> HIDE DEF p, c
<1>3. CASE p = StrAppendEscape(c)
  <2>1. IsOctal(p, c)
    BY <1>1, <1>3, EscapedIsOctal
  <2>2. p \in Text /\ Len(p) \in 1..4
    BY <2>1 DEF IsOctal
  <2> QED BY <2>1, <2>2 DEF StandsFor, p, c
<1>4. CASE c = Backslash /\ p = <<Backslash, Backslash>>
  <2>1. p \in Text /\ Len(p) = 2 /\ p[1] = Backslash /\ p[2] = Backslash
    BY <1>1, <1>4 DEF Text
  <2>2. StandsFor(p, c) /\ p \in Text /\ Len(p) \in 1..4
    BY <1>4, <2>1 DEF StandsFor
  <2> QED BY <2>2 DEF p, c
<1>5. CASE c # Backslash /\ p = <<c>>
  <2>1. p \in Text /\ Len(p) = 1 /\ p[1] = c
    BY <1>1, <1>5 DEF Text
  <2>2. StandsFor(p, c) /\ p \in Text /\ Len(p) \in 1..4
    BY <1>5, <2>1 DEF StandsFor
  <2> QED BY <2>2 DEF p, c
<1> QED BY <1>2, <1>3, <1>4, <1>5

-----------------------------------------------------------------------------
(* The pieces P[1], ..., P[k] of t, one behind the other; L are the places *)
(* where they end.                                                         *)
IsPieced(t, P, L, k) ==
  /\ t \in Text /\ L[0] = 0 /\ L[k] = Len(t)
  /\ \A h \in 1..k :
       /\ L[h - 1] \in Nat /\ L[h] = L[h - 1] + Len(P[h]) /\ L[h] <= Len(t)
       /\ \A i \in 1..Len(P[h]) : t[L[h - 1] + i] = P[h][i]
  /\ \A x \in 1..Len(t) : \E h \in 1..k : \E i \in 1..Len(P[h]) : x = L[h - 1] + i

(* One piece more. *)
LEMMA OnePiece ==
  ASSUME NEW t, NEW P, NEW L, NEW k \in Nat, IsPieced(t, P, L, k),
         P[k + 1] \in Text, \A h \in 1..k : P[h] \in Text, L[k + 1] = L[k] + Len(P[k + 1])
  PROVE  IsPieced(t \o P[k + 1], P, L, k + 1)
<1> DEFINE f == P[k + 1]
           v == t \o f
<1>1. f \in Text /\ Len(f) \in Nat /\ t \in Text /\ Len(t) \in Nat /\ L[k] = Len(t)
  BY Characters DEF IsPieced
<1>2. /\ v \in Text /\ Len(v) = Len(t) + Len(f)
      /\ \A i \in 1..Len(t) : v[i] = t[i]
      /\ \A i \in 1..Len(f) : v[Len(t) + i] = f[i]
  BY <1>1, JoinedText, Zenon
<1>3. L[k + 1] = Len(t) + Len(f) /\ L[0] = 0
  BY <1>1 DEF IsPieced
<1> HIDE DEF v, f
<1>4. ASSUME NEW h \in 1..(k + 1)
      PROVE  /\ L[h - 1] \in Nat /\ L[h] = L[h - 1] + Len(P[h]) /\ L[h] <= Len(v)
             /\ \A i \in 1..Len(P[h]) : v[L[h - 1] + i] = P[h][i]
  <2>1. CASE h \in 1..k
    <3>1. /\ L[h - 1] \in Nat /\ L[h] = L[h - 1] + Len(P[h]) /\ L[h] <= Len(t)
          /\ \A i \in 1..Len(P[h]) : t[L[h - 1] + i] = P[h][i]
      BY <2>1 DEF IsPieced
    <3> DEFINE l == L[h - 1]
               n == Len(P[h])
    <3>2. n \in Nat
      BY <2>1, Characters
    <3>3. l \in Nat /\ L[h] = l + n /\ L[h] <= Len(t)
      BY <3>1
    <3> HIDE DEF l, n
    <3>4. L[h] <= Len(v) /\ \A i \in 1..n : l + i \in 1..Len(t)
      BY <1>1, <1>2, <3>2, <3>3
    <3>5. \A i \in 1..n : v[l + i] = P[h][i]
      BY <1>2, <3>1, <3>4 DEF l, n
    <3> QED BY <3>3, <3>4, <3>5 DEF l, n
  <2>2. CASE h = k + 1
    <3>1. h - 1 = k /\ P[h] = f
      BY <2>2 DEF f
    <3>2. L[k] \in Nat /\ L[h] = L[k] + Len(f) /\ L[h] <= Len(v)
      BY <1>1, <1>2, <1>3, <2>2
    <3> QED BY <1>1, <1>2, <3>1, <3>2
  <2> QED BY <2>1, <2>2
<1>5. ASSUME NEW x \in 1..Len(v) PROVE \E h \in 1..(k + 1) : \E i \in 1..Len(P[h]) : x = L[h - 1] + i
  <2>1. CASE x \in 1..Len(t)
    <3>1. PICK h \in 1..k : \E i \in 1..Len(P[h]) : x = L[h - 1] + i
      BY <2>1 DEF IsPieced
    <3>2. h \in 1..(k + 1)
      OBVIOUS
    <3> QED BY <3>1, <3>2
  <2>2. CASE x \notin 1..Len(t)
    <3> DEFINE h == k + 1
               i == x - Len(t)
    <3>1. h \in 1..(k + 1) /\ h - 1 = k /\ i \in 1..Len(f) /\ x = Len(t) + i
      BY <1>1, <1>2, <2>2
    <3>2. P[h] = f
      BY DEF f
    <3> HIDE DEF h, i
    <3>3. i \in 1..Len(P[h]) /\ x = L[h - 1] + i
      BY <1>1, <3>1, <3>2
    <3> QED BY <3>1, <3>3
  <2> QED BY <2>1, <2>2
<1>6. v \in Text /\ L[k + 1] = Len(v)
  BY <1>2, <1>3
<1>7. IsPieced(v, P, L, k + 1)
  BY <1>3, <1>4, <1>5, <1>6 DEF IsPieced
<1> QED BY <1>7 DEF v, f

-----------------------------------------------------------------------------
(* The loop that escapes: what a byte becomes goes behind the rest.        *)
EscapeStep(ctx, s, i) == s \o PieceOf(ctx.str, ctx.flags, ctx.signed, i)
Escaped == INSTANCE FoldFacts WITH Op <- EscapeStep

(* The pieces of an escaped text.                                          *)
Pieces(str, flags, signed) == [i \in 1..Len(str) |-> PieceOf(str, flags, signed, i)]

(* An escaped text is made of them.                                        *)
LEMMA EscapedIsPieced ==
  ASSUME NEW str \in Text, NEW flags, NEW signed
  PROVE  \E L : IsPieced(Utf8SafeEscape(str, flags, signed), Pieces(str, flags, signed), L, Len(str))
<1> DEFINE n == Len(str)
           is == [i \in DOMAIN str |-> i]
           ctx == [str |-> str, flags |-> flags, signed |-> signed]
           P == Pieces(str, flags, signed)
           R == Utf8SafeEscape(str, flags, signed)
           f == Escaped!Trace(ctx, <<>>, is)
           L == [k \in 0..n |-> Len(f[k])]
<1>1. n \in Nat /\ DOMAIN str = 1..n
  BY Characters
<1>2. R = Escaped!Fold(ctx, <<>>, is)
  <2>1. str # Null
    BY TextIsNotNull
  <2> QED BY <2>1, SMTT(60) DEF Utf8SafeEscape, Escaped!Fold, FoldLeftDomain, FoldLeft, MapThenFoldSet,
     Escaped!MapThenFoldSet, Max, Escaped!Largest, EscapeStep, PieceOf
<1>3. is \in Seq(Nat) /\ Len(is) = n /\ \A k \in 1..n : is[k] = k
  BY <1>1
<1>4. Escaped!IsTrace(f, ctx, <<>>, is)
  <2> HIDE DEF ctx, is
  <2> QED BY <1>3, Escaped!FoldTrace, Smallest
<1> HIDE DEF f, R
<1>5. f[0] = <<>> /\ f[n] = R /\ \A k \in 1..n : f[k] = EscapeStep(ctx, f[k - 1], k)
  <2> HIDE DEF ctx, is
  <2> QED BY <1>2, <1>3, <1>4 DEF Escaped!IsTrace
<1>6. \A i \in 1..n : P[i] = PieceOf(str, flags, signed, i) /\ P[i] \in Text
  BY PieceStandsFor DEF Pieces
<1>7. \A k \in 1..n : f[k] = f[k - 1] \o P[k]
  BY <1>5, <1>6 DEF EscapeStep
<1> HIDE DEF P, n
<1>8. \A k \in 0..n : L[k] = Len(f[k])
  OBVIOUS
<1> DEFINE G == {k \in 0..n : IsPieced(f[k], P, L, k)}
<1> HIDE DEF L
<1>9. 0 \in G
  <2>1. <<>> \in Text /\ Len(<<>>) = 0
    BY DEF Text
  <2>2. L[0] = 0 /\ 0 \in 0..n
    BY <1>1, <1>5, <1>8, <2>1
  <2>3. \A x : x \notin 1..0
    OBVIOUS
  <2> QED BY <1>5, <2>1, <2>2, <2>3 DEF IsPieced
<1>10. ASSUME NEW k \in 0..(n - 1), k \in G PROVE k + 1 \in G
  <2>1. k \in Nat /\ k \in 0..n /\ k + 1 \in 1..n /\ k + 1 \in 0..n /\ (k + 1) - 1 = k /\ \A h \in 1..k : h \in 1..n
    BY <1>1
  <2>2. IsPieced(f[k], P, L, k)
    BY <1>10
  <2>3. f[k] \in Text /\ P[k + 1] \in Text /\ \A h \in 1..k : P[h] \in Text
    BY <1>6, <2>1, <2>2 DEF IsPieced
  <2>4. f[k + 1] = f[k] \o P[k + 1]
    BY <1>7, <2>1
  <2>5. L[k + 1] = L[k] + Len(P[k + 1])
    <3>1. Len(f[k] \o P[k + 1]) = Len(f[k]) + Len(P[k + 1])
      BY <2>3, JoinedText
    <3> QED BY <1>8, <2>1, <2>4, <3>1
  <2>6. IsPieced(f[k] \o P[k + 1], P, L, k + 1)
    BY <2>1, <2>2, <2>3, <2>5, OnePiece, ZenonT(30)
  <2> QED BY <2>1, <2>4, <2>6
<1>11. \A k \in 0..n : k \in G
  <2> HIDE DEF G
  <2> QED BY <1>1, <1>9, <1>10, Counting
<1>12. IsPieced(f[n], P, L, n)
  BY <1>1, <1>11
<1> QED BY <1>5, <1>12 DEF R, P, n

-----------------------------------------------------------------------------
(* The loop that reads an escaped text str, one step.                      *)
OctalStep(ctx, v, c) == 8 * v + c - 48
Octals == INSTANCE FoldFacts WITH Op <- OctalStep
Reads == INSTANCE FoldFacts WITH Op <- ReadByte

(* Three octal digits are the number they spell.                           *)
LEMMA OctalsSpell ==
  ASSUME NEW s \in Seq(Int), Len(s) = 3
  PROVE  OctalValue(s) = 64 * (s[1] - 48) + 8 * (s[2] - 48) + (s[3] - 48)
<1> DEFINE f == Octals!Trace(0, 0, s)
<1>1. Octals!Fold(0, 0, s) = OctalValue(s)
  BY DEF Octals!Fold, FoldLeft, MapThenFoldSet, Octals!MapThenFoldSet, Max, Octals!Largest, OctalStep, OctalValue
<1>2. Octals!IsTrace(f, 0, 0, s)
  BY Octals!FoldTrace, Smallest
<1> HIDE DEF f
<1>3. f[0] = 0 /\ f[3] = OctalValue(s) /\ \A k \in 1..3 : f[k] = OctalStep(0, f[k - 1], s[k])
  BY <1>1, <1>2 DEF Octals!IsTrace
<1>4. s[1] \in Int /\ s[2] \in Int /\ s[3] \in Int
  <2>1. 1 \in 1..Len(s) /\ 2 \in 1..Len(s) /\ 3 \in 1..Len(s)
    OBVIOUS
  <2> QED BY <2>1, ElementOfSeq
<1>5. f[1] = s[1] - 48
  <2>1. 1 \in 1..3 /\ 1 - 1 = 0
    OBVIOUS
  <2>2. f[1] = OctalStep(0, f[0], s[1])
    BY <1>3, <2>1
  <2> QED BY <1>3, <1>4, <2>2 DEF OctalStep
<1>6. f[2] = 8 * (s[1] - 48) + (s[2] - 48)
  <2>1. 2 \in 1..3 /\ 2 - 1 = 1
    OBVIOUS
  <2>2. f[2] = OctalStep(0, f[1], s[2])
    BY <1>3, <2>1
  <2> QED BY <1>4, <1>5, <2>2 DEF OctalStep
<1>7. f[3] = 64 * (s[1] - 48) + 8 * (s[2] - 48) + (s[3] - 48)
  <2>1. 3 \in 1..3 /\ 3 - 1 = 2
    OBVIOUS
  <2>2. f[3] = OctalStep(0, f[2], s[3])
    BY <1>3, <2>1
  <2> QED BY <1>4, <1>6, <2>2 DEF OctalStep
<1> QED BY <1>3, <1>7

(* Three characters of a text.                                             *)
LEMMA ThreeOf ==
  ASSUME NEW str \in Text, NEW i \in Nat, i + 3 \in 1..Len(str)
  PROVE  /\ SubSeq(str, i + 1, i + 3) \in Seq(Int) /\ Len(SubSeq(str, i + 1, i + 3)) = 3
         /\ SubSeq(str, i + 1, i + 3)[1] = str[i + 1] /\ SubSeq(str, i + 1, i + 3)[2] = str[i + 1 + 1]
         /\ SubSeq(str, i + 1, i + 3)[3] = str[i + 1 + 2]
<1> DEFINE a == i + 1
           z == i + 3
           w == SubSeq(str, a, z)
<1>1. a \in Nat \ {0} /\ z \in 1..Len(str) /\ a <= z
  OBVIOUS
<1>2. z - a + 1 = 3 /\ a + 1 - 1 = i + 1 /\ a + 2 - 1 = i + 1 + 1 /\ a + 3 - 1 = i + 1 + 2
  OBVIOUS
<1> HIDE DEF a, z
<1>3. /\ SubSeq(str, a, z) \in Seq(1..255) /\ Len(SubSeq(str, a, z)) = z - a + 1
      /\ \A x \in 1..(z - a + 1) : SubSeq(str, a, z)[x] = str[a + x - 1]
  BY <1>1, PartOf, ZenonT(60)
<1> HIDE DEF w
<1>4. w \in Seq(1..255) /\ Len(w) = 3 /\ w[1] = str[a + 1 - 1] /\ w[2] = str[a + 2 - 1] /\ w[3] = str[a + 3 - 1]
  <2>1. w \in Seq(1..255) /\ Len(w) = z - a + 1 /\ \A x \in 1..(z - a + 1) : w[x] = str[a + x - 1]
    BY <1>3, Zenon DEF w
  <2>2. 1 \in 1..(z - a + 1) /\ 2 \in 1..(z - a + 1) /\ 3 \in 1..(z - a + 1)
    BY <1>2
  <2>3. w[1] = str[a + 1 - 1] /\ w[2] = str[a + 2 - 1] /\ w[3] = str[a + 3 - 1]
    BY <2>1, <2>2, Zenon
  <2> QED BY <1>2, <2>1, <2>3
<1>5. w[1] = str[i + 1] /\ w[2] = str[i + 1 + 1] /\ w[3] = str[i + 1 + 2]
  BY <1>2, <1>4
<1>6. w \in Seq(Int)
  <2>1. 1..255 \subseteq Int
    OBVIOUS
  <2> QED BY <1>4, <2>1, SeqWidens, ZenonT(30)
<1> QED BY <1>4, <1>5, <1>6 DEF w, a, z

(* An escaped byte is read, and its digits are passed over.                *)
LEMMA EscapeIsRead ==
  ASSUME NEW R \in Text, NEW l \in Nat, NEW p, NEW c \in 1..255, IsOctal(p, c), l + 4 <= Len(R),
         \A i \in 1..4 : R[l + i] = p[i], NEW s, s.skip = 0
  PROVE  ReadByte(R, s, l + 1) = [text |-> Append(s.text, c), skip |-> 3]
<1> DEFINE i == l + 1
<1>1. Len(R) \in Nat /\ DOMAIN R = 1..Len(R)
  BY Characters
<1>2. p[1] = Backslash /\ p[2] \in 48..55 /\ p[3] \in 48..55 /\ p[4] \in 48..55
      /\ 64 * (p[2] - 48) + 8 * (p[3] - 48) + (p[4] - 48) = c
  BY DEF IsOctal
<1>3. R[i] = p[1] /\ R[i + 1] = p[2] /\ R[i + 1 + 1] = p[3] /\ R[i + 1 + 2] = p[4]
  <2>1. 1 \in 1..4 /\ 2 \in 1..4 /\ 3 \in 1..4 /\ 4 \in 1..4
    OBVIOUS
  <2>2. l + 1 = i /\ l + 2 = i + 1 /\ l + 3 = i + 1 + 1 /\ l + 4 = i + 1 + 2
    OBVIOUS
  <2>3. R[l + 1] = p[1] /\ R[l + 2] = p[2] /\ R[l + 3] = p[3] /\ R[l + 4] = p[4]
    BY <2>1, Zenon
  <2> HIDE DEF i
  <2> QED BY <2>2, <2>3, Zenon
<1>4. i + 1 \in 1..Len(R) /\ i + 1 + 1 \in 1..Len(R) /\ i + 1 + 2 \in 1..Len(R) /\ i \in Nat
      /\ i + 3 \in 1..Len(R) /\ i + 1 <= i + 3
  BY <1>1
<1> HIDE DEF i
<1>5. \A k \in 0..2 : OctalAt(R, i + 1 + k)
  <2>1. OctalAt(R, i + 1) /\ OctalAt(R, i + 1 + 1) /\ OctalAt(R, i + 1 + 2)
    BY <1>1, <1>2, <1>3, <1>4 DEF OctalAt
  <2>2. i + 1 + 0 = i + 1
    BY <1>4
  <2>3. \A k \in 0..2 : k = 0 \/ k = 1 \/ k = 2
    OBVIOUS
  <2> QED BY <2>1, <2>2, <2>3
<1>6. DigitsAt(R, i + 1) = 3
  <2> DEFINE Q(n) == (\A k \in 0..n - 1 : OctalAt(R, i + 1 + k)) /\ (n < 3 => ~OctalAt(R, i + 1 + n))
  <2>1. 3 \in 0..3 /\ Q(3)
    BY <1>5
  <2>2. \A n \in 0..3 : Q(n) => n = 3
    BY <1>5
  <2>3. DigitsAt(R, i + 1) = CHOOSE n \in 0..3 : Q(n)
    BY DEF DigitsAt
  <2> HIDE DEF Q
  <2> QED BY <2>1, <2>2, <2>3
<1> DEFINE t == SubSeq(R, i + 1, i + 3)
<1>7. t \in Seq(Int) /\ Len(t) = 3 /\ t[1] = p[2] /\ t[2] = p[3] /\ t[3] = p[4]
  <2>1. /\ SubSeq(R, i + 1, i + 3) \in Seq(Int) /\ Len(SubSeq(R, i + 1, i + 3)) = 3
        /\ SubSeq(R, i + 1, i + 3)[1] = R[i + 1] /\ SubSeq(R, i + 1, i + 3)[2] = R[i + 1 + 1]
        /\ SubSeq(R, i + 1, i + 3)[3] = R[i + 1 + 2]
    BY <1>4, ThreeOf
  <2> QED BY <1>3, <2>1
<1> HIDE DEF t
<1>8. OctalValue(t) = c
  BY <1>2, <1>7, OctalsSpell
<1>9. c % 256 = c
  <2>1. c \in Int /\ 0 <= c /\ c < 256
    OBVIOUS
  <2> QED BY <2>1, SMT
<1>10. ReadByte(R, s, i) = [text |-> Append(s.text, OctalValue(t) % 256), skip |-> 3]
  <2>1. ~(s.skip > 0) /\ ~(R[i] # Backslash) /\ DigitsAt(R, i + 1) > 0
    BY <1>2, <1>3, <1>6
  <2> QED BY <1>6, <2>1, Zenon DEF ReadByte, t
<1> QED BY <1>8, <1>9, <1>10 DEF i

-----------------------------------------------------------------------------
(* What the loop that reads goes through.                                  *)
ReadTrace(u, R) ==
  /\ u[0] = [text |-> <<>>, skip |-> 0]
  /\ \A k \in 1..Len(R) : u[k] = ReadByte(R, u[k - 1], k)

(* There is such a way.                                                    *)
LEMMA ReadLoops ==
  ASSUME NEW R \in Text
  PROVE  \E u : ReadTrace(u, R) /\ Utf8SafeUnescape(R) = u[Len(R)].text
<1> DEFINE start == [text |-> <<>>, skip |-> 0]
           is == [i \in DOMAIN R |-> i]
           u == Reads!Trace(R, start, is)
<1>1. Len(R) \in Nat /\ DOMAIN R = 1..Len(R)
  BY Characters
<1>2. Utf8SafeUnescape(R) = Reads!Fold(R, start, is).text
  <2>1. R # Null
    BY TextIsNotNull
  <2> QED BY <2>1, SMTT(60) DEF Utf8SafeUnescape, Strcompress, Reads!Fold, FoldLeftDomain, FoldLeft, MapThenFoldSet,
        Reads!MapThenFoldSet, Max, Reads!Largest
<1>3. is \in Seq(Nat) /\ Len(is) = Len(R) /\ \A k \in 1..Len(R) : is[k] = k
  BY <1>1
<1>4. Reads!IsTrace(u, R, start, is)
  <2> HIDE DEF start, is
  <2> QED BY <1>3, Reads!FoldTrace, Smallest
<1> HIDE DEF u
<1>5. u[0] = start /\ u[Len(R)] = Reads!Fold(R, start, is)
      /\ \A k \in 1..Len(R) : u[k] = ReadByte(R, u[k - 1], k)
  <2> HIDE DEF start, is
  <2> QED BY <1>3, <1>4 DEF Reads!IsTrace
<1>6. ReadTrace(u, R)
  BY <1>5, Zenon DEF ReadTrace
<1>7. Utf8SafeUnescape(R) = u[Len(R)].text
  BY <1>2, <1>5, Zenon
<1> QED BY <1>6, <1>7

(* What was read up to the place l is t, and nothing is to be passed over. *)
Gives(u, l, t) == u[l] = [text |-> t, skip |-> 0]

(* The text t has p behind its place l.                                    *)
HasAt(t, l, p) == l + Len(p) <= Len(t) /\ \A i \in 1..Len(p) : t[l + i] = p[i]

(* What stands for a byte is read as that byte.                            *)
LEMMA PieceIsRead ==
  ASSUME NEW R \in Text, NEW u, ReadTrace(u, R), NEW l \in Nat, NEW p, NEW c \in 1..255, StandsFor(p, c),
         HasAt(R, l, p), NEW t, Gives(u, l, t)
  PROVE  Gives(u, l + Len(p), Append(t, c))
<1> DEFINE At(text, skip) == [text |-> text, skip |-> skip]
           d == Append(t, c)
<1> USE DEF HasAt, Gives
<1>1. Len(R) \in Nat
  BY Characters
<1>2. ASSUME NEW k \in 1..Len(R) PROVE u[k] = ReadByte(R, u[k - 1], k)
  BY DEF ReadTrace
<1>3. CASE IsOctal(p, c)
  <2>1. Len(p) = 4
    BY <1>3 DEF IsOctal
  <2>2. l + 1 \in 1..Len(R) /\ l + 2 \in 1..Len(R) /\ l + 3 \in 1..Len(R) /\ l + 4 \in 1..Len(R)
        /\ (l + 1) - 1 = l /\ (l + 2) - 1 = l + 1 /\ (l + 3) - 1 = l + 2 /\ (l + 4) - 1 = l + 3
    BY <1>1, <2>1
  <2>3. u[l].skip = 0 /\ u[l].text = t
    OBVIOUS
  <2>4. ReadByte(R, u[l], l + 1) = [text |-> Append(u[l].text, c), skip |-> 3]
    <3>1. l + 4 <= Len(R) /\ \A i \in 1..4 : R[l + i] = p[i]
      BY <2>1
    <3> QED BY <1>3, <2>3, <3>1, EscapeIsRead, ZenonT(30)
  <2> HIDE DEF d
  <2>5. u[l + 1] = [text |-> d, skip |-> 3]
    BY <1>2, <2>2, <2>3, <2>4 DEF d
  <2>6. u[l + 2] = [text |-> d, skip |-> 2]
    <3>1. u[l + 2] = ReadByte(R, [text |-> d, skip |-> 3], l + 2)
      BY <1>2, <2>2, <2>5
    <3>2. ReadByte(R, [text |-> d, skip |-> 3], l + 2) = [text |-> d, skip |-> 2]
      BY DEF ReadByte
    <3> QED BY <3>1, <3>2
  <2>7. u[l + 3] = [text |-> d, skip |-> 1]
    <3>1. u[l + 3] = ReadByte(R, [text |-> d, skip |-> 2], l + 3)
      BY <1>2, <2>2, <2>6
    <3>2. ReadByte(R, [text |-> d, skip |-> 2], l + 3) = [text |-> d, skip |-> 1]
      BY DEF ReadByte
    <3> QED BY <3>1, <3>2
  <2>8. u[l + 4] = [text |-> d, skip |-> 0]
    <3>1. u[l + 4] = ReadByte(R, [text |-> d, skip |-> 1], l + 4)
      BY <1>2, <2>2, <2>7
    <3>2. ReadByte(R, [text |-> d, skip |-> 1], l + 4) = [text |-> d, skip |-> 0]
      BY DEF ReadByte
    <3> QED BY <3>1, <3>2
  <2> QED BY <2>1, <2>8 DEF d
<1>4. CASE c = Backslash /\ p \in Text /\ Len(p) = 2 /\ p[1] = Backslash /\ p[2] = Backslash
  <2>1. l + 1 \in 1..Len(R) /\ l + 2 \in 1..Len(R) /\ (l + 1) - 1 = l /\ (l + 2) - 1 = l + 1 /\ l + 1 + 1 = l + 2
        /\ l + 1 # Len(R)
    BY <1>1, <1>4
  <2>2. R[l + 1] = Backslash /\ R[l + 2] = Backslash
    <3>1. 1 \in 1..Len(p) /\ 2 \in 1..Len(p)
      BY <1>4
    <3> QED BY <1>4, <3>1
  <2>3. ~OctalAt(R, l + 1 + 1)
    <3>1. R[l + 1 + 1] = Backslash
      BY <2>1, <2>2
    <3>2. Backslash \notin 48..55
      BY DEF Backslash
    <3> QED BY <3>1, <3>2, Zenon DEF OctalAt
  <2>4. DigitsAt(R, l + 1 + 1) = 0
    <3> DEFINE j == l + 1 + 1
    <3>0. j \in Nat
      OBVIOUS
    <3> HIDE DEF j
    <3> DEFINE Q(n) == (\A k \in 0..n - 1 : OctalAt(R, j + k)) /\ (n < 3 => ~OctalAt(R, j + n))
    <3>1. j + 0 = j /\ ~OctalAt(R, j)
      BY <2>3, <3>0 DEF j
    <3>2. 0 \in 0..3 /\ Q(0)
      BY <3>1
    <3>3. \A n \in 0..3 : Q(n) => n = 0
      <4> TAKE n \in 0..3
      <4> SUFFICES ASSUME Q(n), n # 0 PROVE FALSE
        OBVIOUS
      <4>1. 0 \in 0..n - 1
        OBVIOUS
      <4>2. OctalAt(R, j + 0)
        BY <4>1
      <4> QED BY <3>1, <4>2
    <3>4. DigitsAt(R, j) = CHOOSE n \in 0..3 : Q(n)
      BY DEF DigitsAt
    <3> HIDE DEF Q
    <3>5. DigitsAt(R, j) = 0
      BY <3>2, <3>3, <3>4
    <3> QED BY <3>5 DEF j
  <2>5. u[l + 1] = [text |-> d, skip |-> 1]
    <3>1. u[l + 1] = ReadByte(R, [text |-> t, skip |-> 0], l + 1)
      BY <1>2, <2>1
    <3>2. ReadByte(R, [text |-> t, skip |-> 0], l + 1) = [text |-> Append(t, R[l + 1 + 1]), skip |-> 1]
      BY <2>1, <2>2, <2>4 DEF ReadByte
    <3>3. R[l + 1 + 1] = c
      BY <1>4, <2>1, <2>2
    <3> QED BY <3>1, <3>2, <3>3
  <2> HIDE DEF d
  <2>6. u[l + 2] = [text |-> d, skip |-> 0]
    <3>1. u[l + 2] = ReadByte(R, [text |-> d, skip |-> 1], l + 2)
      BY <1>2, <2>1, <2>5
    <3>2. ReadByte(R, [text |-> d, skip |-> 1], l + 2) = [text |-> d, skip |-> 0]
      BY DEF ReadByte
    <3> QED BY <3>1, <3>2
  <2> QED BY <1>4, <2>6 DEF d
<1>5. CASE c # Backslash /\ p \in Text /\ Len(p) = 1 /\ p[1] = c
  <2>1. l + 1 \in 1..Len(R) /\ (l + 1) - 1 = l
    BY <1>1, <1>5
  <2>2. R[l + 1] = c
    <3>1. 1 \in 1..Len(p)
      BY <1>5
    <3> QED BY <1>5, <3>1
  <2>3. u[l + 1] = ReadByte(R, [text |-> t, skip |-> 0], l + 1)
    BY <1>2, <2>1
  <2>4. ReadByte(R, [text |-> t, skip |-> 0], l + 1) = [text |-> d, skip |-> 0]
    BY <1>5, <2>2 DEF ReadByte
  <2> HIDE DEF d
  <2> QED BY <1>5, <2>3, <2>4 DEF d
<1> QED BY <1>3, <1>4, <1>5 DEF StandsFor

-----------------------------------------------------------------------------
(* What nm_utils_str_utf8safe_escape makes of a text reads as that text    *)
(* for nm_utils_str_utf8safe_unescape, whatever the text and the flags.    *)
THEOREM EscapeReverts ==
  ASSUME NEW str \in Text, NEW flags, NEW signed
  PROVE  Utf8SafeUnescape(Utf8SafeEscape(str, flags, signed)) = str
<1> DEFINE R == Utf8SafeEscape(str, flags, signed)
           P == Pieces(str, flags, signed)
           n == Len(str)
<1>1. n \in Nat /\ str \in Seq(1..255)
  BY Characters DEF Text
<1>2. PICK L : IsPieced(R, P, L, n)
  BY EscapedIsPieced
<1>3. \A h \in 1..n : StandsFor(P[h], str[h]) /\ str[h] \in 1..255
  BY PieceStandsFor, Characters DEF Pieces
<1> HIDE DEF R, P, n
<1>4. R \in Text /\ L[0] = 0 /\ L[n] = Len(R)
  BY <1>2 DEF IsPieced
<1>5. PICK u : ReadTrace(u, R) /\ Utf8SafeUnescape(R) = u[Len(R)].text
  BY <1>4, ReadLoops
<1> DEFINE At(text) == [text |-> text, skip |-> 0]
           G == {k \in 0..n : u[L[k]] = At(SubSeq(str, 1, k))}
<1>6. 0 \in G
  <2>1. SubSeq(str, 1, 0) = <<>>
    BY <1>1
  <2>2. u[0] = At(<<>>)
    BY <1>5 DEF ReadTrace
  <2> QED BY <1>1, <1>4, <2>1, <2>2
<1>7. ASSUME NEW k \in 0..(n - 1), k \in G PROVE k + 1 \in G
  <2> DEFINE h == k + 1
             t == SubSeq(str, 1, k)
             p == P[h]
             c == str[h]
             l == L[k]
  <2>1. k \in Nat /\ h \in 1..n /\ h \in 0..n /\ h - 1 = k
    BY <1>1
  <2>2. Gives(u, l, t)
    BY <1>7, Zenon DEF Gives
  <2>3. l \in Nat /\ L[h] = l + Len(p) /\ L[h] <= Len(R) /\ \A i \in 1..Len(p) : R[l + i] = p[i]
    <3>1. /\ L[h - 1] \in Nat /\ L[h] = L[h - 1] + Len(P[h]) /\ L[h] <= Len(R)
          /\ \A i \in 1..Len(P[h]) : R[L[h - 1] + i] = P[h][i]
      BY <1>2, <2>1 DEF IsPieced
    <3> QED BY <2>1, <3>1
  <2>4. StandsFor(p, c) /\ c \in 1..255
    BY <1>3, <2>1
  <2>5. SubSeq(str, 1, h) = Append(SubSeq(str, 1, k), str[h])
    BY <1>1, <2>1, OneMore DEF n
  <2> HIDE DEF p, c, l, t, h
  <2>6. l + Len(p) <= Len(R)
    BY <2>3
  <2>7. Gives(u, l + Len(p), Append(t, c))
    <3>1. R \in Text /\ ReadTrace(u, R) /\ l \in Nat /\ c \in 1..255 /\ StandsFor(p, c)
      BY <1>4, <1>5, <2>3, <2>4, Zenon
    <3>2. \A i \in 1..Len(p) : R[l + i] = p[i]
      BY <2>3, Zenon
    <3> HIDE DEF G, At
    <3>3. HasAt(R, l, p)
      BY <2>6, <3>2, Zenon DEF HasAt
    <3> QED BY <2>2, <3>1, <3>3, PieceIsRead, ZenonT(60)
  <2>8. u[L[h]] = At(SubSeq(str, 1, h))
    BY <2>3, <2>5, <2>7, Zenon DEF t, c, Gives
  <2> QED BY <2>1, <2>8 DEF h
<1>8. \A k \in 0..n : k \in G
  <2> HIDE DEF G
  <2> QED BY <1>1, <1>6, <1>7, Counting
<1>9. u[Len(R)].text = SubSeq(str, 1, n)
  <2>1. n \in 0..n
    BY <1>1
  <2>2. u[L[n]] = At(SubSeq(str, 1, n))
    BY <1>8, <2>1
  <2>3. u[Len(R)] = At(SubSeq(str, 1, n))
    BY <1>4, <2>2, Zenon
  <2>4. At(SubSeq(str, 1, n)).text = SubSeq(str, 1, n)
    OBVIOUS
  <2> HIDE DEF At
  <2> QED BY <2>3, <2>4, Zenon
<1>10. SubSeq(str, 1, n) = str
  BY <1>1, SubSeqFull DEF n
<1> QED BY <1>5, <1>9, <1>10 DEF R

(* The byte that a piece of one byte puts into the text.                   *)
LEMMA SinglePiece ==
  ASSUME NEW R, NEW P, NEW L, NEW n \in Nat, IsPieced(R, P, L, n), NEW h \in 1..n, NEW c, P[h] = <<c>>
  PROVE  L[h - 1] \in Nat /\ L[h] = L[h - 1] + 1 /\ L[h] \in 1..Len(R) /\ R[L[h]] = c
<1>1. /\ L[h - 1] \in Nat /\ L[h] = L[h - 1] + Len(P[h]) /\ L[h] <= Len(R)
      /\ \A i \in 1..Len(P[h]) : R[L[h - 1] + i] = P[h][i]
  BY DEF IsPieced
<1>2. Len(P[h]) = 1 /\ P[h][1] = c
  OBVIOUS
<1>3. R \in Text /\ Len(R) \in Nat
  BY Characters DEF IsPieced
<1>4. R[L[h - 1] + 1] = c /\ L[h] = L[h - 1] + 1
  BY <1>1, <1>2
<1> QED BY <1>1, <1>3, <1>4

(* A byte of such a character is no control character.                     *)
LEMMA NotControl ==
  ASSUME NEW c \in 1..255, c >= 128
  PROVE  ~(c < 32)
OBVIOUS

(* The bytes of characters that the flags let be.                          *)
LEMMA KeptByte ==
  ASSUME NEW str \in Text, NEW flags, NEW signed, NEW i \in ValidBytes(str), str[i] >= 128,
         "ESCAPE_NON_ASCII" \notin flags, ~("ESCAPE_CTRL" \in flags /\ signed)
  PROVE  i \in 1..Len(str) /\ PieceOf(str, flags, signed, i) = <<str[i]>>
<1>1. i \in 1..Len(str) /\ str[i] \in 1..255
  BY Characters DEF ValidBytes
<1>2. str[i] # Backslash
  BY <1>1 DEF Backslash
<1>3. ~Unwanted(str[i], flags, signed)
  <2>1. ~(str[i] < 32)
    <3> DEFINE c == str[i]
    <3>1. c >= 128 /\ c \in 1..255
      BY <1>1, Zenon
    <3> HIDE DEF c
    <3> QED BY <3>1, NotControl DEF c
  <2> QED BY <2>1, Zenon DEF Unwanted
<1> QED BY <1>1, <1>2, <1>3, Zenon DEF PieceOf

(* Where a byte of an escaped text comes from: it spells one, or it was    *)
(* there as a valid one that the flags let be.                             *)
LEMMA EscapedByte ==
  ASSUME NEW str \in Text, NEW flags, NEW signed, NEW L, NEW R,
         IsPieced(R, Pieces(str, flags, signed), L, Len(str)), NEW x \in 1..Len(R)
  PROVE  \/ R[x] = Backslash \/ R[x] \in 48..55
         \/ \E h \in 1..Len(str) :
              /\ h \in ValidBytes(str) /\ ~Unwanted(str[h], flags, signed)
              /\ PieceOf(str, flags, signed, h) = <<str[h]>> /\ x = L[h] /\ R[x] = str[h]
<1> DEFINE P == Pieces(str, flags, signed)
           n == Len(str)
<1>1. n \in Nat
  BY Characters
<1>2. PICK h \in 1..n : \E i \in 1..Len(P[h]) : x = L[h - 1] + i
  BY DEF IsPieced
<1>3. PICK i \in 1..Len(P[h]) : x = L[h - 1] + i
  BY <1>2
<1>4. R[x] = P[h][i]
  BY <1>3 DEF IsPieced
<1>5. P[h] = PieceOf(str, flags, signed, h) /\ str[h] \in 1..255
  BY Characters DEF Pieces
<1>6. \/ P[h] = StrAppendEscape(str[h]) \/ P[h] = <<Backslash, Backslash>>
      \/ P[h] = <<str[h]>> /\ h \in ValidBytes(str) /\ ~Unwanted(str[h], flags, signed)
  BY <1>5, Zenon DEF PieceOf
<1> HIDE DEF P, n
<1>7. CASE P[h] = StrAppendEscape(str[h])
  <2>1. IsOctal(P[h], str[h])
    BY <1>5, <1>7, EscapedIsOctal
  <2>2. i = 1 \/ i = 2 \/ i = 3 \/ i = 4
    BY <2>1 DEF IsOctal
  <2>3. P[h][1] = Backslash /\ P[h][2] \in 48..55 /\ P[h][3] \in 48..55 /\ P[h][4] \in 48..55
    BY <2>1 DEF IsOctal
  <2> QED BY <1>4, <2>2, <2>3
<1>8. CASE P[h] = <<Backslash, Backslash>>
  <2>1. Len(P[h]) = 2 /\ P[h][1] = Backslash /\ P[h][2] = Backslash
    BY <1>8
  <2>2. i = 1 \/ i = 2
    BY <2>1
  <2> QED BY <1>4, <2>1, <2>2
<1>9. CASE P[h] = <<str[h]>> /\ h \in ValidBytes(str) /\ ~Unwanted(str[h], flags, signed)
  <2>1. Len(P[h]) = 1 /\ P[h][1] = str[h]
    BY <1>9
  <2>2. i = 1
    BY <2>1
  <2>3. R[x] = str[h]
    BY <1>4, <2>1, <2>2
  <2>4. L[h] = L[h - 1] + 1
    <3>1. IsPieced(R, P, L, n)
      BY DEF P, n
    <3> QED BY <1>1, <1>9, <3>1, SinglePiece
  <2>5. x = L[h]
    BY <1>3, <2>2, <2>4
  <2>6. PieceOf(str, flags, signed, h) = <<str[h]>> /\ h \in 1..Len(str)
    BY <1>5, <1>9, Zenon DEF n
  <2> QED BY <1>9, <2>3, <2>5, <2>6, Zenon
<1> QED BY <1>6, <1>7, <1>8, <1>9

-----------------------------------------------------------------------------
(* The bytes of an escaped text: none that the flags do not want, and only *)
(* those of characters, with the characters that the flags let be.         *)
EscapedBytes(str, flags, signed, r) ==
  LET ctrl == "ESCAPE_CTRL" \in flags
      other == "ESCAPE_NON_ASCII" \in flags
  IN /\ r \in Text /\ ValidBytes(r) = DOMAIN r
     /\ ctrl => \A i \in DOMAIN r : r[i] >= 32
     /\ other => \A i \in DOMAIN r : r[i] < 127
     /\ ~other /\ ~(ctrl /\ signed) =>
          \A i \in ValidBytes(str) : str[i] >= 128 => str[i] \in ToSet(r)

(* Steps of the arithmetic of bytes.                                       *)
LEMMA NotBelow ==
  ASSUME NEW c \in 1..255, ~(c < 128)
  PROVE  c >= 128
OBVIOUS

LEMMA NotLow ==
  ASSUME NEW c \in 1..255, c >= 128
  PROVE  ~(c < 128)
OBVIOUS

LEMMA AtLeast ==
  ASSUME NEW c, c \in 128..191 \/ c \in 194..223
  PROVE  c >= 128
OBVIOUS

LEMMA Cancels ==
  ASSUME NEW k \in Nat
  PROVE  (k + 1) - 1 = k
OBVIOUS

(* A byte that the flags let be is none that they exclude.                 *)
LEMMA WantedByte ==
  ASSUME NEW c \in 1..255, NEW flags, NEW signed \in BOOLEAN, ~Unwanted(c, flags, signed)
  PROVE  /\ "ESCAPE_CTRL" \in flags => c >= 32
         /\ "ESCAPE_NON_ASCII" \in flags => c < 127
         /\ c >= 128 => "ESCAPE_NON_ASCII" \notin flags /\ ~("ESCAPE_CTRL" \in flags /\ signed)
<1>1. ~(c < 32) => c >= 32
  OBVIOUS
<1>2. ~(c >= 127) => c < 127
  OBVIOUS
<1>3. c >= 128 => c >= 127
  OBVIOUS
<1> QED BY <1>1, <1>2, <1>3, Zenon DEF Unwanted

(* The bytes of characters: one byte up to 127, or the two bytes of a pair. *)
LeadAt(t, i) == i \in DOMAIN t /\ t[i] \in 194..223
MoreAt(t, i) == i \in DOMAIN t /\ t[i] \in 128..191

LEMMA ValidByte ==
  ASSUME NEW t, NEW i
  PROVE  i \in ValidBytes(t) <=> /\ i \in DOMAIN t
                                 /\ \/ t[i] < 128
                                    \/ LeadAt(t, i) /\ MoreAt(t, i + 1)
                                    \/ MoreAt(t, i) /\ LeadAt(t, i - 1)
BY DEF ValidBytes, LeadAt, MoreAt

(* The neighbour of a byte of a character of two bytes is one, too.        *)
LEMMA PairOfBytes ==
  ASSUME NEW t \in Text, NEW i \in ValidBytes(t), t[i] >= 128
  PROVE  \/ i + 1 \in ValidBytes(t) /\ MoreAt(t, i + 1) /\ LeadAt(t, i)
         \/ i - 1 \in ValidBytes(t) /\ LeadAt(t, i - 1) /\ MoreAt(t, i)
<1>1. i \in DOMAIN t /\ (t[i] < 128 \/ (LeadAt(t, i) /\ MoreAt(t, i + 1)) \/ (MoreAt(t, i) /\ LeadAt(t, i - 1)))
  BY ValidByte, Zenon
<1>2. i \in 1..Len(t) /\ t[i] \in 1..255
  BY <1>1, Characters, Zenon
<1>3. ~(t[i] < 128)
  BY <1>2, NotLow, Zenon
<1>4. (i + 1) - 1 = i /\ (i - 1) + 1 = i
  BY <1>2
<1>5. CASE LeadAt(t, i) /\ MoreAt(t, i + 1)
  <2>1. i + 1 \in DOMAIN t
    BY <1>5, Zenon DEF MoreAt
  <2>2. MoreAt(t, i + 1) /\ LeadAt(t, (i + 1) - 1)
    BY <1>4, <1>5, Zenon
  <2>3. i + 1 \in ValidBytes(t)
    BY <2>1, <2>2, ValidByte, Zenon
  <2> QED BY <1>5, <2>3, Zenon
<1>6. CASE MoreAt(t, i) /\ LeadAt(t, i - 1)
  <2>1. i - 1 \in DOMAIN t
    BY <1>6, Zenon DEF LeadAt
  <2>2. LeadAt(t, i - 1) /\ MoreAt(t, (i - 1) + 1)
    BY <1>4, <1>6, Zenon
  <2>3. i - 1 \in ValidBytes(t)
    BY <2>1, <2>2, ValidByte, Zenon
  <2> QED BY <1>6, <2>3, Zenon
<1> QED BY <1>1, <1>3, <1>5, <1>6, Zenon

(* Bytes up to 127 are characters, and so are pairs of higher ones.        *)
LEMMA BytesAreValid ==
  ASSUME NEW r \in Text,
         \A x \in 1..Len(r) : \/ r[x] < 128
                              \/ LeadAt(r, x) /\ MoreAt(r, x + 1)
                              \/ MoreAt(r, x) /\ LeadAt(r, x - 1)
  PROVE  ValidBytes(r) = DOMAIN r
<1>1. DOMAIN r = 1..Len(r)
  BY Characters
<1>2. \A x \in ValidBytes(r) : x \in DOMAIN r
  BY ValidByte, Zenon
<1>3. \A x \in DOMAIN r : x \in ValidBytes(r)
  BY <1>1, ValidByte, Zenon
<1> QED BY <1>2, <1>3, Zenon

(* That is how nm_utils_str_utf8safe_escape leaves a text, for every text. *)
THEOREM EscapeLeavesText ==
  ASSUME NEW str \in Text, NEW flags, NEW signed \in BOOLEAN
  PROVE  EscapedBytes(str, flags, signed, Utf8SafeEscape(str, flags, signed))
<1> DEFINE R == Utf8SafeEscape(str, flags, signed)
           P == Pieces(str, flags, signed)
           n == Len(str)
           ctrl == "ESCAPE_CTRL" \in flags
           other == "ESCAPE_NON_ASCII" \in flags
<1>1. n \in Nat /\ DOMAIN str = 1..n /\ \A h \in 1..n : str[h] \in 1..255
  BY Characters
<1>2. PICK L : IsPieced(R, P, L, n)
  BY EscapedIsPieced
<1> DEFINE Comes(x, h) == /\ h \in ValidBytes(str) /\ ~Unwanted(str[h], flags, signed)
                          /\ x = L[h] /\ R[x] = str[h]
<1>3. \A x \in 1..Len(R) : \/ R[x] = Backslash \/ R[x] \in 48..55
                           \/ \E h \in 1..n : Comes(x, h)
  BY <1>2, EscapedByte
<1>4. R \in Text /\ DOMAIN R = 1..Len(R) /\ Len(R) \in Nat /\ \A x \in 1..Len(R) : R[x] \in 1..255
  <2>1. R \in Text
    BY <1>2, Zenon DEF IsPieced
  <2> QED BY <2>1, Characters, Zenon
<1>5. ASSUME NEW i \in ValidBytes(str), str[i] >= 128, ~other, ~(ctrl /\ signed)
      PROVE  i \in 1..n /\ L[i - 1] \in Nat /\ L[i] = L[i - 1] + 1 /\ L[i] \in 1..Len(R) /\ R[L[i]] = str[i]
  <2>1. i \in 1..n /\ PieceOf(str, flags, signed, i) = <<str[i]>>
    BY <1>5, KeptByte, Zenon
  <2>2. P[i] = <<str[i]>>
    BY <2>1 DEF Pieces
  <2> HIDE DEF P, R, n
  <2>3. /\ L[i - 1] \in Nat /\ L[i] = L[i - 1] + 1
        /\ L[i] \in 1..Len(R) /\ R[L[i]] = str[i]
    BY <1>1, <1>2, <2>1, <2>2, SinglePiece
  <2> QED BY <2>1, <2>3, Zenon
<1> HIDE DEF R, P, n, ctrl, other
<1>6. ASSUME NEW x \in 1..Len(R), NEW h \in 1..n, Comes(x, h)
      PROVE  /\ ctrl => R[x] >= 32
             /\ other => R[x] < 127
             /\ R[x] >= 128 => ~other /\ ~(ctrl /\ signed)
  <2>1. str[h] \in 1..255 /\ ~Unwanted(str[h], flags, signed) /\ R[x] = str[h]
    BY <1>1, <1>6
  <2> QED BY <2>1, WantedByte, Zenon DEF ctrl, other
<1>7. ASSUME NEW x \in 1..Len(R), R[x] = Backslash \/ R[x] \in 48..55
      PROVE  R[x] >= 32 /\ R[x] < 127 /\ R[x] < 128
  BY <1>7 DEF Backslash
<1> HIDE DEF Comes
<1>8. ctrl => \A x \in DOMAIN R : R[x] >= 32
  BY <1>3, <1>4, <1>6, <1>7, Zenon
<1>9. other => \A x \in DOMAIN R : R[x] < 127
  BY <1>3, <1>4, <1>6, <1>7, Zenon
<1>10. ~other /\ ~(ctrl /\ signed) => \A i \in ValidBytes(str) : str[i] >= 128 => str[i] \in ToSet(R)
  BY <1>4, <1>5, Zenon DEF ToSet
<1>11. ASSUME NEW x \in 1..Len(R)
       PROVE  \/ R[x] < 128
              \/ LeadAt(R, x) /\ MoreAt(R, x + 1)
              \/ MoreAt(R, x) /\ LeadAt(R, x - 1)
  <2>1. SUFFICES ASSUME ~(R[x] < 128)
                 PROVE  (LeadAt(R, x) /\ MoreAt(R, x + 1)) \/ (MoreAt(R, x) /\ LeadAt(R, x - 1))
    OBVIOUS
  <2>2. PICK h \in 1..n : Comes(x, h)
    BY <1>3, <1>7, <2>1, Zenon
  <2>3. h \in ValidBytes(str) /\ x = L[h] /\ R[x] = str[h]
    BY <2>2, Zenon DEF Comes
  <2>4. R[x] >= 128
    <3>1. R[x] \in 1..255
      BY <1>4
    <3> QED BY <2>1, <3>1, NotBelow
  <2>5. ~other /\ ~(ctrl /\ signed) /\ str[h] >= 128
    BY <1>6, <2>2, <2>3, <2>4, Zenon
  <2>6. L[h - 1] \in Nat /\ L[h] = L[h - 1] + 1
    BY <1>5, <2>3, <2>5, Zenon
  <2>7. CASE h + 1 \in ValidBytes(str) /\ MoreAt(str, h + 1) /\ LeadAt(str, h)
    <3>1. str[h + 1] >= 128 /\ str[h + 1] \in 128..191 /\ str[h] \in 194..223
      <4>1. str[h + 1] \in 128..191 /\ str[h] \in 194..223
        BY <2>7, Zenon DEF MoreAt, LeadAt
      <4> QED BY <4>1, AtLeast
    <3>2. /\ L[(h + 1) - 1] \in Nat /\ L[h + 1] = L[(h + 1) - 1] + 1
          /\ L[h + 1] \in 1..Len(R) /\ R[L[h + 1]] = str[h + 1]
      BY <1>5, <2>5, <2>7, <3>1, Zenon
    <3>3. (h + 1) - 1 = h
      BY <1>1, Cancels
    <3>4. L[h + 1] = x + 1
      BY <2>3, <3>2, <3>3, Zenon
    <3>5. x + 1 \in DOMAIN R /\ R[x + 1] = str[h + 1] /\ x \in DOMAIN R
      BY <1>4, <3>2, <3>4, Zenon
    <3>6. R[x + 1] \in 128..191 /\ R[x] \in 194..223
      BY <2>3, <3>1, <3>5
    <3>7. MoreAt(R, x + 1)
      BY <3>5, <3>6, Zenon DEF MoreAt
    <3>8. LeadAt(R, x)
      BY <3>5, <3>6, Zenon DEF LeadAt
    <3> QED BY <3>7, <3>8, Zenon
  <2>8. CASE h - 1 \in ValidBytes(str) /\ LeadAt(str, h - 1) /\ MoreAt(str, h)
    <3>1. str[h - 1] >= 128 /\ str[h - 1] \in 194..223 /\ str[h] \in 128..191
      <4>1. str[h - 1] \in 194..223 /\ str[h] \in 128..191
        BY <2>8, Zenon DEF MoreAt, LeadAt
      <4> QED BY <4>1, AtLeast
    <3>2. L[h - 1] \in 1..Len(R) /\ R[L[h - 1]] = str[h - 1]
      BY <1>5, <2>5, <2>8, <3>1, Zenon
    <3>3. L[h - 1] = x - 1
      <4>1. L[h - 1] \in Nat /\ x = L[h - 1] + 1
        BY <2>3, <2>6, Zenon
      <4> QED BY <4>1, Cancels
    <3>4. x - 1 \in DOMAIN R /\ R[x - 1] = str[h - 1] /\ x \in DOMAIN R
      BY <1>4, <3>2, <3>3, Zenon
    <3>5. R[x - 1] \in 194..223 /\ R[x] \in 128..191
      BY <2>3, <3>1, <3>4
    <3>6. MoreAt(R, x)
      BY <3>4, <3>5, Zenon DEF MoreAt
    <3>7. LeadAt(R, x - 1)
      BY <3>4, <3>5, Zenon DEF LeadAt
    <3> QED BY <3>6, <3>7, Zenon
  <2>9. \/ h + 1 \in ValidBytes(str) /\ MoreAt(str, h + 1) /\ LeadAt(str, h)
        \/ h - 1 \in ValidBytes(str) /\ LeadAt(str, h - 1) /\ MoreAt(str, h)
    BY <2>3, <2>5, PairOfBytes, Zenon
  <2> QED BY <2>7, <2>8, <2>9, Zenon
<1>12. ValidBytes(R) = DOMAIN R
  BY <1>4, <1>11, BytesAreValid, Zenon
<1> QED BY <1>4, <1>8, <1>9, <1>10, <1>12, Zenon DEF EscapedBytes, R, ctrl, other

-----------------------------------------------------------------------------
(* What is said of escaped texts.                                          *)
EscapeAnswer(i, r) ==
  i.op = "escape" /\ i.str # Null =>
    LET ctrl == "ESCAPE_CTRL" \in i.flags
        other == "ESCAPE_NON_ASCII" \in i.flags
    IN /\ Utf8SafeUnescape(r) = i.str
       /\ r # <<>> => StrToGvariant(r) = r
       /\ ctrl => \A x \in DOMAIN r : r[x] >= 32
       /\ other => \A x \in DOMAIN r : r[x] < 127
       /\ ~other /\ ~(ctrl /\ i.signed) =>
            \A x \in ValidBytes(i.str) : i.str[x] >= 128 => i.str[x] \in ToSet(r)
       /\ Owned("escape", i.str, r) = {} <=> r = i.str
       /\ Cardinality(Owned("take", i.str, r)) = 1

(* Who has to free what.                                                   *)
LEMMA OwnedOnce ==
  ASSUME NEW str, NEW r
  PROVE  (Owned("escape", str, r) = {} <=> r = str) /\ Cardinality(Owned("take", str, r)) = 1
<1>1. Owned("escape", str, r) = IF r = str THEN {} ELSE {"new"}
  BY DEF Owned
<1>2. Owned("take", str, r) = IF r = str THEN {"str"} ELSE {"new"}
  BY DEF Owned
<1>3. Cardinality({"str"}) = 1 /\ Cardinality({"new"}) = 1
  BY FS_Singleton
<1> QED BY <1>1, <1>2, <1>3

(* It is what nm_utils_str_utf8safe_escape gives.                          *)
LEMMA EscapesAreAnswered ==
  ASSUME NEW i \in Inputs, NEW r, IsAnswer(i, r)
  PROVE  EscapeAnswer(i, r)
<1> SUFFICES ASSUME i.op = "escape", i.str # Null PROVE EscapeAnswer(i, r)
  BY Zenon DEF EscapeAnswer
<1> DEFINE str == i.str
           flags == i.flags
           signed == i.signed
<1>1. str \in Text /\ signed \in BOOLEAN
  BY InputsAssumption DEF TextOrNot
<1>2. r = Utf8SafeEscape(str, flags, signed)
  BY Zenon DEF IsAnswer
<1>3. Utf8SafeUnescape(r) = str
  BY <1>1, <1>2, EscapeReverts
<1>4. EscapedBytes(str, flags, signed, r)
  BY <1>1, <1>2, EscapeLeavesText
<1>5. r # <<>> => StrToGvariant(r) = r
  BY <1>4, Zenon DEF EscapedBytes, StrToGvariant
<1>6. (Owned("escape", str, r) = {} <=> r = str) /\ Cardinality(Owned("take", str, r)) = 1
  BY OwnedOnce
<1> QED BY <1>3, <1>4, <1>5, <1>6, Zenon DEF EscapeAnswer, EscapedBytes

(* Escaped texts are UTF-8 and revert to what was escaped, in every state. *)
THEOREM EscapesStayReverted == Spec => []EscapesRevert
<1>1. Init => EscapesRevert
  BY DEF Init, Idle, EscapesRevert
<1>2. EscapesRevert <=> EscapeAnswer(call, result)
  BY Zenon DEF EscapesRevert, EscapeAnswer
<1>3. EscapesRevert' <=> EscapeAnswer(call', result')
  BY Zenon DEF EscapesRevert, EscapeAnswer
<1>4. ASSUME EscapesRevert, [Next]_vars PROVE EscapesRevert'
  <2>1. CASE UNCHANGED vars
    BY <1>2, <1>3, <1>4, <2>1, Zenon DEF vars
  <2>2. CASE call' = Idle
    BY <2>2 DEF Idle, EscapesRevert
  <2>3. CASE call' \in Inputs /\ IsAnswer(call', result')
    BY <1>3, <2>3, EscapesAreAnswered, Zenon
  <2> QED BY <1>4, <2>1, <2>2, <2>3, CallsAreAnswered
<1> QED BY <1>1, <1>4, PTL DEF Spec
=============================================================================
