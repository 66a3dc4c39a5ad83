------------------------------ MODULE TextCalls ------------------------------
(***************************************************************************)
(* Calls of the text utilities, one at a time, with any inputs the callers *)
(* of each may give it.  The invariants say of each call what its result   *)
(* has to be, in terms of the input alone.                                 *)
(***************************************************************************)
EXTENDS Buffers, Addresses, Objects, Messages

CONSTANT Inputs  \* the calls that may be made, with their inputs

Text      == Seq(1..255)
TextOrNot == Text \union {Null}
Int64     == -MaxInt64 - 1..MaxInt64
Families  == {AF_UNSPEC, AF_INET, AF_INET6, "other"}

(* A field of /proc/<pid>/stat behind the name: no blank, no parenthesis. *)
Field == {f \in Seq((1..255) \ {32, 41}) : f # <<>>}

(* The names of an enumeration: they are different, fit into the buffer,   *)
(* and none looks like a number.                                           *)
AreNames(names) ==
  /\ DOMAIN names \subseteq 0..9
  /\ \A v \in DOMAIN names :
       /\ names[v] \in Text /\ names[v] # <<>> /\ names[v][1] # 40
       /\ Len(names[v]) < StaticSize
       /\ \A w \in DOMAIN names : names[v] = names[w] => v = w

(* What the callers of each utility may give it. *)
ASSUME InputsAssumption ==
  \A i \in Inputs :
    /\ i.op = "number"   => i.str \in TextOrNot /\ i.range \in Int64 \X Int64
    /\ i.op = "bool"     => i.str \in TextOrNot /\ i.default \in Int
    /\ i.op = "levels"   => {i.level, i.syslog} \subseteq TextOrNot /\ i.debug \in BOOLEAN
    /\ i.op = "start_as" => /\ i.args \in Seq(Options) /\ {i.debug, i.named} \subseteq BOOLEAN
                            /\ {i.level, i.syslog} \subseteq TextOrNot
    /\ i.op = "split"    => {i.str, i.delimiters} \subseteq TextOrNot
    /\ i.op = "cleanup"  => i.strv \in Seq(Text) /\ {i.strip, i.empty, i.repeated} \subseteq BOOLEAN
    /\ i.op = "strip"    => i.str \in TextOrNot
    /\ i.op = "sort"     => i.strv \in Seq(Text) /\ i.len \in Int /\ i.len <= Len(i.strv)
    /\ i.op = "dict"     => /\ IsFiniteSet(DOMAIN i.hash) /\ DOMAIN i.hash \subseteq Text
                            /\ i.compared \in BOOLEAN
    /\ i.op = "start"    => i.name \in Text /\ i.fields \in Seq(Field) /\ i.want \in BOOLEAN
    /\ i.op = "compare"  => i.paths \in TextOrNot \X TextOrNot \X TextOrNot
    /\ i.op = "address"  => /\ i.family \in Families /\ i.text.prefix \in Text
                            /\ i.text \in AddressTexts({i.text.prefix})
    /\ i.op = "netmask"  => i.prefix \in Nat
    /\ i.op = "class"    => i.ip \in (0..255) \X (0..255)
    /\ i.op = "append"   => i.size \in Nat /\ i.one \in Text /\ i.two \in TextOrNot /\ i.c \in 1..255
    /\ i.op = "quote"    => i.size \in Nat /\ i.str \in TextOrNot
    /\ i.op = "flags"    => /\ i.descs \in Seq([name : Text \ {<<>>}, flag : SUBSET (0..3)])
                            /\ i.flags \in SUBSET (0..3) /\ i.size \in Nat \union {NoBuffer}
    /\ i.op = "enum"     => AreNames(i.names) /\ i.val \in 0..9 /\ i.size \in Nat \union {NoBuffer}
    /\ i.op = "name"     => {i.before, i.after, i.name} \subseteq Text
    /\ i.op = "escape"   => /\ i.str \in TextOrNot /\ i.signed \in BOOLEAN
                            /\ i.flags \in SUBSET {"ESCAPE_CTRL", "ESCAPE_NON_ASCII"}
    /\ i.op \in {"connect", "hosts"} => i.lines \in Seq(Line)
    /\ i.op = "disconnect" => i.lines \in Seq(Line) /\ i.connected \in BOOLEAN
    /\ i.op = "set"      => /\ i.how \in {"value", "boolean", "uint"} /\ i.name \in {"p", "q"}
                            /\ i.value \in [type : Types, n : Nat] /\ i.pspec \in ParamSpec
                            /\ i.how = "value" /\ i.value.type = "bool" => i.value.n < 2
    /\ i.op = "cancel"   => {i.disposing, i.consider} \subseteq BOOLEAN

VARIABLES
  call,   \* the utility that is called, and its inputs
  result  \* what it gives

vars == <<call, result>>

Idle == [op |-> "idle"]
Init == call = Idle /\ result = Null

Calls(op, Result(_)) ==
  /\ call = Idle
  /\ \E i \in Inputs : i.op = op /\ call' = i /\ result' = Result(i)

Return == call # Idle /\ call' = Idle /\ result' = Null

-----------------------------------------------------------------------------
Number     == Calls("number", LAMBDA i : AsciiStrToInt64(i.str, i.range[1], i.range[2], 1))
TruthValue == Calls("bool", LAMBDA i : AsciiStrToBool(i.str, i.default))
Levels     == Calls("levels", LAMBDA i : LogLevels(i.level, i.syslog, i.debug))
Starting   == Calls("start_as", LAMBDA i : StartedAs(i.args, i.debug, i.level, i.syslog, i.named))
Split      == Calls("split", LAMBDA i : StrsplitSet(i.str, i.delimiters))
Cleanup    == Calls("cleanup", LAMBDA i : StrvCleanup(i.strv, i.strip, i.empty, i.repeated))
Stripping  == Calls("strip", LAMBDA i : StrstripAvoidCopy(i.str))
Sort       == Calls("sort", LAMBDA i : StrvSort(i.strv, i.len))
Dictionary == Calls("dict", LAMBDA i : [named |-> NamedValuesFromStrDict(i.hash),
                                        keys  |-> StrdictGetKeys(i.hash, i.compared)])

(* /proc/<pid>/stat of process 7. *)
Stat(i) == <<55, 32, 40>> \o i.name \o <<41>> \o FoldLeft(LAMBDA s, f : s \o <<32>> \o f, <<>>, i.fields)
StartTime  == Calls("start", LAMBDA i : StartTimeForPid(Stat(i), i.want))

Compare ==
  Calls("compare", LAMBDA i : [ab |-> DbusPathCmp(i.paths[1], i.paths[2]),
                               ba |-> DbusPathCmp(i.paths[2], i.paths[1]),
                               bc |-> DbusPathCmp(i.paths[2], i.paths[3]),
                               ac |-> DbusPathCmp(i.paths[1], i.paths[3])])
Address ==
  Calls("address", LAMBDA i : [whole  |-> ParseInaddr(i.family, i.text),
                               prefix |-> ParseInaddrPrefix(i.family, i.text),
                               sent   |-> AddrToGvariant(i.family, i.text)])
Netmask == Calls("netmask", LAMBDA i : PrefixToNetmask(i.prefix))
Class   == Calls("class", LAMBDA i : [prefix  |-> DefaultPrefix(i.ip),
                                      private |-> IpIsSiteLocal(AF_INET, i.ip)])

Appending ==
  Calls("append", LAMBDA i :
    StrbufAppendC(StrbufAppendStr(StrbufAppend(StrbufInit(i.size), i.one), i.two), i.c))
Quoting     == Calls("quote", LAMBDA i : Strquote(i.size, i.str))
Flagging    == Calls("flags", LAMBDA i : Flags2Str(i.descs, i.flags, i.size))
Enumerating == Calls("enum", LAMBDA i : Enum2Str(i.names, i.val, i.size))
Naming      == Calls("name", LAMBDA i : ConstructName(i.before, i.after, i.name))
Escaping    == Calls("escape", LAMBDA i : Utf8SafeEscape(i.str, i.flags, i.signed))

Connecting    == Calls("connect", LAMBDA i : ConnectFeedback(i.lines))
Disconnecting == Calls("disconnect", LAMBDA i : DisconnectFeedback(i.connected, i.lines))
Listing       == Calls("hosts", LAMBDA i : GatewaysOf(i.lines))

(* An object of a class with one property, p. *)
Klass(i) == [p |-> i.pspec]
Object   == [p |-> [type |-> "int", n |-> 0]]

Setting ==
  Calls("set", LAMBDA i :
    CASE i.how = "value"   -> SetProperty(Klass(i), Object, i.name, i.value)
      [] i.how = "boolean" -> SetPropertyBoolean(Klass(i), Object, i.name, i.value.n)
      [] i.how = "uint"    -> SetPropertyUint(Klass(i), Object, i.name, i.value.n))

Cancelling == Calls("cancel", LAMBDA i : ErrorIsCancelled(ErrorSetCancelled(i.disposing), i.consider))

Next ==
  \/ Number \/ TruthValue \/ Levels \/ Starting \/ Split \/ Cleanup \/ Stripping \/ Sort
  \/ Dictionary
  \/ StartTime \/ Compare \/ Address \/ Netmask \/ Class \/ Appending \/ Quoting
  \/ Flagging \/ Enumerating \/ Naming \/ Escaping \/ Connecting \/ Disconnecting \/ Listing
  \/ Setting \/ Cancelling \/ Return

Spec == Init /\ [][Next]_vars

-----------------------------------------------------------------------------
(* The numbers a text spells: what is not white space around it is digits  *)
(* with or without a sign, each of them ten times what is behind it.       *)
Unsigned(m) == IF m # <<>> /\ m[1] \in {43, 45} THEN Tail(m) ELSE m
Numeral(d)  == FoldLeft(LAMBDA n, c : 10 * n + c - 48, 0, d)
Trimmed(str) ==
  {SubSeq(str, p[1], p[2]) : p \in
     {q \in (DOMAIN str) \X (DOMAIN str) : \A k \in DOMAIN str \ (q[1]..q[2]) : str[k] \in Spaces}}
Spelled(str) ==
  IF str = Null THEN {}
  ELSE {(IF m[1] = 45 THEN -1 ELSE 1) * Numeral(Unsigned(m)) :
          m \in {t \in Trimmed(str) : Unsigned(t) # <<>> /\ ToSet(Unsigned(t)) \subseteq Digits}}

(* str is the word w, with any letters as capitals. *)
Cased(w, str) ==
  Len(w) = Len(str) /\ \A k \in DOMAIN w : str[k] = w[k] \/ (w[k] \in 97..122 /\ str[k] = w[k] - 32)

(* _nm_utils_ascii_str_to_int64 gives the number a text spells if it is in *)
(* the range, and the fallback with an error for every other text, however *)
(* it begins or ends; truth values are read whole, too, in any case.  So   *)
(* an environment variable of main that is no log level is as good as      *)
(* none, and warnings are logged unless a lower level is asked for; the    *)
(* service is debugged alike by an option and by a variable, in whatever   *)
(* order the options come.                                                 *)
NumbersAreStrict ==
  /\ call.op = "number" =>
       LET numbers == {n \in Spelled(call.str) : call.range[1] <= n /\ n <= call.range[2]} IN
       IF numbers = {} THEN result.errno # "0" /\ result.value = 1
       ELSE result.errno = "0" /\ numbers = {result.value}
  /\ call.op = "bool" =>
       LET Says(W) == \E i, j \in 0..Len(call.str) :
                        /\ \A k \in DOMAIN call.str \ (i + 1)..j : call.str[k] \in Spaces
                        /\ \E w \in W : Cased(w, SubSeq(call.str, i + 1, j))
       IN result = IF Says(TrueWords) THEN 1 ELSE IF Says(FalseWords) THEN 0 ELSE call.default
  /\ call.op = "levels" =>
       /\ (Spelled(call.level) \cap 0..7 = {} =>
              result = LogLevels(Null, call.syslog, call.debug))
       /\ LOG_WARNING \notin Logged(result) => Spelled(call.level) \cap 0..3 # {}
       /\ result.log_syslog \in {0, 1}
  /\ call.op = "start_as" =>
       LET Anew(args, debug) == StartedAs(args, debug, call.level, call.syslog, call.named) IN
       /\ result.exit = "no" =>
            /\ result = Anew(Reverse(call.args), call.debug)
            /\ ~call.debug => Anew(call.args, TRUE) = Anew(<<"debug">> \o call.args, FALSE)
       /\ result.exit = "no" <=> call.named /\ {"help", "unknown"} \cap ToSet(call.args) = {}

(* The words of nm_utils_strsplit_set are the stretches of characters that *)
(* are no delimiters, from where one begins to where it ends, all of them  *)
(* and in their order; there is room for all of them when the first        *)
(* allocation was too small.                                               *)
WordsAreSplit ==
  call.op = "split" =>
    LET str  == IF call.str = Null THEN <<>> ELSE call.str
        None == IF call.delimiters = Null THEN {9, 10, 32} ELSE ToSet(call.delimiters)
        begins == {i \in DOMAIN str : str[i] \notin None /\ (i = 1 \/ str[i - 1] \in None)}
    IN /\ Len(result.words) = Cardinality(begins)
       /\ \A i \in begins : \E j \in i..Len(str) :
            /\ result.words[Cardinality(begins \cap 1..i)] = SubSeq(str, i, j)
            /\ \A x \in i..j : str[x] \notin None
            /\ j = Len(str) \/ str[j + 1] \in None
       /\ Len(result.words) <= result.alloc

Ascending(s) == \A i, j \in DOMAIN s : i < j => Strcmp(s[i], s[j]) <= 0
SameTexts(s, t) == \A x \in ToSet(s) \union ToSet(t) :
  Cardinality({i \in DOMAIN s : s[i] = x}) = Cardinality({i \in DOMAIN t : t[i] = x})

(* _nm_utils_strv_cleanup keeps the first of every text it keeps, in the   *)
(* order of the list; a text is stripped without a copy if only its start  *)
(* has to go; and what is sorted is in the order of strcmp, with nothing   *)
(* lost or new: lists, a dictionary's values by name and its keys.         *)
ListsAreClean ==
  /\ call.op = "cleanup" =>
       LET texts == [i \in DOMAIN call.strv |-> IF call.strip THEN Strip(call.strv[i]) ELSE call.strv[i]]
           kept  == {i \in DOMAIN texts : /\ call.empty => texts[i] # <<>>
                                          /\ call.repeated => \A j \in 1..i - 1 : texts[j] # texts[i]}
       IN result = [k \in 1..Cardinality(kept) |->
                      texts[CHOOSE i \in kept : Cardinality({j \in kept : j <= i}) = k]]
  /\ call.op = "strip" /\ call.str # Null =>
       /\ \E i, j \in 0..Len(call.str) :
            /\ result.text = SubSeq(call.str, i + 1, j)
            /\ \A k \in DOMAIN call.str \ (i + 1)..j : call.str[k] \in Spaces
            /\ result.free <=> i < j /\ j < Len(call.str)
       /\ result.text = <<>> \/ {result.text[1], Last(result.text)} \cap Spaces = {}
  /\ call.op = "sort" =>
       LET n == IF call.len < 0 THEN Len(call.strv) ELSE call.len IN
       /\ Ascending(SubSeq(result, 1, n)) /\ SameTexts(result, call.strv)
       /\ SubSeq(result, n + 1, Len(result)) = SubSeq(call.strv, n + 1, Len(call.strv))
  /\ call.op = "dict" =>
       IF DOMAIN call.hash = {} THEN result = [named |-> Null, keys |-> {Null}]
       ELSE LET names == [i \in DOMAIN result.named |-> result.named[i].name] IN
            /\ Ascending(names) /\ SameTexts(names, SetToSeq(DOMAIN call.hash))
            /\ \A i \in DOMAIN names : result.named[i].value = call.hash[names[i]]
            /\ \A k \in result.keys : SameTexts(k, names) /\ (call.compared => Ascending(k))

(* nm_utils_get_start_time_for_pid reads the state, the parent and the     *)
(* start of a process whatever its name is, one that looks like the fields *)
(* behind it included; it gives nothing if any of them is wrong.           *)
StartTimeIsNotFooled ==
  call.op = "start" =>
    LET starts == Spelled(call.fields[20]) \cap 1..MaxInt64
        ppids  == IF call.want THEN Spelled(call.fields[2]) \cap 1..MaxInt ELSE {0}
    IN IF Len(call.fields) < 20 \/ starts = {} \/ ppids = {} THEN result = NoProcess
       ELSE /\ starts = {result.start} /\ ppids = {result.ppid}
            /\ result.state = call.fields[1][1]

IsNumber(c) == c # <<>> /\ ToSet(c) \subseteq Digits /\ (Len(c) > 1 => c[1] # 48)

(* nm_utils_dbus_path_cmp orders paths: it says the opposite of swapped    *)
(* paths and 0 of the same path only; among paths with the same beginning  *)
(* it is transitive, and by number where both end in one.                  *)
PathsAreOrdered ==
  call.op = "compare" =>
    LET a == call.paths[1]  b == call.paths[2]  c == call.paths[3]
        Alike(p, q) == Null \notin {p, q} /\ LastSlash(p) > 0 /\ Prefix(p) = Prefix(q)
        m == LastComponent(a)
        n == LastComponent(b)
    IN /\ result.ab = -result.ba
       /\ result.ab = 0 <=> a = b
       /\ Alike(a, b) /\ Alike(b, c) => (result.ab <= 0 /\ result.bc <= 0 => result.ac <= 0)
       /\ Alike(a, b) /\ IsNumber(m) /\ IsNumber(n) =>
            \A x \in Spelled(m), y \in Spelled(n) :
              x <= MaxInt64 /\ y <= MaxInt64 => result.ab = CmpDirect(x, y)

-----------------------------------------------------------------------------
(* nm_utils_parse_inaddr_prefix takes an address of the family asked for,  *)
(* with a prefix length it can have or none, and otherwise leaves what it  *)
(* was given; without a family it takes what it takes for one of the two.  *)
(* The service sends the addresses that nm_utils_parse_inaddr takes.       *)
(* A netmask has as many ones as the prefix says, the first ones, and what *)
(* is private is so for whole networks of its class.                       *)
AddressesAreWhole ==
  /\ call.op = "address" =>
       LET t == call.text
           Fits(f) == t.addr = f /\ (t.slash => Spelled(t.prefix) \cap 0..(8 * AddrFamilyToSize(f)) # {})
           families == {AF_INET, AF_INET6} \cap (IF call.family = AF_UNSPEC THEN Families ELSE {call.family})
       IN /\ result.prefix.ok <=> \E f \in families : Fits(f)
          /\ result.whole.ok <=> result.prefix.ok /\ ~t.slash
          /\ result.prefix.ok /\ t.slash => result.prefix.prefix \in Spelled(t.prefix)
          /\ result.prefix.ok /\ call.family # AF_UNSPEC => result.prefix.addr = t.addr
          /\ ~result.prefix.ok => result.prefix.addr = Untouched /\ result.prefix.prefix = Untouched
          /\ call.family # AF_UNSPEC => (result.sent <=> result.whole.ok)
          /\ ~result.whole.ok => result.whole.addr = Untouched
  /\ call.op = "netmask" =>
       /\ Cardinality(result) = Min({call.prefix, 32})
       /\ \A b \in result : 1..b \subseteq result
  /\ call.op = "class" =>
       \A x \in 0..255 : result.prefix = 8 => IpIsSiteLocal(AF_INET, <<call.ip[1], x>>) = result.private

-----------------------------------------------------------------------------
(* The words that are not empty, with commas between them. *)
Joined(words) ==
  FoldLeft(LAMBDA s, w : s \o (IF s = <<>> \/ w = <<>> THEN w ELSE <<Comma>> \o w), <<>>, words)

(* What is written into a buffer is all there was to write or, where that  *)
(* does not fit, its beginning up to the last place, which is left for the *)
(* end of the text; quoting marks what it cut, like nm_strquote_a does.    *)
(* Names of flags and what is left as a number are all the flags, and what *)
(* is written of an enumeration's value tells which it is.                 *)
OutputIsWhole ==
  /\ call.op = "append" =>
       LET full == call.one \o (IF call.two = Null THEN <<>> ELSE call.two) \o <<call.c>> IN
       /\ result.text = SubSeq(full, 1, Min({Len(full), call.size - 1}))
       /\ result.len = IF Len(full) < call.size THEN call.size - Len(full) ELSE 0
  /\ call.op = "quote" =>
       /\ call.size > 0 => Len(result) < call.size
       /\ call.size >= 3 /\ call.str # Null => result = StrquoteA(call.size - 3, call.str)
  /\ call.op = "flags" =>
       \E named \in SUBSET DOMAIN call.descs :
         LET bits(i) == UNION {call.descs[j].flag : j \in named \cap 1..i}
             rest    == call.flags \ bits(Len(call.descs))
             none    == {i \in DOMAIN call.descs : call.descs[i].flag = {}}
             names   == IF call.flags # {} THEN named ELSE {i \in none : \A j \in none : i <= j}
         IN /\ \A i \in DOMAIN call.descs :
                 LET flag == call.descs[i].flag IN
                 i \in named <=> flag # {} /\ flag \subseteq call.flags \ bits(i - 1)
            /\ result = Strlcpy(Joined([i \in DOMAIN call.descs |->
                                          IF i \in names THEN call.descs[i].name ELSE <<>>]
                                       \o (IF rest = {} THEN <<>> ELSE <<Hex(rest)>>)),
                                ToStringBufferInit(call.size))
  /\ call.op = "enum" =>
       LET whole == Enum2Str(call.names, call.val, NoBuffer)
           named == {v \in DOMAIN call.names : call.names[v] = whole}
       IN /\ result = Strlcpy(whole, ToStringBufferInit(call.size))
          /\ IF named # {} THEN named = {call.val}
             ELSE whole[1] = 40 /\ Spelled(SubSeq(whole, 2, Len(whole) - 1)) = {call.val}
  /\ call.op = "name" => result.text = call.before \o call.name \o call.after

(* An escaped text is UTF-8 that can be sent, without what the flags       *)
(* exclude, and the text comes back from it.  A valid text keeps its       *)
(* characters unless the flags or, where char has a sign, ESCAPE_CTRL      *)
(* takes them; what a caller frees is what was made for it.                *)
EscapesRevert ==
  call.op = "escape" /\ call.str # Null =>
    LET ctrl == "ESCAPE_CTRL" \in call.flags
        other == "ESCAPE_NON_ASCII" \in call.flags
    IN /\ Utf8SafeUnescape(result) = call.str
       /\ result # <<>> => StrToGvariant(result) = result
       /\ ctrl => \A i \in DOMAIN result : result[i] >= 32
       /\ other => \A i \in DOMAIN result : result[i] < 127
       /\ ~other /\ ~(ctrl /\ call.signed) =>
            \A i \in ValidBytes(call.str) : call.str[i] >= 128 => call.str[i] \in ToSet(result)
       /\ Owned("escape", call.str, result) = {} <=> result = call.str
       /\ Cardinality(Owned("take", call.str, result)) = 1

-----------------------------------------------------------------------------
LastOf(lines, Is(_)) == SelectLastInSeq(lines, Is)

(* After `connect' the user is shown the message of the last error, as it  *)
(* was printed, or that of the last warning if there is none; nothing once *)
(* connected.  After `disconnect' two characters of the message are gone:  *)
(* one of two characters counts as none, and one of a single character is  *)
(* shown with its mark.  A line of the host list gives its host.           *)
FeedbackIsMessage ==
  /\ call.op = "connect" =>
       LET e == LastOf(call.lines, LAMBDA l : HasPrefix(l, 2, "error"))
           w == LastOf(call.lines, LAMBDA l : HasPrefix(l, 2, "warning"))
           shown == IF e # 0 /\ call.lines[e].body + call.lines[e].trail > 0 THEN e ELSE w
       IN IF \/ shown = 0
             \/ \E i \in DOMAIN call.lines : HasPrefix(call.lines[i], 2, "connected")
          THEN Empty(result)
          ELSE result = [line |-> call.lines[shown], gone |-> MessageStart(call.lines[shown])]
  /\ call.op = "disconnect" =>
       LET e == LastOf(call.lines, LAMBDA l : l.mark = "error" /\ l.body > 0)
           w == LastOf(call.lines, LAMBDA l : l.mark = "warning" /\ l.body > 0)
           shown == IF e # 0 /\ call.lines[e].body # 2 THEN e ELSE w
           whole == [call.lines[shown] EXCEPT !.indent = 0, !.trail = 0]
       IN IF \/ ~call.connected \/ shown = 0
             \/ \E i \in DOMAIN call.lines : call.lines[i].mark = "disconnected"
          THEN Empty(result)
          ELSE result = [line |-> whole, gone |-> IF whole.body = 1 THEN 0 ELSE MessageStart(whole) + 2]
  /\ call.op = "hosts" =>
       \A i \in DOMAIN call.lines : call.lines[i].mark = "host" /\ call.lines[i].indent = 4 =>
         [line |-> call.lines[i], gone |-> MessageStart(call.lines[i])] \in ToSet(result)

(* r is what becomes of setting a property to n of a type: its value as    *)
(* its own type has it, or the nearest valid one.                          *)
SetAsAsked(r, pspec, name, type, n) ==
  LET may == /\ name = "p" /\ pspec.writable /\ ~pspec.construct_only
             /\ pspec.peeked /\ <<type, pspec.type>> \in Transforms
      m   == IF "bool" \in {type, pspec.type} THEN Min({n, 1}) ELSE n
  IN /\ r.error = NoError <=> may /\ (pspec.lax \/ m <= pspec.max)
     /\ r.object = IF r.error # NoError THEN Object
                   ELSE [p |-> [type |-> pspec.type, n |-> Min({m, pspec.max})]]

(* nm_g_object_set_property sets a property that can be set, to the value  *)
(* as its type has it or, with lax validation, the nearest valid one, or   *)
(* leaves the object as it is and says why.  A cancelled request is known  *)
(* as one, of an object being disposed only by who asks for it.            *)
PropertiesAreValid ==
  /\ call.op = "set" =>
       SetAsAsked(result, call.pspec, call.name,
                  CASE call.how = "value" -> call.value.type [] call.how = "boolean" -> "bool"
                    [] call.how = "uint" -> "uint",
                  call.value.n)
  /\ call.op = "cancel" => (result <=> (call.disposing => call.consider))
=============================================================================
