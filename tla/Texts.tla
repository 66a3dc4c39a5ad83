-------------------------------- MODULE Texts --------------------------------
(***************************************************************************)
(* The text utilities of nm-shared-utils.c that read and order texts:      *)
(* numbers and truth values, words, lists of texts, dictionaries, D-Bus    *)
(* paths and /proc/<pid>/stat.                                             *)
(*                                                                         *)
(* A text is a sequence of character codes from 1 to 255.  Null is what no *)
(* text is, the NULL pointer.  Positions that the code counts from 0 are   *)
(* given as the code gives them.                                           *)
(***************************************************************************)
EXTENDS Integers, SequencesExt, FiniteSetsExt, TLC

CONSTANTS
  MaxInt64,  \* bound: the largest 64-bit number, as far as TLC is concerned
  MaxInt     \* bound: the largest int

ASSUME WidthAssumption == MaxInt \in Nat /\ MaxInt64 \in Nat /\ MaxInt <= MaxInt64 /\ 128 <= MaxInt64

Null   == <<0>>
Spaces == {9, 10, 12, 13, 32}  \* what g_ascii_isspace accepts
Digits == 48..57
Slash  == 47

(* How many characters of C the text s begins with, and s without them. *)
Span(s, C) ==
  CHOOSE n \in 0..Len(s) : /\ \A i \in 1..n : s[i] \in C
                           /\ n < Len(s) => s[n + 1] \notin C
Skip(s, C) == SubSeq(s, Span(s, C) + 1, Len(s))
Chomp(s)   == Reverse(Skip(Reverse(s), Spaces))
Strip(s)   == Chomp(Skip(s, Spaces))

(* strcmp: the texts agree up to a place where s ends or has the lower byte. *)
Less(s, t) ==
  \E i \in 0..Len(s) :
    /\ i < Len(t) /\ SubSeq(s, 1, i) = SubSeq(t, 1, i)
    /\ i < Len(s) => s[i + 1] < t[i + 1]

Strcmp(s, t)  == IF s = t THEN 0 ELSE IF Less(s, t) THEN -1 ELSE 1
CmpDirect(m, n) == IF m = n THEN 0 ELSE IF m < n THEN -1 ELSE 1

-----------------------------------------------------------------------------
(* Numbers and truth values. *)

(* The number that digits spell, or one that is too large. *)
Magnitude(digits) ==
  FoldLeft(LAMBDA n, c : IF n > MaxInt64 + 1 THEN n ELSE 10 * n + c - 48, 0, digits)

(* g_ascii_strtoll with base 10, the base of every call: a sign, digits,   *)
(* and what is left; without digits everything is left.                    *)
Strtoll(s) ==
  LET signed   == s # <<>> /\ s[1] \in {43, 45}
      negative == signed /\ s[1] = 45
      d == IF signed THEN Tail(s) ELSE s
      n == Span(d, Digits)
      m == Magnitude(SubSeq(d, 1, n))
  IN [value |-> IF negative THEN -m ELSE m,
      rest  |-> IF n = 0 THEN s ELSE SubSeq(d, n + 1, Len(d)),
      overflows |-> m > IF negative THEN MaxInt64 + 1 ELSE MaxInt64]

(* Mutant: what follows the number is not looked at. *)
StrToInt64Prefix(str, min, max, fallback) ==
  LET s == IF str = Null THEN <<>> ELSE Skip(str, Spaces)
      n == Strtoll(s)
  IN IF s = <<>> THEN [value |-> fallback, errno |-> "EINVAL"]
     ELSE IF n.overflows THEN [value |-> fallback, errno |-> "ERANGE"]
     ELSE IF n.value \in min..max THEN [value |-> n.value, errno |-> "0"]
     ELSE [value |-> fallback, errno |-> "ERANGE"]

(* The number a text spells between white space, if it is in a range; the  *)
(* fallback and the reason otherwise.                                      *)
AsciiStrToInt64(str, min, max, fallback) ==
  LET s == IF str = Null THEN <<>> ELSE Skip(str, Spaces)
      n == Strtoll(s)
  IN IF s = <<>> THEN [value |-> fallback, errno |-> "EINVAL"]
     ELSE IF n.overflows THEN [value |-> fallback, errno |-> "ERANGE"]
     ELSE IF Skip(n.rest, Spaces) # <<>> THEN [value |-> fallback, errno |-> "EINVAL"]
     ELSE IF n.value \in min..max THEN [value |-> n.value, errno |-> "0"]
     ELSE [value |-> fallback, errno |-> "ERANGE"]

Lower(s) == [i \in DOMAIN s |-> IF s[i] \in 65..90 THEN s[i] + 32 ELSE s[i]]

(* "true", "yes", "on", "1", and "false", "no", "off", "0". *)
TrueWords  == {<<116, 114, 117, 101>>, <<121, 101, 115>>, <<111, 110>>, <<49>>}
FalseWords == {<<102, 97, 108, 115, 101>>, <<110, 111>>, <<111, 102, 102>>, <<48>>}

(* TRUE is 1 and FALSE 0; the default may be any int. *)
AsciiStrToBool(str, default_value) ==
  LET s == IF str = Null THEN <<>> ELSE Lower(Strip(str)) IN
  IF s \in TrueWords THEN 1 ELSE IF s \in FalseWords THEN 0 ELSE default_value

-----------------------------------------------------------------------------
(* Words and lists. *)

InitialAlloc == 8

(* Mutant: the array grows one word too late. *)
GrownLate(alloc, plen) == IF plen > alloc THEN 2 * alloc ELSE alloc

(* The room for words when one more is to be added to plen of them. *)
Grown(alloc, plen) == IF plen >= alloc THEN 2 * alloc ELSE alloc

(* The words of str between delimiters, or between blanks, tabulators and  *)
(* ends of lines without any, and the room allocated for them.             *)
(* The character at i begins a word, continues one, or is a delimiter.     *)
StrsplitSet(str, delimiters) ==
  LET D == IF delimiters = Null THEN {9, 10, 32} ELSE ToSet(delimiters)
      s == IF str = Null THEN <<>> ELSE Skip(str, D)
      Add(a, i) ==
        IF s[i] \in D THEN a
        ELSE IF i > 1 /\ s[i - 1] \notin D
        THEN [a EXCEPT !.words[Len(a.words)] = Append(@, s[i])]
        ELSE [words |-> Append(a.words, <<s[i]>>),
              alloc |-> Grown(a.alloc, Len(a.words))]
  IN FoldLeftDomain(Add, [words |-> <<>>, alloc |-> InitialAlloc], s)

(* nm_strstrip_avoid_copy: blanks at the start are passed over, but a text *)
(* that ends in one is copied, for the caller to free.                     *)
StrstripAvoidCopy(str) ==
  LET s == Skip(str, Spaces) IN
  IF str = Null THEN [text |-> Null, free |-> FALSE]
  ELSE [text |-> Chomp(s), free |-> s # <<>> /\ Last(s) \in Spaces]

(* Where needle first is among the first len of a list, or of a list that  *)
(* Null ends; -1 if it is not there.                                       *)
StrvFindFirst(list, len, needle) ==
  LET ends == {i \in DOMAIN list : list[i] = Null}
      last == IF len >= 0 THEN len ELSE IF ends = {} THEN Len(list) ELSE Min(ends) - 1
      found == {i \in 1..last : list[i] = needle}
  IN IF found = {} THEN -1 ELSE Min(found) - 1

(* Mutant: a text is compared with the one before it only. *)
CleanupAdjacent(strv, strip_whitespace, skip_empty, skip_repeated) ==
  LET texts == IF strip_whitespace THEN [i \in DOMAIN strv |-> Strip(strv[i])] ELSE strv
      Keep(kept, s) ==
        IF \/ skip_empty /\ s = <<>>
           \/ skip_repeated /\ kept # <<>> /\ Last(kept) = s
        THEN kept ELSE Append(kept, s)
  IN IF skip_empty \/ skip_repeated THEN FoldLeft(Keep, <<>>, texts) ELSE texts

(* A list without white space around its texts, without empty texts and    *)
(* without repetitions, as wanted.                                         *)
StrvCleanup(strv, strip_whitespace, skip_empty, skip_repeated) ==
  LET texts == IF strip_whitespace THEN [i \in DOMAIN strv |-> Strip(strv[i])] ELSE strv
      Keep(kept, s) ==
        IF \/ skip_empty /\ s = <<>>
           \/ skip_repeated /\ StrvFindFirst(kept, Len(kept), s) >= 0
        THEN kept ELSE Append(kept, s)
  IN IF skip_empty \/ skip_repeated THEN FoldLeft(Keep, <<>>, texts) ELSE texts

(* The first len texts of a list, or all of them, in the order of strcmp. *)
StrvSort(strv, len) ==
  LET l == IF len < 0 THEN Len(strv) ELSE len
      order == CHOOSE p \in [1..l -> 1..l] :
                 IsInjective(p) /\ \A i, j \in 1..l : i < j => ~Less(strv[p[j]], strv[p[i]])
  IN [i \in DOMAIN strv |-> IF i <= l THEN strv[order[i]] ELSE strv[i]]

(* The names of a dictionary with their values, sorted by name.  There are *)
(* no arrays without elements: such a dictionary gives Null.               *)
NamedValuesFromStrDict(hash) ==
  IF DOMAIN hash = {} THEN Null
  ELSE LET names == StrvSort(SetToSeq(DOMAIN hash), -1) IN
       [i \in DOMAIN names |-> [name |-> names[i], value |-> hash[names[i]]]]

(* The keys of a dictionary in the order compare gives or, without it, in  *)
(* any order: the arrays that this may be.                                 *)
HashKeysToArray(hash, compared) ==
  IF DOMAIN hash = {} THEN {Null}
  ELSE IF compared THEN {StrvSort(SetToSeq(DOMAIN hash), -1)}
  ELSE SetToSeqs(DOMAIN hash)

StrdictGetKeys(hash, sorted) == HashKeysToArray(hash, sorted)

-----------------------------------------------------------------------------
(* D-Bus paths. *)

(* What follows the last slash, and what goes before. *)
LastSlash(path) == SelectLastInSeq(path, LAMBDA c : c = Slash)
LastComponent(path) ==
  IF LastSlash(path) = 0 THEN Null ELSE SubSeq(path, LastSlash(path) + 1, Len(path))
Prefix(path) == SubSeq(path, 1, LastSlash(path))

(* Mutant: leading zeros are overlooked. *)
ComponentAsLooseNum(p) ==
  IF p # <<>> /\ ToSet(p) \subseteq Digits THEN AsciiStrToInt64(p, 0, MaxInt64, -1).value
  ELSE -1

(* The number a component is, if there is no other way to write it. *)
ComponentAsNum(p) ==
  IF p = <<48>> THEN 0
  ELSE IF p # <<>> /\ p[1] # 48 /\ ToSet(p) \subseteq Digits
  THEN AsciiStrToInt64(p, 0, MaxInt64, -1).value
  ELSE -1

(* Two components: by number, and numbers after everything else. *)
ComponentCmp(p, q) ==
  LET m == ComponentAsNum(p)
      n == ComponentAsNum(q)
  IN IF m = -1 /\ n = -1 THEN Strcmp(p, q)
     ELSE IF m = -1 THEN -1 ELSE IF n = -1 THEN 1 ELSE CmpDirect(m, n)

(* Two paths: by their last components where all before is the same.  Null *)
(* comes first, and "goto comp_full" compares whole paths.                 *)
DbusPathCmp(a, b) ==
  IF a = b THEN 0
  ELSE IF Null \in {a, b} THEN IF a = Null THEN -1 ELSE 1
  ELSE IF 0 \in {LastSlash(a), LastSlash(b)} \/ LastSlash(a) # LastSlash(b) THEN Strcmp(a, b)
  ELSE IF Prefix(a) # Prefix(b) THEN Strcmp(Prefix(a), Prefix(b))
  ELSE ComponentCmp(LastComponent(a), LastComponent(b))

-----------------------------------------------------------------------------
(* The start of a process. *)

NoProcess == [start |-> 0, state |-> 32, ppid |-> 0]

(* Mutant: the name of the process ends at its first parenthesis. *)
FirstEndOfName(contents) == SelectInSeq(contents, LAMBDA c : c = 41)

(* The last parenthesis: no field after the name has one. *)
EndOfName(contents) == SelectLastInSeq(contents, LAMBDA c : c = 41)

(* The fields after the name, which stands in parentheses and may itself   *)
(* have any: the state is the first, the parent the second, the start the  *)
(* twentieth.                                                              *)
StartTimeForPid(contents, want_ppid) ==
  LET p      == EndOfName(contents)
      fields == StrsplitSet(SubSeq(contents, p + 2, Len(contents)), <<32>>).words
      ppid   == IF want_ppid THEN AsciiStrToInt64(fields[2], 1, MaxInt, 0).value ELSE 0
      start  == AsciiStrToInt64(fields[20], 1, MaxInt64, 0).value
  IN IF p = 0 \/ p + 2 > Len(contents) \/ Len(fields) < 20 THEN NoProcess
     ELSE IF (want_ppid /\ ppid = 0) \/ start = 0 THEN NoProcess
     ELSE [start |-> start, state |-> contents[p + 2], ppid |-> ppid]
=============================================================================
