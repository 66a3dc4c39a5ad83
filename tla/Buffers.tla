------------------------------- MODULE Buffers -------------------------------
(***************************************************************************)
(* The utilities of nm-shared-utils that write into a buffer of a given    *)
(* size, or escape what is not UTF-8: nm_utils_strbuf_append*,             *)
(* nm_strquote, nm_utils_flags2str, the functions that                     *)
(* _NM_UTILS_ENUM2STR_DEFINE makes, nm_utils_str_utf8safe_escape.          *)
(*                                                                         *)
(* A buffer is the text written so far and the room that is left, the end  *)
(* of the text included; no room is left once a text was cut.              *)
(***************************************************************************)
EXTENDS Texts

CONSTANT StaticSize  \* the size of _nm_utils_to_string_buffer, 2096 bytes

ASSUME StaticSizeAssumption == StaticSize \in Nat /\ StaticSize >= 4

NullText == <<40, 110, 117, 108, 108, 41>>  \* "(null)"
Quote    == 34
Caret    == 94
Comma    == 44
Backslash == 92

-----------------------------------------------------------------------------
(* Appending. *)

StrbufInit(size) == [text |-> <<>>, len |-> size]

(* Mutant: the end of the text is given no room. *)
WrittenFull(b, s) ==
  IF Len(s) <= b.len THEN [text |-> b.text \o s, len |-> b.len - Len(s)]
  ELSE [text |-> b.text \o SubSeq(s, 1, b.len), len |-> 0]

(* s is written if it and its end fit, and cut to what fits otherwise. *)
Written(b, s) ==
  IF Len(s) < b.len THEN [text |-> b.text \o s, len |-> b.len - Len(s)]
  ELSE [text |-> b.text \o SubSeq(s, 1, b.len - 1), len |-> 0]

StrbufAppendC(b, c)   == Written(b, <<c>>)
StrbufAppendStr(b, s) == IF s = Null THEN b ELSE Written(b, s)
StrbufAppend(b, formatted) == Written(b, formatted)

(* g_strlcpy: the text that a buffer of this size then has. *)
Strlcpy(s, size) == IF Len(s) < size THEN s ELSE SubSeq(s, 1, size - 1)

-----------------------------------------------------------------------------
(* Quoting. *)

(* The text between quotes; a caret ends it where there is no room. *)
Strquote(size, str) ==
  LET open == StrbufAppendStr([text |-> <<Quote>>, len |-> size - 1], str)
      text == open.text
  IN IF str = Null THEN StrbufAppendStr(StrbufInit(size), NullText).text
     ELSE IF size <= 2 THEN IF size = 2 THEN <<Caret>> ELSE <<>>
     ELSE IF open.len <= 1 THEN [text EXCEPT ![Len(text)] = Caret]
     ELSE Append(text, Quote)

(* The same for a buffer made to fit at most trunc_at characters. *)
StrquoteA(trunc_at, str) ==
  LET n == Min({Len(str), trunc_at}) IN
  IF str = Null THEN NullText
  ELSE <<Quote>> \o SubSeq(str, 1, n) \o <<IF n < Len(str) THEN Caret ELSE Quote>>

(* A name in a format with one "%s", two characters that give their room   *)
(* to the end of the text; from 200 on on the heap, to be freed.           *)
ConstructName(before, after, name) ==
  LET size == Len(before) + 2 + Len(after) + Len(name)
      full == before \o name \o after
  IN IF size < 200 THEN [text |-> Strlcpy(full, size), free |-> FALSE]
     ELSE [text |-> full, free |-> TRUE]

-----------------------------------------------------------------------------
(* Flags and enumerations. *)

NoBuffer == -1  \* the size when buf is NULL

(* The size of the caller's buffer or of the static one. *)
ToStringBufferInit(size) == IF size = NoBuffer THEN StaticSize ELSE size

(* "0x%x" of flags, sets of bits.  Bound: one digit, of four bits. *)
Hex(flags) ==
  LET n == SumSet({2 ^ b : b \in flags}) IN
  <<48, 120, IF n < 10 THEN 48 + n ELSE 87 + n>>

(* The names of flags, descs a sequence of names and sets of bits: each    *)
(* name takes its bits, and what no name takes is written as a number.     *)
Flags2Str(descs, flags, size) ==
  LET none == SelectInSeq(descs, LAMBDA d : d.flag = {})
      Separated(b) == IF b.text # <<>> THEN StrbufAppendC(b, Comma) ELSE b
      Name(s, d) ==
        IF d.flag # {} /\ d.flag \subseteq s.flags
        THEN [flags |-> s.flags \ d.flag, buf |-> StrbufAppendStr(Separated(s.buf), d.name)]
        ELSE s
      start == [flags |-> flags, buf |-> StrbufInit(ToStringBufferInit(size))]
      named == FoldLeft(Name, start, descs)
  IN IF flags = {}
     THEN IF none = 0 THEN <<>> ELSE StrbufAppendStr(start.buf, descs[none].name).text
     ELSE IF named.flags = {} THEN named.buf.text
     ELSE StrbufAppend(Separated(named.buf), Hex(named.flags)).text

(* The name of an enumeration's value, or its number in parentheses.       *)
(* Bound: numbers of one digit.                                            *)
Enum2Str(names, val, size) ==
  Strlcpy(IF val \in DOMAIN names THEN names[val] ELSE <<40, 48 + val, 41>>,
          ToStringBufferInit(size))

-----------------------------------------------------------------------------
(* Escaping. *)

(* g_utf8_validate, the bytes of str that are part of characters.  Bound:  *)
(* characters of one and of two bytes.                                     *)
ValidBytes(str) ==
  LET Lead(i) == i \in DOMAIN str /\ str[i] \in 194..223
      More(i) == i \in DOMAIN str /\ str[i] \in 128..191
  IN {i \in DOMAIN str : \/ str[i] < 128
                         \/ Lead(i) /\ More(i + 1)
                         \/ More(i) /\ Lead(i - 1)}

StrAppendEscape(ch) == <<Backslash, 48 + ch \div 64, 48 + ((ch \div 8) % 8), 48 + (ch % 8)>>

(* A byte that the flags do not want.  Where char has a sign the bytes     *)
(* from 128 on are less than ' ', too.                                     *)
Unwanted(ch, flags, signed) ==
  \/ "ESCAPE_CTRL" \in flags /\ (ch < 32 \/ (signed /\ ch >= 128))
  \/ "ESCAPE_NON_ASCII" \in flags /\ ch >= 127

(* Mutant: a backslash is taken for what it is. *)
EscapeButBackslash(str, flags, signed) ==
  IF str = Null THEN Null
  ELSE LET valid == ValidBytes(str)
           Byte(s, i) == s \o (IF i \notin valid \/ Unwanted(str[i], flags, signed)
                               THEN StrAppendEscape(str[i]) ELSE <<str[i]>>)
       IN FoldLeftDomain(Byte, <<>>, str)

(* A text that is UTF-8, from one that may not be. *)
Utf8SafeEscape(str, flags, signed) ==
  IF str = Null THEN Null
  ELSE LET valid == ValidBytes(str)
           Byte(s, i) == s \o (IF i \notin valid THEN StrAppendEscape(str[i])
                               ELSE IF str[i] = Backslash THEN <<Backslash, Backslash>>
                               ELSE IF Unwanted(str[i], flags, signed) THEN StrAppendEscape(str[i])
                               ELSE <<str[i]>>)
       IN FoldLeftDomain(Byte, <<>>, str)

(* What the caller has to free: the new text, and the old one if it was    *)
(* taken.  "copy" is utf8safe_escape_cp, "take" is utf8safe_escape_take.   *)
Owned(how, str, escaped) ==
  CASE how = "escape" -> IF escaped = str THEN {} ELSE {"new"}
    [] how = "copy"   -> IF str = Null THEN {} ELSE {"new"}
    [] how = "take"   -> IF escaped = str THEN {"str"} ELSE {"new"}

(* g_strcompress, the byte at i: a backslash with up to three octal digits *)
(* is a byte, and with another character that character.  skip counts what *)
(* was read ahead.  Bound: the letters that spell control characters,      *)
(* which no text escaped here has behind a backslash, are left out.        *)
OctalAt(str, i) == i \in DOMAIN str /\ str[i] \in 48..55

DigitsAt(str, i) == CHOOSE n \in 0..3 : /\ \A k \in 0..n - 1 : OctalAt(str, i + k)
                                        /\ n < 3 => ~OctalAt(str, i + n)

OctalValue(digits) == FoldLeft(LAMBDA v, c : 8 * v + c - 48, 0, digits)

ReadByte(str, s, i) ==
  LET n == DigitsAt(str, i + 1)
  IN IF s.skip > 0 THEN [s EXCEPT !.skip = @ - 1]
     ELSE IF str[i] # Backslash THEN [s EXCEPT !.text = Append(@, str[i])]
     ELSE IF n > 0 THEN [text |-> Append(s.text, OctalValue(SubSeq(str, i + 1, i + n)) % 256), skip |-> n]
     ELSE IF i = Len(str) THEN s
     ELSE [text |-> Append(s.text, str[i + 1]), skip |-> 1]

Strcompress(str) == FoldLeftDomain(LAMBDA s, i : ReadByte(str, s, i), [text |-> <<>>, skip |-> 0], str).text

(* str_to_gvariant of the service: only UTF-8 can be sent, and what is not *)
(* is not converted, since the conversions are from UTF-8, too.            *)
StrToGvariant(str) == IF str = <<>> \/ ValidBytes(str) # DOMAIN str THEN Null ELSE str

Utf8SafeUnescape(str) == IF str = Null THEN Null ELSE Strcompress(str)
=============================================================================
