------------------------------- MODULE MCTexts -------------------------------
(***************************************************************************)
(* Every utility called with every input of small sets, of the texts,      *)
(* lines and values that the code tells apart.                             *)
(***************************************************************************)
EXTENDS TextCalls

MCTypes      == {"bool", "uint", "int"}
MCTransforms == {<<t, t>> : t \in MCTypes} \union {<<"uint", "int">>, <<"int", "uint">>, <<"uint", "bool">>}
MCIndents    == {0, 2, 4}
MCBodies     == 0..3

TextsOf(C, n) == UNION {[1..k -> C] : k \in 0..n}
Run(n) == [i \in 1..n |-> 97]

Numbers ==
  [op : {"number"}, str : TextsOf({32, 45, 48, 57, 120}, 4) \union {Null, <<57, 57, 57, 57, 48>>, <<45, 57, 57, 57, 57>>},
   range : {<<0, 9>>, <<-99, 900>>, <<-MaxInt64 - 1, MaxInt64>>}]
  \union [op : {"bool"}, str : TextsOf({32, 48, 49, 78, 79, 110, 111}, 4) \union {Null}, default : {0, 7}]
  \union [op : {"levels"}, level : TextsOf({48, 54, 55, 56}, 2) \union {Null},
          syslog : {Null, <<48>>, <<49>>, <<50>>}, debug : BOOLEAN]
  \union [op : {"start_as"}, args : TextsOf(Options, 3), debug : BOOLEAN, named : BOOLEAN,
          level : {Null, <<54>>}, syslog : {Null, <<48>>}]

Lists ==
  [op : {"split"}, delimiters : {Null, <<32, 44>>},
   str : TextsOf({32, 44, 97, 98}, 5) \union {Null} \union
         {[k \in 1..2 * n |-> IF k % 2 = 0 THEN 32 ELSE 97] : n \in {7, 8, 9, 16, 17}}]
  \union [op : {"cleanup"}, strv : TextsOf({<<>>, <<32>>, <<97>>, <<32, 97>>}, 3),
          strip : BOOLEAN, empty : BOOLEAN, repeated : BOOLEAN]
  \union [op : {"strip"}, str : TextsOf({32, 97, 98}, 5) \union {Null}]
  \union {i \in [op : {"sort"}, strv : TextsOf({<<>>, <<97>>, <<97, 98>>, <<98>>}, 3), len : -1..3] :
            i.len <= Len(i.strv)}
  \union [op : {"dict"}, hash : UNION {[N -> 1..2] : N \in SUBSET {<<>>, <<97>>, <<97, 98>>, <<98>>}},
          compared : BOOLEAN]

(* /proc/<pid>/stat of a process of any name. *)
Starts ==
  [op : {"start"}, name : TextsOf({32, 41, 57}, 4), want : BOOLEAN,
   fields : {<<<<83>>, ppid>> \o [k \in 1..more |-> <<48>>] \o <<start>> :
               ppid \in {<<48>>, <<57>>, <<120>>}, more \in 16..18, start \in {<<48>>, <<57, 57>>}}]

Paths == {Null, <<>>, <<97>>} \union
         {<<47>> \o c : c \in {<<>>, <<48>>, <<57>>, <<49, 48>>, <<48, 57>>, <<49, 97>>, <<97>>}} \union
         {<<47, 97, 47>> \o c : c \in {<<57>>, <<49, 48>>, <<97>>}} \union {<<47, 98, 47, 57>>}
Comparisons == [op : {"compare"}, paths : Paths \X Paths \X Paths]

Endings == {<<>>, <<48>>, <<51, 50>>, <<51, 51>>, <<49, 50, 56>>, <<49, 50, 57>>,
            <<32, 56>>, <<56, 58>>, <<58>>, <<45, 49>>}
Networks ==
  [op : {"address"}, family : Families, text : AddressTexts(Endings)]
  \union [op : {"netmask"}, prefix : 0..33]
  \union [op : {"class"}, ip : {0, 10, 11, 127, 128, 172, 173, 191, 192, 193, 254} \X
                               {0, 15, 16, 31, 32, 168, 169, 192, 255}]

Some == {<<>>, <<97>>, <<97, 98>>, <<97, 98, 99>>}
Descs == <<[name |-> <<97>>, flag |-> {0, 1}], [name |-> <<98>>, flag |-> {1}],
           [name |-> <<99, 99>>, flag |-> {2}], [name |-> <<110>>, flag |-> {}]>>
Output ==
  [op : {"append"}, size : 0..8, one : Some, two : Some \union {Null}, c : {44}]
  \union [op : {"quote"}, size : 0..9, str : {Run(n) : n \in 0..8} \union {Null}]
  \union [op : {"flags"}, descs : {Descs}, flags : SUBSET (0..3), size : {NoBuffer} \union 0..12]
  \union [op : {"enum"}, names : {(0 :> <<97>>) @@ (2 :> <<98, 99>>)}, val : 0..3, size : {NoBuffer} \union 1..4]
  \union [op : {"name"}, before : {<<98, 98>>}, after : {<<99>>}, name : {Run(n) : n \in {0, 1, 193, 194, 195, 196}}]
  \union [op : {"escape"}, str : TextsOf({1, 92, 48, 97, 127, 195, 169, 255}, 3) \union {Null},
          flags : SUBSET {"ESCAPE_CTRL", "ESCAPE_NON_ASCII"}, signed : BOOLEAN]

LinesRead == {l \in Line : /\ l.mark \notin {"host", "prompt", "disconnected"}
                           /\ l.mark \in {"other", "connected"} => l.body = 1 /\ l.trail = 0
                           /\ l.body \in {0, 3} \/ l.mark \in {"other", "connected"}}
LinesOf ==
  [op : {"connect"}, lines : TextsOf(LinesRead, 2)]
  \union [op : {"disconnect"}, connected : BOOLEAN,
          lines : TextsOf({l \in Line : /\ l.mark \in {"disconnected", "warning", "error"}
                                        /\ l.indent = 2 /\ l.mark = "disconnected" => l.body = 0}, 2)]
  \union [op : {"hosts"}, lines : TextsOf({l \in Line : /\ l.mark \in {"host", "prompt", "other"}
                                                        /\ l.body \in {0, 3} /\ l.indent \in {0, 4}}, 2)]

Settings ==
  {i \in [op : {"set"}, how : {"value", "boolean", "uint"}, name : {"p", "q"}, value : [type : MCTypes, n : {0, 1, 3}],
          pspec : [writable : BOOLEAN, construct_only : BOOLEAN, peeked : BOOLEAN,
                   type : MCTypes, max : {1, 2}, lax : BOOLEAN]] :
     i.how = "value" /\ i.value.type = "bool" => i.value.n < 2}
  \union [op : {"cancel"}, disposing : BOOLEAN, consider : BOOLEAN]

MCInputs ==
  UNION {Numbers, Lists, Starts, Comparisons, Networks, Output, LinesOf, Settings}
=============================================================================
