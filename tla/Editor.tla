------------------------------- MODULE Editor -------------------------------
(***************************************************************************)
(* The plugin inside a connection editor: the loading of the editor module *)
(* (nm_vpn_plugin_utils_load_editor, called by get_editor), the dialog it  *)
(* makes for a connection, and the connection's gateway that the dialog    *)
(* writes.  The process goes on while packages are upgraded beneath it.    *)
(*                                                                         *)
(* A file of the module is named by its version.  Of a line of the client's*)
(* list of hosts only the text behind the prompt is kept: a host, or the   *)
(* empty text.  Lines without a prompt are left out as the code leaves them*)
(* out.  (For an empty text gettext may give the header of its catalogue,  *)
(* which counts as a host.)                                                *)
(***************************************************************************)
EXTENDS Naturals, Sequences, FiniteSets

CONSTANTS
  Connections,  \* connections that are edited
  Hosts,        \* gateways the client may list
  MaxHosts,     \* bound: length of that list
  MaxVersions   \* bound: files the module had

ASSUME EditorAssumption ==
  /\ IsFiniteSet(Connections) /\ IsFiniteSet(Hosts)
  /\ MaxHosts \in Nat /\ MaxVersions \in Nat \ {0}
  /\ {"", "none", "garbage"} \cap Hosts = {}

VARIABLES
  crashed,  \* the editor has gone down
  file,     \* the module on disk: its version and what loading it comes to
  loaded,   \* versions of the module that are in the process
  cached,   \* the version whose factory is kept, or 0
  dialog,   \* the dialog of every connection
  gateway   \* the gateway every connection's setting has

vars == <<crashed, file, loaded, cached, dialog, gateway>>

Versions == 1..MaxVersions
Kinds    == {"missing", "broken", "no_factory", "good"}
Entries  == Hosts \cup {""}
Lists    == UNION {[1..n -> Entries] : n \in 0..MaxHosts}
Closed   == [open |-> FALSE, list |-> <<>>, active |-> 0]
Gateways == Hosts \cup {"none", "garbage"}

Init ==
  /\ crashed = FALSE
  /\ file \in [version : {1}, kind : Kinds]
  /\ loaded = {} /\ cached = 0
  /\ dialog = [c \in Connections |-> Closed]
  /\ gateway \in [Connections -> Hosts \cup {"none"}]

-----------------------------------------------------------------------------
(* A package upgrade, a removal or an installation: another file.  (The    *)
(* loader of libraries knows two files apart even when their paths agree.) *)
Upgrade ==
  /\ ~crashed /\ file.version < MaxVersions
  /\ \E kind \in Kinds : file' = [version |-> file.version + 1, kind |-> kind]
  /\ UNCHANGED <<crashed, loaded, cached, dialog, gateway>>

(* Mutant: a module without the factory is not closed again. *)
LoadUnclosed ==
  IF cached = 0 /\ file.kind \in {"good", "no_factory"}
  THEN /\ loaded' = loaded \cup {file.version}
       /\ cached' = IF file.kind = "good" THEN file.version ELSE 0
  ELSE UNCHANGED <<loaded, cached>>

(* Mutant: the module is cached before its factory was looked for. *)
LoadCachedEarly ==
  IF cached = 0 /\ file.kind \in {"good", "no_factory"}
  THEN /\ loaded' = IF file.kind = "good" THEN loaded \cup {file.version} ELSE loaded
       /\ cached' = file.version
  ELSE UNCHANGED <<loaded, cached>>

(* The module is loaded once.  Where its file cannot be opened, or has no  *)
(* factory and is closed again, the next attempt starts anew.              *)
Load ==
  IF cached = 0 /\ file.kind = "good"
  THEN loaded' = loaded \cup {file.version} /\ cached' = file.version
  ELSE UNCHANGED <<loaded, cached>>

(* Mutant: nothing is shown by default. *)
NothingShown(list) == [open |-> TRUE, list |-> list, active |-> 0]

(* Mutant: the first host is shown even if there is none. *)
FirstOfNone(list) == [open |-> TRUE, list |-> list, active |-> 1]

(* The dialog shows the first host.  The list is empty, as the dialog's    *)
(* description has it, when the client is missing, cannot be run or knows  *)
(* no hosts.                                                               *)
Populated(list) ==
  [open |-> TRUE, list |-> list, active |-> IF list = <<>> THEN 0 ELSE 1]

(* A dialog for a connection is asked for: it may fail to be made even if  *)
(* the module is loaded, and then the module stays.                        *)
GetEditor(c) ==
  /\ ~crashed /\ ~dialog[c].open
  /\ Load
  /\ \/ UNCHANGED dialog
     \/ /\ cached' # 0
        /\ \E list \in Lists : dialog' = [dialog EXCEPT ![c] = Populated(list)]
  /\ UNCHANGED <<crashed, file, gateway>>

Choose(c, i) ==
  /\ ~crashed /\ i \in 1..Len(dialog[c].list)
  /\ dialog' = [dialog EXCEPT ![c].active = i]
  /\ UNCHANGED <<crashed, file, loaded, cached, gateway>>

(* The empty text is no gateway. *)
Saved(entry) == IF entry = "" THEN "none" ELSE entry

(* The setting is made anew with the entry that is shown.  With none shown *)
(* it is read from a variable that was not set: any text, or no memory at  *)
(* all.                                                                    *)
UpdateConnection(c) ==
  /\ ~crashed /\ dialog[c].open
  /\ LET d == dialog[c] IN
     IF d.active # 0
     THEN gateway' = [gateway EXCEPT ![c] = Saved(d.list[d.active])]
         /\ UNCHANGED crashed
     ELSE \/ crashed' = TRUE /\ UNCHANGED gateway
          \/ /\ \E text \in {"none", "garbage"} : gateway' = [gateway EXCEPT ![c] = text]
             /\ UNCHANGED crashed
  /\ UNCHANGED <<file, loaded, cached, dialog>>

(* The dialog is closed and disposed of. *)
Dispose(c) ==
  /\ ~crashed /\ dialog[c].open
  /\ dialog' = [dialog EXCEPT ![c] = Closed]
  /\ UNCHANGED <<crashed, file, loaded, cached, gateway>>

Next ==
  \/ Upgrade
  \/ \E c \in Connections :
       \/ GetEditor(c) \/ UpdateConnection(c) \/ Dispose(c)
       \/ \E i \in 1..MaxHosts : Choose(c, i)

Spec == Init /\ [][Next]_vars

-----------------------------------------------------------------------------
(* Every variable has its type. *)
TypeOK ==
  /\ crashed \in BOOLEAN
  /\ file \in [version : Versions, kind : Kinds]
  /\ loaded \subseteq Versions /\ cached \in {0} \cup Versions
  /\ \A c \in Connections : /\ dialog[c].open \in BOOLEAN
                            /\ dialog[c].list \in Lists
                            /\ dialog[c].active \in 0..Len(dialog[c].list)
  /\ gateway \in [Connections -> Gateways]

(* No two versions of the module are ever in the process, where both would *)
(* register the same types (the comment of nm_vpn_plugin_utils_load_editor *)
(* says why): not after attempts that failed halfway and an upgrade.       *)
AtMostOneModule == Cardinality(loaded) <= 1

(* The code of the factory that is kept, and so of all the dialogs, stays  *)
(* in the process: what is remembered is never what was closed again.      *)
FactoryIsLoaded ==
  cached # 0 \/ (\E c \in Connections : dialog[c].open) => cached \in loaded

(* As long as the client lists anything when a dialog is made, the gateway *)
(* it writes is an entry of that list, or none where the entry is empty:   *)
(* the variable is never read unset.                                       *)
ListedHostIsSaved ==
  [][\A c \in Connections :
       UpdateConnection(c) /\ dialog[c].list # <<>>
         => ~crashed' /\ \E i \in DOMAIN dialog[c].list : gateway'[c] = Saved(dialog[c].list[i])]_vars
=============================================================================
