---------------------------- MODULE EditorProofs ----------------------------
(***************************************************************************)
(* What holds of the editor module and the connections' gateways whatever  *)
(* the connections, the hosts and the number of upgrades are.              *)
(***************************************************************************)
EXTENDS Editor, FiniteSetTheorems, TLAPS

(* The module that is loaded is the one whose factory is kept, and dialogs *)
(* are made by it.  That nothing else is loaded is the strengthening that  *)
(* both properties of the loader need.                                     *)
LoaderInv ==
  /\ loaded = IF cached = 0 THEN {} ELSE {cached}
  /\ \A c \in Connections : dialog[c].open => cached # 0

(* Versions are positive, and 0 stands for no version. *)
Shape ==
  /\ file.version \in Nat \ {0}
  /\ dialog \in [Connections -> [open : BOOLEAN, list : Seq(Entries), active : Nat]]

LEMMA BoundsAreNumbers == MaxHosts \in Nat /\ MaxVersions \in Nat \ {0}
BY EditorAssumption, Zenon

(* The lists of hosts are sequences. *)
LEMMA ListsAreSequences == Lists \subseteq Seq(Entries)
BY DEF Lists

LEMMA ShapeStep == Shape /\ [Next]_vars => Shape'
<1> SUFFICES ASSUME Shape, [Next]_vars PROVE Shape'
  OBVIOUS
<1>1. CASE Upgrade
  BY <1>1 DEF Upgrade, Shape
<1>2. ASSUME NEW c \in Connections, GetEditor(c) PROVE Shape'
  <2>1. CASE UNCHANGED dialog
    BY <1>2, <2>1 DEF GetEditor, Shape
  <2>2. ASSUME NEW list \in Lists, dialog' = [dialog EXCEPT ![c] = Populated(list)]
        PROVE  Shape'
    <3>1. list \in Seq(Entries)
      BY <2>2, ListsAreSequences
    <3>2. Populated(list) \in [open : BOOLEAN, list : Seq(Entries), active : Nat]
      BY <3>1 DEF Populated
    <3> QED BY <1>2, <2>2, <3>2 DEF GetEditor, Shape
  <2> QED BY <1>2, <2>1, <2>2 DEF GetEditor
<1>3. ASSUME NEW c \in Connections, NEW i \in 1..MaxHosts, Choose(c, i) PROVE Shape'
  BY <1>3 DEF Choose, Shape
<1>4. ASSUME NEW c \in Connections, UpdateConnection(c) PROVE Shape'
  BY <1>4 DEF UpdateConnection, Shape
<1>5. ASSUME NEW c \in Connections, Dispose(c) PROVE Shape'
  BY <1>5 DEF Dispose, Closed, Shape
<1>6. CASE UNCHANGED vars
  BY <1>6 DEF vars, Shape
<1> QED BY <1>1, <1>2, <1>3, <1>4, <1>5, <1>6 DEF Next

LEMMA LoaderStep == Shape /\ LoaderInv /\ [Next]_vars => LoaderInv'
<1> SUFFICES ASSUME Shape, LoaderInv, [Next]_vars PROVE LoaderInv'
  OBVIOUS
<1>1. CASE Upgrade
  BY <1>1 DEF Upgrade, LoaderInv
<1>2. ASSUME NEW c \in Connections, GetEditor(c) PROVE LoaderInv'
  <2>1. loaded' = IF cached' = 0 THEN {} ELSE {cached'}
    BY <1>2 DEF GetEditor, Load, LoaderInv, Shape
  <2>2. cached # 0 => cached' # 0
    BY <1>2 DEF GetEditor, Load
  <2>3. \A d \in Connections : dialog'[d].open => dialog[d].open \/ cached' # 0
    BY <1>2 DEF GetEditor, Shape
  <2> QED BY <2>1, <2>2, <2>3 DEF LoaderInv
<1>3. ASSUME NEW c \in Connections, NEW i \in 1..MaxHosts, Choose(c, i) PROVE LoaderInv'
  <2>1. \A d \in Connections : dialog'[d].open = dialog[d].open
    BY <1>3 DEF Choose, Shape
  <2> QED BY <1>3, <2>1 DEF Choose, LoaderInv
<1>4. ASSUME NEW c \in Connections, UpdateConnection(c) PROVE LoaderInv'
  BY <1>4 DEF UpdateConnection, LoaderInv
<1>5. ASSUME NEW c \in Connections, Dispose(c) PROVE LoaderInv'
  <2>1. \A d \in Connections : dialog'[d].open => dialog[d].open
    BY <1>5 DEF Dispose, Closed, Shape
  <2> QED BY <1>5, <2>1 DEF Dispose, LoaderInv
<1>6. CASE UNCHANGED vars
  BY <1>6 DEF vars, LoaderInv
<1> QED BY <1>1, <1>2, <1>3, <1>4, <1>5, <1>6 DEF Next

LEMMA LoaderInit == Init => Shape /\ LoaderInv
BY DEF Init, Shape, LoaderInv, Closed

LEMMA LoaderCorrect == Spec => [](Shape /\ LoaderInv)
<1>1. Shape /\ LoaderInv /\ [Next]_vars => (Shape /\ LoaderInv)'
  BY ShapeStep, LoaderStep
<1> QED BY LoaderInit, <1>1, PTL DEF Spec

(* No two versions of the editor module are ever in one process, however   *)
(* often the package is upgraded while it runs.                            *)
THEOREM OneModule == Spec => []AtMostOneModule
<1>1. ASSUME LoaderInv PROVE AtMostOneModule
  <2>1. CASE cached = 0
    <3>1. Cardinality(loaded) = 0
      BY <1>1, <2>1, FS_EmptySet DEF LoaderInv
    <3> QED BY <3>1 DEF AtMostOneModule
  <2>2. CASE cached # 0
    <3>1. loaded = {cached}
      BY <1>1, <2>2 DEF LoaderInv
    <3>2. Cardinality({cached}) = 1
      BY FS_Singleton
    <3> QED BY <3>1, <3>2 DEF AtMostOneModule
  <2> QED BY <2>1, <2>2
<1> QED BY LoaderCorrect, <1>1, PTL

(* The factory that is kept, and the dialogs, are those of the module that *)
(* is loaded.                                                              *)
THEOREM FactoryStays == Spec => []FactoryIsLoaded
<1>1. LoaderInv => FactoryIsLoaded
  BY DEF LoaderInv, FactoryIsLoaded
<1> QED BY LoaderCorrect, <1>1, PTL
-----------------------------------------------------------------------------
(* A dialog shows a host of its list whenever the list has one, and its    *)
(* list is one that the client may have given.                             *)
DialogInv ==
  \A c \in Connections :
    /\ dialog[c].list \in Lists
    /\ dialog[c].active \in 0..Len(dialog[c].list)
    /\ dialog[c].open /\ dialog[c].list # <<>> => dialog[c].active # 0

(* What is populated shows the first host if there is one. *)
LEMMA PopulatedShows ==
  ASSUME NEW list \in Lists
  PROVE  /\ Populated(list).list = list
         /\ Populated(list).active \in 0..Len(list)
         /\ list # <<>> => Populated(list).active # 0
<1>1. list \in Seq(Entries)
  BY ListsAreSequences
<1>2. Len(list) \in Nat /\ (list # <<>> => Len(list) > 0)
  BY <1>1
<1> QED BY <1>2 DEF Populated

(* A dialog that is closed has the empty list. *)
LEMMA ClosedShows == Closed.list \in Lists /\ Closed.active = 0 /\ ~Closed.open /\ Len(Closed.list) = 0
<1>1. <<>> \in [1..0 -> Entries]
  OBVIOUS
<1>2. 0 \in 0..MaxHosts
  BY BoundsAreNumbers
<1> QED BY <1>1, <1>2 DEF Closed, Lists

LEMMA DialogStep == Shape /\ DialogInv /\ [Next]_vars => DialogInv'
<1> SUFFICES ASSUME Shape, DialogInv, [Next]_vars, NEW d \in Connections
             PROVE  /\ dialog'[d].list \in Lists
                    /\ dialog'[d].active \in 0..Len(dialog'[d].list)
                    /\ dialog'[d].open /\ dialog'[d].list # <<>> => dialog'[d].active # 0
  BY DEF DialogInv
<1> USE DEF DialogInv, Shape
<1>1. CASE UNCHANGED dialog
  BY <1>1
<1>2. ASSUME NEW c \in Connections, NEW list \in Lists,
             dialog' = [dialog EXCEPT ![c] = Populated(list)]
      PROVE  /\ dialog'[d].list \in Lists
             /\ dialog'[d].active \in 0..Len(dialog'[d].list)
             /\ dialog'[d].open /\ dialog'[d].list # <<>> => dialog'[d].active # 0
  <2>1. dialog'[d] = IF d = c THEN Populated(list) ELSE dialog[d]
    BY <1>2
  <2>2. CASE d = c
    BY <2>1, <2>2, PopulatedShows
  <2>3. CASE d # c
    BY <2>1, <2>3
  <2> QED BY <2>2, <2>3
<1>3. ASSUME NEW c \in Connections, NEW i \in 1..MaxHosts, Choose(c, i)
      PROVE  /\ dialog'[d].list \in Lists
             /\ dialog'[d].active \in 0..Len(dialog'[d].list)
             /\ dialog'[d].open /\ dialog'[d].list # <<>> => dialog'[d].active # 0
  <2>1. /\ dialog'[d].list = dialog[d].list /\ dialog'[d].open = dialog[d].open
        /\ dialog'[d].active = IF d = c THEN i ELSE dialog[d].active
    BY <1>3 DEF Choose
  <2>2. d = c => i \in 1..Len(dialog[d].list)
    BY <1>3 DEF Choose
  <2> QED BY <2>1, <2>2
<1>4. ASSUME NEW c \in Connections, Dispose(c)
      PROVE  /\ dialog'[d].list \in Lists
             /\ dialog'[d].active \in 0..Len(dialog'[d].list)
             /\ dialog'[d].open /\ dialog'[d].list # <<>> => dialog'[d].active # 0
  <2>1. dialog'[d] = IF d = c THEN Closed ELSE dialog[d]
    BY <1>4 DEF Dispose
  <2> QED BY <2>1, ClosedShows
<1> QED BY <1>1, <1>2, <1>3, <1>4 DEF Next, Upgrade, GetEditor, UpdateConnection, vars

LEMMA DialogCorrect == Spec => [](Shape /\ DialogInv)
<1>1. Init => DialogInv
  BY ClosedShows DEF Init, DialogInv
<1>2. Shape /\ DialogInv /\ [Next]_vars => (Shape /\ DialogInv)'
  BY ShapeStep, DialogStep
<1> QED BY LoaderInit, <1>1, <1>2, PTL DEF Spec

(* The variables that the invariants above say little of. *)
Rest ==
  /\ crashed \in BOOLEAN
  /\ file \in [version : Versions, kind : Kinds]
  /\ cached \in {0} \cup Versions
  /\ gateway \in [Connections -> Gateways]

LEMMA RestStep == Shape /\ DialogInv /\ Rest /\ [Next]_vars => Rest'
<1> SUFFICES ASSUME Shape, DialogInv, Rest, [Next]_vars PROVE Rest'
  OBVIOUS
<1> USE DEF Rest, Gateways
<1>1. CASE Upgrade
  <2>1. PICK kind \in Kinds : file' = [version |-> file.version + 1, kind |-> kind]
    BY <1>1 DEF Upgrade
  <2>2. file.version + 1 \in Versions
    BY <1>1, BoundsAreNumbers DEF Upgrade, Versions
  <2> QED BY <1>1, <2>1, <2>2 DEF Upgrade
<1>2. ASSUME NEW c \in Connections, GetEditor(c) PROVE Rest'
  BY <1>2 DEF GetEditor, Load
<1>3. ASSUME NEW c \in Connections, NEW i \in 1..MaxHosts, Choose(c, i) PROVE Rest'
  BY <1>3 DEF Choose
<1>4. ASSUME NEW c \in Connections, UpdateConnection(c) PROVE Rest'
  <2>1. crashed' \in BOOLEAN
    <3>1. CASE dialog[c].active # 0
      BY <1>4, <3>1 DEF UpdateConnection
    <3>2. CASE dialog[c].active = 0
      <4>1. crashed' = TRUE \/ crashed' = crashed
        BY <1>4, <3>2 DEF UpdateConnection
      <4> QED BY <4>1
    <3> QED BY <3>1, <3>2
  <2>2. gateway' \in [Connections -> Gateways]
    <3>1. dialog[c].active # 0 => dialog[c].list[dialog[c].active] \in Entries
      BY DEF Shape, DialogInv
    <3>2. dialog[c].active # 0 => Saved(dialog[c].list[dialog[c].active]) \in Gateways
      BY <3>1 DEF Saved, Entries
    <3>4. CASE dialog[c].active # 0
      BY <1>4, <3>2, <3>4 DEF UpdateConnection
    <3>3. CASE dialog[c].active = 0
      BY <1>4, <3>3 DEF UpdateConnection
    <3> QED BY <3>3, <3>4
  <2> QED BY <1>4, <2>1, <2>2 DEF UpdateConnection
<1>5. ASSUME NEW c \in Connections, Dispose(c) PROVE Rest'
  BY <1>5 DEF Dispose
<1>6. CASE UNCHANGED vars
  BY <1>6 DEF vars
<1> QED BY <1>1, <1>2, <1>3, <1>4, <1>5, <1>6 DEF Next

LEMMA RestCorrect == Spec => [](Shape /\ DialogInv /\ Rest)
<1>1. Init => Rest
  <2> SUFFICES ASSUME Init PROVE Rest
    OBVIOUS
  <2>1. 1 \in Versions
    BY BoundsAreNumbers DEF Versions
  <2>2. file \in [version : Versions, kind : Kinds]
    BY <2>1 DEF Init
  <2>3. cached \in {0} \cup Versions /\ gateway \in [Connections -> Gateways]
    BY DEF Init, Gateways
  <2>4. crashed \in BOOLEAN
    BY DEF Init
  <2> QED BY <2>2, <2>3, <2>4 DEF Rest
<1>2. Shape /\ DialogInv /\ Rest /\ [Next]_vars => (Shape /\ DialogInv /\ Rest)'
  BY ShapeStep, DialogStep, RestStep
<1> QED BY <1>1, <1>2, DialogCorrect, LoaderInit, PTL DEF Spec

(* The editor's variables keep their types.  What is loaded follows from   *)
(* what is cached, by LoaderInv.                                           *)
THEOREM EditorTypeCorrect == Spec => []TypeOK
<1>1. ASSUME Shape, LoaderInv, DialogInv, Rest PROVE TypeOK
  <2>1. crashed \in BOOLEAN
    BY <1>1 DEF Rest
  <2>2. loaded \subseteq Versions
    BY <1>1 DEF LoaderInv, Rest
  <2>3. ASSUME NEW c \in Connections PROVE dialog[c].open \in BOOLEAN
    <3>1. dialog[c] \in [open : BOOLEAN, list : Seq(Entries), active : Nat]
      BY <1>1 DEF Shape
    <3> QED BY <3>1
  <2> QED BY <1>1, <2>1, <2>2, <2>3 DEF DialogInv, Rest, TypeOK
<1> QED BY <1>1, RestCorrect, LoaderCorrect, PTL

(* A gateway is written from the list of the client while that has an      *)
(* entry: the variable that is only set with one shown is not read unset.  *)
THEOREM GatewayIsListed == Spec => ListedHostIsSaved
<1>1. ASSUME Shape, DialogInv, Rest, NEW c \in Connections,
             UpdateConnection(c), dialog[c].list # <<>>
      PROVE  ~crashed' /\ \E i \in DOMAIN dialog[c].list : gateway'[c] = Saved(dialog[c].list[i])
  <2>1. dialog[c].open /\ dialog[c].active # 0
    BY <1>1 DEF UpdateConnection, DialogInv
  <2>2. dialog[c].active \in DOMAIN dialog[c].list
    BY <1>1, <2>1 DEF Shape, DialogInv
  <2>3. ~crashed /\ crashed' = crashed
    BY <1>1, <2>1 DEF UpdateConnection
  <2>4. gateway'[c] = Saved(dialog[c].list[dialog[c].active])
    BY <1>1, <2>1 DEF UpdateConnection, Rest
  <2> QED BY <2>2, <2>3, <2>4
<1>2. Shape /\ DialogInv /\ Rest /\ [Next]_vars =>
        [\A c \in Connections :
           UpdateConnection(c) /\ dialog[c].list # <<>>
             => ~crashed' /\ \E i \in DOMAIN dialog[c].list : gateway'[c] = Saved(dialog[c].list[i])]_vars
  BY <1>1
<1> QED BY <1>2, RestCorrect, PTL DEF Spec, ListedHostIsSaved
=============================================================================
