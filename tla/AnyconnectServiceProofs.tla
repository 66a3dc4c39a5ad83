---------------------- MODULE AnyconnectServiceProofs ----------------------
(***************************************************************************)
(* Theorems about AnyconnectService, for any number of clients, any length *)
(* of their pipes and any of the texts they print.                         *)
(***************************************************************************)
EXTENDS AnyconnectService, CredentialsProofs, SequenceTheorems

(* The private data stay well-formed through a disconnect and a reset. *)
LEMMA AfterDisconnectType ==
  ASSUME NEW p \in Private, NEW r \in CliResults
  PROVE  AfterDisconnect(p, r) \in Private /\ MessagesReset(p) \in Private
<1>1. 0 \in 0..MaxChildren /\ FromDisconnect \in Messages /\ NoMessage \in Messages
  BY ConstantsAssumption DEF FromDisconnect, NoMessage, Messages
<1>2. \A printed, reset \in BOOLEAN, old \in Messages :
        Latest(printed, reset, old) \in Messages
  BY <1>1 DEF Latest
<1>3. r.warning \in BOOLEAN /\ r.error \in BOOLEAN /\ r.binary \in BOOLEAN
      /\ r.disconnected \in BOOLEAN
  BY DEF CliResults
<1>4. /\ Latest(r.warning, r.binary, p.last_warning) \in Messages
      /\ Latest(r.error, r.binary, p.last_error) \in Messages
  BY <1>2, <1>3 DEF Private
<1>5. (p.connected /\ ~r.disconnected) \in BOOLEAN
  OBVIOUS
<1> QED BY <1>1, <1>4, <1>5 DEF AfterDisconnect, MessagesReset, Private

(* What a connection that may name a user asks for. *)
Asked == {{}} \cup {{u} : u \in Users}

(* Looking up the user changes that user alone. *)
LEMMA OfUserType ==
  ASSUME TypeOK, NEW user \in Asked
  PROVE  /\ OfUser(user) \in Private
         /\ OfUser(user).pid = priv.pid
         /\ OfUser(user).stdout_channel = priv.stdout_channel
         /\ \/ OfUser(user) = priv
            \/ \E u \in Users : OfUser(user).uid = u.uid /\ OfUser(user).gid = u.gid
<1>1. CASE user = {}
  BY <1>1 DEF OfUser, TypeOK
<1>2. ASSUME NEW u \in Users, user = {u}
      PROVE  /\ OfUser(user) = [priv EXCEPT !.uid = u.uid, !.gid = u.gid]
             /\ u.uid \in Nat /\ u.gid \in Nat
  <2>1. (CHOOSE v \in user : TRUE) = u
    BY <1>2
  <2>2. user # {}
    BY <1>2
  <2>3. u \in People
    BY ConstantsAssumption
  <2> QED BY <2>1, <2>2, <2>3 DEF OfUser, People
<1>3. ASSUME NEW u \in Users, user = {u}
      PROVE  /\ OfUser(user) \in Private
             /\ OfUser(user).pid = priv.pid
             /\ OfUser(user).stdout_channel = priv.stdout_channel
             /\ OfUser(user).uid = u.uid /\ OfUser(user).gid = u.gid
  <2>1. priv \in Private /\ u.uid \in Nat /\ u.gid \in Nat
    BY <1>2, <1>3 DEF TypeOK
  <2>2. /\ OfUser(user).uid = u.uid /\ OfUser(user).gid = u.gid
        /\ OfUser(user) \in Private
        /\ OfUser(user).pid = priv.pid
        /\ OfUser(user).stdout_channel = priv.stdout_channel
    BY <1>2, <1>3, <2>1 DEF Private
  <2> QED BY <2>2
<1> QED BY <1>1, <1>3 DEF Asked

(* Private data name a user. *)
LEMMA PrivateIsUser == ASSUME NEW p \in Private PROVE IsUser(p)
BY DEF Private, IsUser

(* A notification makes the service the user it works for, for good. *)
LEMMA ShownIdentity ==
  ASSUME me \in Identities, NEW p \in Private, me' = me \/ me' = Notified(me, p)
  PROVE  /\ me' \in Identities
         /\ me.uid # 0 => me' = me
         /\ me'.uid \in {me.uid, p.uid}
BY PrivateIsUser, NotifiedIdentity

(* The fields of the private data that name clients. *)
LEMMA PrivFields ==
  ASSUME TypeOK
  PROVE  /\ priv.pid \in 0..MaxChildren /\ priv.stdout_channel \in 0..MaxChildren
         /\ priv.connected \in BOOLEAN
         /\ priv.last_warning \in Messages /\ priv.last_error \in Messages
BY DEF TypeOK, Private

(* A disconnect arms timers for clients only. *)
LEMMA RealDisconnectType ==
  ASSUME TypeOK, NEW p \in Private, NEW r \in CliResults, RealDisconnect(p, r)
  PROVE  killTimers' \subseteq Children /\ tunnel' \in {"up", "down"} /\ me' \in Identities
<1>1. priv.pid # 0 => priv.pid \in Children
  BY PrivFields, ConstantsAssumption DEF Children
<1>2. killTimers' \in {killTimers, killTimers \cup {priv.pid}}
      /\ (killTimers' = killTimers \cup {priv.pid} => killTimers' = killTimers \/ priv.pid # 0)
  BY DEF RealDisconnect
<1>3. killTimers' \subseteq Children
  BY <1>1, <1>2 DEF TypeOK
<1>4. tunnel' \in {"up", "down"}
  BY DEF RealDisconnect, TypeOK
<1>5. me' \in Identities
  BY ShownIdentity DEF RealDisconnect, Shown, TypeOK
<1> QED BY <1>3, <1>4, <1>5

(* What a line does to the pipes is well-typed. *)
LEMMA WrittenType ==
  ASSUME TypeOK, NEW c \in Children, NEW line \in Lines, Written(c, line)
  PROVE  /\ out' \in [Children -> Seq(Lines \cup {"other"})]
         /\ reading' \in 0..MaxChildren
<1> DEFINE Texts == Lines \cup {"other"}
<1>1. /\ out \in [Children -> Seq(Texts)] /\ reading \in 0..MaxChildren
      /\ c \in 0..MaxChildren /\ 0 \in 0..MaxChildren /\ line \in Texts
  BY ConstantsAssumption DEF TypeOK, Children
<1>2. CASE out' = out
  BY <1>1, <1>2, ConstantsAssumption DEF Written, Children
<1>3. CASE /\ out[c] # <<>>
           /\ out' = [out EXCEPT ![c][Len(out[c])] =
                            IF line = "partial" THEN "partial" ELSE "other"]
           /\ reading' = reading
  <2>1. out[c] \in Seq(Texts) /\ Len(out[c]) \in 1..Len(out[c])
    BY <1>1, <1>3
  <2>2. (IF line = "partial" THEN "partial" ELSE "other") \in Texts
    BY <1>1
  <2>3. [out[c] EXCEPT ![Len(out[c])] =
           IF line = "partial" THEN "partial" ELSE "other"] \in Seq(Texts)
    BY <2>1, <2>2
  <2> QED BY <1>1, <1>3, <2>3
<1>4. CASE /\ out' = [out EXCEPT ![c] = Append(@, line)]
           /\ reading' = reading
  BY <1>1, <1>4
<1> QED BY <1>2, <1>3, <1>4 DEF Written

LEMMA TypeStep == TypeOK /\ [Next]_vars => TypeOK'
<1> SUFFICES ASSUME TypeOK, [Next]_vars PROVE TypeOK'
  OBVIOUS
<1> USE ConstantsAssumption DEF Children
<1>1. CASE RealConnect
  <2>1. PICK user \in Asked, r \in CliResults :
          /\ RealDisconnect(OfUser(user), r)
          /\ \/ NotStarted(AfterDisconnect(OfUser(user), r), r)
             \/ Started(AfterDisconnect(OfUser(user), r), r)
    BY <1>1 DEF RealConnect, Asked
  <2> DEFINE p == AfterDisconnect(OfUser(user), r)
  <2>2. p \in Private /\ MessagesReset(p) \in Private
    BY AfterDisconnectType, OfUserType
  <2>3. killTimers' \subseteq Children /\ tunnel' \in {"up", "down"} /\ me' \in Identities
    BY <2>1, OfUserType, RealDisconnectType
  <2>4. CASE NotStarted(p, r)
    <3>1. priv' \in Private
      BY <2>2, <2>4 DEF NotStarted
    <3> HIDE DEF p
    <3>2. /\ UNCHANGED <<loop, clients, childWatch, stdoutWatch, openFds>>
          /\ state' = "starting" /\ failure' = 0 /\ attempt' = 0
      BY <1>1, <2>4 DEF RealConnect, NotStarted
    <3>3. 0 \in 0..MaxChildren
      OBVIOUS
    <3> QED BY <2>3, <3>1, <3>2, <3>3, ZenonT(40) DEF TypeOK, clients, identities
  <2>5. CASE Started(p, r)
    <3>1. /\ priv' = [MessagesReset(p) EXCEPT !.pid = spawned + 1,
                                                !.stdout_channel = spawned + 1]
          /\ spawned + 1 \in 0..MaxChildren
      BY <2>5 DEF Started
    <3>. DEFINE q == MessagesReset(p)  n == spawned + 1
    <3>. HIDE DEF q, n
    <3>2. priv' = [q EXCEPT !.pid = n, !.stdout_channel = n]
      BY <3>1 DEF q, n
    <3>3. q \in Private /\ n \in 0..MaxChildren
      BY <2>2, <3>1 DEF q, n
    <3>4. priv' \in Private
      BY <3>2, <3>3 DEF Private
    <3>5. p.uid \in Nat /\ p.gid \in Nat
      BY <2>2 DEF Private
    <3>6. ChildSetup(me', p) \in Identities
      BY <2>3, <3>5, ChildSetupIdentity DEF IsUser
    <3>7. /\ as' \in [Children -> Identities]
          /\ for' \in [Children -> People]
      BY <2>5, <3>5, <3>6 DEF Started, TypeOK, People
    <3>8. /\ spawned' \in 0..MaxChildren
          /\ proc' \in [Children -> {"none", "running", "zombie", "reaped"}]
          /\ childWatch' \subseteq Children /\ stdoutWatch' \subseteq Children
          /\ openFds' \subseteq Children /\ attempt' \in 0..MaxChildren
          /\ out' = out /\ reading' = reading
      BY <2>5 DEF Started, Watched, TypeOK
    <3>9. /\ state' = "starting" /\ failure' = 0 /\ loop' = loop
      BY <1>1 DEF RealConnect
    <3> HIDE DEF p
    <3> QED BY <2>3, <3>4, <3>7, <3>8, <3>9, SMTT(40) DEF TypeOK
  <2> HIDE DEF p
  <2> QED BY <2>1, <2>4, <2>5 DEF p
<1>2. CASE ConnectUnknownUser
  BY <1>2 DEF ConnectUnknownUser, TypeOK, privVars, clients, identities, sources
<1>3. CASE Disconnect
  <2>1. PICK r \in CliResults :
          RealDisconnect(priv, r) /\ priv' = AfterDisconnect(priv, r)
    BY <1>3 DEF Disconnect
  <2>2. priv' \in Private
    BY <2>1, AfterDisconnectType DEF TypeOK
  <2>3. killTimers' \subseteq Children /\ tunnel' \in {"up", "down"} /\ me' \in Identities
    BY <2>1, RealDisconnectType DEF TypeOK
  <2> QED BY <1>3, <2>2, <2>3 DEF Disconnect, TypeOK, clients, identities
<1>4. CASE SignalHandler
  <2>1. CASE state = "started"
    <3>1. PICK r \in CliResults :
            RealDisconnect(priv, r) /\ priv' = AfterDisconnect(priv, r)
      BY <1>4, <2>1 DEF SignalHandler
    <3>2. priv' \in Private
      BY <3>1, AfterDisconnectType DEF TypeOK
    <3>3. killTimers' \subseteq Children /\ tunnel' \in {"up", "down"} /\ me' \in Identities
      BY <3>1, RealDisconnectType DEF TypeOK
    <3> QED BY <1>4, <2>1, <3>2, <3>3 DEF SignalHandler, TypeOK, clients, identities
  <2>2. CASE state # "started"
    BY <1>4, <2>2 DEF SignalHandler, TypeOK, clients, identities
  <2> QED BY <2>1, <2>2
<1>5. CASE QuitMainloop
  BY <1>5 DEF QuitMainloop, TypeOK, privVars, clients, identities, sources
<1>6. CASE TunnelDrop
  BY <1>6 DEF TunnelDrop, TypeOK, privVars, clients, identities, sources
<1>7. ASSUME NEW c \in Children, NEW line \in Lines, ClientPrints(c, line)
      PROVE  TypeOK'
  BY <1>7, WrittenType DEF ClientPrints, TypeOK, privVars, identities, sources
<1>8. ASSUME NEW c \in Children, ClientExits(c)
      PROVE  TypeOK'
  <2>1. /\ proc' \in [Children -> {"none", "running", "zombie", "reaped"}]
        /\ reading' \in 0..MaxChildren
    BY <1>8 DEF ClientExits, TypeOK
  <2>2. UNCHANGED <<loop, state, me, privVars, spawned, out, identities, sources, tunnel>>
    BY <1>8 DEF ClientExits
  <2> QED BY <2>1, <2>2, ZenonT(40) DEF TypeOK, privVars, identities, sources
<1>9. ASSUME NEW c \in Children, GlibReaps(c)
      PROVE  TypeOK'
  BY <1>9 DEF GlibReaps, TypeOK, privVars, identities, sources
<1>10. ASSUME NEW c \in Children, AnyconnectStdoutCb(c)
       PROVE  TypeOK'
  <2>1. out[c] \in Seq(Lines \cup {"other"}) /\ out[c] # <<>>
    BY <1>10 DEF AnyconnectStdoutCb, TypeOK
  <2>2. out' \in [Children -> Seq(Lines \cup {"other"})]
    BY <1>10, <2>1 DEF AnyconnectStdoutCb, TypeOK
  <2>3. priv \in Private /\ c \in Messages
    BY DEF TypeOK, Messages
  <2>4. \/ priv' = [priv EXCEPT !.connected = TRUE]
        \/ priv' = [priv EXCEPT !.last_warning = c]
        \/ priv' = [priv EXCEPT !.last_error = c]
        \/ priv' = priv
    BY <1>10 DEF AnyconnectStdoutCb
  <2>5. priv' \in Private
    BY <2>3, <2>4 DEF Private
  <2>6. reading' \in 0..MaxChildren /\ state' \in {"stopped", "starting", "started"}
        /\ loop' \in {"running", "quit", "crashed"}
    BY <1>10 DEF AnyconnectStdoutCb, TypeOK
  <2>7. UNCHANGED <<me, attempt, failure, spawned, proc, as, for, tunnel,
                    childWatch, stdoutWatch, openFds, killTimers>>
    BY <1>10 DEF AnyconnectStdoutCb, identities, sources
  <2> QED BY <2>2, <2>5, <2>6, <2>7, ZenonT(40) DEF TypeOK
<1>11. ASSUME NEW c \in Children, AnyconnectWatchCb(c)
       PROVE  TypeOK'
  <2>1. proc' \in [Children -> {"none", "running", "zombie", "reaped"}]
    BY <1>11 DEF AnyconnectWatchCb, WaitPid, TypeOK
  <2>2. priv' \in Private
    <3>1. priv' = [priv EXCEPT !.pid = 0] /\ priv \in Private
      BY <1>11 DEF AnyconnectWatchCb, TypeOK
    <3> QED BY <3>1 DEF Private
  <2>3. out' \in [Children -> Seq(Lines \cup {"other"})]
    <3>1. out' = [out EXCEPT ![priv.stdout_channel] = <<>>]
      BY <1>11 DEF AnyconnectWatchCb, CloseStdout
    <3>2. <<>> \in Seq(Lines \cup {"other"})
      OBVIOUS
    <3> QED BY <3>1, <3>2 DEF TypeOK
  <2>4. me' \in Identities
    BY <1>11, ShownIdentity DEF AnyconnectWatchCb, FailureShown, TypeOK
  <2>5. /\ childWatch' \subseteq Children /\ stdoutWatch' \subseteq Children
        /\ openFds' \subseteq Children /\ failure' \in 0..MaxChildren
    BY <1>11 DEF AnyconnectWatchCb, CloseStdout, Signalled, TypeOK
  <2>6. UNCHANGED <<loop, state, attempt, spawned, reading, as, for, killTimers, tunnel>>
    BY <1>11 DEF AnyconnectWatchCb, identities
  <2> QED BY <2>1, <2>2, <2>3, <2>4, <2>5, <2>6, ZenonT(40) DEF TypeOK
<1>12. ASSUME NEW c \in Children, EnsureKilled(c)
       PROVE  TypeOK'
  BY <1>12 DEF EnsureKilled, TypeOK, privVars, identities
<1>13. CASE UNCHANGED vars
  BY <1>13 DEF vars, privVars, clients, identities, sources, TypeOK
<1> QED BY <1>1, <1>2, <1>3, <1>4, <1>5, <1>6, <1>7, <1>8, <1>9, <1>10,
           <1>11, <1>12, <1>13 DEF Next

LEMMA TypeInit == Init => TypeOK
BY ConstantsAssumption DEF Init, TypeOK, Private, Messages, NoMessage, Children,
                            Identities, Root, People

(* Every variable keeps its type.  This is what each later invariant rests *)
(* on, and it says that the messages and the tracked client always name a  *)
(* client that was spawned or nothing.                                     *)
THEOREM TypeCorrect == Spec => []TypeOK
<1> QED BY TypeInit, TypeStep, PTL DEF Spec

-----------------------------------------------------------------------------
(* A disconnect untracks the client and keeps its channel and the user.    *)
LEMMA DisconnectFields ==
  ASSUME NEW p \in Private, NEW r \in CliResults, NEW q \in Private,
         q = AfterDisconnect(p, r) \/ q = MessagesReset(AfterDisconnect(p, r))
  PROVE  /\ q.pid = 0 /\ q.stdout_channel = p.stdout_channel
         /\ q.uid = p.uid /\ q.gid = p.gid
BY DEF AfterDisconnect, MessagesReset, Private

(* A Connect untracks the client, or tracks the one it started.            *)
LEMMA ConnectFields ==
  ASSUME TypeOK, RealConnect
  PROVE  \E user \in Asked, r \in CliResults :
           /\ RealDisconnect(OfUser(user), r)
           /\ OfUser(user) \in Private
           /\ priv'.uid = OfUser(user).uid /\ priv'.gid = OfUser(user).gid
           /\ \/ /\ priv'.pid = 0 /\ priv'.stdout_channel = priv.stdout_channel
                 /\ attempt' = 0 /\ UNCHANGED <<clients, childWatch, stdoutWatch, openFds>>
              \/ /\ spawned + 1 \in Children /\ spawned' = spawned + 1
                 /\ priv'.pid = spawned + 1 /\ priv'.stdout_channel = spawned + 1
                 /\ priv'.last_warning = NoMessage /\ priv'.last_error = NoMessage
                 /\ proc' = [proc EXCEPT ![spawned + 1] = "running"]
                 /\ as' = [as EXCEPT ![spawned + 1] = ChildSetup(me', OfUser(user))]
                 /\ Watched(spawned + 1) /\ attempt' = spawned + 1
                 /\ for' = [for EXCEPT ![spawned + 1] =
                               [uid |-> priv'.uid, gid |-> priv'.gid]]
<1>1. PICK user \in Asked, r \in CliResults :
        /\ RealDisconnect(OfUser(user), r)
        /\ \/ NotStarted(AfterDisconnect(OfUser(user), r), r)
           \/ Started(AfterDisconnect(OfUser(user), r), r)
  BY DEF RealConnect, Asked
<1> DEFINE p == OfUser(user)
<1>2. /\ p \in Private /\ p.stdout_channel = priv.stdout_channel
  BY OfUserType
<1>3. AfterDisconnect(p, r) \in Private /\ MessagesReset(AfterDisconnect(p, r)) \in Private
  BY <1>2, AfterDisconnectType
<1> HIDE DEF p
<1>4. CASE NotStarted(AfterDisconnect(p, r), r)
  <2>1. /\ priv' \in Private
        /\ \/ priv' = AfterDisconnect(p, r)
           \/ priv' = MessagesReset(AfterDisconnect(p, r))
    BY <1>3, <1>4 DEF NotStarted
  <2>2. /\ priv'.pid = 0 /\ priv'.stdout_channel = priv.stdout_channel
        /\ priv'.uid = p.uid /\ priv'.gid = p.gid
    BY <1>2, <2>1, DisconnectFields
  <2> QED BY <1>1, <1>2, <1>4, <2>2 DEF NotStarted, p
<1>5. CASE Started(AfterDisconnect(p, r), r)
  <2> DEFINE q == AfterDisconnect(p, r)  m == MessagesReset(q)
  <2>1. q.uid = p.uid /\ q.gid = p.gid /\ m.uid = p.uid /\ m.gid = p.gid
    BY <1>2, <1>3, DisconnectFields
  <2>2. m \in Private /\ m.last_warning = NoMessage /\ m.last_error = NoMessage
    BY <1>3 DEF MessagesReset, Private
  <2>3. /\ spawned + 1 \in Children /\ spawned' = spawned + 1
        /\ priv' = [m EXCEPT !.pid = spawned + 1, !.stdout_channel = spawned + 1]
        /\ proc' = [proc EXCEPT ![spawned + 1] = "running"]
        /\ as' = [as EXCEPT ![spawned + 1] = ChildSetup(me', q)]
        /\ for' = [for EXCEPT ![spawned + 1] = [uid |-> q.uid, gid |-> q.gid]]
        /\ Watched(spawned + 1) /\ attempt' = spawned + 1
    BY <1>5 DEF Started
  <2>4. ChildSetup(me', q) = ChildSetup(me', p)
    BY <2>1 DEF ChildSetup
  <2> HIDE DEF q, m
  <2>5. /\ priv'.pid = spawned + 1 /\ priv'.stdout_channel = spawned + 1
        /\ priv'.last_warning = NoMessage /\ priv'.last_error = NoMessage
        /\ priv'.uid = p.uid /\ priv'.gid = p.gid
    BY <2>1, <2>2, <2>3 DEF Private
  <2>6. for' = [for EXCEPT ![spawned + 1] = [uid |-> priv'.uid, gid |-> priv'.gid]]
    BY <2>1, <2>3, <2>5
  <2> QED BY <1>1, <1>2, <2>3, <2>4, <2>5, <2>6 DEF p
<1> QED BY <1>1, <1>4, <1>5 DEF p

(* Only a Connect changes the user and spawns; the service keeps its       *)
(* identity or shows a notification.                                       *)
LEMMA OtherStep ==
  ASSUME TypeOK, [Next]_vars, ~RealConnect
  PROVE  /\ as' = as /\ for' = for /\ childWatch' \subseteq childWatch
         /\ priv'.uid = priv.uid /\ priv'.gid = priv.gid
         /\ me' = me \/ me' = Notified(me, priv)
<1> DEFINE Goal == /\ as' = as /\ for' = for /\ childWatch' \subseteq childWatch
                   /\ priv'.uid = priv.uid /\ priv'.gid = priv.gid
                   /\ me' = me \/ me' = Notified(me, priv)
<1>1. \A r \in CliResults : /\ AfterDisconnect(priv, r).uid = priv.uid
                            /\ AfterDisconnect(priv, r).gid = priv.gid
  BY AfterDisconnectType, DisconnectFields DEF TypeOK
<1>2. ASSUME Disconnect PROVE Goal
  BY <1>1, <1>2 DEF Disconnect, RealDisconnect, Shown, clients, identities
<1>3. ASSUME SignalHandler PROVE Goal
  <2>1. UNCHANGED <<clients, childWatch>>
    BY <1>3 DEF SignalHandler
  <2>2. CASE state = "started"
    <3>1. PICK r \in CliResults : /\ me' = me \/ me' = Notified(me, priv)
                                  /\ priv' = AfterDisconnect(priv, r)
      BY <1>3, <2>2 DEF SignalHandler, RealDisconnect, Shown
    <3>2. priv'.uid = priv.uid /\ priv'.gid = priv.gid
      BY <1>1, <3>1
    <3> QED BY <2>1, <3>1, <3>2 DEF clients, identities
  <2>3. CASE state # "started"
    BY <1>3, <2>1, <2>3 DEF SignalHandler, clients, identities
  <2> QED BY <2>2, <2>3
<1>4. ASSUME NEW c \in Children, AnyconnectStdoutCb(c) PROVE Goal
  <2>1. priv'.uid = priv.uid /\ priv'.gid = priv.gid
    BY <1>4 DEF AnyconnectStdoutCb, TypeOK, Private
  <2> QED BY <1>4, <2>1 DEF AnyconnectStdoutCb, identities, sources
<1>5. ASSUME NEW c \in Children, AnyconnectWatchCb(c) PROVE Goal
  <2>1. priv'.uid = priv.uid /\ priv'.gid = priv.gid
    BY <1>5 DEF AnyconnectWatchCb, TypeOK, Private
  <2> QED BY <1>5, <2>1 DEF AnyconnectWatchCb, FailureShown, identities
<1>6. CASE ConnectUnknownUser \/ QuitMainloop \/ TunnelDrop \/ UNCHANGED vars
  BY <1>6 DEF ConnectUnknownUser, QuitMainloop, TunnelDrop, vars, privVars,
              clients, identities, sources
<1>7. ASSUME NEW c \in Children,
             \/ \E line \in Lines : ClientPrints(c, line)
             \/ ClientExits(c) \/ GlibReaps(c) \/ EnsureKilled(c)
      PROVE  Goal
  BY <1>7 DEF ClientPrints, ClientExits, GlibReaps, EnsureKilled, privVars,
              identities, sources
<1> QED BY <1>2, <1>3, <1>4, <1>5, <1>6, <1>7 DEF Next

(* A step leaves the private data's user or takes one of the database, and *)
(* the service becomes that user or stays what it is.                      *)
LEMMA ServiceStep ==
  ASSUME TypeOK, [Next]_vars
  PROVE  /\ \/ priv'.uid = priv.uid /\ priv'.gid = priv.gid
            \/ \E u \in Users : priv'.uid = u.uid /\ priv'.gid = u.gid
         /\ me' = me \/ me' = Notified(me, priv')
<1>1. CASE RealConnect
  <2>1. PICK user \in Asked, r \in CliResults :
          /\ RealDisconnect(OfUser(user), r)
          /\ priv'.uid = OfUser(user).uid /\ priv'.gid = OfUser(user).gid
    BY <1>1, ConnectFields
  <2>2. me' = me \/ me' = Notified(me, OfUser(user))
    BY <2>1 DEF RealDisconnect, Shown
  <2>3. Notified(me, OfUser(user)) = Notified(me, priv')
    BY <2>1 DEF Notified
  <2> QED BY <2>1, <2>2, <2>3, OfUserType
<1>2. CASE ~RealConnect
  <2>1. Notified(me, priv) = Notified(me, priv')
    BY <1>2, OtherStep DEF Notified
  <2> QED BY <1>2, <2>1, OtherStep
<1> QED BY <1>1, <1>2

LEMMA IdentityStep ==
  ASSUME TypeOK, TypeOK', [Next]_vars
  PROVE  /\ me.uid # 0 => me' = me
         /\ me'.uid \in {me.uid, priv'.uid}
BY ServiceStep, ShownIdentity DEF TypeOK

(* A client is spawned for the user in the private data, as what a child   *)
(* of the service can become of that user.                                 *)
LEMMA SpawnStep ==
  ASSUME TypeOK, [Next]_vars
  PROVE  \/ as' = as /\ for' = for
         \/ \E c \in Children :
              /\ as' = [as EXCEPT ![c] = ChildSetup(me', priv')]
              /\ for' = [for EXCEPT ![c] = [uid |-> priv'.uid, gid |-> priv'.gid]]
<1>1. CASE RealConnect
  <2>1. PICK user \in Asked :
          /\ priv'.uid = OfUser(user).uid /\ priv'.gid = OfUser(user).gid
          /\ \/ UNCHANGED clients
             \/ /\ spawned + 1 \in Children
                /\ as' = [as EXCEPT ![spawned + 1] = ChildSetup(me', OfUser(user))]
                /\ for' = [for EXCEPT ![spawned + 1] =
                              [uid |-> priv'.uid, gid |-> priv'.gid]]
    BY <1>1, ConnectFields
  <2>2. ChildSetup(me', OfUser(user)) = ChildSetup(me', priv')
    BY <2>1 DEF ChildSetup
  <2> QED BY <2>1, <2>2 DEF clients, identities
<1>2. CASE ~RealConnect
  BY <1>2, OtherStep
<1> QED BY <1>1, <1>2

(* The user a child becomes. *)
LEMMA ChildIdentity ==
  ASSUME me' \in Identities, priv' \in Private
  PROVE  /\ ChildSetup(me', priv') \in Identities
         /\ ChildSetup(me', priv').uid \in {me'.uid, priv'.uid}
         /\ me'.uid # 0 \/ priv'.gid = 0 => ChildSetup(me', priv') = me'
         /\ me'.uid = 0 /\ priv'.gid # 0 =>
              /\ ChildSetup(me', priv').uid = priv'.uid
              /\ ChildSetup(me', priv').gid = priv'.gid
              /\ ChildSetup(me', priv').groups = {priv'.gid}
BY PrivateIsUser, ChildSetupIdentity

-----------------------------------------------------------------------------
(* What holds in every environment. *)

EnvironmentInv ==
  /\ EveryChildReported
  /\ state = "started" => priv.connected

LEMMA EnvironmentStep == TypeOK /\ EnvironmentInv /\ [Next]_vars => EnvironmentInv'
<1> SUFFICES ASSUME TypeOK, EnvironmentInv, [Next]_vars PROVE EnvironmentInv'
  OBVIOUS
<1> USE DEF EnvironmentInv, EveryChildReported
<1>1. CASE RealConnect
  <2>1. state' = "starting"
    BY <1>1 DEF RealConnect
  <2>2. CASE priv'.pid = 0 /\ UNCHANGED <<clients, childWatch>>
    BY <2>1, <2>2 DEF clients
  <2>3. CASE /\ spawned + 1 \in Children /\ priv'.pid = spawned + 1
             /\ proc' = [proc EXCEPT ![spawned + 1] = "running"]
             /\ childWatch' = childWatch \cup {spawned + 1}
    BY <2>1, <2>3 DEF TypeOK
  <2> QED BY <1>1, <2>2, <2>3, ConnectFields DEF Watched
<1>2. CASE ConnectUnknownUser
  BY <1>2 DEF ConnectUnknownUser, privVars, clients, sources
<1>3. CASE Disconnect
  <2>1. priv'.pid = 0
    BY <1>3 DEF Disconnect, AfterDisconnect, TypeOK, Private
  <2> QED BY <1>3, <2>1 DEF Disconnect, clients
<1>4. CASE SignalHandler
  <2>1. (state = "started" => state' = "stopped" /\ priv'.pid = 0)
        /\ (state # "started" => state' = state /\ priv' = priv)
    BY <1>4 DEF SignalHandler, AfterDisconnect, TypeOK, Private
  <2> QED BY <1>4, <2>1 DEF SignalHandler, clients
<1>5. CASE QuitMainloop
  BY <1>5 DEF QuitMainloop, privVars, clients, sources
<1>6. CASE TunnelDrop
  BY <1>6 DEF TunnelDrop, privVars, clients, sources
<1>7. ASSUME NEW c \in Children, NEW line \in Lines, ClientPrints(c, line)
      PROVE  EnvironmentInv'
  BY <1>7 DEF ClientPrints, privVars, sources
<1>8. ASSUME NEW c \in Children, ClientExits(c)
      PROVE  EnvironmentInv'
  BY <1>8 DEF ClientExits, privVars, sources, TypeOK
<1>9. ASSUME NEW c \in Children, GlibReaps(c)
      PROVE  EnvironmentInv'
  BY <1>9 DEF GlibReaps, privVars, sources, TypeOK
<1>10. ASSUME NEW c \in Children, AnyconnectStdoutCb(c)
       PROVE  EnvironmentInv'
  <2>1. /\ priv'.pid = priv.pid
        /\ priv.connected => priv'.connected
        /\ state' = "started" => state = "started" \/ priv'.connected
    BY <1>10 DEF AnyconnectStdoutCb, TypeOK, Private
  <2> QED BY <1>10, <2>1 DEF AnyconnectStdoutCb, sources
<1>11. ASSUME NEW c \in Children, AnyconnectWatchCb(c)
       PROVE  EnvironmentInv'
  <2>1. priv'.pid = 0 /\ priv'.connected = priv.connected
    BY <1>11 DEF AnyconnectWatchCb, TypeOK, Private
  <2>2. \A d \in Children : proc'[d] \in {"running", "zombie"}
                             => d # c /\ proc[d] \in {"running", "zombie"}
    BY <1>11 DEF AnyconnectWatchCb, WaitPid, TypeOK
  <2> QED BY <1>11, <2>1, <2>2 DEF AnyconnectWatchCb, CloseStdout
<1>12. ASSUME NEW c \in Children, EnsureKilled(c)
       PROVE  EnvironmentInv'
  BY <1>12 DEF EnsureKilled, privVars, TypeOK
<1>13. CASE UNCHANGED vars
  BY <1>13 DEF vars, privVars, clients, sources
<1> QED BY <1>1, <1>2, <1>3, <1>4, <1>5, <1>6, <1>7, <1>8, <1>9, <1>10,
           <1>11, <1>12, <1>13 DEF Next

LEMMA EnvironmentInit == Init => EnvironmentInv
BY DEF Init, EnvironmentInv, EveryChildReported, Children

LEMMA EnvironmentCorrect == Spec => []EnvironmentInv
<1> QED BY EnvironmentInit, EnvironmentStep, TypeCorrect, PTL DEF Spec

(* Every client that has not been collected still has its exit callback to *)
(* come, however NetworkManager's requests and the exits interleave.       *)
THEOREM ChildrenReported == Spec => []EveryChildReported
<1>1. EnvironmentInv => EveryChildReported
  BY DEF EnvironmentInv
<1> QED BY <1>1, EnvironmentCorrect, PTL

(* An exit dispatched while the service is started signals no failure. *)
THEOREM NoFailureOnceStarted == Spec => StartedNeverFails
<1>1. EnvironmentInv /\ [Next]_vars
        => [\A c \in Children : AnyconnectWatchCb(c) /\ state = "started"
                                  => failure' = failure]_vars
  BY DEF EnvironmentInv, AnyconnectWatchCb, Signalled
<1> QED BY <1>1, EnvironmentCorrect, PTL DEF Spec, StartedNeverFails

-----------------------------------------------------------------------------
(* The identities the service and its clients go through. *)

(* A user outside of root's group never gets a client that runs as root,   *)
(* however many notifications were shown to whomever before.               *)
THEOREM UsersNeverRoot == Spec => []NoRootForUsers
<1>1. Init => NoRootForUsers
  <2> SUFFICES ASSUME Init PROVE NoRootForUsers
    OBVIOUS
  <2>1. \A c \in Children : for[c].uid = 0
    BY DEF Init
  <2> QED BY <2>1 DEF NoRootForUsers
<1>2. TypeOK /\ TypeOK' /\ NoRootForUsers /\ [Next]_vars => NoRootForUsers'
  <2> SUFFICES ASSUME TypeOK, TypeOK', NoRootForUsers, [Next]_vars
               PROVE  NoRootForUsers'
    OBVIOUS
  <2>1. CASE as' = as /\ for' = for
    BY <2>1 DEF NoRootForUsers
  <2>2. ASSUME NEW c \in Children,
               as' = [as EXCEPT ![c] = ChildSetup(me', priv')],
               for' = [for EXCEPT ![c] = [uid |-> priv'.uid, gid |-> priv'.gid]]
        PROVE  NoRootForUsers'
    <3>1. priv'.uid # 0 /\ priv'.gid # 0 => ChildSetup(me', priv').uid # 0
      BY ChildIdentity DEF TypeOK
    <3>2. /\ as'[c] = ChildSetup(me', priv')
          /\ for'[c].uid = priv'.uid /\ for'[c].gid = priv'.gid
      BY <2>2 DEF TypeOK
    <3>3. \A d \in Children : d # c => as'[d] = as[d] /\ for'[d] = for[d]
      BY <2>2 DEF TypeOK
    <3> QED BY <3>1, <3>2, <3>3 DEF NoRootForUsers
  <2> QED BY <2>1, <2>2, SpawnStep
<1> QED BY <1>1, <1>2, TypeCorrect, PTL DEF Spec

(* The users are outside of root's group unless they are root. *)
OrdinaryUsers == \A u \in Users : u.gid = 0 => u.uid = 0

LEMMA OrdinaryStep ==
  ASSUME OrdinaryUsers, TypeOK, priv.gid = 0 => priv.uid = 0, [Next]_vars
  PROVE  priv'.gid = 0 => priv'.uid = 0
BY ServiceStep DEF OrdinaryUsers

(* The service and its clients are root, or in one group that is not       *)
(* root's.                                                                 *)
Settled(p) == p.uid # 0 => p.gid # 0 /\ p.groups = {p.gid}

SettledInv == /\ priv.gid = 0 => priv.uid = 0
              /\ Settled(me)
              /\ NoRootGroups

LEMMA SettledStep ==
  ASSUME OrdinaryUsers, TypeOK, TypeOK', SettledInv, [Next]_vars PROVE SettledInv'
<1>1. priv' \in Private /\ (priv'.gid = 0 => priv'.uid = 0)
  BY OrdinaryStep DEF SettledInv, TypeOK
<1>2. Settled(me')
  <2>1. CASE me' = me
    BY <2>1 DEF SettledInv, Settled
  <2>2. CASE me' = Notified(me, priv')
    BY <1>1, <2>2, PrivateIsUser, NotifiedIdentity DEF SettledInv, Settled, TypeOK
  <2> QED BY <2>1, <2>2, ServiceStep
<1>3. Settled(ChildSetup(me', priv'))
  BY <1>1, <1>2, ChildIdentity DEF Settled, TypeOK
<1>4. NoRootGroups'
  <2>1. CASE as' = as
    BY <2>1 DEF SettledInv, NoRootGroups
  <2>2. ASSUME NEW c \in Children, as' = [as EXCEPT ![c] = ChildSetup(me', priv')]
        PROVE  NoRootGroups'
    <3>1. as'[c] = ChildSetup(me', priv')
          /\ \A d \in Children : d # c => as'[d] = as[d]
      BY <2>2 DEF TypeOK
    <3> QED BY <1>3, <3>1 DEF SettledInv, NoRootGroups, Settled
  <2> QED BY <2>1, <2>2, SpawnStep
<1> QED BY <1>1, <1>2, <1>4 DEF SettledInv, Settled

(* Where no user but root is in root's group, no process that gave up root *)
(* has kept a group of root's.                                             *)
THEOREM RootGroupsGivenUp == ASSUME OrdinaryUsers PROVE Spec => []NoRootGroups
<1>1. Init => SettledInv
  <2> SUFFICES ASSUME Init PROVE SettledInv
    OBVIOUS
  <2>1. /\ me.uid = 0 /\ priv.uid = 0
        /\ \A c \in Children : as[c].uid = 0
    BY DEF Init, Root
  <2> QED BY <2>1 DEF SettledInv, Settled, NoRootGroups
<1>2. TypeOK /\ TypeOK' /\ SettledInv /\ [Next]_vars => SettledInv'
  BY SettledStep
<1>3. SettledInv => NoRootGroups
  BY DEF SettledInv
<1> QED BY <1>1, <1>2, <1>3, TypeCorrect, PTL DEF Spec

(* A client runs as the user it was started for, or as the user whom the   *)
(* service itself had become before it was started and will stay.          *)
SignalInv ==
  /\ priv.gid = 0 => priv.uid = 0
  /\ \A c \in Children :
       as[c].uid = for[c].uid \/ (me.uid # 0 /\ as[c].uid = me.uid)

LEMMA SignalStep ==
  ASSUME OrdinaryUsers, TypeOK, TypeOK', SignalInv, [Next]_vars PROVE SignalInv'
<1>1. priv'.gid = 0 => priv'.uid = 0
  BY OrdinaryStep DEF SignalInv
<1>2. me.uid # 0 => me' = me
  BY IdentityStep
<1>3. ChildSetup(me', priv').uid = priv'.uid
      \/ (me'.uid # 0 /\ ChildSetup(me', priv').uid = me'.uid)
  BY <1>1, ChildIdentity DEF TypeOK
<1>4. ASSUME NEW c \in Children
      PROVE  as'[c].uid = for'[c].uid \/ (me'.uid # 0 /\ as'[c].uid = me'.uid)
  <2>1. CASE as' = as /\ for' = for
    BY <1>2, <2>1 DEF SignalInv
  <2>2. ASSUME NEW d \in Children,
               as' = [as EXCEPT ![d] = ChildSetup(me', priv')],
               for' = [for EXCEPT ![d] = [uid |-> priv'.uid, gid |-> priv'.gid]]
        PROVE  as'[c].uid = for'[c].uid \/ (me'.uid # 0 /\ as'[c].uid = me'.uid)
    <3>1. CASE c = d
      <4>1. as'[c] = ChildSetup(me', priv') /\ for'[c].uid = priv'.uid
        BY <2>2, <3>1 DEF TypeOK
      <4> QED BY <1>3, <4>1
    <3>2. CASE c # d
      <4>1. as'[c] = as[c] /\ for'[c] = for[c]
        BY <2>2, <3>2 DEF TypeOK
      <4> QED BY <1>2, <4>1 DEF SignalInv
    <3> QED BY <3>1, <3>2
  <2> QED BY <2>1, <2>2, SpawnStep
<1> QED BY <1>1, <1>4 DEF SignalInv

(* Where no user but root is in root's group, the service keeps the right  *)
(* to end the client of the user it has become, or of anyone for as long   *)
(* as it is root.                                                          *)
THEOREM SignalsArrive == ASSUME OrdinaryUsers PROVE Spec => []ClientsCanBeSignalled
<1>1. Init => SignalInv
  <2> SUFFICES ASSUME Init PROVE SignalInv
    OBVIOUS
  <2>1. priv.uid = 0 /\ \A c \in Children : as[c].uid = 0 /\ for[c].uid = 0
    BY DEF Init, Root
  <2> QED BY <2>1 DEF SignalInv
<1>2. TypeOK /\ TypeOK' /\ SignalInv /\ [Next]_vars => SignalInv'
  BY SignalStep
<1>3. SignalInv => ClientsCanBeSignalled
  BY DEF SignalInv, ClientsCanBeSignalled, MaySignal
<1> QED BY <1>1, <1>2, <1>3, TypeCorrect, PTL DEF Spec

-----------------------------------------------------------------------------
(* What holds when a Connect waits for the exits of the earlier clients.   *)

(* The safety properties are not inductive: that a callback cleans up the  *)
(* right client needs that it is the only one watched, that no failure is  *)
(* left of an attempt whose client has not ended, and that a client is out *)
(* of reach only when it runs as root.                                     *)
WithinReach ==
  \A c \in childWatch :
    as[c].uid \in {0, me.uid} \/ (me.uid = 0 /\ as[c].uid = priv.uid)

SerialInv ==
  /\ childWatch \subseteq {priv.stdout_channel}
  /\ childWatch \subseteq {attempt}
  /\ childWatch # {} => failure = 0
  /\ WithinReach
  /\ LiveChildAccounted
  /\ NothingLeaks
  /\ FeedbackIsOwn
  /\ FailureTellsTheAttempt

LEMMA SerialInit == Init => SerialInv
<1> SUFFICES ASSUME Init PROVE SerialInv
  OBVIOUS
<1> QED BY DEF Init, SerialInv, WithinReach, LiveChildAccounted, NothingLeaks, FeedbackIsOwn,
               FailureTellsTheAttempt, Children

LEMMA WithinReachStep ==
  ASSUME AwaitExit, TypeOK, TypeOK', WithinReach, [Next]_vars
  PROVE  WithinReach'
<1>1. CASE RealConnect
  <2>1. childWatch = {}
    BY <1>1 DEF RealConnect, ConnectAllowed
  <2>2. PICK user \in Asked :
          /\ priv'.uid = OfUser(user).uid /\ priv'.gid = OfUser(user).gid
          /\ \/ childWatch' = childWatch
             \/ /\ as' = [as EXCEPT ![spawned + 1] = ChildSetup(me', OfUser(user))]
                /\ spawned + 1 \in Children /\ childWatch' = childWatch \cup {spawned + 1}
    BY <1>1, ConnectFields DEF Watched
  <2>3. ChildSetup(me', OfUser(user)) = ChildSetup(me', priv')
    BY <2>2 DEF ChildSetup
  <2>4. \A c \in childWatch' : as'[c] = ChildSetup(me', priv')
    BY <2>1, <2>2, <2>3 DEF TypeOK
  <2>5. ChildSetup(me', priv').uid \in {0, me'.uid}
        \/ (me'.uid = 0 /\ ChildSetup(me', priv').uid = priv'.uid)
    BY ChildIdentity DEF TypeOK
  <2> QED BY <2>4, <2>5 DEF WithinReach
<1>2. CASE ~RealConnect
  BY <1>2, OtherStep, IdentityStep DEF WithinReach
<1> QED BY <1>1, <1>2

(* After a disconnect a timer stands for each running client in reach.     *)
LEMMA DisconnectArms ==
  ASSUME TypeOK, TypeOK', EveryChildReported, WithinReach, LiveChildAccounted,
         NEW p \in Private, NEW r \in CliResults, RealDisconnect(p, r)
  PROVE  \A c \in Children :
           proc[c] = "running" => c \in killTimers' \/ (as[c].uid = 0 /\ me'.uid # 0)
<1> SUFFICES ASSUME NEW c \in Children, proc[c] = "running"
             PROVE  c \in killTimers' \/ (as[c].uid = 0 /\ me'.uid # 0)
  OBVIOUS
<1>1. c # 0 /\ c \in childWatch
  BY ConstantsAssumption DEF Children, EveryChildReported
<1>2. me.uid # 0 => me'.uid # 0
  BY ShownIdentity DEF RealDisconnect, Shown, TypeOK
<1>3. MaySignal(me, as[c]) \/ (as[c].uid = 0 /\ me.uid # 0)
  BY <1>1 DEF WithinReach, MaySignal
<1> QED BY <1>1, <1>2, <1>3 DEF RealDisconnect, LiveChildAccounted

(* An exit callback leaves a running client alone. *)
LEMMA WaitPidSparesRunning ==
  ASSUME TypeOK, WaitPid(priv.pid), NEW c \in Children
  PROVE  proc'[c] = "running" <=> proc[c] = "running"
BY DEF WaitPid, TypeOK

LEMMA SerialStep ==
  AwaitExit /\ TypeOK /\ EnvironmentInv /\ SerialInv /\ [Next]_vars => SerialInv'
<1> SUFFICES ASSUME AwaitExit, TypeOK, EnvironmentInv, SerialInv, [Next]_vars
             PROVE  SerialInv'
  OBVIOUS
<1>t. TypeOK'
  BY TypeStep
<1>i. WithinReach' /\ (me.uid # 0 => me' = me)
  BY <1>t, WithinReachStep, IdentityStep DEF SerialInv
<1>a. ASSUME NEW p \in Private, NEW r \in CliResults, RealDisconnect(p, r)
      PROVE  \A c \in Children : proc[c] = "running"
                => c \in killTimers' \/ (as[c].uid = 0 /\ me'.uid # 0)
  BY <1>t, <1>a, DisconnectArms DEF SerialInv, EnvironmentInv
<1> USE DEF SerialInv, LiveChildAccounted, NothingLeaks, FeedbackIsOwn,
            FailureTellsTheAttempt
<1>1. CASE RealConnect
  <2>1. PICK user \in Asked, r \in CliResults :
          /\ RealDisconnect(OfUser(user), r) /\ OfUser(user) \in Private
          /\ \/ /\ priv'.pid = 0 /\ priv'.stdout_channel = priv.stdout_channel
                /\ attempt' = 0 /\ UNCHANGED <<clients, childWatch, stdoutWatch, openFds>>
             \/ /\ spawned + 1 \in Children
                /\ priv'.pid = spawned + 1 /\ priv'.stdout_channel = spawned + 1
                /\ priv'.last_warning = NoMessage /\ priv'.last_error = NoMessage
                /\ proc' = [proc EXCEPT ![spawned + 1] = "running"]
                /\ as' = [as EXCEPT ![spawned + 1] = ChildSetup(me', OfUser(user))]
                /\ Watched(spawned + 1) /\ attempt' = spawned + 1
    BY <1>1, ConnectFields
  <2>2. childWatch = {} /\ failure' = 0
    BY <1>1 DEF RealConnect, ConnectAllowed
  <2>3. \A c \in Children : proc[c] = "running"
                => c \in killTimers' \/ (as[c].uid = 0 /\ me'.uid # 0)
    BY <1>a, <2>1
  <2>4. CASE /\ priv'.pid = 0 /\ priv'.stdout_channel = priv.stdout_channel
             /\ attempt' = 0 /\ UNCHANGED <<clients, childWatch, stdoutWatch, openFds>>
    BY <1>i, <2>2, <2>3, <2>4 DEF clients, identities
  <2>5. CASE /\ spawned + 1 \in Children
             /\ priv'.pid = spawned + 1 /\ priv'.stdout_channel = spawned + 1
             /\ priv'.last_warning = NoMessage /\ priv'.last_error = NoMessage
             /\ proc' = [proc EXCEPT ![spawned + 1] = "running"]
             /\ as' = [as EXCEPT ![spawned + 1] = ChildSetup(me', OfUser(user))]
             /\ Watched(spawned + 1) /\ attempt' = spawned + 1
    <3>1. /\ childWatch' = {spawned + 1} /\ stdoutWatch' = {spawned + 1}
          /\ openFds' = {spawned + 1}
      BY <2>2, <2>5 DEF Watched
    <3>2. LiveChildAccounted'
      <4>1. \A c \in Children : c # spawned + 1 => proc'[c] = proc[c] /\ as'[c] = as[c]
        BY <2>5 DEF TypeOK
      <4> QED BY <2>3, <2>5, <4>1
    <3> QED BY <1>i, <2>2, <2>5, <3>1, <3>2
  <2> QED BY <2>1, <2>4, <2>5
<1>2. CASE ConnectUnknownUser
  BY <1>i, <1>2 DEF ConnectUnknownUser, privVars, clients, identities, sources
<1>3. CASE Disconnect
  <2>1. PICK r \in CliResults :
          RealDisconnect(priv, r) /\ priv' = AfterDisconnect(priv, r)
    BY <1>3 DEF Disconnect
  <2>2. priv'.pid = 0 /\ priv'.stdout_channel = priv.stdout_channel
    BY <2>1, DisconnectFields, AfterDisconnectType, <1>t DEF TypeOK
  <2>3. LiveChildAccounted'
    BY <1>a, <1>3, <2>1 DEF Disconnect, clients, identities, TypeOK
  <2> QED BY <1>i, <1>3, <2>2, <2>3 DEF Disconnect, clients
<1>4. CASE SignalHandler
  <2>1. CASE state = "started"
    <3>1. PICK r \in CliResults :
            RealDisconnect(priv, r) /\ priv' = AfterDisconnect(priv, r)
      BY <1>4, <2>1 DEF SignalHandler
    <3>2. priv'.pid = 0 /\ priv'.stdout_channel = priv.stdout_channel
      BY <3>1, DisconnectFields, AfterDisconnectType, <1>t DEF TypeOK
    <3>3. LiveChildAccounted'
      BY <1>a, <1>4, <2>1, <3>1 DEF SignalHandler, clients, identities, TypeOK
    <3> QED BY <1>i, <1>4, <2>1, <3>2, <3>3 DEF SignalHandler, clients
  <2>2. CASE state # "started"
    BY <1>i, <1>4, <2>2 DEF SignalHandler, clients, identities
  <2> QED BY <2>1, <2>2
<1>5. CASE QuitMainloop
  BY <1>i, <1>5 DEF QuitMainloop, privVars, clients, identities, sources
<1>6. CASE TunnelDrop
  BY <1>i, <1>6 DEF TunnelDrop, privVars, clients, identities, sources
<1>7. ASSUME NEW c \in Children, NEW line \in Lines, ClientPrints(c, line)
      PROVE  SerialInv'
  BY <1>i, <1>7 DEF ClientPrints, privVars, identities, sources
<1>8. ASSUME NEW c \in Children, ClientExits(c)
      PROVE  SerialInv'
  BY <1>i, <1>8 DEF ClientExits, privVars, identities, sources, TypeOK
<1>9. ASSUME NEW c \in Children, GlibReaps(c)
      PROVE  SerialInv'
  BY <1>i, <1>9 DEF GlibReaps, privVars, identities, sources, TypeOK
<1>10. ASSUME NEW c \in Children, AnyconnectStdoutCb(c)
       PROVE  SerialInv'
  <2>1. c \in childWatch /\ childWatch = {c} /\ attempt = c
    BY <1>10 DEF AnyconnectStdoutCb
  <2>2. priv.pid # 0 => priv.pid = c
    BY <2>1 DEF EnvironmentInv, EveryChildReported
  <2>3. /\ priv'.pid = priv.pid /\ priv'.stdout_channel = priv.stdout_channel
        /\ priv'.last_warning \in {priv.last_warning, c}
        /\ priv'.last_error \in {priv.last_error, c}
    BY <1>10 DEF AnyconnectStdoutCb, TypeOK, Private
  <2> QED BY <1>i, <1>10, <2>1, <2>2, <2>3 DEF AnyconnectStdoutCb, identities, sources
<1>11. ASSUME NEW c \in Children, AnyconnectWatchCb(c)
       PROVE  SerialInv'
  <2>1. childWatch = {c} /\ attempt = c /\ priv.stdout_channel = c /\ failure = 0
    BY <1>11 DEF AnyconnectWatchCb
  <2>2. /\ priv'.pid = 0 /\ priv'.stdout_channel = c
        /\ priv'.connected = priv.connected
    BY <1>11, <2>1 DEF AnyconnectWatchCb, TypeOK, Private
  <2>3. childWatch' = {} /\ stdoutWatch' = {} /\ openFds' = {}
    BY <1>11, <2>1 DEF AnyconnectWatchCb, CloseStdout
  <2>4. LiveChildAccounted'
    <3> SUFFICES ASSUME NEW d \in Children, proc'[d] = "running"
                 PROVE  d \in killTimers' \/ (as'[d].uid = 0 /\ me'.uid # 0)
      OBVIOUS
    <3>1. proc[d] = "running"
      BY <1>11, WaitPidSparesRunning DEF AnyconnectWatchCb
    <3>2. d \in childWatch /\ d # c
      BY <1>11, <3>1 DEF EnvironmentInv, EveryChildReported, AnyconnectWatchCb
    <3> QED BY <2>1, <3>2
  <2>5. failure' = (IF priv.connected THEN 0 ELSE c) /\ attempt' = c
    BY <1>11, <2>1 DEF AnyconnectWatchCb, Signalled
  <2>6. c # 0 /\ priv.connected \in BOOLEAN
    BY PrivFields, ConstantsAssumption DEF Children
  <2> QED BY <1>i, <2>2, <2>3, <2>4, <2>5, <2>6
<1>12. ASSUME NEW c \in Children, EnsureKilled(c)
       PROVE  SerialInv'
  <2>1. \A d \in Children : d # c => proc'[d] = proc[d] /\ (d \in killTimers' <=> d \in killTimers)
    BY <1>12 DEF EnsureKilled, TypeOK
  <2>2. proc'[c] = "running" => as[c].uid = 0 /\ me.uid # 0
    <3> SUFFICES ASSUME proc'[c] = "running" PROVE as[c].uid = 0 /\ me.uid # 0
      OBVIOUS
    <3>1. proc[c] = "running" /\ ~MaySignal(me, as[c])
      BY <1>12 DEF EnsureKilled, TypeOK
    <3>2. c \in childWatch
      BY <3>1 DEF EnvironmentInv, EveryChildReported
    <3> QED BY <3>1, <3>2 DEF WithinReach, MaySignal
  <2>3. LiveChildAccounted'
    BY <1>12, <2>1, <2>2 DEF EnsureKilled, privVars, identities, TypeOK
  <2> QED BY <1>i, <1>12, <2>3 DEF EnsureKilled, privVars, identities
<1>13. CASE UNCHANGED vars
  BY <1>i, <1>13 DEF vars, privVars, clients, identities, sources
<1> QED BY <1>1, <1>2, <1>3, <1>4, <1>5, <1>6, <1>7, <1>8, <1>9, <1>10,
           <1>11, <1>12, <1>13 DEF Next

LEMMA SerialCorrect == ASSUME AwaitExit PROVE Spec => []SerialInv
<1>1. TypeOK /\ EnvironmentInv /\ SerialInv /\ [Next]_vars => SerialInv'
  BY SerialStep
<1> QED BY <1>1, SerialInit, TypeCorrect, EnvironmentCorrect, PTL DEF Spec

(* No client runs on unknown: it is tracked, so that the next Disconnect   *)
(* tries to signal it, a kill timer stands for it, or it runs as root and  *)
(* the service no longer does, which may then never signal it again.       *)
THEOREM ClientsAccounted == ASSUME AwaitExit PROVE Spec => []LiveChildAccounted
<1>1. SerialInv => LiveChildAccounted
  BY DEF SerialInv
<1> QED BY <1>1, SerialCorrect, PTL

(* Each exit callback closes and unwatches what its own client left. *)
THEOREM CleanUpIsComplete == ASSUME AwaitExit PROVE Spec => []NothingLeaks
<1>1. SerialInv => NothingLeaks
  BY DEF SerialInv
<1> QED BY <1>1, SerialCorrect, PTL

(* The user is never shown the message of another client than the one that *)
(* failed.                                                                 *)
THEOREM FeedbackOfOwnClient == ASSUME AwaitExit PROVE Spec => []FeedbackIsOwn
<1>1. SerialInv => FeedbackIsOwn
  BY DEF SerialInv
<1> QED BY <1>1, SerialCorrect, PTL

(* Failures are those of the present attempt, and none is withheld unless  *)
(* the service believes itself connected.                                  *)
THEOREM FailuresOfTheAttempt ==
  ASSUME AwaitExit PROVE Spec => []FailureTellsTheAttempt
<1>1. SerialInv => FailureTellsTheAttempt
  BY DEF SerialInv
<1> QED BY <1>1, SerialCorrect, PTL

-----------------------------------------------------------------------------
(* The refinement of ClientSlot. *)

(* What ClientSlot calls stuck. *)
HeldUp == Stuck \/ OutOfReach # {}

LEMMA SlotStep ==
  AwaitExit /\ TypeOK /\ EnvironmentInv /\ SerialInv /\ [Next]_vars
    => [Slot!Next]_(Slot!vars)
<1> SUFFICES ASSUME AwaitExit, TypeOK, EnvironmentInv, SerialInv, [Next]_vars
             PROVE  Slot!Next \/ UNCHANGED Slot!vars
  OBVIOUS
<1> USE DEF Slot!Next, Slot!vars, Slot!Start, Slot!Release, Slot!Gone, Slot!Pause
<1>t. TypeOK' /\ (me.uid # 0 => me' = me)
  BY TypeStep, IdentityStep
<1>1. priv.pid # 0 => childWatch # {}
  BY DEF EnvironmentInv, EveryChildReported
<1>2. ASSUME priv'.pid = priv.pid, childWatch' = childWatch
      PROVE  Slot!Pause
  BY <1>2
<1>3. ASSUME priv'.pid = 0, childWatch' = childWatch, HeldUp => HeldUp'
      PROVE  Slot!Next
  BY <1>1, <1>3 DEF HeldUp
<1>4. ASSUME UNCHANGED <<proc, as, childWatch>> PROVE OutOfReach # {} => OutOfReach' # {}
  <2>1. \A c \in OutOfReach : c \in OutOfReach'
    BY <1>t, <1>4 DEF OutOfReach, MaySignal
  <2> QED BY <2>1
<1>5. CASE RealConnect
  <2>1. PICK user \in Asked :
          \/ priv'.pid = 0 /\ UNCHANGED <<clients, childWatch>>
          \/ /\ spawned + 1 \in Children /\ priv'.pid = spawned + 1
             /\ as' = [as EXCEPT ![spawned + 1] = ChildSetup(me', OfUser(user))]
             /\ childWatch' = childWatch \cup {spawned + 1}
             /\ OfUser(user) \in Private
    BY <1>5, ConnectFields DEF Watched
  <2>2. childWatch = {} /\ priv.pid = 0
    BY <1>1, <1>5 DEF RealConnect, ConnectAllowed
  <2>3. CASE priv'.pid = 0 /\ UNCHANGED <<clients, childWatch>>
    BY <1>2, <2>2, <2>3
  <2>4. CASE /\ spawned + 1 \in Children /\ priv'.pid = spawned + 1
             /\ as' = [as EXCEPT ![spawned + 1] = ChildSetup(me', OfUser(user))]
             /\ childWatch' = childWatch \cup {spawned + 1}
             /\ OfUser(user) \in Private
    <3>1. priv'.pid # 0
      BY <2>4, ConstantsAssumption DEF Children
    <3>2. as'[spawned + 1] = ChildSetup(me', OfUser(user))
      BY <2>4 DEF TypeOK
    <3>3. me'.uid # 0 => ChildSetup(me', OfUser(user)) = me'
      BY <1>t, <2>4, PrivateIsUser, ChildSetupIdentity DEF TypeOK
    <3>4. OutOfReach = {} /\ OutOfReach' = {}
      BY <2>2, <2>4, <3>2, <3>3 DEF OutOfReach, MaySignal
    <3>5. Stuck' <=> Stuck
      BY <1>5, <2>2 DEF RealConnect, NotStarted, Started, Stuck, clients
    <3> QED BY <2>2, <2>4, <3>1, <3>4, <3>5
  <2> QED BY <2>1, <2>3, <2>4
<1>6. CASE Disconnect
  <2>1. priv'.pid = 0
    BY <1>t, <1>6, DisconnectFields DEF Disconnect, TypeOK
  <2>2. childWatch' = childWatch /\ (HeldUp => HeldUp')
    BY <1>4, <1>6 DEF Disconnect, clients, identities, Stuck, HeldUp
  <2> QED BY <1>3, <2>1, <2>2
<1>7. CASE SignalHandler
  <2>1. CASE state = "started"
    <3>1. priv'.pid = 0
      BY <1>t, <1>7, <2>1, DisconnectFields DEF SignalHandler, TypeOK
    <3>2. childWatch' = childWatch /\ (HeldUp => HeldUp')
      BY <1>7 DEF SignalHandler, Stuck, HeldUp
    <3> QED BY <1>3, <3>1, <3>2
  <2>2. CASE state # "started"
    BY <1>2, <1>7, <2>2 DEF SignalHandler
  <2> QED BY <2>1, <2>2
<1>8. ASSUME NEW c \in Children, AnyconnectStdoutCb(c)
      PROVE  Slot!Next
  <2>1. priv'.pid = priv.pid
    BY <1>8 DEF AnyconnectStdoutCb, TypeOK, Private
  <2> QED BY <1>2, <1>8, <2>1 DEF AnyconnectStdoutCb, sources
<1>9. ASSUME NEW c \in Children, AnyconnectWatchCb(c)
      PROVE  Slot!Next
  <2>1. priv'.pid = 0 /\ childWatch' = {} /\ childWatch = {c} /\ proc[c] = "reaped"
    BY <1>9 DEF AnyconnectWatchCb, SerialInv, TypeOK, Private
  <2>2. ~Stuck /\ ~Stuck'
    BY <1>9 DEF AnyconnectWatchCb, Dispatching, Stuck
  <2>3. OutOfReach = {} /\ OutOfReach' = {}
    BY <2>1 DEF OutOfReach
  <2> QED BY <2>1, <2>2, <2>3
<1>10. ASSUME priv' = priv, childWatch' = childWatch
      PROVE  Slot!Next
  BY <1>2, <1>10
<1>11. CASE ConnectUnknownUser \/ QuitMainloop \/ TunnelDrop
  BY <1>10, <1>11 DEF ConnectUnknownUser, QuitMainloop, TunnelDrop, privVars, sources
<1>12. ASSUME NEW c \in Children,
              \/ \E line \in Lines : ClientPrints(c, line)
              \/ ClientExits(c) \/ GlibReaps(c) \/ EnsureKilled(c)
       PROVE  Slot!Next
  BY <1>10, <1>12 DEF ClientPrints, ClientExits, GlibReaps, EnsureKilled,
                      privVars, sources
<1>13. CASE UNCHANGED vars
  BY <1>10, <1>13 DEF vars, privVars, sources
<1> QED BY <1>5, <1>6, <1>7, <1>8, <1>9, <1>11, <1>12, <1>13 DEF Next

(* One place for a client: the service starts a client only when the one   *)
(* before is gone, gives the place up on a disconnect and frees it when    *)
(* the exit is dispatched, and a client it may not signal holds it up.     *)
(* This is the safety part of ClientHasItsSlot.                            *)
THEOREM ServiceRefinesSlot == ASSUME AwaitExit PROVE Spec => Slot!Spec
<1>1. Init => Slot!Init
  <2> SUFFICES ASSUME Init PROVE Slot!Init
    OBVIOUS
  <2> QED BY DEF Init, Slot!Init, Stuck, OutOfReach
<1>2. TypeOK /\ EnvironmentInv /\ SerialInv /\ [Next]_vars
        => [Slot!Next]_(Slot!vars)
  BY SlotStep
<1> QED BY <1>1, <1>2, TypeCorrect, EnvironmentCorrect, SerialCorrect, PTL
        DEF Spec, Slot!Spec
=============================================================================
