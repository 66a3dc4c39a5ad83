------------------------- MODULE CredentialsProofs -------------------------
(***************************************************************************)
(* What the identities of Credentials come to, for every process and every *)
(* user.  A user is anything with a uid and a gid, such as the plugin's    *)
(* private data.                                                           *)
(***************************************************************************)
EXTENDS Credentials, TLAPS

IsUser(user) == user.uid \in Nat /\ user.gid \in Nat

(* Becoming a user: a process that is root becomes that user and loses     *)
(* root's groups on the way, another stays what it is.                     *)
LEMMA BecomeUser ==
  ASSUME NEW p \in Identities, NEW user, IsUser(user)
  PROVE  /\ AsUser(InGroup(p, user.gid), user.uid) \in Identities
         /\ p.uid # 0 => AsUser(InGroup(p, user.gid), user.uid) = p
         /\ p.uid = 0 => AsUser(InGroup(p, user.gid), user.uid).uid = user.uid
         /\ p.uid = 0 /\ user.gid # 0 =>
              /\ AsUser(InGroup(p, user.gid), user.uid).gid = user.gid
              /\ AsUser(InGroup(p, user.gid), user.uid).groups = {user.gid}
<1>1. CASE p.uid # 0
  BY <1>1 DEF AsUser, InGroup, SetGroups, SetGid, SetUid
<1>2. CASE p.uid = 0
  <2>1. user.uid \in Nat /\ user.gid \in Nat
    BY DEF IsUser
  <2>2. PICK q \in Identities :
          /\ q = InGroup(p, user.gid) /\ q.uid = 0
          /\ user.gid # 0 => q.gid = user.gid /\ q.groups = {user.gid}
    <3>1. CASE user.gid = 0
      BY <1>2, <3>1 DEF InGroup
    <3>2. CASE user.gid # 0
      <4>1. PICK r \in Identities : r = SetGroups(p, user.gid) /\ r.uid = 0
                                    /\ r.groups = {user.gid}
        <5>1. SetGroups(p, user.gid) = [p EXCEPT !.groups = {user.gid}]
          BY <1>2 DEF SetGroups
        <5> QED BY <1>2, <2>1, <5>1 DEF Identities
      <4>2. SetGid(r, user.gid) = [r EXCEPT !.gid = user.gid]
        BY <4>1 DEF SetGid
      <4>3. /\ SetGid(r, user.gid) \in Identities /\ SetGid(r, user.gid).uid = 0
            /\ SetGid(r, user.gid).gid = user.gid
            /\ SetGid(r, user.gid).groups = {user.gid}
        BY <2>1, <4>1, <4>2 DEF Identities
      <4>4. InGroup(p, user.gid) = SetGid(r, user.gid)
        BY <3>2, <4>1 DEF InGroup
      <4> QED BY <4>3, <4>4
    <3> QED BY <3>1, <3>2
  <2>3. AsUser(q, user.uid) = IF user.uid # 0 THEN [q EXCEPT !.uid = user.uid] ELSE q
    BY <2>2 DEF AsUser, SetUid
  <2>4. /\ AsUser(q, user.uid) \in Identities
        /\ AsUser(q, user.uid).uid = user.uid
        /\ AsUser(q, user.uid).gid = q.gid /\ AsUser(q, user.uid).groups = q.groups
    BY <2>1, <2>2, <2>3 DEF Identities
  <2> QED BY <1>2, <2>2, <2>4
<1> QED BY <1>1, <1>2

(* The identity a client of a user is given. *)
LEMMA ChildSetupIdentity ==
  ASSUME NEW p \in Identities, NEW user, IsUser(user)
  PROVE  /\ ChildSetup(p, user) \in Identities
         /\ p.uid # 0 => ChildSetup(p, user) = p
         /\ p.uid = 0 /\ user.gid # 0 =>
              /\ ChildSetup(p, user).uid = user.uid
              /\ ChildSetup(p, user).gid = user.gid
              /\ ChildSetup(p, user).groups = {user.gid}
         /\ user.gid = 0 => ChildSetup(p, user) = p
BY BecomeUser DEF ChildSetup

(* What a notification leaves of the service: a user it has become it      *)
(* stays, for only root could go back.                                     *)
LEMMA NotifiedIdentity ==
  ASSUME NEW p \in Identities, NEW user, IsUser(user)
  PROVE  /\ Notified(p, user) \in Identities
         /\ p.uid # 0 => Notified(p, user) = p
         /\ p.uid = 0 => Notified(p, user).uid = user.uid
         /\ p.uid = 0 /\ user.uid # 0 /\ user.gid # 0 =>
              /\ Notified(p, user).gid = user.gid
              /\ Notified(p, user).groups = {user.gid}
<1>1. user.uid \in Nat /\ user.gid \in Nat /\ p.uid \in Nat /\ p.gid \in Nat
  BY DEF Identities, IsUser
<1>2. PICK q : q = AsUser(InGroup(p, user.gid), user.uid)
  OBVIOUS
<1>3. /\ q \in Identities
      /\ p.uid # 0 => q = p
      /\ p.uid = 0 => q.uid = user.uid
      /\ p.uid = 0 /\ user.gid # 0 => q.gid = user.gid /\ q.groups = {user.gid}
  BY <1>2, BecomeUser
<1>4. Notified(p, user) = SetUid(SetGid(q, p.gid), p.uid)
  BY <1>2 DEF Notified
<1>5. SetGid(q, p.gid) \in Identities /\ SetGid(q, p.gid).uid = q.uid
  BY <1>1, <1>3 DEF SetGid, Identities
<1>6. Notified(p, user) \in Identities
  BY <1>1, <1>4, <1>5 DEF SetUid, Identities
<1>7. q.uid # 0 => Notified(p, user) = q
  BY <1>4 DEF SetGid, SetUid
<1>8. p.uid = 0 /\ q.uid = 0 => Notified(p, user).uid = 0
  BY <1>4, <1>5 DEF SetUid, Identities
<1> QED BY <1>3, <1>6, <1>7, <1>8
=============================================================================
