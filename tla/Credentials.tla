---------------------------- MODULE Credentials ----------------------------
(***************************************************************************)
(* As whom nm-anyconnect-service and its clients run.  The service starts  *)
(* as root, runs every client as the user who configured the connection,   *)
(* and takes that user's identity to show a notification.  Only a process  *)
(* of the same user, or root, may signal a client.                         *)
(*                                                                         *)
(* Users and groups are numbers and 0 is root.  The service only calls     *)
(* setuid and setgid, so that the real, effective and saved identities of  *)
(* a process that began as root are equal and one number stands for them.  *)
(***************************************************************************)
EXTENDS Naturals

People     == [uid : Nat, gid : Nat]
Identities == [uid : Nat, gid : Nat, groups : SUBSET Nat]

Root == [uid |-> 0, gid |-> 0, groups |-> {0}]

-----------------------------------------------------------------------------
(* The system calls, for a process p: they fail unless p is root. *)
SetGroups(p, g) == IF p.uid = 0 THEN [p EXCEPT !.groups = {g}] ELSE p
SetGid(p, g)    == IF p.uid = 0 THEN [p EXCEPT !.gid = g] ELSE p
SetUid(p, u)    == IF p.uid = 0 THEN [p EXCEPT !.uid = u] ELSE p

MaySignal(p, q) == p.uid \in {0, q.uid}

InGroup(p, g) == IF g # 0 THEN SetGid(SetGroups(p, g), g) ELSE p
AsUser(p, u)  == IF u # 0 THEN SetUid(p, u) ELSE p

(* Mutant: the user is changed first, and then the groups cannot be. *)
UserFirst(p, user) == InGroup(AsUser(p, user.uid), user.gid)

(* Mutant: the group alone is changed. *)
GroupOnly(p, user) == InGroup(p, user.gid)

(* anyconnect_child_setup in a child of p: the identity the client has.    *)
(* The user is changed only when the group is not root's.                  *)
ChildSetup(p, user) ==
  IF user.gid # 0 THEN AsUser(InGroup(p, user.gid), user.uid) ELSE p

(* show_notification_full: the service takes the user's identity, shows    *)
(* the message and goes back to what it was.                               *)
Notified(p, user) ==
  SetUid(SetGid(AsUser(InGroup(p, user.gid), user.uid), p.gid), p.uid)
=============================================================================
