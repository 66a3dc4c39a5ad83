------------------------ MODULE MCAnyconnectService ------------------------
(***************************************************************************)
(* The values TLC gives the bounds of AnyconnectService.                   *)
(***************************************************************************)
EXTENDS AnyconnectService

(* User databases: nobody but root, two ordinary users, and an ordinary    *)
(* user with one whose group is root's.                                    *)
NoUsers      == {}
OneUser      == {[uid |-> 1000, gid |-> 100]}
TwoUsers     == OneUser \cup {[uid |-> 1001, gid |-> 101]}
UserAndWheel == OneUser \cup {[uid |-> 1002, gid |-> 0]}

(* Text the clients print: with and without texts that end no line. *)
WholeLines == {"connected", "warning", "error", "other"}
AllLines   == WholeLines \cup {"partial"}
FewLines   == {"connected", "error"}
=============================================================================
