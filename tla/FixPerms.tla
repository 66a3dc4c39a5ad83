------------------------------ MODULE FixPerms ------------------------------
(***************************************************************************)
(* The script NetworkManager-anyconnect-fix-perms: for every user it moves *)
(* ~/.cisco to ~/.cisco2, makes a directory of the user's under /var/opt/  *)
(* nm-anyconnect, links ~/.cisco to it, and in it the certificates of      *)
(* ~/.cisco2.  No command's success is looked at, and what is there is     *)
(* asked of the file system.  The script may be killed between any two of  *)
(* its commands, and is run again; meanwhile the AnyConnect client may     *)
(* make the directories it misses.                                         *)
(***************************************************************************)
EXTENDS Naturals

CONSTANTS
  NumUsers,   \* bound: users the script's loop goes over
  MaxCrashes, \* bound: how often the script is killed
  Recreates,  \* TRUE: the client makes the directories it misses
  Failing     \* TRUE: the file system may refuse a command

ASSUME BoundsAssumption ==
  /\ NumUsers \in Nat \ {0} /\ MaxCrashes \in Nat
  /\ Recreates \in BOOLEAN /\ Failing \in BOOLEAN

Users == 1..NumUsers

VARIABLES
  dotCisco,     \* ~/.cisco: "none", a directory that is "bare" or "full", or "link"
  dotCisco2,    \* ~/.cisco2: "none", or a directory, "bare" or "full"
  writeable,    \* the directory of a user: "none", "root's", "user's", or "link"
  certificates, \* the certificates in that directory: "none", "dir" or "link"
  user,         \* the user the loop has come to, or 0 between runs
  pc,           \* the command of the loop's body that is next
  crashes,      \* how often the script was killed
  failed,       \* history: users for whom the file system refused a command
  configured,   \* history: users who had certificates before the first run
  seen          \* history: users whose turn was completed

files == <<dotCisco, dotCisco2, writeable, certificates>>
vars  == <<files, user, pc, crashes, failed, configured, seen>>

(* A directory is "full" when it has a certificates directory in it. *)
Init ==
  /\ dotCisco \in [Users -> {"none", "bare", "full"}]
  /\ dotCisco2 = [u \in Users |-> "none"]
  /\ writeable = [u \in Users |-> "none"] /\ certificates = [u \in Users |-> "none"]
  /\ user = 0 /\ pc = "start" /\ crashes = 0 /\ failed = {} /\ seen = {}
  /\ configured = {u \in Users : dotCisco[u] = "full"}

-----------------------------------------------------------------------------
(* The loop goes on to the next user, or the script ends. *)
NextUser ==
  /\ user' = IF user = NumUsers THEN 0 ELSE user + 1
  /\ pc' = IF user = NumUsers THEN "start" ELSE "move"

Start ==
  /\ pc = "start"
  /\ user' = 1 /\ pc' = "move"
  /\ UNCHANGED <<files, crashes, failed, configured, seen>>

(* The file system is full or read-only: the command changes nothing. *)
Refused == Failing /\ failed' = failed \cup {user} /\ UNCHANGED files

(* mv, with nothing to be done where ~/.cisco is not there. *)
Move ==
  /\ pc = "move" /\ pc' = "look"
  /\ IF dotCisco[user] \in {"bare", "full"} /\ dotCisco2[user] = "none"
     THEN \/ /\ dotCisco' = [dotCisco EXCEPT ![user] = "none"]
             /\ dotCisco2' = [dotCisco2 EXCEPT ![user] = dotCisco[user]]
             /\ UNCHANGED <<writeable, certificates, failed>>
          \/ Refused
     ELSE UNCHANGED <<files, failed>>
  /\ UNCHANGED <<user, crashes, configured, seen>>

(* Mutant: every user is taken for one who has set up AnyConnect. *)
LookAway ==
  /\ pc = "look" /\ pc' = "mkdir"
  /\ UNCHANGED <<files, user, crashes, failed, configured, seen>>

(* Without a ~/.cisco2 the user has not set up AnyConnect. *)
Look ==
  /\ pc = "look"
  /\ IF dotCisco2[user] # "none" THEN pc' = "mkdir" /\ UNCHANGED user ELSE NextUser
  /\ UNCHANGED <<files, crashes, failed, configured, seen>>

(* -d follows a link that was made in the place of the directory. *)
IsDirectory(u) ==
  writeable[u] \in {"root's", "user's"} \/ (writeable[u] = "link" /\ dotCisco2[u] = "full")

(* The directory is made by root; a link in its place is in the way. *)
Made ==
  \/ /\ writeable[user] # "link"
     /\ writeable' = [writeable EXCEPT ![user] = "root's"]
     /\ UNCHANGED <<dotCisco, dotCisco2, certificates, failed>>
  \/ writeable[user] = "link" /\ UNCHANGED <<files, failed>>
  \/ Refused

(* Mutant: the link is made only along with the directory. *)
MkdirOrSkip ==
  /\ pc = "mkdir"
  /\ IF IsDirectory(user)
     THEN pc' = "certificates" /\ UNCHANGED <<files, failed>>
     ELSE pc' = "chown" /\ Made
  /\ UNCHANGED <<user, crashes, configured, seen>>

(* Mutant: the directory is made anew whether or not it is there. *)
MkdirAlways ==
  /\ pc = "mkdir" /\ pc' = "chown" /\ Made
  /\ UNCHANGED <<user, crashes, configured, seen>>

(* The directory is made if it is not there, and then given away. *)
Mkdir ==
  /\ pc = "mkdir"
  /\ IF IsDirectory(user)
     THEN pc' = "link" /\ UNCHANGED <<files, failed>>
     ELSE pc' = "chown" /\ Made
  /\ UNCHANGED <<user, crashes, configured, seen>>

(* There is nothing to give away where mkdir was refused. *)
Chown ==
  /\ pc = "chown" /\ pc' = "link"
  /\ IF writeable[user] = "root's"
     THEN \/ /\ writeable' = [writeable EXCEPT ![user] = "user's"]
             /\ UNCHANGED <<dotCisco, dotCisco2, certificates, failed>>
          \/ Refused
     ELSE UNCHANGED <<files, failed>>
  /\ UNCHANGED <<user, crashes, configured, seen>>

(* ln -s: with a directory in its place the link is made inside of that.   *)
(* Where the link leads is not looked at.                                  *)
Link ==
  /\ pc = "link" /\ pc' = "certificates"
  /\ IF dotCisco[user] = "none"
     THEN \/ /\ dotCisco' = [dotCisco EXCEPT ![user] = "link"]
             /\ UNCHANGED <<dotCisco2, writeable, certificates, failed>>
          \/ Refused
     ELSE UNCHANGED <<files, failed>>
  /\ UNCHANGED <<user, crashes, configured, seen>>

(* ln -s again: in the directory, unless certificates are there already;   *)
(* in the directory's own place when there is none.                        *)
LinkCertificates ==
  /\ pc = "certificates"
  /\ \/ /\ certificates[user] = "none" /\ IsDirectory(user)
        /\ certificates' = [certificates EXCEPT ![user] = "link"]
        /\ UNCHANGED <<dotCisco, dotCisco2, writeable, failed>>
     \/ /\ writeable[user] = "none"
        /\ writeable' = [writeable EXCEPT ![user] = "link"]
        /\ UNCHANGED <<dotCisco, dotCisco2, certificates, failed>>
     \/ /\ certificates[user] # "none" \/ (writeable[user] = "link" /\ ~IsDirectory(user))
        /\ UNCHANGED <<files, failed>>
     \/ certificates[user] # "link" /\ Refused
  /\ seen' = seen \cup {user}
  /\ NextUser
  /\ UNCHANGED <<crashes, configured>>

(* The script is killed, or the machine goes down. *)
Crash ==
  /\ pc # "start" /\ crashes < MaxCrashes
  /\ crashes' = crashes + 1 /\ user' = 0 /\ pc' = "start"
  /\ UNCHANGED <<files, failed, configured, seen>>

(* The client, run from the user's session, makes the ~/.cisco it misses,  *)
(* and the directory for certificates, which may be behind the link.       *)
ClientMakesDir(u) ==
  /\ Recreates
  /\ \/ /\ dotCisco[u] \in {"none", "bare"}
        /\ \E made \in {"bare", "full"} : dotCisco' = [dotCisco EXCEPT ![u] = made]
        /\ UNCHANGED certificates
     \/ /\ dotCisco[u] = "link" /\ writeable[u] = "user's" /\ certificates[u] = "none"
        /\ certificates' = [certificates EXCEPT ![u] = "dir"]
        /\ UNCHANGED dotCisco
  /\ UNCHANGED <<dotCisco2, writeable, user, pc, crashes, failed, configured, seen>>

Next ==
  \/ Start \/ Move \/ Look \/ Mkdir \/ Chown \/ Link \/ LinkCertificates \/ Crash
  \/ \E u \in Users : ClientMakesDir(u)

Spec == Init /\ [][Next]_vars

-----------------------------------------------------------------------------
(* Every variable has its type. *)
TypeOK ==
  /\ dotCisco \in [Users -> {"none", "bare", "full", "link"}]
  /\ dotCisco2 \in [Users -> {"none", "bare", "full"}]
  /\ writeable \in [Users -> {"none", "root's", "user's", "link"}]
  /\ certificates \in [Users -> {"none", "dir", "link"}]
  /\ failed \subseteq Users /\ configured \subseteq Users /\ seen \subseteq Users
  /\ user \in 0..NumUsers /\ crashes \in 0..MaxCrashes
  /\ pc \in {"start", "move", "look", "mkdir", "chown", "link", "certificates"}

(* No link leads nowhere, wherever the script was killed: ~/.cisco leads   *)
(* to the directory, unless a command was refused, and the link in it into *)
(* ~/.cisco2, where the certificates are of a user who had any ("already   *)
(* configured an AnyConnect certificate"): they are never lost on the way. *)
LinksLead ==
  \A u \in Users :
    /\ dotCisco[u] = "link" => u \in failed \/ writeable[u] \in {"root's", "user's"}
    /\ certificates[u] = "link" => /\ IsDirectory(u) /\ dotCisco2[u] # "none"
                                   /\ u \in configured => dotCisco2[u] = "full"
    /\ u \in configured => "full" \in {dotCisco[u], dotCisco2[u]}

(* A user whose turn was completed, and no command refused, has a ~/.cisco *)
(* and certificates in the directory, also when earlier runs were killed   *)
(* halfway.  (They are the links, unless the client has made a directory   *)
(* between the commands.)                                                  *)
SeenIsLinked ==
  \A u \in seen : u \in failed \/ (certificates[u] # "none" /\ dotCisco[u] # "none")

(* A run over a user who is set up changes nothing of the user's files:    *)
(* nothing is moved or given away a second time.                           *)
SetUp(u) == dotCisco[u] = "link" /\ certificates[u] = "link"
SetUpStays ==
  [][\A u \in Users : SetUp(u) =>
       SetUp(u)' /\ writeable'[u] = writeable[u] /\ dotCisco2'[u] = dotCisco2[u]]_vars
=============================================================================
