--------------------------- MODULE FixPermsProofs ---------------------------
(***************************************************************************)
(* The links of NetworkManager-anyconnect-fix-perms for any number of      *)
(* users and of interruptions.                                             *)
(***************************************************************************)
EXTENDS FixPerms, TLAPS

(* What the script knows at each of its commands: past the test for        *)
(* ~/.cisco2 the user has one, and past the making of the directory there  *)
(* is one, which is what a link made now will lead to, or else mkdir was   *)
(* refused.  A directory that is given away was just made and is empty.    *)
CommandInv ==
  /\ pc \in {"start", "move", "look", "mkdir", "chown", "link", "certificates"}
  /\ pc # "start" => user \in Users
  /\ pc \in {"mkdir", "chown", "link", "certificates"} => dotCisco2[user] # "none"
  /\ pc \in {"chown", "link", "certificates"} =>
       user \in failed \/ writeable[user] \in {"root's", "user's"}
  /\ pc = "chown" => certificates[user] = "none" /\ writeable[user] # "user's"

Shape ==
  /\ dotCisco \in [Users -> {"none", "bare", "full", "link"}]
  /\ dotCisco2 \in [Users -> {"none", "bare", "full"}]
  /\ writeable \in [Users -> {"none", "root's", "user's", "link"}]
  /\ certificates \in [Users -> {"none", "dir", "link"}]

(* Only where mkdir was refused is there a link in the directory's place,  *)
(* and certificates are in a directory, of a user with a ~/.cisco2.  What  *)
(* was configured is moved as a whole.                                     *)
PlacesInv ==
  \A u \in Users : /\ writeable[u] = "link" => u \in failed
                   /\ writeable[u] # "none" => dotCisco2[u] # "none"
                   /\ certificates[u] # "none" => IsDirectory(u)
                   /\ u \in configured =>
                        \/ dotCisco2[u] = "full"
                        \/ dotCisco2[u] = "none" /\ dotCisco[u] = "full"

LinksInv == Shape /\ CommandInv /\ PlacesInv /\ LinksLead

(* The next user, if there is one, is a user. *)
LEMMA NextUserInUsers ==
  ASSUME user \in Users, NextUser
  PROVE  pc' \in {"start", "move"} /\ (pc' # "start" => user' \in Users)
BY BoundsAssumption DEF NextUser, Users

LEMMA LinksStep == LinksInv /\ [Next]_vars => LinksInv'
<1> SUFFICES ASSUME LinksInv, [Next]_vars PROVE LinksInv'
  OBVIOUS
<1> USE DEF LinksInv, Shape, CommandInv, PlacesInv, IsDirectory, LinksLead
<1>1. CASE Start
  BY <1>1, BoundsAssumption DEF Start, files, Users
<1>2. CASE Move
  BY <1>2 DEF Move, Refused, files
<1>3. CASE Look
  BY <1>3, NextUserInUsers DEF Look, files
<1>4. CASE Mkdir
  BY <1>4 DEF Mkdir, Made, Refused, files
<1>5. CASE Chown
  BY <1>5 DEF Chown, Refused, files
<1>6. CASE Link
  BY <1>6 DEF Link, Refused, files
<1>7. CASE LinkCertificates
  <2>1. /\ pc' \in {"start", "move"} /\ (pc' # "start" => user' \in Users)
        /\ user \in Users /\ dotCisco2[user] # "none" /\ pc = "certificates"
    BY <1>7, NextUserInUsers DEF LinkCertificates
  <2>2. CASE /\ certificates[user] = "none" /\ IsDirectory(user)
             /\ certificates' = [certificates EXCEPT ![user] = "link"]
             /\ UNCHANGED <<dotCisco, dotCisco2, writeable, failed>>
    <3>1. user \in configured => dotCisco2[user] = "full"
      BY <2>1
    <3>2. configured' = configured
      BY <1>7 DEF LinkCertificates
    <3> QED BY <2>1, <2>2, <3>1, <3>2
  <2>3. CASE /\ writeable[user] = "none"
             /\ writeable' = [writeable EXCEPT ![user] = "link"]
             /\ UNCHANGED <<dotCisco, dotCisco2, certificates, failed>>
    <3>1. configured' = configured
      BY <1>7 DEF LinkCertificates
    <3> QED BY <2>1, <2>3, <3>1
  <2>4. CASE UNCHANGED files /\ (failed' = failed \/ failed' = failed \cup {user})
    <3>1. configured' = configured
      BY <1>7 DEF LinkCertificates
    <3> QED BY <2>1, <2>4, <3>1 DEF files
  <2> QED BY <1>7, <2>2, <2>3, <2>4 DEF LinkCertificates, Refused
<1>8. CASE Crash
  BY <1>8 DEF Crash, files
<1>9. ASSUME NEW u \in Users, ClientMakesDir(u) PROVE LinksInv'
  BY <1>9 DEF ClientMakesDir
<1>10. CASE UNCHANGED vars
  BY <1>10 DEF vars, files
<1> QED BY <1>1, <1>2, <1>3, <1>4, <1>5, <1>6, <1>7, <1>8, <1>9, <1>10 DEF Next

LEMMA LinksInit == Init => LinksInv
BY DEF Init, LinksInv, Shape, CommandInv, PlacesInv, IsDirectory, LinksLead

LEMMA LinksCorrect == Spec => []LinksInv
BY LinksInit, LinksStep, PTL DEF Spec

(* No link of the script leads nowhere and no certificates are lost,       *)
(* wherever it was interrupted, for users for whom no command was refused; *)
(* and the certificates are not lost for the others either.                *)
THEOREM LinksAlwaysLead == Spec => []LinksLead
BY LinksCorrect, PTL DEF LinksInv

(* A run over a user who is set up changes nothing of that user's files:   *)
(* what guards the commands is what the commands have brought about.       *)
THEOREM SetUpIsStable == Spec => SetUpStays
<1>1. ASSUME LinksInv, [Next]_vars, NEW u \in Users, SetUp(u)
      PROVE  SetUp(u)' /\ writeable'[u] = writeable[u] /\ dotCisco2'[u] = dotCisco2[u]
  <2> USE DEF LinksInv, Shape, CommandInv, PlacesInv, IsDirectory, LinksLead, SetUp
  <2>1. CASE Start
    BY <1>1, <2>1 DEF Start, files
  <2>2. CASE Move
    BY <1>1, <2>2 DEF Move, Refused, files
  <2>3. CASE Look
    BY <1>1, <2>3 DEF Look, files
  <2>4. CASE Mkdir
    BY <1>1, <2>4 DEF Mkdir, Made, Refused, files
  <2>5. CASE Chown
    BY <1>1, <2>5 DEF Chown, Refused, files
  <2>6. CASE Link
    BY <1>1, <2>6 DEF Link, Refused, files
  <2>7. CASE LinkCertificates
    BY <1>1, <2>7 DEF LinkCertificates, Refused, files
  <2>8. CASE Crash
    BY <1>1, <2>8 DEF Crash, files
  <2>9. ASSUME NEW v \in Users, ClientMakesDir(v)
        PROVE  SetUp(u)' /\ writeable'[u] = writeable[u] /\ dotCisco2'[u] = dotCisco2[u]
    BY <1>1, <2>9 DEF ClientMakesDir
  <2>10. CASE UNCHANGED vars
    BY <1>1, <2>10 DEF vars, files
  <2> QED BY <1>1, <2>1, <2>2, <2>3, <2>4, <2>5, <2>6, <2>7, <2>8, <2>9, <2>10 DEF Next
<1>2. LinksInv /\ [Next]_vars =>
        [\A u \in Users : SetUp(u) =>
           SetUp(u)' /\ writeable'[u] = writeable[u] /\ dotCisco2'[u] = dotCisco2[u]]_vars
  BY <1>1
<1> QED BY <1>2, LinksCorrect, PTL DEF Spec, SetUpStays
-----------------------------------------------------------------------------
(* The variables that only TypeOK speaks of. *)
Rest ==
  /\ failed \subseteq Users /\ configured \subseteq Users /\ seen \subseteq Users
  /\ user \in 0..NumUsers /\ crashes \in 0..MaxCrashes

LEMMA RestStep == LinksInv /\ Rest /\ [Next]_vars => Rest'
<1> SUFFICES ASSUME LinksInv, Rest, [Next]_vars PROVE Rest'
  OBVIOUS
<1> USE BoundsAssumption DEF Rest, LinksInv, CommandInv
<1>1. CASE Start
  BY <1>1 DEF Start, files
<1>2. CASE Move
  BY <1>2 DEF Move, Refused, files
<1>3. CASE Look
  BY <1>3 DEF Look, NextUser, files, Users
<1>4. CASE Mkdir
  BY <1>4 DEF Mkdir, Made, Refused, files
<1>5. CASE Chown
  BY <1>5 DEF Chown, Refused, files
<1>6. CASE Link
  BY <1>6 DEF Link, Refused, files
<1>7. CASE LinkCertificates
  <2>1. user \in Users /\ seen' = seen \cup {user} /\ failed' \in {failed, failed \cup {user}}
        /\ UNCHANGED <<configured, crashes>>
    BY <1>7 DEF LinkCertificates, Refused
  <2>2. user' \in 0..NumUsers
    BY <1>7, <2>1 DEF LinkCertificates, NextUser, Users
  <2> QED BY <2>1, <2>2
<1>8. CASE Crash
  BY <1>8 DEF Crash, files
<1>9. ASSUME NEW u \in Users, ClientMakesDir(u) PROVE Rest'
  BY <1>9 DEF ClientMakesDir
<1>10. CASE UNCHANGED vars
  BY <1>10 DEF vars, files
<1> QED BY <1>1, <1>2, <1>3, <1>4, <1>5, <1>6, <1>7, <1>8, <1>9, <1>10 DEF Next

(* The script's variables keep their types: the loop never leaves the list *)
(* of users, and it is not killed more often than the bound has it.        *)
THEOREM ScriptTypeCorrect == Spec => []TypeOK
<1>1. Init => Rest
  BY BoundsAssumption DEF Init, Rest
<1>2. LinksInv /\ Rest => TypeOK
  BY DEF LinksInv, Shape, CommandInv, Rest, TypeOK
<1> QED BY <1>1, <1>2, RestStep, LinksCorrect, PTL DEF Spec

(* What a completed turn has left behind.  At the last command ~/.cisco is *)
(* there, be it the link or what the client made, and from then on the mv  *)
(* of later runs fails, as there is a ~/.cisco2 by LinksLead.              *)
SeenInv ==
  /\ pc = "certificates" => user \in failed \/ dotCisco[user] # "none"
  /\ SeenIsLinked

LEMMA SeenStep == LinksInv /\ Rest /\ SeenInv /\ [Next]_vars => SeenInv'
<1> SUFFICES ASSUME LinksInv, Rest, SeenInv, [Next]_vars PROVE SeenInv'
  OBVIOUS
<1> USE DEF LinksInv, Shape, CommandInv, PlacesInv, IsDirectory, LinksLead, Rest, SeenInv, SeenIsLinked
<1>1. CASE Start
  BY <1>1 DEF Start, files
<1>2. CASE Move
  BY <1>2 DEF Move, Refused, files
<1>3. CASE Look
  BY <1>3, NextUserInUsers DEF Look, files
<1>4. CASE Mkdir
  BY <1>4 DEF Mkdir, Made, Refused, files
<1>5. CASE Chown
  BY <1>5 DEF Chown, Refused, files
<1>6. CASE Link
  BY <1>6 DEF Link, Refused, files
<1>7. CASE LinkCertificates
  BY <1>7, NextUserInUsers DEF LinkCertificates, Refused, files
<1>8. CASE Crash
  BY <1>8 DEF Crash, files
<1>9. ASSUME NEW u \in Users, ClientMakesDir(u) PROVE SeenInv'
  BY <1>9 DEF ClientMakesDir
<1>10. CASE UNCHANGED vars
  BY <1>10 DEF vars, files
<1> QED BY <1>1, <1>2, <1>3, <1>4, <1>5, <1>6, <1>7, <1>8, <1>9, <1>10 DEF Next

(* Whatever earlier runs left half done, a user whose turn was completed   *)
(* stays linked: no later run moves the user's ~/.cisco away again.        *)
THEOREM SeenStaysLinked == Spec => []SeenIsLinked
<1>1. Init => Rest /\ SeenInv
  BY BoundsAssumption DEF Init, Rest, SeenInv, SeenIsLinked
<1>2. LinksInv /\ (Rest /\ SeenInv) /\ [Next]_vars => (Rest /\ SeenInv)'
  BY RestStep, SeenStep
<1>3. Rest /\ SeenInv => SeenIsLinked
  BY DEF SeenInv
<1> QED BY <1>1, <1>2, <1>3, LinksCorrect, PTL DEF Spec
=============================================================================
