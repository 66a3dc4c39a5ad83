---------------------------- MODULE SharedAgent ----------------------------
(***************************************************************************)
(* Two nm-anyconnect-service processes, as NetworkManager starts them for  *)
(* two connections of this type, on one machine.  Each has clients, pipes  *)
(* and private data of its own, but there is one AnyConnect agent and one  *)
(* tunnel: `vpn connect' of either process brings it up, and `vpn          *)
(* disconnect', which takes no name of a connection, takes it down.        *)
(*                                                                         *)
(* The first process has the names of AnyconnectService, the second has    *)
(* them with a 2.                                                          *)
(***************************************************************************)
EXTENDS AnyconnectService

VARIABLES
  loop2, state2, priv2, attempt2, failure2, spawned2, proc2, out2, reading2,
  childWatch2, stdoutWatch2, openFds2, killTimers2, me2, as2, for2

Second == INSTANCE AnyconnectService WITH
  loop <- loop2, state <- state2, priv <- priv2, attempt <- attempt2,
  failure <- failure2, spawned <- spawned2, proc <- proc2, out <- out2,
  reading <- reading2, childWatch <- childWatch2, stdoutWatch <- stdoutWatch2,
  openFds <- openFds2, killTimers <- killTimers2,
  me <- me2, as <- as2, for <- for2

firstVars ==
  <<loop, state, priv, attempt, failure, spawned, proc, out, reading,
    childWatch, stdoutWatch, openFds, killTimers, me, as, for>>
secondVars ==
  <<loop2, state2, priv2, attempt2, failure2, spawned2, proc2, out2, reading2,
    childWatch2, stdoutWatch2, openFds2, killTimers2, me2, as2, for2>>
bothVars == <<firstVars, secondVars, tunnel>>

BothInit == Init /\ Second!Init

(* One process at a time takes a step; the tunnel is what they share. *)
FirstStep  == Next /\ UNCHANGED secondVars
SecondStep == Second!Next /\ UNCHANGED firstVars

BothNext == FirstStep \/ SecondStep

BothSpec == BothInit /\ [][BothNext]_bothVars

-----------------------------------------------------------------------------
(* "supports-multiple-connections=true" (nm-anyconnect-service.name.in):   *)
(* while a service is started, only a step of its own takes the tunnel     *)
(* down; a Connect or Disconnect of another connection leaves it alone.    *)
ConnectionsAreApart ==
  [][/\ SecondStep /\ state = "started" /\ tunnel = "up" => tunnel' = "up"
     /\ FirstStep /\ state2 = "started" /\ tunnel = "up" => tunnel' = "up"]_bothVars
=============================================================================
