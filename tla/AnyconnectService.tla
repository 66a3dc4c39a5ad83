------------------------- MODULE AnyconnectService -------------------------
(***************************************************************************)
(* One nm-anyconnect-service process: the plugin's private data, the GLib  *)
(* event sources it attaches, the AnyConnect client processes it spawns    *)
(* and the D-Bus requests of NetworkManager that drive it.                 *)
(*                                                                         *)
(* The process has one thread running callbacks to completion from a main  *)
(* loop, so every callback is one action.  What makes the code hard is     *)
(* that NetworkManager's requests, the output of the clients, their exits  *)
(* and the kill timers are independent sources, dispatched in any order.   *)
(*                                                                         *)
(* A client process is named by its position in the order of spawning.    *)
(* Its PID, the GIOChannel on its standard output and the event source     *)
(* that watches the channel are named by the same number.  Reuse of PIDs   *)
(* and descriptors by the kernel is not modelled; that a number may have a *)
(* new owner shows as a child already "reaped" or a channel already closed.*)
(***************************************************************************)
EXTENDS Naturals, Sequences, FiniteSets, Credentials

CONSTANTS
  Users,        \* the entries of the user database: [uid, gid]
  MaxChildren,  \* bound: clients spawned by `connect' in a behaviour
  PipeLines,    \* bound: lines a standard output pipe holds
  Lines,        \* kinds of text the clients print
  AwaitExit,    \* TRUE: Connect comes only after every exit was dispatched
  TunnelDrops,  \* TRUE: the tunnel may go down by itself
  Persist       \* the --persist command line option

ASSUME ConstantsAssumption ==
  /\ Users \subseteq People
  /\ MaxChildren \in Nat \ {0}
  /\ PipeLines \in Nat \ {0}
  /\ Lines \subseteq {"connected", "warning", "error", "other", "partial"}
  /\ AwaitExit \in BOOLEAN /\ TunnelDrops \in BOOLEAN /\ Persist \in BOOLEAN

VARIABLES
  loop,         \* the main loop: "running", "quit", or "crashed"
  state,        \* the base class's service state, as NetworkManager sees it
  me,           \* the identity of this process
  priv,         \* NMAnyconnectPluginPrivate
  spawned,      \* how many clients have been spawned
  proc,         \* the life of every client process
  as,           \* the identity of every client process
  out,          \* the lines in every client's standard output pipe
  reading,      \* the client whose unfinished line the loop is blocked on
  childWatch,   \* clients whose exit callback is still to come
  stdoutWatch,  \* clients whose standard output is watched
  openFds,      \* clients whose pipe this process holds open
  killTimers,   \* clients with an ensure_killed timeout pending
  tunnel,       \* the VPN tunnel, kept by the AnyConnect agent
  for,          \* history: the user every client was started for, 0 if unnamed
  attempt,      \* history: the client of the present attempt, or 0
  failure       \* history: whose exit was signalled as the attempt's failure

privVars   == <<priv, attempt, failure>>
identities == <<as, for>>
sources    == <<childWatch, stdoutWatch, openFds, killTimers>>
clients    == <<spawned, proc, out, reading, identities>>
vars       == <<loop, state, me, privVars, clients, sources, tunnel>>

Children == 1..MaxChildren

(* A message is represented by the process that printed it. *)
NoMessage      == 0
FromDisconnect == MaxChildren + 1
Messages       == 0..(MaxChildren + 1)

Private ==
  [pid : 0..MaxChildren, uid : Nat, gid : Nat, connected : BOOLEAN,
   last_warning : Messages, last_error : Messages, stdout_channel : 0..MaxChildren]

Init ==
  /\ loop = "running" /\ state = "stopped" /\ tunnel = "down" /\ me = Root
  /\ priv = [pid |-> 0, uid |-> 0, gid |-> 0, connected |-> FALSE,
             last_warning |-> NoMessage, last_error |-> NoMessage, stdout_channel |-> 0]
  /\ spawned = 0
  /\ proc = [c \in Children |-> "none"]
  /\ as = [c \in Children |-> Root] /\ for = [c \in Children |-> [uid |-> 0, gid |-> 0]]
  /\ out = [c \in Children |-> <<>>]
  /\ reading = 0
  /\ childWatch = {} /\ stdoutWatch = {} /\ openFds = {} /\ killTimers = {}
  /\ attempt = 0 /\ failure = 0

(* The main loop can dispatch a callback. *)
Dispatching == loop = "running" /\ reading = 0

-----------------------------------------------------------------------------
(* The clients, the agent that holds the tunnel, and GLib, for as long as  *)
(* the service runs: what a client does that outlives it is not followed.  *)

(* Client c writes a line, or text without a newline ("partial"), to its  *)
(* pipe.  A line written after such text is one line with it and shows no *)
(* known prefix.  It is lost when nobody holds the other end of the pipe. *)
Written(c, line) ==
  LET glued == out[c] # <<>> /\ out[c][Len(out[c])] = "partial" IN
  IF c \notin openFds THEN UNCHANGED <<out, reading>>
  ELSE IF reading = c THEN /\ reading' = IF line = "partial" THEN c ELSE 0
                           /\ UNCHANGED out
  ELSE IF glued THEN /\ out' = [out EXCEPT ![c][Len(out[c])] =
                                  IF line = "partial" THEN "partial" ELSE "other"]
                     /\ UNCHANGED reading
  ELSE /\ Len(out[c]) < PipeLines
       /\ out' = [out EXCEPT ![c] = Append(@, line)]
       /\ UNCHANGED reading

ClientPrints(c, line) ==
  /\ loop = "running" /\ proc[c] = "running"
  /\ Written(c, line)
  /\ tunnel' = IF line = "connected" THEN "up" ELSE tunnel
  /\ UNCHANGED <<loop, state, me, privVars, spawned, proc, identities, sources>>

(* The end of its output also ends a line the loop was blocked on. *)
ClientExits(c) ==
  /\ loop = "running" /\ proc[c] = "running"
  /\ proc' = [proc EXCEPT ![c] = "zombie"]
  /\ reading' = IF reading = c THEN 0 ELSE reading
  /\ UNCHANGED <<loop, state, me, privVars, spawned, out, identities, sources, tunnel>>

TunnelDrop ==
  /\ TunnelDrops /\ loop = "running" /\ tunnel = "up"
  /\ tunnel' = "down"
  /\ UNCHANGED <<loop, state, me, privVars, clients, sources>>

(* GLib collects the status of a watched child before the callback runs. *)
GlibReaps(c) ==
  /\ loop = "running"
  /\ c \in childWatch /\ proc[c] = "zombie"
  /\ proc' = [proc EXCEPT ![c] = "reaped"]
  /\ UNCHANGED <<loop, state, me, privVars, spawned, out, reading, identities,
                 sources, tunnel>>

-----------------------------------------------------------------------------
(* The callbacks of the main loop. *)

(* One line of client c's output is read.  Reading text without a newline *)
(* blocks the loop until the client goes on or exits.  On `Connected' the *)
(* network configuration is sent, which makes the service "started", or   *)
(* ends it: NetworkConfig has the addresses that send_network_config does *)
(* not survive.                                                           *)
AnyconnectStdoutCb(c) ==
  /\ Dispatching
  /\ c \in stdoutWatch /\ out[c] # <<>>
  /\ LET line == Head(out[c]) IN
     /\ out' = [out EXCEPT ![c] = Tail(@)]
     /\ reading' = IF line = "partial" /\ proc[c] = "running" THEN c ELSE 0
     /\ priv' = CASE line = "connected" -> [priv EXCEPT !.connected = TRUE]
                  [] line = "warning"   -> [priv EXCEPT !.last_warning = c]
                  [] line = "error"     -> [priv EXCEPT !.last_error = c]
                  [] OTHER              -> priv
     /\ IF line = "connected"
        THEN \/ state' = "started" /\ UNCHANGED loop
             \/ loop' = "crashed" /\ UNCHANGED state
        ELSE UNCHANGED <<loop, state>>
  /\ UNCHANGED <<me, attempt, failure, spawned, proc, identities, sources, tunnel>>

(* waitpid (pid, NULL, WNOHANG): with pid 0 any child will do. *)
WaitPid(pid) ==
  LET zombies == {c \in Children : proc[c] = "zombie" /\ pid \in {0, c}} IN
  \/ zombies = {} /\ UNCHANGED proc
  \/ \E c \in zombies : proc' = [proc EXCEPT ![c] = "reaped"]

(* Mutant: the pipe is closed and its watch forgotten. *)
CloseOnly(fd) ==
  /\ stdoutWatch' = stdoutWatch
  /\ openFds' = openFds \ {fd}
  /\ out' = [out EXCEPT ![fd] = <<>>]

(* The watch on a client's output is removed and the pipe closed. *)
CloseStdout(fd) ==
  /\ stdoutWatch' = stdoutWatch \ {fd}
  /\ openFds' = openFds \ {fd}
  /\ out' = [out EXCEPT ![fd] = <<>>]

(* Mutant: only a client that left a message counts as failed. *)
SignalledIfExplained(c) ==
  IF priv.connected \/ priv.last_error = NoMessage THEN failure ELSE c

(* Mutant: a client's end is always the failure of the connection. *)
SignalledAlways(c) == c

(* The failure signalled when client c has exited. *)
Signalled(c) == IF priv.connected THEN failure ELSE c

(* What was wrong is shown, if there is a text to show, when the client   *)
(* ended without `Connected': the service may come out of that as another.*)
FailureShown ==
  \/ me' = me
  \/ /\ ~priv.connected
     /\ {priv.last_error, priv.last_warning} # {NoMessage}
     /\ me' = Notified(me, priv)

(* Mutant: only the exit of the tracked client is attended to. *)
TrackedWatchCb(c) ==
  /\ Dispatching
  /\ c \in childWatch /\ proc[c] = "reaped" /\ priv.pid = c
  /\ childWatch' = childWatch \ {c}
  /\ WaitPid(priv.pid)
  /\ priv' = [priv EXCEPT !.pid = 0]
  /\ CloseStdout(priv.stdout_channel)
  /\ failure' = Signalled(c)
  /\ FailureShown
  /\ UNCHANGED <<loop, state, attempt, spawned, reading, identities, killTimers, tunnel>>

(* The exit of client c is dispatched.  What the callback cleans up is    *)
(* whatever the private data name at that moment.                         *)
AnyconnectWatchCb(c) ==
  /\ Dispatching
  /\ c \in childWatch /\ proc[c] = "reaped"
  /\ childWatch' = childWatch \ {c}
  /\ WaitPid(priv.pid)
  /\ priv' = [priv EXCEPT !.pid = 0]
  /\ CloseStdout(priv.stdout_channel)
  /\ failure' = Signalled(c)
  /\ FailureShown
  /\ UNCHANGED <<loop, state, attempt, spawned, reading, identities, killTimers, tunnel>>

(* Two seconds after SIGTERM: SIGKILL, unless the process is gone or may  *)
(* not be signalled (any more).                                           *)
EnsureKilled(c) ==
  /\ Dispatching
  /\ c \in killTimers
  /\ killTimers' = killTimers \ {c}
  /\ proc' = IF proc[c] = "running" /\ MaySignal(me, as[c])
             THEN [proc EXCEPT ![c] = "zombie"] ELSE proc
  /\ UNCHANGED <<loop, state, me, privVars, spawned, out, reading, identities,
                 childWatch, stdoutWatch, openFds, tunnel>>

-----------------------------------------------------------------------------
(* The requests of NetworkManager. *)

(* What running the client with `disconnect' can come to: the binary may  *)
(* be missing or fail to run, and it may print that it disconnected and    *)
(* lines of the kinds clients print.                                       *)
CliResults ==
  {r \in [binary : BOOLEAN, ran : BOOLEAN, disconnected : BOOLEAN,
          warning : BOOLEAN, error : BOOLEAN] :
     /\ r.ran => r.binary
     /\ r.disconnected \/ r.warning \/ r.error => r.ran
     /\ r.warning => "warning" \in Lines
     /\ r.error => "error" \in Lines}

Latest(printed, reset, old) ==
  IF printed THEN FromDisconnect ELSE IF reset THEN NoMessage ELSE old

(* The private data p once real_disconnect returns. *)
AfterDisconnect(p, r) ==
  [p EXCEPT !.pid = 0,
            !.connected = @ /\ ~r.disconnected,
            !.last_warning = Latest(r.warning, r.binary, @),
            !.last_error = Latest(r.error, r.binary, @)]

(* The client that ran with `disconnect' left the flag set, and what it   *)
(* printed may be shown.                                                  *)
Shown(p, r) ==
  \/ me' = me
  \/ /\ r.ran /\ AfterDisconnect(p, r).connected /\ (r.warning \/ r.error)
     /\ me' = Notified(me, p)

(* Mutant: SIGTERM without the timeout that makes sure. *)
Unarmed(p, r) ==
  /\ killTimers' = killTimers
  /\ tunnel' = IF r.disconnected THEN "down" ELSE tunnel
  /\ Shown(p, r)

(* SIGTERM goes to the tracked client, with a kill timer behind it.  When *)
(* it is refused so is the SIGKILL tried instead.  Then the client runs   *)
(* with `disconnect' for the user in p.  Whoever calls this sets priv'.   *)
RealDisconnect(p, r) ==
  /\ killTimers' = IF /\ priv.pid # 0 /\ proc[priv.pid] # "reaped"
                      /\ MaySignal(me, as[priv.pid])
                   THEN killTimers \cup {priv.pid} ELSE killTimers
  /\ tunnel' = IF r.disconnected THEN "down" ELSE tunnel
  /\ Shown(p, r)

(* Disconnect request, connect timer expired, or the peer vanished: the   *)
(* base class refuses them all but when starting or started.              *)
Disconnect ==
  /\ Dispatching /\ state \in {"starting", "started"}
  /\ state' = "stopped"
  /\ \E r \in CliResults : /\ RealDisconnect(priv, r)
                           /\ priv' = AfterDisconnect(priv, r)
  /\ UNCHANGED <<loop, attempt, failure, clients,
                 childWatch, stdoutWatch, openFds>>

(* Mutant: only the error is reset. *)
ErrorReset(p) == [p EXCEPT !.last_error = NoMessage]

(* Mutant: the messages become no string at all instead of the empty one. *)
MessagesFreed(p) ==
  [p EXCEPT !.last_error = MaxChildren + 2, !.last_warning = MaxChildren + 2]

MessagesReset(p) == [p EXCEPT !.last_error = NoMessage, !.last_warning = NoMessage]

(* start_anyconnect_binary_connect after the clean up left p: no binary,  *)
(* no gateway in the settings, or nothing spawned.                        *)
NotStarted(p, r) ==
  /\ priv' = p \/ (r.binary /\ priv' = MessagesReset(p))
  /\ attempt' = 0
  /\ UNCHANGED <<clients, childWatch, stdoutWatch, openFds>>

(* Mutant: the client's exit is not watched. *)
WatchedOutput(c) ==
  /\ openFds' = openFds \cup {c}
  /\ stdoutWatch' = stdoutWatch \cup {c}
  /\ childWatch' = childWatch

(* The sources attached for a new client. *)
Watched(c) ==
  /\ openFds' = openFds \cup {c}
  /\ stdoutWatch' = stdoutWatch \cup {c}
  /\ childWatch' = childWatch \cup {c}

(* The next client is spawned with a pipe, watched, and tracked.  It runs *)
(* as what a child of this process can become of the user.                *)
Started(p, r) ==
  LET c == spawned + 1 IN
  /\ r.binary /\ c \in Children
  /\ spawned' = c
  /\ proc' = [proc EXCEPT ![c] = "running"]
  /\ as' = [as EXCEPT ![c] = ChildSetup(me', p)]
  /\ for' = [for EXCEPT ![c] = [uid |-> p.uid, gid |-> p.gid]]
  /\ Watched(c)
  /\ priv' = [MessagesReset(p) EXCEPT !.pid = c, !.stdout_channel = c]
  /\ attempt' = c
  /\ UNCHANGED <<out, reading>>

(* The private data once the user was looked up.  A connection that names *)
(* no user keeps the one before.                                          *)
OfUser(user) ==
  IF user = {} THEN priv
  ELSE LET u == CHOOSE u \in user : TRUE
       IN  [priv EXCEPT !.uid = u.uid, !.gid = u.gid]

(* The base class takes a Connect when stopped.  real_connect first calls *)
(* real_disconnect, and answers TRUE whether or not a client was started. *)
(* Settings it cannot use at all are refused before anything changes.     *)
ConnectAllowed == Dispatching /\ state = "stopped" /\ (AwaitExit => childWatch = {})

RealConnect ==
  /\ ConnectAllowed
  /\ state' = "starting" /\ failure' = 0
  /\ \E user \in {{}} \cup {{u} : u \in Users}, r \in CliResults :
       /\ RealDisconnect(OfUser(user), r)
       /\ \/ NotStarted(AfterDisconnect(OfUser(user), r), r)
          \/ Started(AfterDisconnect(OfUser(user), r), r)
  /\ UNCHANGED loop

(* getpwnam does not know the user: the result is dereferenced all the same. *)
ConnectUnknownUser ==
  /\ ConnectAllowed
  /\ loop' = "crashed"
  /\ UNCHANGED <<state, me, privVars, clients, sources, tunnel>>

-----------------------------------------------------------------------------
(* The end of main: SIGTERM or SIGINT, or the base class's quit signal.   *)
(* Disposing of a started plugin disconnects it.                          *)
SignalHandler ==
  /\ Dispatching
  /\ loop' = "quit"
  /\ IF state = "started"
     THEN /\ state' = "stopped"
          /\ \E r \in CliResults : /\ RealDisconnect(priv, r)
                                   /\ priv' = AfterDisconnect(priv, r)
     ELSE UNCHANGED <<state, me, priv, killTimers, tunnel>>
  /\ UNCHANGED <<attempt, failure, clients, childWatch, stdoutWatch, openFds>>

QuitMainloop ==
  /\ Dispatching /\ ~Persist /\ state = "stopped"
  /\ loop' = "quit"
  /\ UNCHANGED <<state, me, privVars, clients, sources, tunnel>>

Next ==
  \/ RealConnect \/ ConnectUnknownUser \/ Disconnect
  \/ SignalHandler \/ QuitMainloop \/ TunnelDrop
  \/ \E c \in Children :
       \/ \E line \in Lines : ClientPrints(c, line)
       \/ ClientExits(c) \/ GlibReaps(c)
       \/ AnyconnectStdoutCb(c) \/ AnyconnectWatchCb(c) \/ EnsureKilled(c)

Spec == Init /\ [][Next]_vars

(* The main loop dispatches every source that stays ready, and GLib reaps. *)
(* Nothing is assumed of NetworkManager, of the base class's connect timer,*)
(* of the clients or of the tunnel.                                        *)
Fairness ==
  \A c \in Children : /\ WF_vars(GlibReaps(c))
                      /\ WF_vars(AnyconnectStdoutCb(c))
                      /\ WF_vars(AnyconnectWatchCb(c))
                      /\ WF_vars(EnsureKilled(c))

FairSpec == Spec /\ Fairness

-----------------------------------------------------------------------------
(* What holds in every environment. *)

(* Every variable has its type. *)
TypeOK ==
  /\ loop \in {"running", "quit", "crashed"}
  /\ state \in {"stopped", "starting", "started"}
  /\ tunnel \in {"up", "down"}
  /\ me \in Identities /\ priv \in Private
  /\ as \in [Children -> Identities] /\ for \in [Children -> People]
  /\ spawned \in 0..MaxChildren
  /\ proc \in [Children -> {"none", "running", "zombie", "reaped"}]
  /\ out \in [Children -> Seq(Lines \cup {"other"})]
  /\ reading \in 0..MaxChildren
  /\ childWatch \subseteq Children /\ stdoutWatch \subseteq Children
  /\ openFds \subseteq Children /\ killTimers \subseteq Children
  /\ attempt \in 0..MaxChildren /\ failure \in 0..MaxChildren

(* No client ends unnoticed: one that runs, or whose status was not        *)
(* collected, still has its exit callback to come.  This is what the watch *)
(* added by start_anyconnect_binary_connect is for, and it must survive    *)
(* that anyconnect_watch_cb calls waitpid on a process that need not be    *)
(* the one whose exit it was told of.                                      *)
EveryChildReported ==
  /\ \A c \in Children : proc[c] \in {"running", "zombie"} => c \in childWatch
  /\ priv.pid # 0 => priv.pid \in childWatch

(* Once NetworkManager was told that the VPN is up, no exit of any client, *)
(* the connecting one or a late one of before, is signalled as a failure   *)
(* to connect: `connected' stays set for as long as the service is started.*)
StartedNeverFails ==
  [][\A c \in Children : AnyconnectWatchCb(c) /\ state = "started"
                            => failure' = failure]_vars

(* A client started for a user outside of root's group never runs as root, *)
(* whatever notifications have made of the service by then.                *)
NoRootForUsers ==
  \A c \in Children : for[c].uid # 0 /\ for[c].gid # 0 => as[c].uid # 0

(* A client that does not run as root has none of root's groups left       *)
(* (where no user is in root's group): the groups are changed while the    *)
(* process is still allowed to.                                            *)
NoRootGroups ==
  \A c \in Children :
    as[c].uid # 0 => as[c].gid # 0 /\ as[c].groups = {as[c].gid}

(* As long as the service is root, or has become the very user a client    *)
(* was started for, it may signal that client: SIGTERM and ensure_killed   *)
(* take effect also after a notification has taken its privileges, whether *)
(* the client was started before or after.                                 *)
ClientsCanBeSignalled ==
  \A c \in Children :
    proc[c] = "running" /\ me.uid \in {0, for[c].uid} => MaySignal(me, as[c])

-----------------------------------------------------------------------------
(* What holds when NetworkManager connects again only after the exit of    *)
(* every earlier client was dispatched (AwaitExit).                        *)

(* A running client is the tracked one, which the next Disconnect will try *)
(* to signal, or a kill timer of real_disconnect already stands for it, or *)
(* it is out of reach in the one way there is: it runs as root, for a user *)
(* of root's group, and a notification has made the service that user.     *)
LiveChildAccounted ==
  \A c \in Children :
    proc[c] = "running" =>
      \/ priv.pid = c \/ c \in killTimers
      \/ as[c].uid = 0 /\ me.uid # 0

(* The clean up of anyconnect_watch_cb, which closes what the private data *)
(* name, is complete and hits the right client: pipes and watches exist    *)
(* for exactly the clients whose exit was not dispatched.                  *)
NothingLeaks == stdoutWatch = childWatch /\ openFds = childWatch

(* The warning and the error to be shown when the tracked client exits     *)
(* are its own, not those of the disconnect that came before it or of an   *)
(* earlier client.                                                         *)
FeedbackIsOwn ==
  priv.pid # 0 => {priv.last_warning, priv.last_error} \subseteq {NoMessage, priv.pid}

(* A failure is signalled for the present attempt only, and an attempt     *)
(* whose client has ended without `Connected' was signalled as failed,     *)
(* with what went wrong ("see if we can provide a bit more feedback",      *)
(* anyconnect_watch_cb), unless the service believed itself connected all  *)
(* along: after a disconnect command that did not say so it still does.    *)
FailureTellsTheAttempt ==
  /\ failure \in {0, attempt}
  /\ state = "starting" /\ attempt # 0 /\ attempt \notin childWatch
       => (failure = attempt <=> ~priv.connected)

-----------------------------------------------------------------------------
(* What the loop's fairness brings about, unless the service quits or is   *)
(* blocked on a line that its writer does not end.                         *)

Stuck == loop # "running" \/ reading # 0

(* The clients that run and may not be signalled. *)
OutOfReach == {c \in childWatch : proc[c] = "running" /\ ~MaySignal(me, as[c])}

(* A client that real_disconnect sent SIGTERM is at last gone, its status  *)
(* collected and its exit dispatched: if it ignores SIGTERM then           *)
(* ensure_killed ends it, unless the service has lost the right to.        *)
KilledClientIsCollected ==
  \A c \in Children :
    c \in killTimers ~> c \notin childWatch \/ c \in OutOfReach \/ Stuck

(* When a client ends before it connected, the failure of the attempt is   *)
(* signalled unless the attempt is over: NetworkManager need not wait for  *)
(* the connect timer, which the fairness leaves out.                       *)
FailureArrives ==
  \A c \in Children :
    attempt = c /\ proc[c] = "zombie" /\ state = "starting" /\ ~priv.connected
      ~> failure = c \/ state # "starting" \/ Stuck

(* With AwaitExit the service keeps the promise of ClientSlot: a client is *)
(* started only when the one before is gone, and one that was released by  *)
(* a disconnect is gone in the end, so that waiting for it before the next *)
(* Connect is not in vain.  The service cannot keep it, and counts as      *)
(* stuck, while a client is out of its reach.                              *)
Slot == INSTANCE ClientSlot WITH
  slot    <- IF priv.pid # 0 THEN "held"
             ELSE IF childWatch # {} THEN "released" ELSE "free",
  service <- IF Stuck \/ OutOfReach # {} THEN "stuck" ELSE "serving"

ClientHasItsSlot == Slot!FairSpec

-----------------------------------------------------------------------------
(* What comments of the code say and what the code does not keep. *)

(* "Once the connection is established, we need to tell NetworkManager     *)
(* some details about the connection" (send_network_config): whenever the  *)
(* service becomes started, the tunnel is up.                              *)
ConfigSentWhenEstablished ==
  [][state # "started" /\ state' = "started" => tunnel = "up"]_vars

(* "Just in case the previous process is still hanging around"             *)
(* (real_disconnect): when its timer has fired it is not.                  *)
TimerEndsClient ==
  [][\A c \in Children : EnsureKilled(c) => proc'[c] # "running"]_vars
=============================================================================
