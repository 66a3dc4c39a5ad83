# A TLA+ verification of NetworkManager-anyconnect

NetworkManager-anyconnect lets NetworkManager drive the proprietary Cisco
AnyConnect client. These modules model the parts of it that keep state, TLC
checks them on small instances, and the TLA+ proof system proves the main
invariants for every value of the constants. Source paths below are relative to
the repository; `service.c` is `src/nm-anyconnect-service.c`.

Check a run with `tlc -config <run>.cfg <MC module>`, a proof module with
`tlapm <module>.tla`. `PROJECT.json` lists the runs, the theorems, the lines each
definition stands for, the hazards and the findings.

## 1. Inventory

| Part | State | Operations | Talks to |
|---|---|---|---|
| Service, connection life cycle (`service.c` 534–980) | `NMAnyconnectPluginPrivate`: pid, connected, last messages, stdout channel and its event source; GLib sources: child watches, stdout watches, kill timers | `real_connect`, `real_disconnect`, `anyconnect_stdout_cb`, `anyconnect_watch_cb`, `ensure_killed`, `signal_handler`, `quit_mainloop` | NetworkManager over D-Bus through the base class `NMVpnServicePlugin`; clients through signals, a pipe and exit statuses; other uses of the AnyConnect agent through the tunnel |
| Service, network configuration (216–459) | none between calls; memory allocated per call | `get_local_ip_address`, `send_network_config` | kernel (`getifaddrs`), NetworkManager |
| Service, credentials (130–202, 617–654, 892–900) | uid and gid in the private data; the identity of the process itself | `anyconnect_child_setup`, `show_notification_full` | user database, kernel, notification daemon |
| Service, message texts (463–477, 561–568, 797–832) | the last warning and error | `chopN`, prefix tests | the client's output |
| Service, command line and logging (106–121, 982–1085) | the levels, set once | `main`'s options and environment | – |
| Service, several instances | one AnyConnect agent and tunnel | NetworkManager starts a service for each connection | each other, through the agent |
| Editor module (`properties/nm-anyconnect-editor.c`) | the dialog: list of hosts, the one shown | `anyconnect_editor_new`, `populate_gateway_combo`, `update_connection`, `dispose` | client (`vpn hosts`), connection editor |
| Editor plugin and loader (`nm-anyconnect-editor-plugin.c`, `shared/nm-utils/nm-vpn-plugin-utils.c`) | the static cache of module and factory | `get_editor`, `nm_vpn_plugin_utils_load_editor` | dynamic loader |
| Home directory work-around (`rpm/NetworkManager-anyconnect-fix-perms`) | files under `/home` and `/var/opt` | the script's commands, per user | client, which writes `~/.cisco` |
| Shared utilities (`shared/nm-utils/nm-shared-utils.c`, `.h`) | static buffer; a read loop's position | numbers, lists, paths, process times, bounded buffers, escapes, addresses, properties; `nm_utils_fd_read_loop` | vendored from NetworkManager; the service uses its reading of numbers |
| Macros, compatibility, test helpers (the rest of `shared/`) | none | – | vendored |
| D-Bus policy, packaging, translations, metadata | static | – | – |

What is hard here. The service has one thread, so each callback is atomic; but
requests, lines of output, exits and two-second timers are independent event
sources in any order, and all callbacks share one record of private data that
names *the* client, while the client of an earlier connection may still be
alive. A callback of the old client then works on the data of the new one. The
service starts as root and gives up identities with calls that cannot be undone.
The configuration is read from the kernel with failures that leave memory
unwritten. The script is interrupted between commands and run again.

What makes each part correct:

* **life cycle** – no client ends unnoticed; no client runs that nobody will
  signal; the callbacks clean up the client they were called for; what is
  signalled and shown belongs to the present attempt; a client told to go goes;
* **configuration** – what is sent was read, and its parts belong together;
* **credentials** – an ordinary user's client never has root's user or groups,
  and clients stay within reach of the service's signals;
* **loader** – one version of the module at most in a process, and none unloaded
  that is still in use; **dialog** – the gateway written is one that was shown;
* **script** – no link leads nowhere, whatever command it was killed after, and a
  user who is set up is left alone;
* **texts** – what is parsed is parsed whole or refused, what is written into a
  buffer fits and says what it leaves out, what is escaped can be got back, what
  is ordered is in an order, and the message shown is the one that was printed;
* **read loop** – no byte is lost, doubled or out of place, a short answer has a
  reason, and a call ends when the stream does.

## 2. Modules

### AnyconnectService (with MCAnyconnectService, AnyconnectServiceProofs)

One service process. A client is named by its number in the order of spawning,
and the same number names its PID, its pipe and its watch: that the kernel may
reuse numbers is not modelled. Variables: the main loop (`loop`), the base
class's `state`, the record `priv` with the fields of
`NMAnyconnectPluginPrivate` (the event source id
and the channel are one field, as they are always set together), each client's
life (`proc`) and unread output (`out`), the sources (`childWatch`,
`stdoutWatch`, `openFds`, `killTimers`), the agent's `tunnel`. Who runs as whom is
`me` for the service and `as` for each client, with the operators of Credentials.
`attempt`, `failure` and `for` (the user each client was started for) are history
variables for the properties.

A signal takes effect only if `MaySignal` says so at that moment: a notification
may have made the service somebody else since. `EnsureKilled` then leaves the client
running, and `RealDisconnect` arms no timer (the SIGKILL tried instead is refused as
well). `OutOfReach` are the clients this happens to.

| Action | Code |
|---|---|
| `RealConnect`, with `OfUser`, `RealDisconnect`, `AfterDisconnect`, `Started`, `NotStarted` | `real_connect`, which looks up the user, if the connection names one, and calls `real_disconnect` (with the synchronous `vpn disconnect`) and `start_anyconnect_binary_connect`, with every early return |
| `ConnectUnknownUser` | `real_connect` with a user `getpwnam` does not know |
| `Disconnect` | `real_disconnect`, called by the base class for a request, its connect timer or a vanished peer |
| `AnyconnectStdoutCb(c)` | `anyconnect_stdout_cb` for one line, `send_network_config` included as far as it changes the state: it makes the service started, or it crashes |
| `AnyconnectWatchCb(c)` | `anyconnect_watch_cb` for the exit of client `c`, with the notification it may show |
| `EnsureKilled(c)` | `ensure_killed`, whose SIGKILL may be refused |
| `SignalHandler`, `QuitMainloop` | their namesakes, and the end of `main`, where disposing of a started plugin disconnects |
| `ClientPrints`, `ClientExits`, `TunnelDrop`, `GlibReaps` | the environment |

`g_io_channel_read_line` blocks on text without a newline: `reading` then names
the client and no callback runs until the client goes on or ends.

`AwaitExit` restricts the environment: when TRUE, NetworkManager's Connect comes
only after the exits of all earlier clients were dispatched. The code does not
see to this itself. It separates what the code guarantees always from what it
guarantees to a patient caller; the violations with `AwaitExit = FALSE` show that
the restriction is needed.

### ClientSlot

The abstract specification of the service's handling of clients: one place for a
client, held, released by a disconnect, free when the client is gone; a released
client goes. `AnyconnectService!Slot` is the refinement mapping.

### SharedAgent (with MCSharedAgent)

Two instances of AnyconnectService, each with its own variables but for `tunnel`,
one step of either at a time: `supports-multiple-connections` of the service
description.

### NetworkConfig (with MCNetworkConfig, NetworkConfigProofs)

`get_local_ip_address` one turn of the loop per step (`Visit`), the failure of
`getifaddrs`, and `send_network_config`. An entry is a device flag, a family, and
what the calls on it come to. Addresses, texts and masks are named by the
position of their entry, and 0 is memory that was never written. The counting of
ones in the IPv6 netmask is modelled byte by byte.

### Credentials (with CredentialsProofs)

What the calls for users and groups make of a process, for AnyconnectService:
`ChildSetup` is `anyconnect_child_setup`, `Notified` is `show_notification_full`, and
`MaySignal` is `kill`'s rule. The system calls fail for all but root. A process that
becomes a user cannot go back, so that a service that showed a notification stays
whoever it became.

### Editor (with MCEditor, EditorProofs)

`GetEditor` is `get_editor` down to the populated dialog, with every way loading
may fail; `Load` is the cache. `Upgrade` puts another file in the module's place.
`UpdateConnection` writes the entry that is shown unless it is the empty text, and
with none shown reads a variable that was not set: any text, or a crash.

### FixPerms (with MCFixPerms, FixPermsProofs)

One action per command of the script's loop body; `Crash` between any two; any
command may be refused (`Refused`), and the script goes on as it does, without
looking. `~/.cisco` and `~/.cisco2` are "full" with a directory for certificates in
them and "bare" without. `ClientMakesDir` is the client making the `~/.cisco` it
misses, or certificates in it, which may be behind the link.

The script does leave links that lead nowhere, and the properties name the cases. A
refused `mkdir` leaves `~/.cisco` without its directory, and `ln` puts the link for
the certificates in the directory's own place, which a later run does not repair
(`writeable` is then "link"): such users are in `failed`. And a user who had no
certificates before the first run (not in `configured`) but whose client made a bare
`~/.cisco` is given a link to certificates that are not there.

### ReadLoop (with MCReadLoop, ReadLoopProofs)

`nm_utils_fd_read_loop`, its exact variant and `nm_utils_fd_wait_for_event`: one
action per outcome of `read` (some bytes, the end, a signal, nothing yet, a
failure), `Write` and `Close` for the other end. Bytes are named by their position
in the stream. Calls follow each other, so that what one leaves is what the next
begins with. No other code of the repository calls the loop: it is modelled as the
library offers it.

### Texts, Buffers, Addresses, Objects, Messages (with TextCalls, MCTexts, TextsProofs, FoldFacts)

The algorithms that keep no state between calls, as operators; a text is a sequence
of character codes and `Null` is no text.

| Module | Code |
|---|---|
| Texts | `nm-shared-utils.c`: numbers and truth values, splitting, clean-up and sorting of lists, dictionaries as lists, comparison of object paths, the start time of a process |
| Buffers | appending to and quoting into a buffer of a size, names of flags and enumerators, UTF-8 escapes, `str_to_gvariant` of the service |
| Addresses | parsing of addresses with or without a prefix length, netmasks, classes, `addr4_to_gvariant` and `addr6_to_gvariant` of the service; a text is named by the address it spells and by what follows its slash |
| Objects | `nm_g_object_set_property` and the cancelled errors |
| Messages | `chopN`, what the two readers of the client's output make of its lines and which message is shown, the hosts of the dialog's list, the options of `main` and the levels of logging; a line is an indent, a mark, a length and a trailing space |

TextCalls makes calls, one at a time, of every operator with inputs from a set
`Inputs`; `InputsAssumption` says which inputs the callers of each may give: texts
and lists of any length, with the types the C functions demand. Its invariants state the
result in terms of the input, by another definition than the operator's (positional
values, positions and counts instead of loops). MCTexts gives `Inputs` small sets.

## 3. Runs

| Run | Checks | Bounds |
|---|---|---|
| `service_any` | `TypeOK`, `EveryChildReported`, `NoRootForUsers`, `NoRootGroups`, `ClientsCanBeSignalled`, `StartedNeverFails`, and with fairness `KilledClientIsCollected`, `FailureArrives`, in every order of events | 2 clients, a user and unnamed connections, 1 line per pipe, texts connected and error |
| `service_serial` | waiting for exits: `LiveChildAccounted`, `NothingLeaks`, `FeedbackIsOwn`, `FailureTellsTheAttempt`, and `ClientHasItsSlot` (ClientSlot with its liveness) | 2 clients, an ordinary user, one of root's group and unnamed connections, 2 lines per pipe, all kinds of text, the tunnel may drop |
| `config` | `IPv4PairIsOneEntry`, `IPv6NeverUnwritten`, `IPv6PrefixIsMaskLength`, and with fairness `ConfigArrives` | lists of up to 2 of 140 kinds of entries, with all 129 lengths of an IPv6 netmask |
| `perms` | `LinksLead`, `SeenIsLinked`, `SetUpStays` | 2 users, 2 interruptions, commands may be refused, the client may make its directories |
| `editor` | `AtMostOneModule`, `FactoryIsLoaded`, `ListedHostIsSaved` | 2 connections, lists of up to 2 of 2 hosts and the empty text, 3 files |
| `read_loop` | `TypeOK`, `NoByteLost`, `ExactIsAll`, `ShortOnlyAtTheEnd`, and with fairness `CallEnds` | buffers of 0 to 4 bytes, where 3 is the most a result can tell, a stream of up to 4, 2 signals anywhere |
| `texts` | `NumbersAreStrict`, `WordsAreSplit`, `ListsAreClean`, `StartTimeIsNotFooled`, `PathsAreOrdered`, `AddressesAreWhole`, `OutputIsWhole`, `EscapesRevert`, `FeedbackIsMessage`, `PropertiesAreValid` | texts of up to 5 of up to 8 characters that the code tells apart (digits, signs, white space, delimiters, parentheses, bytes of and outside UTF-8); an `int64` of 3 digits and an `int` of 2, a static buffer of 20 bytes instead of 2096, one hexadecimal digit of flags, UTF-8 of one and two bytes |

The types of `config`, `perms` and `editor` are proved and not run again.

Why the bounds are enough: interference needs an old and a new client, and each
callback touches only its own client and the tracked one, so that two clients
show every pair; that nothing passes from the first over the second to a third is
what the proofs add, which hold for any number. An ordinary user and connections
without one, which keep the user before, or root, give every relation of service
and client there is in `service_any` (same, root's, another's: a client started
unnamed runs as root); `service_timer` has two users. In `perms` the users share
nothing but the script's order and its end, and one interruption can undo what
another left. One line per pipe suffices for a line to be read late
or not at all; two let it be overtaken. In `config` what a turn overwrites is
what one earlier turn wrote. In `texts` the lengths are those at which the code
does something else: the word list is split at 7, 8, 9, 16 and 17 words around its
growth, the names at the 195 characters of the stack buffer, every buffer size from
none to beyond the text is tried. Three files show two loads and a failure before them.

Runs that end in a violation show where the code does not do what a comment or
document says (`findings` in PROJECT.json has the quotations):

| Run | What it shows |
|---|---|
| `service_overlap` | without waiting for exits, the late exit of an old client makes the service forget the running one, which nothing will then end |
| `service_late_line` | `Connected` read after a Disconnect makes a stopped service started, tunnel down |
| `config_unwritten` | when `getifaddrs` fails, or the tunnel device has no IPv4 address yet, the IPv4 address sent was never written, though the code requires one |
| `service_timer` | a notification takes the service's identity for good, and `ensure_killed` then cannot kill the client of another user |
| `shared_agent` | the disconnect with which one service begins a connect takes down the tunnel of another, which stays started |

Further behaviours that the models contain and no run singles out are among the
hazards: a failed attempt that is not signalled because `connected` is left over
from a disconnect that did not report its success (`FailureTellsTheAttempt` names the
case), an IPv6 address without a zone that ends the walk in `strlen` of NULL
(`ConfigArrives` excepts it), a directory that stays root's when the script is killed
between `mkdir` and `chown`, object paths whose order is not transitive across
prefixes (`/9`, `/10`, `/1a/x`), the prompt `VPN>` listed as a host, an exit that overtakes the unread line `Connected`, a user of root's group whose client runs as root, `ln` into a
`~/.cisco` that came back, the dangling links named under FixPerms, and a gateway read from an unset variable when no host
is listed.

### Fairness

`FairSpec` assumes weak fairness of the callbacks whose sources stay ready (a GLib
main loop polls all sources of a priority in turn), of GLib's reaping and of the
two-second timers. The base class's connect timer is left out, so that
`FailureArrives` is not merely the timer's doing. Nothing is assumed of
NetworkManager, of the clients or of the tunnel: a client may run forever, print
nothing, or ignore SIGTERM (SIGKILL, where it is allowed, it cannot ignore, and
`EnsureKilled` takes its effect as immediate). The service may quit, crash or be blocked on an
unfinished line for good; the liveness properties except these cases by name
(`Stuck`), and `KilledClientIsCollected` and ClientSlot those clients that the service
may not signal (`OutOfReach`).

In NetworkConfig the walk and the sending are one callback that runs on; that
`getifaddrs` fails is not assumed. In ReadLoop the caller's thread runs on; nothing
is assumed of the other end, and no signal or failure needs to come to its help.

## 4. Proofs

All theorems are proved down to the leaves with no assumption but those named in
the modules and here.

* **AnyconnectServiceProofs.** `TypeCorrect` first. In every environment:
  `ChildrenReported` and `NoFailureOnceStarted`, from the inductive invariant
  `EnvironmentInv`, which adds to the first that a started service is `connected`;
  that is what the second follows from.
  `UsersNeverRoot` for every user database: what a child becomes depends only on
  the user and on whether the service is still root, and a service that is not root
  has the identity of no root. `RootGroupsGivenUp` and `SignalsArrive` assume
  `OrdinaryUsers` (no user but root is in root's group): without it such a user is not
  switched to, and a notification leaves the service with that user's number and
  root's groups. A client has the identity of its user or, as long as the service is
  root, any (`SignalStep`).
  Under the assumption `AwaitExit`: `ClientsAccounted`, `CleanUpIsComplete`,
  `FeedbackOfOwnClient`, `FailuresOfTheAttempt`, from `SerialInv`. None of these is
  inductive: `anyconnect_watch_cb` closes whatever channel the private data name,
  which is the right one only because at most one client is watched and it is the
  attempt's (`childWatch` within `{priv.stdout_channel}` and `{attempt}`), and no
  failure may be left over while a client is watched. That a refused signal leaves a
  client unaccounted only where `LiveChildAccounted` names it is `WithinReachStep`: a
  watched client runs as root, as the service's own user, or as the user whom a
  notification would make the service, since no other user's connection comes between.
  `ServiceRefinesSlot` maps each step to a step of ClientSlot or a stutter.
* **NetworkConfigProofs.** `IPv4PairCorrect` and `IPv6Written` for every set of
  entries and length of list. The invariant says of the memory at each turn what
  the properties say of what is sent: address and mask are those of the last entry
  taken among those already visited, or unwritten while there is none. `IPv6PrefixCorrect` is about the counting of
  ones: byte by byte, the ones up to byte `i` of a netmask of length `l` are
  `Min({l, 8 * i})` of it (`OnesOfMaskByte`, `OnesOfByte`, `OnesAreTheLength`), with the
  steps of the recursive function unfolded by `OnesRecursion`. `ConfigTypeCorrect` is
  the type of every variable.
* **CredentialsProofs.** `ChildSetupIdentity` and `NotifiedIdentity`, both from
  `BecomeUser`, say what each of the two makes of any process for any user; the proofs
  about AnyconnectService cite them and never unfold the system calls.
* **EditorProofs.** `OneModule` and `FactoryStays`: what is loaded is exactly what
  is cached, which says in particular that a failed attempt leaves nothing behind.
  `GatewayIsListed`: while the dialog's list is not empty, an entry of it is shown.
  `EditorTypeCorrect` is the type.
* **FixPermsProofs.** `LinksAlwaysLead` and `SetUpIsStable`: the invariant says what
  the script knows at each command (past the test there is a `~/.cisco2`, past the
  making there is a directory unless that was refused, and a directory being given
  away has no link yet).
  `SeenStaysLinked` adds that whoever is passed over or finished is linked;
  `ScriptTypeCorrect` is the type.
* **ReadLoopProofs.** `ReadTypeCorrect`, `BytesAreKept`, `ExactIsAllOrError` and
  `ShortReadsGoOn` for every size of buffer and stream: during a call position,
  count, what is left and what was taken from the stream add up.
* **TextsProofs**, about the calls of TextCalls with inputs of any size. The loops of
  the utilities are folds, and what a fold gives for a sequence of any length is
  proved in two steps. FoldFacts has `FoldTrace`, for an arbitrary step `Op`: there are
  values the loop goes through, the first is the base, each is the step's from the one
  before, the last is the fold. TextsProofs takes an instance for each loop, and
  `Counting` proves what holds of all its values. That is induction without the
  library's induction theorems, whose parameter no prover can instantiate: `Counting` takes
  the set of the positions where the claim holds, and follows from `Smallest`, that a set of
  numbers has a least one (the library's `WFMin`, about a relation instead of a predicate).
  * `NumbersStayStrict`: `NumberIsWhatIsSpelled` finds the one place of a numeral in a text
    and its value, and shows that the loop, which stops growing at the range's end,
    decides as the value itself would; `TruthIsWhatIsSaid`, `LevelsAreRead`, `StartedInAnyOrder` and
    `DebuggedAlike` are the rest.
  * `PathsStayOrdered`: `StrcmpOrders` (the first difference decides) and, for the last
    components, that a component is taken for a number exactly if it is spelled
    in one way, so that different components never count as the same number.
  * `AddressesStayWhole`, from `AddressIsWhole` and `NetmaskIsPrefix`.
  * `OutputStaysWhole`: a buffer holds at every moment the beginning of all that was
    written (`Held`), which every way of appending keeps (`AppendStaysInside`,
    `WrittenIsHeld`); for the flags the loop of the code and that of the property go along
    together (`FlagsAreWhole`). `QuotesAgree`: `nm_strquote` and `nm_strquote_a` give the same.
  * `FeedbackStaysMessage` (`ConnectShowsMessage`, `DisconnectShowsMessage`, `HostsAreListed`):
    after any number of lines the message kept is that of the last line of its kind.
    The proof for lines of any length showed what the invariant says of messages of one and
    two characters, from which `chopN` takes two.
  * `PropertiesStayValid`, by cases over the types.
  * `WordsStaySplit`: `WordsAreWhole` says that the words are the longest stretches without a
    delimiter, all of them and in order. The invariant of the loop counts the places
    up to the one it has reached where a word begins (`BegunMoves`): that many words
    there are, the last one as far as it has been read.
  * `StartTimeStaysRight`: the last `)` of the line is the one behind the name, whatever the
    name holds (`NameIsPassed`); what follows splits into the fields, from `WordsAreWhole`
    (`FieldsAreWords`), and a field is the number it spells or 0 (`NumberOfField`).
  * `ListsStayClean`: `SortIsWhole` and `DictionaryIsListed` from an order that the model chooses
    (`StrvSort`: a permutation of the part to sort that ascends; `OrderExists` proves that
    every list has one, since a text more has a place among texts in order),
    `CleanupKeepsFirst` along the loop that keeps or drops, and `StripLeavesText`.
  * `EscapesStayReverted`: an escaped text is made of pieces, one for each byte, and where they
    end is a sum (`EscapedIsPieced`). `EscapeReverts` shows that the loop which reads goes
    from one end of a piece to the next, with the byte it stands for (`PieceIsRead`: three octal
    digits, two backslashes, or the byte). `EscapeLeavesText` shows that the result is UTF-8: of a
    pair of bytes both are let be or none is, and what is let be stays side by side.

Only model-checked is liveness (`KilledClientIsCollected`, `FailureArrives`, the
liveness of `ClientHasItsSlot`, `ConfigArrives`, `CallEnds`), which is beyond the proof
system. Every invariant and every other action property that a passing run checks is
also a theorem.

## 5. Not modelled

* Clients that outlive the service: once it quit or crashed, nothing of them is
  followed, since no property is about them.
* Reuse of PIDs and descriptors by the kernel: a timer or a `close` that comes late
  hits its own client or nothing.
* GTK widgets and signals, translations, the wording of logs and notifications.
* Of the vendored code: memory macros (`gs_free`, `nm_clear_g_source` and their like),
  casts and wrappers for old GLib versions, which have no behaviour beyond the call
  they wrap; `nm-test-utils.h`, which no program of the repository uses.
* Packaging, D-Bus policy and SELinux policy, which are static.

## 6. Plan

What is left would go further into the composition of parts that are modelled here
one by one:

1. SharedAgent under a caller that waits for the one connection to end before it
   begins another: which of the life cycle's invariants hold for both.
2. Step simulation of SharedAgent's two services by two ClientSlots.

An abstract session as NetworkManager sees it (stopped, starting, started, failure)
was planned and dropped: a late line saying `Connected` takes the service from
stopped to started (`service_late_line`), so that such a specification would have to
allow nearly every step and promise nothing.
