------------------------------ MODULE Messages ------------------------------
(***************************************************************************)
(* The lines AnyConnect prints and what becomes of them: messages for the  *)
(* user in the service (anyconnect_stdout_cb and                           *)
(* start_anyconnect_binary_disconnect), hosts in the editor's dialog       *)
(* (populate_gateway_combo), and how much the service itself prints.       *)
(*                                                                         *)
(* A line has an indentation, a mark, a body and blanks behind it; of all  *)
(* but the mark only the lengths count.  What chopN leaves of a line is    *)
(* the line and how many characters are gone from its start.               *)
(***************************************************************************)
EXTENDS Texts

CONSTANTS
  Indents,  \* numbers of blanks before a mark
  Bodies    \* lengths of what follows the mark

ASSUME LinesAssumption == Indents \subseteq Nat /\ Bodies \subseteq Nat

(* The lengths of ">> state: Connected", ">> state: Disconnected",         *)
(* ">> warning: ", ">> error: ", of "> " before a host and of "VPN> ".     *)
MarkLength == [connected |-> 19, disconnected |-> 22, warning |-> 12, error |-> 10,
               host |-> 2, prompt |-> 5, other |-> 4, none |-> 0]
Marks == DOMAIN MarkLength \ {"none"}

Line == [indent : Indents, mark : Marks, body : Bodies, trail : 0..1]

Length(line)       == line.indent + MarkLength[line.mark] + line.body + line.trail
MessageStart(line) == line.indent + MarkLength[line.mark]

(* The empty text, of no line, and any that is empty like it. *)
NoText == [line |-> [indent |-> 0, mark |-> "none", body |-> 0, trail |-> 0], gone |-> 0]
Empty(text) == text.gone = Length(text.line)

(* Mutant: the last character to go stays. *)
ChopOneLess(line, n) == [line |-> line, gone |-> IF n <= Length(line) THEN n - 1 ELSE 0]

(* A line that is shorter than what is to go stays as it is. *)
ChopN(line, n) == [line |-> line, gone |-> IF n <= Length(line) THEN n ELSE 0]

-----------------------------------------------------------------------------
(* The messages of the service. *)

Silent == [connected |-> FALSE, last_warning |-> NoText, last_error |-> NoText]

HasPrefix(line, indent, mark) == line.indent = indent /\ line.mark = mark

(* A line of `connect', the blanks before it included. *)
ConnectLine(priv, line) ==
  IF HasPrefix(line, 2, "connected")    THEN [priv EXCEPT !.connected = TRUE]
  ELSE IF HasPrefix(line, 2, "warning") THEN [priv EXCEPT !.last_warning = ChopN(line, 14)]
  ELSE IF HasPrefix(line, 2, "error")   THEN [priv EXCEPT !.last_error = ChopN(line, 12)]
  ELSE priv

(* g_strstrip: without a body the mark loses its own last blank, too. *)
Stripped(line) ==
  [line EXCEPT !.indent = 0, !.trail = 0,
               !.mark = IF line.body = 0 /\ @ \in {"warning", "error"} THEN "other" ELSE @]

(* A line of `disconnect': the blanks are gone, and as much is chopped. *)
DisconnectLine(priv, raw) ==
  LET line == Stripped(raw) IN
  IF priv.connected /\ HasPrefix(line, 0, "disconnected") THEN [priv EXCEPT !.connected = FALSE]
  ELSE IF HasPrefix(line, 0, "warning") THEN [priv EXCEPT !.last_warning = ChopN(line, 14)]
  ELSE IF HasPrefix(line, 0, "error")   THEN [priv EXCEPT !.last_error = ChopN(line, 12)]
  ELSE priv

(* The error, if there is one, or else the warning. *)
Notification(priv) == IF ~Empty(priv.last_error) THEN priv.last_error ELSE priv.last_warning

(* What the user is shown after `connect' exited, and after `disconnect'. *)
ConnectFeedback(lines) ==
  LET priv == FoldLeft(ConnectLine, Silent, lines) IN
  IF priv.connected THEN NoText ELSE Notification(priv)

DisconnectFeedback(connected, lines) ==
  LET priv == FoldLeft(DisconnectLine, [Silent EXCEPT !.connected = connected], lines) IN
  IF priv.connected THEN Notification(priv) ELSE NoText

-----------------------------------------------------------------------------
(* The hosts of the dialog: of every line with a '>', from the seventh     *)
(* character on.                                                           *)
HasGtSign(line) == line.mark # "other"
AddGateway(store, line) == IF HasGtSign(line) THEN Append(store, ChopN(line, 6)) ELSE store
GatewaysOf(lines) == FoldLeft(AddGateway, <<>>, lines)

-----------------------------------------------------------------------------
(* How much the service prints: the environment's level or, without one,   *)
(* one that depends on debug.                                              *)
LOG_WARNING == 4
LOG_NOTICE  == 5
LOG_INFO    == 6
LOG_DEBUG   == 7

LogLevels(level_text, syslog_text, debug) ==
  LET level == AsciiStrToInt64(level_text, 0, LOG_DEBUG, -1).value IN
  [log_level  |-> IF level >= 0 THEN level ELSE IF debug THEN LOG_INFO ELSE LOG_NOTICE,
   anyconnect |-> CASE level >= LOG_DEBUG -> 10
                    [] level = LOG_INFO -> 5
                    [] level \in 1..LOG_INFO - 1 -> 2
                    [] level = 0 -> 1
                    [] level < 0 -> IF debug THEN 10 ELSE -1,
   log_syslog |-> AsciiStrToInt64(syslog_text, 0, 1, IF debug THEN 0 ELSE 1).value]

(* The options of main, one by one: help and an unknown one end the        *)
(* service there, with success and without.                                *)
Options == {"persist", "debug", "bus-name", "help", "unknown"}
ParseOption(state, option) ==
  IF state.exit # "no" THEN state
  ELSE CASE option = "help"     -> [state EXCEPT !.exit = "success"]
         [] option = "unknown"  -> [state EXCEPT !.exit = "failure"]
         [] option = "persist"  -> [state EXCEPT !.persist = TRUE]
         [] option = "debug"    -> [state EXCEPT !.debug = TRUE]
         [] option = "bus-name" -> [state EXCEPT !.bus_name = "given"]

(* The service that main starts: env_debug is whether ANYCONNECT_DEBUG is  *)
(* set, named whether the service gets its name on the bus.  One that is   *)
(* debugged does not end with NetworkManager.                              *)
StartedAs(args, env_debug, level_text, syslog_text, named) ==
  LET s == FoldLeft(ParseOption, [exit |-> "no", persist |-> FALSE, debug |-> env_debug,
                                  bus_name |-> "default"], args)
  IN [exit       |-> IF s.exit = "no" /\ ~named THEN "failure" ELSE s.exit,
      quits      |-> ~s.persist,
      bus_name   |-> s.bus_name,
      watch_peer |-> ~s.debug,
      levels     |-> LogLevels(level_text, syslog_text, s.debug)]

(* _LOGD writes at LOG_INFO, _LOGI at LOG_NOTICE and _LOGW at LOG_WARNING. *)
Logged(levels) == {l \in {LOG_INFO, LOG_NOTICE, LOG_WARNING} : levels.log_level >= l}
=============================================================================
