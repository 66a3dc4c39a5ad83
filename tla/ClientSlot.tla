----------------------------- MODULE ClientSlot -----------------------------
(***************************************************************************)
(* What nm-anyconnect-service promises about AnyConnect clients: there is  *)
(* one place for a client.  A client that starts holds it, a disconnect    *)
(* releases it, and it is free for the next client when the one that had   *)
(* it is gone.  A released client does go, as long as the service serves.  *)
(* It does not serve when it ended, when it is blocked on its input, and   *)
(* when it has lost the right to signal its client.                        *)
(***************************************************************************)

VARIABLES
  slot,     \* "free", "held" by the client of a connection, or "released"
  service   \* "serving", or "stuck" when it ended or is held up

vars == <<slot, service>>

TypeOK == slot \in {"free", "held", "released"} /\ service \in {"serving", "stuck"}

Init == slot = "free" /\ service = "serving"

Start   == slot = "free" /\ slot' = "held" /\ UNCHANGED service
Release == slot = "held" /\ slot' = "released" /\ service' \in {service, "stuck"}
Gone    == slot # "free" /\ service = "serving" /\ slot' = "free" /\ UNCHANGED service
Pause   == service' \in {"serving", "stuck"} /\ UNCHANGED slot

Next == Start \/ Release \/ Gone \/ Pause

Spec == Init /\ [][Next]_vars

(* Only a released client is bound to go: one that holds the place may     *)
(* keep it for as long as the connection lasts.                            *)
ReleasedGoes == slot = "released" ~> slot = "free" \/ service = "stuck"

FairSpec == Spec /\ ReleasedGoes
=============================================================================
