---------------------------- MODULE AtomicStore ----------------------------
(***************************************************************************)
(* What updater/state.py promises: one durable value that changes          *)
(* atomically, to a value somebody asked for.  An update that was          *)
(* acknowledged is never lost; one that was attempted and not acknowledged *)
(* may survive a power loss or not, but never in part.                     *)
(***************************************************************************)
CONSTANTS Values, Initial

VARIABLES value,     \* what a reader would find
          request,   \* what the running update may turn it into
          acked,     \* the last acknowledged value
          attempts   \* the values written since then

avars == <<value, request, acked, attempts>>

Init == value = Initial /\ request = {} /\ acked = Initial /\ attempts = {}

Ask == request' \in SUBSET Values /\ UNCHANGED <<value, acked, attempts>>

Update ==
  /\ value' \in request
  /\ attempts' = attempts \cup {value'}
  /\ request' \in SUBSET Values
  /\ UNCHANGED acked

Acknowledge ==
  /\ acked' = value /\ attempts' = {}
  /\ request' \in SUBSET Values
  /\ UNCHANGED value

PowerLoss ==
  /\ value' \in attempts \cup {acked}
  /\ request' = {}
  /\ UNCHANGED <<acked, attempts>>

Next == Ask \/ Update \/ Acknowledge \/ PowerLoss

Spec == Init /\ [][Next]_avars
=============================================================================
