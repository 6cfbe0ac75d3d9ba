------------------------- MODULE OperationLifecycle -------------------------
(***************************************************************************)
(* The statuses of a ChatGPT bridge operation and the table of status      *)
(* changes that automation/orchestrator/operation_lifecycle.py validates.  *)
(* "cancelled", which state.py also lists as terminal, is in no entry of   *)
(* the table, so no operation can reach it and it is left out here.        *)
(***************************************************************************)

Active == {"queued", "claimed", "generating"}

Terminal == {"completed", "failed"}

Statuses == Active \cup Terminal

(* The rows of _ALLOWED_TRANSITIONS; a terminal status has no successor.   *)
AllowedTransitions ==
  [queued     |-> {"claimed", "failed"},
   claimed    |-> {"generating", "completed", "failed", "queued"},
   generating |-> {"generating", "completed", "failed", "queued"},
   completed  |-> {},
   failed     |-> {}]

(* validate_transition raises unless this holds.                           *)
CanMove(current, target) ==
  current \in Statuses /\ target \in AllowedTransitions[current]

=============================================================================
