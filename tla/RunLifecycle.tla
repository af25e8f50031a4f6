---------------------------- MODULE RunLifecycle ----------------------------
(***************************************************************************)
(* The promise persisted job rows make to the admin page that polls them,  *)
(* whatever goroutines, restarts and cascades stand behind a row:          *)
(*                                                                         *)
(*    none -> queued -> running -> success | partial | failed | canceled   *)
(*                 \-------------> failed | canceled                       *)
(*                                                                         *)
(* and a row may disappear with the library it belongs to.  A result never *)
(* changes once written, a run that never started never succeeds, and a    *)
(* cancel request is neither taken back nor made of a finished run.        *)
(***************************************************************************)
CONSTANT Runs

VARIABLES
    status,   \* what a row says ("none" before the INSERT, "gone" after a DELETE)
    cancel    \* cancel_requested

lifecycle == <<status, cancel>>

Live     == {"queued", "running"}
Terminal == {"success", "partial", "failed", "canceled"}

Init ==
    /\ status = [r \in Runs |-> "none"]
    /\ cancel = [r \in Runs |-> FALSE]

Accept(r) == status[r] = "none" /\ status'[r] = "queued" /\ cancel'[r] = cancel[r]

Start(r) == status[r] = "queued" /\ status'[r] = "running" /\ cancel'[r] = cancel[r]

RequestCancel(r) == status[r] \in Live /\ status'[r] = status[r] /\ cancel'[r] = TRUE

(* Success is reported of a run that was seen running. *)
End(r) ==
    /\ status[r] \in Live
    /\ status'[r] \in Terminal
    /\ status'[r] \in {"success", "partial"} => status[r] = "running"
    /\ cancel'[r] = cancel[r]

Remove(r) == status[r] # "none" /\ status'[r] = "gone" /\ cancel'[r] = cancel[r]

Rest(r) == status'[r] = status[r] /\ cancel'[r] = cancel[r]

(* A restart ends, and a cascade removes, several rows at once. *)
Next == \A r \in Runs :
    Accept(r) \/ Start(r) \/ RequestCancel(r) \/ End(r) \/ Remove(r) \/ Rest(r)

Spec == Init /\ [][Next]_lifecycle
=============================================================================
