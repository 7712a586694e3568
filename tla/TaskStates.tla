----------------------------- MODULE TaskStates -----------------------------
(***************************************************************************)
(* The lifecycle states of a delegated task and the transitions the store  *)
(* accepts between them: TaskState, TERMINAL_STATES and                    *)
(* ALLOWED_TRANSITIONS of models.py.                                       *)
(***************************************************************************)

TaskState ==
    {"created", "queued", "preparing", "running", "collecting", "cancelling",
     "recovery_required", "uncollected", "succeeded",
     "succeeded_with_warnings", "failed", "cancelled", "timed_out", "rejected"}

TerminalState ==
    {"succeeded", "succeeded_with_warnings", "failed", "cancelled",
     "timed_out", "rejected", "uncollected"}

SuccessState == {"succeeded", "succeeded_with_warnings"}

(* The states a profile's concurrency limit counts (store.active_count):   *)
(* neither "created" nor "recovery_required".                              *)
ActiveState == {"queued", "preparing", "running", "collecting", "cancelling"}

(* Fault: recovery may prepare the task again.                             *)
CanGoRedispatch(from, to) ==
    \/ from = "queued" /\ to \in {"preparing", "cancelled", "rejected"}
    \/ from = "created" /\ to \in {"queued", "rejected"}
    \/ from = "preparing" /\ to \in {"running", "recovery_required"}
    \/ from = "running" /\ to \in {"collecting", "recovery_required"}
    \/ from = "recovery_required" /\ to \in {"preparing", "running"}

(* ALLOWED_TRANSITIONS, as a relation.                                     *)
CanGo(from, to) ==
    \/ from = "created"    /\ to \in {"queued", "rejected"}
    \/ from = "queued"     /\ to \in {"preparing", "cancelled", "rejected"}
    \/ from = "preparing"  /\ to \in {"running", "failed", "cancelled",
                                      "cancelling", "recovery_required",
                                      "uncollected"}
    \/ from = "running"    /\ to \in {"collecting", "cancelling", "failed",
                                      "timed_out", "recovery_required",
                                      "uncollected"}
    \/ from = "cancelling" /\ to \in {"cancelled", "failed",
                                      "recovery_required"}
    \/ from = "collecting" /\ to \in SuccessState
                                     \cup {"failed", "recovery_required",
                                           "uncollected"}
    \/ from = "recovery_required"
                           /\ to \in {"cancelling", "failed", "running",
                                      "uncollected"}

=============================================================================
