--------------------------- MODULE IsolatedWriters ---------------------------
(***************************************************************************)
(* What the broker promises of isolated_worktree tasks, without leases,    *)
(* worktrees, launches, manifests, operations or crashes: a task takes a   *)
(* source that no other task is inside of, writes at most once while it is *)
(* inside, and leaves when nothing of it writes any more.                  *)
(***************************************************************************)
CONSTANTS
    Task,
    Source,    \* the repositories tasks work on
    NoSource   \* the task has not taken one

VARIABLES
    phase,    \* where a task is on its way through its source
    source    \* the source it has taken

Phase == {"outside", "holding", "writing", "stopped", "left"}

Inside(t) == phase[t] \in {"holding", "writing", "stopped"}

Init ==
    /\ phase = [t \in Task |-> "outside"]
    /\ source = [t \in Task |-> NoSource]

Goes(t, from, to) ==
    /\ phase[t] \in from
    /\ phase' = [phase EXCEPT ![t] = to]

Take(t, s) ==
    /\ \A u \in Task : Inside(u) => source[u] # s
    /\ Goes(t, {"outside"}, "holding")
    /\ source' = [source EXCEPT ![t] = s]

Write(t) == Goes(t, {"holding"}, "writing") /\ UNCHANGED source

(* A writer that is gone before it was known of never was "writing".       *)
Stop(t) == Goes(t, {"holding", "writing"}, "stopped") /\ UNCHANGED source

Leave(t) == Goes(t, {"holding", "stopped"}, "left") /\ UNCHANGED source

Next ==
    \E t \in Task :
        \/ \E s \in Source : Take(t, s)
        \/ Write(t) \/ Stop(t) \/ Leave(t)

Spec == Init /\ [][Next]_<<phase, source>>

=============================================================================
