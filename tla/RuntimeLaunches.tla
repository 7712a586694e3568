--------------------------- MODULE RuntimeLaunches ---------------------------
(***************************************************************************)
(* What a broker may rely on of the runtimes it launches, without files,   *)
(* temporary files, supervisors that write them, callers that read them,   *)
(* or brokers that are lost: a runtime is started once and ends once, and  *)
(* the manifest of a durable one tells of that, in this order and never    *)
(* before it has happened, for as long as somebody is there to write it.   *)
(***************************************************************************)
CONSTANT Launch

VARIABLES
    leader,      \* the process or thread: "none", "alive", "ended"
    exit,        \* how it ended: "none", "ok", "bad"
    manifest,    \* "none", "launching", "running", "final"
    supervised   \* is a supervisor there to write the end into it

Init ==
    /\ leader = [l \in Launch |-> "none"]
    /\ exit = [l \in Launch |-> "none"]
    /\ manifest = [l \in Launch |-> "none"]
    /\ supervised = [l \in Launch |-> FALSE]

Ends(l) ==
    /\ leader[l] = "alive" /\ leader'[l] = "ended"
    /\ exit'[l] \in {"ok", "bad"}

Stays(l) == leader'[l] = leader[l] /\ exit'[l] = exit[l]

Spawns(l) ==
    /\ leader[l] = "none" /\ leader'[l] = "alive"
    /\ exit'[l] = exit[l]
    /\ \/ /\ manifest'[l] = "launching" /\ supervised'[l] = TRUE
       \/ /\ manifest'[l] = manifest[l] /\ supervised'[l] = supervised[l]

Proves(l) ==
    /\ leader[l] = "alive" /\ manifest[l] = "launching"
    /\ manifest'[l] = "running"
    /\ Stays(l) /\ supervised'[l] = supervised[l]

(* The end is written only once it is there, and of a proven launch only.  *)
Finalizes(l) ==
    /\ supervised[l] /\ supervised'[l] = FALSE
    /\ manifest[l] = "running" /\ manifest'[l] = "final"
    /\ Ends(l) \/ (leader[l] = "ended" /\ Stays(l))

(* A runtime may end, and a supervisor give up or be lost, at any time.    *)
Passes(l) ==
    /\ Ends(l) \/ Stays(l)
    /\ supervised'[l] = supervised[l] \/ supervised'[l] = FALSE
    /\ manifest'[l] = manifest[l]

(* Several launches may be touched at once: by the loss of a broker.       *)
Next == \A l \in Launch : Spawns(l) \/ Proves(l) \/ Finalizes(l) \/ Passes(l)

Spec == Init /\ [][Next]_<<leader, exit, manifest, supervised>>
=============================================================================
