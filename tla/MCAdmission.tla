---------------------------- MODULE MCAdmission ----------------------------
(* Instances of Admission for TLC.                                         *)
EXTENDS Admission, TLC

Q(parent, class, policy, prior, scope) ==
    [parent |-> parent, class |-> class, policy |-> policy, prior |-> prior,
     scope |-> scope]

Parents == Task \cup {NoTask}

(* Trees of any shape, without a policy.                                   *)
Shapes == {Q(p, "standard", FALSE, NoTask, "none") : p \in Parents}

(* One tree under the policy: a first run, repairs of the parent's task    *)
(* and full re-executions of it.                                           *)
Reworks ==
    {Q(NoTask, "premium", TRUE, NoTask, "none")}
    \cup {Q(p, "premium", TRUE, p, s) : p \in Task, s \in {"targeted", "full"}}
    \cup {Q(p, "standard", TRUE, p, "full") : p \in Task}

MCOffers == [shapes |-> Shapes, reworks |-> Reworks]
MCWorlds ==
    [alone : BOOLEAN, readopts : BOOLEAN, offer : {"shapes"}]
    \cup [alone : {FALSE}, readopts : {FALSE}, offer : {"reworks"}]

(* Of the states a task may be moved to, those the counts tell apart.      *)
MCMoved == [shapes  |-> {"running", "recovery_required", "failed"},
            reworks |-> {"running", "collecting", "succeeded"}]

Symmetry == Permutations(Task) \cup Permutations(Broker)
=============================================================================
