---------------------------- MODULE RecoveryLease ----------------------------
(***************************************************************************)
(* Several broker processes on one home and the durable launches they      *)
(* adopt from each other: the identity a broker takes when it starts       *)
(* (load_broker_identity), the recovery lease it needs to adopt a launch,  *)
(* and what it does with a launch it has adopted.  BrokerLifecycle has one *)
(* broker at a time and cuts its operations at their durable effects; here *)
(* brokers overlap, and an operation is cut where another broker's step    *)
(* makes a difference.  Workspaces and the way a launch begins are left    *)
(* to BrokerLifecycle.                                                     *)
(***************************************************************************)
EXTENDS TaskStates, Naturals, FiniteSets

CONSTANTS
    Broker,   \* broker processes; each starts at most once, and names the
              \* uuid it would draw
    Launch    \* durable launches, with the tasks they belong to

VARIABLES
    \* the circumstances, any of them, the same throughout a behaviour
    alone,    \* no two brokers run load_broker_identity at once
    lapses,   \* a lease may reach its TTL before it is released
    \* the home directory and the store
    file,     \* broker_instance.json: an identity, or NoIdentity (torn)
    lease,    \* durable_recovery_leases: the row of a launch, or NoLease
    state,    \* tasks.state
    \* the operating system
    payload,  \* "running"; "final": ended and in the manifest; "lost": ended
              \* behind a dead supervisor, the manifest still says running
    exit,     \* exit status of an ended payload: "none", "ok", "bad"
    \* the broker processes
    phase,    \* a broker: "off", "read", "writing", "up", "gone"
    me,       \* a broker's identity
    handle,   \* what it holds of a launch: "none", "process", "adopted"
    op        \* its operation in progress

circumstances == <<alone, lapses>>
disk   == <<file, lease, state>>
world  == <<payload, exit>>
memory == <<phase, me, handle, op>>
vars   == <<circumstances, disk, world, memory>>

Identity   == [id : Broker, epoch : Nat \ {0}]
NoIdentity == [id |-> "none", epoch |-> 0]
Row        == [holder : Identity, live : BOOLEAN]
NoLease    == [holder |-> NoIdentity, live |-> FALSE]

(* how says under which handle the operation acts; to is the state it is   *)
(* about to record or has just recorded (at "lease": the state it read).   *)
Point == {"lease", "gather", "release", "kill", "unlease", "check", "write"}
How   == {"none", "process", "adopted", "group"}
Idle  == [at |-> "idle"]
Operation == [at : Point, launch : Launch, how : How, to : TaskState]

TypeOK ==
    /\ alone \in BOOLEAN /\ lapses \in BOOLEAN
    /\ file \in Identity \cup {NoIdentity}
    /\ lease \in [Launch -> Row \cup {NoLease}]
    /\ state \in [Launch -> TaskState]
    /\ payload \in [Launch -> {"running", "final", "lost"}]
    /\ exit \in [Launch -> {"none", "ok", "bad"}]
    /\ phase \in [Broker -> {"off", "read", "writing", "up", "gone"}]
    /\ me \in [Broker -> Identity \cup {NoIdentity}]
    /\ handle \in [Broker -> [Launch -> {"none", "process", "adopted"}]]
    /\ op \in [Broker -> Operation \cup {Idle}]

(* A home in use: the broker that has launched everything there is is up,  *)
(* unless it is among those that are gone for good.                        *)
Init ==
    /\ alone \in BOOLEAN /\ lapses \in BOOLEAN
    /\ \E first \in Broker : \E gone \in SUBSET Broker :
           LET here == {first} \ gone IN
           /\ file = [id |-> first, epoch |-> 1]
           /\ me = [b \in Broker |-> IF b \in here THEN file ELSE NoIdentity]
           /\ phase = [b \in Broker |-> IF b \in here THEN "up"
                                       ELSE IF b \in gone THEN "gone" ELSE "off"]
           /\ handle = [b \in Broker |-> [l \in Launch |->
                           IF b \in here THEN "process" ELSE "none"]]
           /\ op = [b \in Broker |-> Idle]
           /\ lease = [l \in Launch |-> NoLease]
           /\ state = [l \in Launch |-> "running"]
           /\ payload = [l \in Launch |-> "running"]
           /\ exit = [l \in Launch |-> "none"]

-----------------------------------------------------------------------------
(* Starting a broker: the identity file is read, truncated and written.    *)

Starting == {b \in Broker : phase[b] \in {"read", "writing"}}

(* Fault: the first epoch is 0, which no lease can hold.                   *)
NextIdentityFromZero(b) ==
    IF file = NoIdentity
    THEN [id |-> b, epoch |-> 0]
    ELSE [file EXCEPT !.epoch = @ + 1]

NextIdentity(b) ==
    IF file = NoIdentity
    THEN [id |-> b, epoch |-> 1]
    ELSE [file EXCEPT !.epoch = @ + 1]

ReadIdentity(b) ==
    /\ phase[b] = "off"
    /\ alone => Starting = {}
    /\ me' = [me EXCEPT ![b] = NextIdentity(b)]
    /\ phase' = [phase EXCEPT ![b] = "read"]
    /\ UNCHANGED <<circumstances, disk, world, handle, op>>

TruncateIdentity(b) ==
    /\ phase[b] = "read"
    /\ phase' = [phase EXCEPT ![b] = "writing"]
    /\ file' = NoIdentity
    /\ UNCHANGED <<circumstances, lease, state, world, me, handle, op>>

WriteIdentity(b) ==
    /\ phase[b] = "writing"
    /\ phase' = [phase EXCEPT ![b] = "up"]
    /\ file' = me[b]
    /\ UNCHANGED <<circumstances, lease, state, world, me, handle, op>>

-----------------------------------------------------------------------------
(* The steps an operation is made of.                                      *)

Ready(b) == phase[b] = "up" /\ op[b] = Idle
At(b, point) == phase[b] = "up" /\ op[b].at = point

Goes(b, l, at, how, to) ==
    op' = [op EXCEPT ![b] =
              [at |-> at, launch |-> l, how |-> how, to |-> to]]
Proceeds(b, at) == op' = [op EXCEPT ![b].at = at]
Ends(b) == op' = [op EXCEPT ![b] = Idle]

Drops(b, l) == handle' = [handle EXCEPT ![b][l] = "none"]

(* TaskStore.transition: the check and the write are two statements.       *)
Check(b) ==
    /\ At(b, "check")
    /\ IF CanGo(state[op[b].launch], op[b].to)
       THEN Proceeds(b, "write") ELSE Ends(b)
    /\ UNCHANGED <<circumstances, disk, world, phase, me, handle>>

Write(b) ==
    /\ At(b, "write")
    /\ state' = [state EXCEPT ![op[b].launch] = op[b].to]
    /\ CASE op[b].to = "collecting" -> Proceeds(b, "gather")
         [] op[b].to = "cancelling" -> Proceeds(b, "kill")
         [] OTHER -> Ends(b)
    /\ UNCHANGED <<circumstances, file, lease, world, phase, me, handle>>

-----------------------------------------------------------------------------
(* Reconciliation: proof, lease, adoption.                                 *)

Reconcilable(l) ==
    state[l] \in {"preparing", "running", "collecting", "cancelling",
                  "recovery_required"}

Adoptable(l) == payload[l] \in {"running", "final"}

Reconcile(b, l) ==
    /\ Ready(b) /\ Reconcilable(l) /\ handle[b][l] = "none"
    /\ IF Adoptable(l)
       THEN \* to remembers the state the record was read in
            Goes(b, l, "lease", "none", state[l])
       ELSE /\ state[l] # "recovery_required"
            /\ Goes(b, l, "check", "none", "recovery_required")
    /\ UNCHANGED <<circumstances, disk, world, phase, me, handle>>

(* Fault: the epoch is not compared.                                       *)
GrantedToId(b, l) ==
    \/ lease[l] = NoLease
    \/ ~lease[l].live
    \/ lease[l].holder.id = me[b].id

(* Fault: an expired row still excludes.                                   *)
GrantedUnlessRow(b, l) ==
    lease[l] = NoLease \/ lease[l].holder = me[b]

Granted(b, l) ==
    \/ lease[l] = NoLease
    \/ ~lease[l].live
    \/ lease[l].holder = me[b]

TryAcquire(b) ==
    /\ At(b, "lease")
    /\ LET l == op[b].launch  seen == op[b].to IN
       \/ /\ Granted(b, l)
          /\ lease' = [lease EXCEPT ![l] = [holder |-> me[b], live |-> TRUE]]
          /\ handle' = [handle EXCEPT ![b][l] = "adopted"]
          /\ IF seen \in {"recovery_required", "preparing"}
             THEN Goes(b, l, "check", "none", "running")
             ELSE Ends(b)
       \/ /\ ~Granted(b, l)
          /\ UNCHANGED <<lease, handle>>
          /\ IF seen = "recovery_required"
             THEN Ends(b)
             ELSE Goes(b, l, "check", "none", "recovery_required")
    /\ UNCHANGED <<circumstances, file, state, world, phase, me>>

-----------------------------------------------------------------------------
(* Collecting: under an adopted handle the handle goes before anything is  *)
(* known; under the launcher's own, only once the payload has ended.       *)

Collect(b, l) ==
    /\ Ready(b) /\ state[l] \notin TerminalState
    /\ handle[b][l] \in {"process", "adopted"}
    /\ handle[b][l] = "process" => payload[l] = "final"
    /\ Drops(b, l)
    /\ Goes(b, l, "check", handle[b][l], "collecting")
    /\ UNCHANGED <<circumstances, disk, world, phase, me>>

(* What the artifacts of an ended payload, and the gates, make of it.      *)
Outcome(l) ==
    IF payload[l] = "final" /\ exit[l] = "ok"
    THEN SuccessState \cup {"failed"} ELSE {"failed"}

Gather(b) ==
    /\ At(b, "gather")
    /\ LET l == op[b].launch IN
       \/ /\ payload[l] = "running"
          /\ Ends(b)
       \/ /\ payload[l] # "running"
          /\ \E to \in Outcome(l) :
                Goes(b, l, IF op[b].how = "adopted" THEN "release"
                                                    ELSE "check",
                     op[b].how, to)
    /\ UNCHANGED <<circumstances, disk, world, phase, me, handle>>

(* release_recovery_lease deletes the row of the task, whoever's it is.    *)
Release(b) ==
    /\ At(b, "release")
    /\ lease' = [lease EXCEPT ![op[b].launch] = NoLease]
    /\ Proceeds(b, "check")
    /\ UNCHANGED <<circumstances, file, state, world, phase, me, handle>>

-----------------------------------------------------------------------------
(* Stopping a payload: by the launcher's handle, by an adopted handle, or  *)
(* by the process group the row names.                                     *)

CancelHeld(b, l) ==
    /\ Ready(b) /\ state[l] \notin TerminalState
    /\ handle[b][l] # "none"
    /\ Goes(b, l, "check", handle[b][l], "cancelling")
    /\ UNCHANGED <<circumstances, disk, world, phase, me, handle>>

CancelUnheld(b, l) ==
    /\ Ready(b) /\ state[l] \notin TerminalState
    /\ handle[b][l] = "none"
    /\ Goes(b, l, IF state[l] = "cancelling" THEN "kill" ELSE "check",
            "group", "cancelling")
    /\ UNCHANGED <<circumstances, disk, world, phase, me, handle>>

(* timeout() knows of no adopted handle: it goes by the group.             *)
Timeout(b, l) ==
    /\ Ready(b) /\ state[l] \notin TerminalState
    /\ IF handle[b][l] = "process"
       THEN Drops(b, l) /\ Goes(b, l, "kill", "process", "timed_out")
       ELSE /\ Goes(b, l, "kill", "group", "timed_out")
            /\ UNCHANGED handle
    /\ UNCHANGED <<circumstances, disk, world, phase, me>>

Stopped(b) == IF op[b].to = "timed_out" THEN "timed_out" ELSE "cancelled"

Unstopped(b) ==
    IF op[b].to = "timed_out" \/ op[b].how = "group"
    THEN "recovery_required" ELSE "failed"

(* Fault: the signal is taken for its effect.                              *)
KillResultAssumed(l, how) == {<<payload[l], TRUE>>}

(* The payload as the kill leaves it, and whether the stop is confirmed: a *)
(* signalled payload may outlive the grace period; one that has ended is   *)
(* not signalled, and taken for stopped if the manifest or the group says  *)
(* so.  The launcher believes the manifest only, an adopter the identity.  *)
KillResult(l, how) ==
    IF payload[l] = "running"
    THEN {<<"final", TRUE>>, <<"lost", how # "process">>,
          <<"running", FALSE>>}
    ELSE {<<payload[l], payload[l] = "final" \/ how = "group">>}

Kill(b) ==
    /\ At(b, "kill")
    /\ LET l == op[b].launch  how == op[b].how IN
       \E r \in KillResult(l, how) :
          /\ payload' = [payload EXCEPT ![l] = r[1]]
          /\ exit' = [exit EXCEPT ![l] = IF r[1] = "running" THEN @
                                         ELSE IF @ = "none" THEN "bad" ELSE @]
          /\ Goes(b, l, IF how = "adopted" THEN "unlease" ELSE "check", how,
                  IF r[2] THEN Stopped(b) ELSE Unstopped(b))
          /\ IF how = "process" THEN Drops(b, l) ELSE UNCHANGED handle
    /\ UNCHANGED <<circumstances, disk, phase, me>>

Unlease(b) ==
    /\ At(b, "unlease")
    /\ lease' = [lease EXCEPT ![op[b].launch] = NoLease]
    /\ Drops(b, op[b].launch)
    /\ Proceeds(b, "check")
    /\ UNCHANGED <<circumstances, file, state, world, phase, me>>

-----------------------------------------------------------------------------
(* The end of a broker, of a lease and of a payload.                       *)

Gone(b) ==
    /\ phase' = [phase EXCEPT ![b] = "gone"]
    /\ handle' = [handle EXCEPT ![b] = [l \in Launch |-> "none"]]
    /\ me' = [me EXCEPT ![b] = NoIdentity]
    /\ op' = [op EXCEPT ![b] = Idle]
    /\ UNCHANGED <<circumstances, file, state, world>>

Close(b) ==
    /\ Ready(b)
    /\ lease' = [l \in Launch |->
                    IF handle[b][l] = "adopted" THEN NoLease ELSE lease[l]]
    /\ Gone(b)

Crash(b) ==
    /\ phase[b] \in {"read", "writing", "up"}
    /\ Gone(b)
    /\ UNCHANGED lease

LeaseExpires(l) ==
    /\ lapses
    /\ lease[l] # NoLease /\ lease[l].live
    /\ lease' = [lease EXCEPT ![l].live = FALSE]
    /\ UNCHANGED <<circumstances, file, state, world, memory>>

PayloadEnds(l) ==
    /\ payload[l] = "running"
    /\ \E end \in {"final", "lost"}, status \in {"ok", "bad"} :
          /\ payload' = [payload EXCEPT ![l] = end]
          /\ exit' = [exit EXCEPT ![l] = status]
    /\ UNCHANGED <<circumstances, disk, memory>>

Starts(b) == ReadIdentity(b) \/ TruncateIdentity(b) \/ WriteIdentity(b)

Continues(b) ==
    Check(b) \/ Write(b) \/ TryAcquire(b) \/ Gather(b) \/ Release(b)
    \/ Kill(b) \/ Unlease(b)

Calls(b, l) ==
    \/ Reconcile(b, l) \/ Collect(b, l) \/ CancelHeld(b, l)
    \/ CancelUnheld(b, l) \/ Timeout(b, l)

Next ==
    \/ \E b \in Broker : Starts(b) \/ Continues(b) \/ Close(b) \/ Crash(b)
    \/ \E b \in Broker, l \in Launch : Calls(b, l)
    \/ \E l \in Launch : LeaseExpires(l) \/ PayloadEnds(l)

Spec == Init /\ [][Next]_vars

(* A broker that is up goes on with its operation and a time to live runs  *)
(* out; a supervisor of adopted launches polls reconcile.                  *)
Fairness ==
    /\ \A b \in Broker : WF_vars(Starts(b)) /\ WF_vars(Continues(b))
    /\ \A b \in Broker, l \in Launch : SF_vars(Reconcile(b, l))
    /\ \A l \in Launch : WF_vars(LeaseExpires(l))

FairSpec == Spec /\ Fairness

-----------------------------------------------------------------------------
(* Properties.                                                             *)

Adopters(l) == {b \in Broker : handle[b][l] = "adopted"}

(* Brokers that start one after another and live at once never share an    *)
(* identity, whatever crash tears the file: a lease tells them apart.      *)
DistinctIdentity ==
    alone => \A b, c \in Broker :
        b # c /\ phase[b] = "up" /\ phase[c] = "up" => me[b] # me[c]

(* store.py:430, "one active reconciler per durable launch": no two        *)
(* brokers hold an adopted handle of one launch.  Needs brokers that start *)
(* one after another and leases that outlive their holders.                *)
OneReconciler ==
    alone /\ ~lapses => \A l \in Launch : \A b, c \in Adopters(l) : b = c

(* Whoever adopts, collects, cancels and times out at the same time, and   *)
(* whatever lease lapses under it: a task recorded as cancelled or timed   *)
(* out has no running payload, ...                                         *)
ClaimedStopIsStopped ==
    \A l \in Launch :
        state[l] \in {"cancelled", "timed_out"} => payload[l] # "running"

(* ... and one recorded as a success ended in the manifest with status 0.  *)
SuccessIsObserved ==
    \A l \in Launch : state[l] \in SuccessState
                        => payload[l] = "final" /\ exit[l] = "ok"

(* However brokers and leases overlap, a stop or a success on record was   *)
(* observed.                                                               *)
ClaimsAreTrue == ClaimedStopIsStopped /\ SuccessIsObserved

(* models.py:38 calls these states terminal: an outcome, once recorded, is *)
(* the outcome.                                                            *)
OutcomeStays ==
    [][\A l \in Launch : state[l] \in TerminalState
                          => state'[l] = state[l]]_vars

(* A launch nobody holds any more, its lease left behind by a lost broker  *)
(* or by an operation that raised, is held again after the lease's time,   *)
(* if some broker stays up, unless an operator moves the task on.          *)
Stranded(l) ==
    /\ state[l] \in {"running", "recovery_required"} /\ payload[l] # "lost"
    /\ \A b \in Broker : handle[b][l] = "none"

SomeoneStaysUp == <>[](\E b \in Broker : phase[b] = "up")

StrandedIsFound ==
    [](lapses) /\ SomeoneStaysUp
        => \A l \in Launch : Stranded(l) ~> ~Stranded(l)

=============================================================================
