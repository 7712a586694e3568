-------------------------- MODULE BrokerLifecycle --------------------------
(***************************************************************************)
(* The life of delegated tasks under one broker process at a time: every   *)
(* Broker operation of service.py that changes a task's state, cut at its  *)
(* durable effects, so that a crash may fall between any two of them, and  *)
(* the runtimes (an API thread, a supervised durable payload, a legacy     *)
(* process group) that go on by themselves.                                *)
(*                                                                         *)
(* A broker executes one operation at a time (the MCP server is single-    *)
(* threaded, a CLI command is one operation).  The operation in progress   *)
(* is the record op: the task it is about, the point it has reached, the   *)
(* state it means to record at its end (to), the state it records instead  *)
(* when a termination cannot be confirmed (orelse) and the way it stops    *)
(* the runtime (how).  A Python exception that leaves an operation before  *)
(* its end is a return to Idle.                                            *)
(***************************************************************************)
EXTENDS TaskStates, Naturals, FiniteSets

CONSTANTS
    Task,             \* task identifiers
    NoTask,           \* no task: the broker is idle
    Request,          \* the task requests clients make
    MaxConcurrency,   \* ProfilePolicy.max_concurrency
    MaxRestarts,      \* bound: how often the broker process goes away
    Completable,      \* runtimes clients call complete() on
    GatedCollect,     \* clients collect an adopted launch only through
                      \* `control --action collect`, which refuses while the
                      \* payload runs; FALSE: through `collect` as well
    RemovalFails,     \* may `git worktree remove` and rmtree leave the
                      \* directory behind
    ProcStartIdentity \* TRUE on Linux, where /proc proves process identity

(* The runtimes by what supervises them: nothing ("mock"), a thread of the *)
(* broker ("direct", the direct API), the durable supervisor ("durable":   *)
(* the OpenCode, Claude Code, Codex and Cursor adapters), or a process     *)
(* group of the broker's own ("cursor": the Cursor adapter with            *)
(* legacy_popen_launch).                                                   *)
Runtime == {"mock", "direct", "durable", "cursor"}

ASSUME RequestAssumption ==
    \A r \in Request : /\ r.runtime \in Runtime
                       /\ r.isolated \in BOOLEAN
ASSUME NoTaskAssumption == NoTask \notin Task
ASSUME BoundAssumption == MaxConcurrency \in Nat /\ MaxRestarts \in Nat
ASSUME CallerAssumption == /\ Completable \subseteq Runtime
                           /\ GatedCollect \in BOOLEAN
                           /\ RemovalFails \in BOOLEAN
                           /\ ProcStartIdentity \in BOOLEAN

VARIABLES
    \* the SQLite store and the artifact directories: survive every crash
    state,     \* tasks.state; "absent" before the task is inserted
    req,       \* the request columns of the task
    lease,     \* workspace_leases.status: "none", "active", "released"
    launch,    \* is there a runtime_launches row
    rlease,    \* durable_recovery_leases: "none" (or expired), "current"
               \* (of this broker's identity), "prior" (of an older epoch)
    result,    \* outcome recorded in result.json
    \* the file system and the operating system
    worktree,  \* does the task's worktree directory exist
    proc,      \* the runtime: "none", "alive", "lingering" (the leader has
               \* exited, helpers of its process group have not), "dead"
    exit,      \* how the leader ended: "none", "ok", "bad"
    manifest,  \* a durable launch's manifest: "none", "launching",
               \* "running", "final" (exited or cancelled)
    sup,       \* is the durable supervisor alive
    \* the broker process
    up,        \* does it run
    mem,       \* its handles: "none", "direct", "process", "adopted"
    op,        \* its operation in progress
    restarts   \* how often it went away (bounded by MaxRestarts)

store  == <<state, req, lease, launch, rlease, result>>
world  == <<worktree, proc, exit, manifest, sup>>
broker == <<up, mem, op, restarts>>
vars   == <<store, world, broker>>

NoRequest == [runtime |-> "none", isolated |-> FALSE, source |-> "none"]

Point == {"enqueue", "acquire", "worktree", "spawn", "await",
          "record", "gather", "persist", "kill", "release_tree",
          "release_row", "transit"}
Goal  == TaskState \cup {"none", "raise"}
How   == {"none", "direct", "process", "adopted", "pgid", "complete",
          "via_cancelling"}

Idle == [task |-> NoTask, at |-> "idle", to |-> "none", orelse |-> "none",
         how |-> "none"]

Operation == [task : Task, at : Point, to : Goal, orelse : Goal, how : How]

TypeOK ==
    /\ state \in [Task -> TaskState \cup {"absent"}]
    /\ req \in [Task -> Request \cup {NoRequest}]
    /\ lease \in [Task -> {"none", "active", "released"}]
    /\ launch \in [Task -> BOOLEAN]
    /\ rlease \in [Task -> {"none", "current", "prior"}]
    /\ result \in [Task -> {"none"} \cup SuccessState \cup {"failed"}]
    /\ worktree \in [Task -> BOOLEAN]
    /\ proc \in [Task -> {"none", "alive", "lingering", "dead"}]
    /\ exit \in [Task -> {"none", "ok", "bad"}]
    /\ manifest \in [Task -> {"none", "launching", "running", "final"}]
    /\ sup \in [Task -> BOOLEAN]
    /\ up \in BOOLEAN
    /\ mem \in [Task -> {"none", "direct", "process", "adopted"}]
    /\ op \in Operation \cup {Idle}
    /\ restarts \in 0..MaxRestarts

Init ==
    /\ state = [t \in Task |-> "absent"]
    /\ req = [t \in Task |-> NoRequest]
    /\ lease = [t \in Task |-> "none"]
    /\ launch = [t \in Task |-> FALSE]
    /\ rlease = [t \in Task |-> "none"]
    /\ result = [t \in Task |-> "none"]
    /\ worktree = [t \in Task |-> FALSE]
    /\ proc = [t \in Task |-> "none"]
    /\ exit = [t \in Task |-> "none"]
    /\ manifest = [t \in Task |-> "none"]
    /\ sup = [t \in Task |-> FALSE]
    /\ up = TRUE
    /\ mem = [t \in Task |-> "none"]
    /\ op = Idle
    /\ restarts = 0

-----------------------------------------------------------------------------
(* Vocabulary.                                                             *)

Free == up /\ op = Idle
At(p) == up /\ op.at = p

Begin(t, p, to, orelse, how) ==
    op' = [task |-> t, at |-> p, to |-> to, orelse |-> orelse, how |-> how]
Proceed(p, to) == Begin(op.task, p, to, op.orelse, op.how)
Goto(p) == Proceed(p, op.to)

(* store.transition() by one broker: an illegal target raises, nothing is  *)
(* written.                                                                *)
Move(t, to) == state' = [state EXCEPT ![t] = to]

(* _finalize_workspace, then the transition to a final state.              *)
Finalize(t, to) == Begin(t, "release_tree", to, "none", "none")

GroupAlive(t) == proc[t] \in {"alive", "lingering"}

(* _process_group_status: only rows with a valid pgid are ever written.    *)
GroupStatus(t) ==
    IF ~launch[t] THEN "no_launch" ELSE IF GroupAlive(t) THEN "alive" ELSE "dead"

(* inspect_durable_launch: RUNNING_IDENTITY_MATCHES.                       *)
VerifiedLive(t) ==
    manifest[t] = "running" /\ proc[t] = "alive" /\ ProcStartIdentity

Subprocess(t) == req[t].runtime \in {"durable", "cursor"}

(* collect() finds the in-memory launch finished (within its grace wait).  *)
HandleFinished(t) ==
    \/ req[t].runtime = "durable" /\ manifest[t] = "final"
    \/ req[t].runtime = "cursor" /\ proc[t] # "alive"

-----------------------------------------------------------------------------
(* create(): admission, INSERT, then the transition to queued.             *)

ActiveCount(r) ==
    Cardinality({t \in Task : req[t].runtime = r /\ state[t] \in ActiveState})

Create(t) ==
    /\ Free
    /\ state[t] = "absent"
    /\ \E r \in Request :
        /\ ActiveCount(r.runtime) < MaxConcurrency
        /\ req' = [req EXCEPT ![t] = r]
    /\ Move(t, "created")
    /\ Begin(t, "enqueue", "none", "none", "none")
    /\ UNCHANGED <<lease, launch, rlease, result, world, up, mem, restarts>>

Enqueue ==
    /\ At("enqueue")
    /\ Move(op.task, "queued")
    /\ op' = Idle
    /\ UNCHANGED <<req, lease, launch, rlease, result, world, up, mem,
                   restarts>>

-----------------------------------------------------------------------------
(* start().                                                                *)

(* A preflight check refuses the task (result schema, tool profile,        *)
(* capabilities, model profile, cost policy).                              *)
StartRejected(t) ==
    /\ Free
    /\ CanGo(state[t], "rejected")
    /\ Move(t, "rejected")
    /\ UNCHANGED <<req, lease, launch, rlease, result, world, broker>>

StartPrepare(t) ==
    /\ Free
    /\ CanGo(state[t], "preparing")
    /\ Move(t, "preparing")
    /\ Begin(t, IF req[t].isolated THEN "acquire" ELSE "spawn",
             "none", "none", "none")
    /\ UNCHANGED <<req, lease, launch, rlease, result, world, up, mem,
                   restarts>>

(* The partial unique index of workspace_leases: one active row per        *)
(* canonical source.                                                       *)
(* Fault: the index does not cover the source.                             *)
SourceUnindexed(s) == FALSE
SourceLeased(s) == \E u \in Task : lease[u] = "active" /\ req[u].source = s

AcquireLease ==
    /\ At("acquire")
    /\ ~SourceLeased(req[op.task].source)
    /\ lease' = [lease EXCEPT ![op.task] = "active"]
    /\ Goto("worktree")
    /\ UNCHANGED <<state, req, launch, rlease, result, world, up, mem,
                   restarts>>

(* WorkspaceLeaseConflict, or the workspace is not a git source: failed.   *)
LeaseRefused ==
    /\ At("acquire")
    /\ Proceed("transit", "failed")
    /\ UNCHANGED <<store, world, up, mem, restarts>>

(* capture_head() raises out of start(): the task stays in preparing.      *)
CaptureHeadRaises ==
    /\ At("acquire")
    /\ op' = Idle
    /\ UNCHANGED <<store, world, up, mem, restarts>>

CreateWorktree ==
    /\ At("worktree")
    /\ worktree' = [worktree EXCEPT ![op.task] = TRUE]
    /\ Goto("spawn")
    /\ UNCHANGED <<store, proc, exit, manifest, sup, up, mem, restarts>>

CreateWorktreeFails ==
    /\ At("worktree")
    /\ Proceed("release_row", "failed")
    /\ UNCHANGED <<store, world, up, mem, restarts>>

SpawnMock ==
    /\ At("spawn") /\ req[op.task].runtime = "mock"
    /\ Proceed("transit", "running")
    /\ UNCHANGED <<store, world, up, mem, restarts>>

SpawnDirect ==
    /\ At("spawn") /\ req[op.task].runtime = "direct"
    /\ ~req[op.task].isolated
    /\ proc' = [proc EXCEPT ![op.task] = "alive"]
    /\ mem' = [mem EXCEPT ![op.task] = "direct"]
    /\ Goto("record")
    /\ UNCHANGED <<store, worktree, exit, manifest, sup, up, restarts>>

SpawnCursor ==
    /\ At("spawn") /\ req[op.task].runtime = "cursor"
    /\ proc' = [proc EXCEPT ![op.task] = "alive"]
    /\ mem' = [mem EXCEPT ![op.task] = "process"]
    /\ Goto("record")
    /\ UNCHANGED <<store, worktree, exit, manifest, sup, up, restarts>>

(* DurableSubprocessRunner.launch(): manifest, supervisor, forked payload. *)
SpawnDurable ==
    /\ At("spawn") /\ req[op.task].runtime = "durable"
    /\ proc' = [proc EXCEPT ![op.task] = "alive"]
    /\ manifest' = [manifest EXCEPT ![op.task] = "launching"]
    /\ sup' = [sup EXCEPT ![op.task] = TRUE]
    /\ Goto("await")
    /\ UNCHANGED <<store, worktree, exit, up, mem, restarts>>

(* wait_for_durable_running() sees the launch proof.                       *)
LaunchProven ==
    /\ At("await")
    /\ manifest[op.task] \in {"running", "final"}
    /\ mem' = [mem EXCEPT ![op.task] = "process"]
    /\ Goto("record")
    /\ UNCHANGED <<store, world, up, restarts>>

(* The runtime does not start: a direct request fails the task, the        *)
(* exception of an adapter leaves it in preparing.  Either way the         *)
(* worktree and the lease are given up first.                              *)
SpawnRaises ==
    /\ At("spawn") /\ req[op.task].runtime # "mock"
    /\ Proceed("release_tree",
               IF req[op.task].runtime = "direct" THEN "failed" ELSE "raise")
    /\ UNCHANGED <<store, world, up, mem, restarts>>

(* wait_for_durable_running() gives up, after 10 seconds or when the       *)
(* supervisor is gone; nothing stops what was launched.                    *)
LaunchTimesOut ==
    /\ At("await")
    /\ manifest[op.task] = "launching"
    /\ Proceed("release_tree", "raise")
    /\ UNCHANGED <<store, world, up, mem, restarts>>

RecordLaunch ==
    /\ At("record")
    /\ launch' = [launch EXCEPT ![op.task] = TRUE]
    /\ Proceed("transit", "running")
    /\ UNCHANGED <<state, req, lease, rlease, result, world, up, mem,
                   restarts>>

-----------------------------------------------------------------------------
(* The common end of the operations: _finalize_workspace (the worktree,    *)
(* then the lease row; skipped without an active lease), then the          *)
(* transition.                                                             *)

(* Fault: the lease row is released before the worktree is removed.        *)
ReleaseRowFirst ==
    /\ At("release_tree")
    /\ IF lease[op.task] = "active"
       THEN /\ lease' = [lease EXCEPT ![op.task] = "released"]
            /\ UNCHANGED <<worktree, op>>
       ELSE /\ worktree' = [worktree EXCEPT ![op.task] = FALSE]
            /\ UNCHANGED lease
            /\ Goto("transit")
    /\ UNCHANGED <<state, req, launch, rlease, result, proc, exit, manifest,
                   sup, up, mem, restarts>>

ReleaseTree ==
    /\ At("release_tree")
    /\ IF lease[op.task] = "active"
       THEN /\ \/ worktree' = [worktree EXCEPT ![op.task] = FALSE]
               \/ RemovalFails /\ UNCHANGED worktree
            /\ Goto("release_row")
       ELSE /\ UNCHANGED worktree
            /\ Goto("transit")
    /\ UNCHANGED <<store, proc, exit, manifest, sup, up, mem, restarts>>

ReleaseRow ==
    /\ At("release_row")
    /\ lease' = [lease EXCEPT ![op.task] = "released"]
    /\ Goto("transit")
    /\ UNCHANGED <<state, req, launch, rlease, result, world, up, mem,
                   restarts>>

(* Fault: the target is not checked against ALLOWED_TRANSITIONS.           *)
TransitUnchecked ==
    /\ At("transit")
    /\ op.how # "via_cancelling"
    /\ Move(op.task, op.to)
    /\ op' = Idle
    /\ UNCHANGED <<req, lease, launch, rlease, result, world, up, mem,
                   restarts>>

Transit ==
    /\ At("transit")
    /\ op.how # "via_cancelling"
    /\ IF CanGo(state[op.task], op.to)
       THEN Move(op.task, op.to) ELSE UNCHANGED state
    /\ op' = Idle
    /\ UNCHANGED <<req, lease, launch, rlease, result, world, up, mem,
                   restarts>>

(* cancel() of a task with no runtime: cancelling unless already there,    *)
(* then cancelled.                                                         *)
TransitCancelling ==
    /\ At("transit")
    /\ op.how = "via_cancelling"
    /\ IF state[op.task] = "cancelling" \/ CanGo(state[op.task], "cancelling")
       THEN /\ Move(op.task, "cancelling")
            /\ Begin(op.task, "transit", op.to, op.orelse, "none")
       ELSE /\ UNCHANGED state
            /\ op' = Idle
    /\ UNCHANGED <<req, lease, launch, rlease, result, world, up, mem,
                   restarts>>

-----------------------------------------------------------------------------
(* complete() and collect().                                               *)

(* complete() asks nothing about the task's runtime.                       *)
Complete(t) ==
    /\ Free
    /\ req[t].runtime \in Completable
    /\ CanGo(state[t], "collecting")
    /\ Move(t, "collecting")
    /\ Begin(t, "persist", "none", "none", "complete")
    /\ UNCHANGED <<req, lease, launch, rlease, result, world, up, mem,
                   restarts>>

(* collect() with an in-memory handle; also what status(), reconcile() and *)
(* the completion-event pump do with a finished one.                       *)
CollectHandle(t) ==
    /\ Free
    /\ state[t] \notin TerminalState
    /\ \/ mem[t] = "direct"
       \/ mem[t] = "process" /\ HandleFinished(t)
    /\ mem' = [mem EXCEPT ![t] = "none"]
    /\ IF CanGo(state[t], "collecting")
       THEN Move(t, "collecting") /\ Begin(t, "gather", "none", "none", mem[t])
       ELSE UNCHANGED <<state, op>>
    /\ UNCHANGED <<req, lease, launch, rlease, result, world, up, restarts>>

(* _collect_adopted_durable(): the handle is popped before anything is     *)
(* known about the payload.                                                *)
CollectAdopted(t) ==
    /\ Free
    /\ state[t] \notin TerminalState
    /\ mem[t] = "adopted"
    /\ GatedCollect => manifest[t] = "final"
    /\ mem' = [mem EXCEPT ![t] = "none"]
    /\ IF CanGo(state[t], "collecting")
       THEN /\ Move(t, "collecting")
            /\ Begin(t, "gather", "none", "none", "adopted")
       ELSE UNCHANGED <<state, op>>
    /\ UNCHANGED <<req, lease, launch, rlease, result, world, up, restarts>>

(* The runtime's outcome is read: a direct request is joined, an adopted   *)
(* launch gives its recovery lease back.                                   *)
Gather ==
    /\ At("gather")
    /\ op.how = "direct" => proc[op.task] # "alive"
    /\ op.how = "adopted" => ~VerifiedLive(op.task)
    /\ rlease' = IF op.how = "adopted"
                 THEN [rlease EXCEPT ![op.task] = "none"] ELSE rlease
    /\ Goto("persist")
    /\ UNCHANGED <<state, req, lease, launch, result, world, up, mem,
                   restarts>>

(* adopted_collect() refuses a live payload, after the transition.         *)
GatherRefused ==
    /\ At("gather")
    /\ op.how = "adopted" /\ VerifiedLive(op.task)
    /\ op' = Idle
    /\ UNCHANGED <<store, world, up, mem, restarts>>

(* The candidate outcome of a finished runtime.                            *)
Candidate(t) ==
    IF op.how = "complete" THEN {"succeeded"}
    ELSE IF exit[t] = "ok" /\ (req[t].runtime = "durable"
                                 => manifest[t] = "final")
         THEN SuccessState
         ELSE {"failed"}

(* The verification and capability gates: a success may be downgraded, a   *)
(* failure is never rescued.                                               *)
(* Fault: passing verification rescues a failed runtime.                   *)
GatedRescues(c) == SuccessState \cup {"failed"}
Gated(c) == IF c \in SuccessState
            THEN {c, "succeeded_with_warnings", "failed"} ELSE {c}

Persist ==
    /\ At("persist")
    /\ \E c \in Candidate(op.task) : \E final \in Gated(c) :
        /\ result' = [result EXCEPT ![op.task] = c]
        /\ Proceed("release_tree", final)
    /\ UNCHANGED <<state, req, lease, launch, rlease, world, up, mem,
                   restarts>>

(* collect() of a mock task: a protocol error, recorded as a failure.      *)
CollectMock(t) ==
    /\ Free
    /\ req[t].runtime = "mock"
    /\ state[t] \notin TerminalState \cup {"absent"}
    /\ Finalize(t, "failed")
    /\ UNCHANGED <<store, world, up, mem, restarts>>

-----------------------------------------------------------------------------
(* reconcile(): what a broker without a handle makes of a task; also       *)
(* collect() of such a task.                                               *)

(* Fault: a broker lost in the middle of a collection is not looked for.   *)
ReconcilableBut(t) ==
    /\ Free
    /\ state[t] \in {"preparing", "running", "cancelling",
                     "recovery_required"}
    /\ mem[t] \notin {"direct", "process"}

Reconcilable(t) ==
    /\ Free
    /\ state[t] \in {"preparing", "running", "collecting", "cancelling",
                     "recovery_required"}
    /\ mem[t] \notin {"direct", "process"}

DurableRow(t) == req[t].runtime = "durable" /\ launch[t]

(* evaluate_durable_reconciliation() finds the launch adoptable.           *)
Adoptable(t) == VerifiedLive(t) \/ manifest[t] = "final"

RequireRecovery(t) ==
    /\ state[t] # "recovery_required"
    /\ Move(t, "recovery_required")
    /\ UNCHANGED <<req, lease, launch, rlease, result, world, broker>>

(* No proof, or another epoch's recovery lease has not expired.            *)
ReconcileRefused(t) ==
    /\ Reconcilable(t) /\ DurableRow(t) /\ mem[t] # "adopted"
    /\ ~Adoptable(t) \/ rlease[t] = "prior"
    /\ RequireRecovery(t)

ReconcileAdopts(t) ==
    /\ Reconcilable(t) /\ DurableRow(t) /\ mem[t] # "adopted"
    /\ Adoptable(t) /\ rlease[t] # "prior"
    /\ rlease' = [rlease EXCEPT ![t] = "current"]
    /\ mem' = [mem EXCEPT ![t] = "adopted"]
    /\ IF state[t] \in {"recovery_required", "preparing"}
       THEN Begin(t, "transit", "running", "none", "none")
       ELSE UNCHANGED op
    /\ UNCHANGED <<state, req, lease, launch, result, world, up, restarts>>

ReconcileDirect(t) ==
    /\ Reconcilable(t)
    /\ req[t].runtime = "direct"
    /\ Finalize(t, "failed")
    /\ UNCHANGED <<store, world, up, mem, restarts>>

(* Cursor, except mid-cancellation: only the leader's identity counts, and *)
(* where it cannot be compared a reused pid looks like a living leader.    *)
CursorRow(t) ==
    req[t].runtime = "cursor" /\ launch[t] /\ state[t] # "cancelling"

(* Fault: a task whose leader is gone is settled without a cleanup.        *)
ReconcileCursorKeeps(t) ==
    /\ Reconcilable(t) /\ CursorRow(t)
    /\ IF proc[t] # "alive"
       THEN /\ Move(t, "uncollected")
            /\ UNCHANGED <<req, lease, launch, rlease, result, world, broker>>
       ELSE RequireRecovery(t)

ReconcileCursor(t) ==
    /\ Reconcilable(t) /\ CursorRow(t)
    /\ \/ /\ proc[t] # "alive"
          /\ Finalize(t, "uncollected")
          /\ UNCHANGED <<store, world, up, mem, restarts>>
       \/ /\ proc[t] = "alive" \/ ~ProcStartIdentity
          /\ RequireRecovery(t)

(* The process-group path: a cancelled cursor task, and any subprocess     *)
(* task without a launch row.                                              *)
ReconcileByGroup(t) ==
    /\ Reconcilable(t) /\ Subprocess(t)
    /\ ~DurableRow(t) /\ ~CursorRow(t)
    /\ IF GroupStatus(t) = "alive"
       THEN RequireRecovery(t)
       ELSE /\ Finalize(t, IF state[t] = "cancelling"
                           THEN "cancelled" ELSE "failed")
            /\ UNCHANGED <<store, world, up, mem, restarts>>

-----------------------------------------------------------------------------
(* timeout() and cancel().                                                 *)

Pending(t) == Free /\ state[t] \notin TerminalState \cup {"absent"}

(* A handle of a launch this broker started: popped, then stopped.         *)
TimeoutHandle(t) ==
    /\ Pending(t)
    /\ mem[t] \in {"direct", "process"}
    /\ mem' = [mem EXCEPT ![t] = "none"]
    /\ Begin(t, "kill", "timed_out", "recovery_required", mem[t])
    /\ UNCHANGED <<store, world, up, restarts>>

(* Nothing that can be alive: finalize first, ask the state table last.    *)
TimeoutNothing(t) ==
    /\ Pending(t)
    /\ mem[t] \notin {"direct", "process"}
    /\ ~Subprocess(t) \/ GroupStatus(t) # "alive"
    /\ Finalize(t, "timed_out")
    /\ UNCHANGED <<store, world, up, mem, restarts>>

TimeoutByGroup(t) ==
    /\ Pending(t)
    /\ mem[t] \notin {"direct", "process"}
    /\ Subprocess(t) /\ GroupStatus(t) = "alive"
    /\ Begin(t, "kill", "timed_out", "recovery_required", "pgid")
    /\ UNCHANGED <<store, world, up, mem, restarts>>

CancelQueued(t) ==
    /\ Free
    /\ state[t] = "queued"
    /\ Finalize(t, "cancelled")
    /\ UNCHANGED <<store, world, up, mem, restarts>>

(* A direct or process handle is popped before its runtime is stopped, an  *)
(* adopted one only after.                                                 *)
CancelHandle(t) ==
    /\ Pending(t)
    /\ mem[t] # "none"
    /\ CanGo(state[t], "cancelling")
    /\ Move(t, "cancelling")
    /\ mem' = IF mem[t] = "adopted" THEN mem
              ELSE [mem EXCEPT ![t] = "none"]
    /\ Begin(t, "kill", "cancelled", "failed", mem[t])
    /\ UNCHANGED <<req, lease, launch, rlease, result, world, up, restarts>>

(* Mock tasks, and subprocess tasks without a launch row.                  *)
CancelNothing(t) ==
    /\ Pending(t)
    /\ state[t] # "queued"
    /\ mem[t] = "none"
    /\ req[t].runtime = "mock" \/ (Subprocess(t) /\ ~launch[t])
    /\ Begin(t, "release_tree", "cancelled", "none", "via_cancelling")
    /\ UNCHANGED <<store, world, up, mem, restarts>>

(* A direct request whose thread is not this broker's, or a subprocess     *)
(* group known only by its row: cancelling is recorded first.              *)
CancelWithoutHandle(t) ==
    /\ Pending(t)
    /\ mem[t] = "none"
    /\ req[t].runtime = "direct" \/ (Subprocess(t) /\ launch[t])
    /\ state[t] = "cancelling" \/ CanGo(state[t], "cancelling")
    /\ Move(t, "cancelling")
    /\ IF Subprocess(t) /\ GroupAlive(t)
       THEN Begin(t, "kill", "cancelled", "recovery_required", "pgid")
       ELSE Finalize(t, "cancelled")
    /\ UNCHANGED <<req, lease, launch, rlease, result, world, up, mem,
                   restarts>>

(* What stopping the runtime came to.  A confirmed end finalizes the       *)
(* workspace; an unconfirmed one leaves it alone.                          *)
Confirmed   == Goto("release_tree")
(* Fault: an unconfirmed end finalizes the workspace as well.              *)
UnconfirmedFinalizes == Proceed("release_tree", op.orelse)
Unconfirmed == Proceed("transit", op.orelse)

(* The runtime ends (a payload may still exit by itself with 0), leaving   *)
(* the rest of its group dead or not.                                      *)
Ends(t, after) ==
    IF proc[t] = "alive"
    THEN /\ \E p \in after : proc' = [proc EXCEPT ![t] = p]
         /\ \E e \in {"ok", "bad"} : exit' = [exit EXCEPT ![t] = e]
    ELSE UNCHANGED <<proc, exit>>

(* runtime.cancel(): the abort is cooperative; the join may give up.       *)
KillDirect ==
    /\ At("kill") /\ op.how = "direct"
    /\ \/ Ends(op.task, {"dead"}) /\ Confirmed
       \/ proc[op.task] = "alive" /\ UNCHANGED <<proc, exit>> /\ Unconfirmed
    /\ UNCHANGED <<store, worktree, manifest, sup, up, mem, restarts>>

(* cancel_process_group() and _cancel_by_pgid(): confirmed only when the   *)
(* whole group is gone.                                                    *)
(* Fault: a group is taken for dead once the signal is sent.               *)
KillGroupUnobserved ==
    /\ At("kill")
    /\ op.how = "pgid" \/ (op.how = "process" /\ req[op.task].runtime = "cursor")
    /\ Confirmed
    /\ UNCHANGED <<store, world, up, mem, restarts>>

KillGroup ==
    /\ At("kill")
    /\ op.how = "pgid" \/ (op.how = "process" /\ req[op.task].runtime = "cursor")
    /\ \/ /\ proc' = [proc EXCEPT ![op.task] = "dead"]
          /\ exit' = [exit EXCEPT ![op.task] = IF @ = "none" THEN "bad" ELSE @]
          /\ Confirmed
       \/ /\ GroupAlive(op.task)
          /\ UNCHANGED <<proc, exit>>
          /\ Unconfirmed
    /\ UNCHANGED <<store, worktree, manifest, sup, up, mem, restarts>>

(* DurableSubprocessRunner.cancel() with the launching broker's handle:    *)
(* confirmed when the supervisor wrote a final manifest.  A leader that is *)
(* gone or unproven is not waited for; a supervisor that does not answer   *)
(* in time is killed.                                                      *)
KillDurable ==
    /\ At("kill") /\ op.how = "process" /\ req[op.task].runtime = "durable"
    /\ \/ /\ manifest[op.task] = "final"
          /\ Confirmed
          /\ UNCHANGED <<proc, exit, manifest, sup>>
       \/ /\ manifest[op.task] # "final" /\ ~VerifiedLive(op.task)
          /\ Unconfirmed
          /\ UNCHANGED <<proc, exit, manifest, sup>>
       \/ /\ VerifiedLive(op.task) /\ sup[op.task]
          /\ Ends(op.task, {"dead", "lingering"})
          /\ manifest' = [manifest EXCEPT ![op.task] = "final"]
          /\ sup' = [sup EXCEPT ![op.task] = FALSE]
          /\ Confirmed
       \/ /\ VerifiedLive(op.task)
          /\ Ends(op.task, {"dead", "lingering"}) \/ UNCHANGED <<proc, exit>>
          /\ sup' = [sup EXCEPT ![op.task] = FALSE]
          /\ UNCHANGED manifest
          /\ Unconfirmed
    /\ UNCHANGED <<store, worktree, up, mem, restarts>>

(* adopted_cancel(): confirmed when the leader no longer verifies.  The    *)
(* handle and the recovery lease are dropped either way.                   *)
KillAdopted ==
    /\ At("kill") /\ op.how = "adopted"
    /\ \/ /\ manifest[op.task] = "final"
          /\ Confirmed
          /\ UNCHANGED <<proc, exit>>
       \/ /\ manifest[op.task] # "final" /\ ~VerifiedLive(op.task)
          /\ Unconfirmed
          /\ UNCHANGED <<proc, exit>>
       \/ /\ VerifiedLive(op.task)
          /\ Ends(op.task, {"dead", "lingering"})
          /\ Confirmed
       \/ /\ VerifiedLive(op.task)
          /\ UNCHANGED <<proc, exit>>
          /\ Unconfirmed
    /\ mem' = [mem EXCEPT ![op.task] = "none"]
    /\ rlease' = [rlease EXCEPT ![op.task] = "none"]
    /\ UNCHANGED <<state, req, lease, launch, result, worktree, manifest,
                   sup, up, restarts>>

-----------------------------------------------------------------------------
(* What happens outside the broker.                                        *)

(* The supervised child commits its identity before it executes.           *)
CommitProof(t) ==
    /\ manifest[t] = "launching" /\ proc[t] = "alive"
    /\ manifest' = [manifest EXCEPT ![t] = "running"]
    /\ UNCHANGED <<store, worktree, proc, exit, sup, broker>>

RuntimeEnds(t) ==
    /\ proc[t] = "alive"
    /\ Ends(t, IF req[t].runtime = "direct" THEN {"dead"}
               ELSE {"dead", "lingering"})
    /\ UNCHANGED <<store, worktree, manifest, sup, broker>>

HelpersEnd(t) ==
    /\ proc[t] = "lingering"
    /\ proc' = [proc EXCEPT ![t] = "dead"]
    /\ UNCHANGED <<store, worktree, exit, manifest, sup, broker>>

(* The supervisor records the exit, unless the launch proof never came.    *)
SupervisorFinalizes(t) ==
    /\ sup[t] /\ proc[t] # "alive" /\ manifest[t] = "running"
    /\ manifest' = [manifest EXCEPT ![t] = "final"]
    /\ sup' = [sup EXCEPT ![t] = FALSE]
    /\ UNCHANGED <<store, worktree, proc, exit, broker>>

(* It is lost, or returns without having written.                          *)
SupervisorGone(t) ==
    /\ sup[t]
    /\ sup' = [sup EXCEPT ![t] = FALSE]
    /\ UNCHANGED <<store, worktree, proc, exit, manifest, broker>>

RecoveryLeaseExpires(t) ==
    /\ rlease[t] = "prior"
    /\ rlease' = [rlease EXCEPT ![t] = "none"]
    /\ UNCHANGED <<state, req, lease, launch, result, world, broker>>

(* A broker process that is gone took its request threads with it.         *)
BrokerGone ==
    /\ restarts < MaxRestarts
    /\ restarts' = restarts + 1
    /\ up' = FALSE
    /\ op' = Idle
    /\ mem' = [t \in Task |-> "none"]
    /\ proc' = [t \in Task |->
                  IF req[t].runtime = "direct" /\ proc[t] = "alive"
                  THEN "dead" ELSE proc[t]]
    /\ exit' = [t \in Task |->
                  IF req[t].runtime = "direct" /\ proc[t] = "alive"
                  THEN "bad" ELSE exit[t]]

(* A crash at any point; supervisors share the broker's process group and  *)
(* may or may not survive what killed it.                                  *)
Crash ==
    /\ up
    /\ BrokerGone
    /\ sup' \in {sup, [t \in Task |-> FALSE]}
    /\ rlease' = [t \in Task |->
                    IF rlease[t] = "current" THEN "prior" ELSE rlease[t]]
    /\ UNCHANGED <<state, req, lease, launch, result, worktree, manifest>>

(* close(): the recovery leases of adopted launches are given back.        *)
Close ==
    /\ Free
    /\ BrokerGone
    /\ rlease' = [t \in Task |->
                    IF mem[t] = "adopted" THEN "none"
                    ELSE IF rlease[t] = "current" THEN "prior" ELSE rlease[t]]
    /\ UNCHANGED <<state, req, lease, launch, result, worktree, manifest, sup>>

Restart ==
    /\ ~up
    /\ up' = TRUE
    /\ UNCHANGED <<store, world, mem, op, restarts>>

-----------------------------------------------------------------------------

Client(t) ==
    \/ Create(t) \/ StartRejected(t) \/ StartPrepare(t) \/ Complete(t)
    \/ CollectHandle(t) \/ CollectAdopted(t) \/ CollectMock(t)
    \/ TimeoutHandle(t) \/ TimeoutNothing(t) \/ TimeoutByGroup(t)
    \/ CancelQueued(t) \/ CancelHandle(t) \/ CancelNothing(t)
    \/ CancelWithoutHandle(t)

Reconcile(t) ==
    \/ ReconcileRefused(t) \/ ReconcileAdopts(t) \/ ReconcileDirect(t)
    \/ ReconcileCursor(t) \/ ReconcileByGroup(t)

Continue ==
    \/ Enqueue \/ AcquireLease \/ LeaseRefused \/ CaptureHeadRaises
    \/ CreateWorktree \/ CreateWorktreeFails \/ SpawnMock \/ SpawnDirect
    \/ SpawnCursor \/ SpawnDurable \/ LaunchProven \/ SpawnRaises
    \/ LaunchTimesOut \/ RecordLaunch \/ Gather \/ GatherRefused \/ Persist
    \/ KillDirect \/ KillGroup \/ KillDurable \/ KillAdopted
    \/ ReleaseTree \/ ReleaseRow \/ Transit \/ TransitCancelling

Outside(t) ==
    \/ CommitProof(t) \/ RuntimeEnds(t) \/ HelpersEnd(t)
    \/ SupervisorFinalizes(t) \/ SupervisorGone(t)
    \/ RecoveryLeaseExpires(t)

Next ==
    \/ \E t \in Task : Client(t) \/ Reconcile(t) \/ Outside(t)
    \/ Continue \/ Crash \/ Close \/ Restart

Spec == Init /\ [][Next]_vars

-----------------------------------------------------------------------------
(* Safety.                                                                 *)

(* While the leader of a recorded launch of an isolated_worktree task is   *)
(* alive, its worktree exists and its lease is active: no collect, cancel, *)
(* timeout or reconcile, in any order and with any crashes between, takes  *)
(* the directory away from a process that may be writing to it.            *)
LiveWriterKeepsWorkspace ==
    \A t \in Task :
        req[t].isolated /\ launch[t] /\ proc[t] = "alive"
            => worktree[t] /\ lease[t] = "active"

(* "One active writer per source": two recorded launches of isolated tasks *)
(* on one source are never alive together.                                 *)
OneWriterPerSource ==
    \A t, u \in Task :
        /\ t # u
        /\ req[t].isolated /\ launch[t] /\ proc[t] = "alive"
        /\ req[u].isolated /\ launch[u] /\ proc[u] = "alive"
        => req[t].source # req[u].source

(* A worktree on disk always has an active lease row, so that a broker     *)
(* that restarts in the middle of an allocation or of a release still      *)
(* knows of every directory it has to remove.                              *)
NoOrphanWorktree == \A t \in Task : worktree[t] => lease[t] = "active"

(* A recorded success is backed by a persisted successful result and,      *)
(* unless the client supplied it through complete(), by a runtime that     *)
(* ended with exit status 0: recovery never fabricates a success.          *)
SuccessIsObserved ==
    \A t \in Task :
        state[t] \in SuccessState =>
            /\ result[t] \in SuccessState
            /\ req[t].runtime \notin Completable
                 => exit[t] = "ok" /\ proc[t] # "alive"

(* A subprocess task recorded as cancelled or timed out has no living      *)
(* leader, whoever held its handle when it was stopped.                    *)
ClaimedStopIsStopped ==
    \A t \in Task :
        state[t] \in {"cancelled", "timed_out"} /\ Subprocess(t) /\ launch[t]
            => proc[t] # "alive"

(* A terminal task that still blocks its source is a failed one (its       *)
(* termination could not be confirmed): every other end releases the lease *)
(* before it is recorded.                                                  *)
SettledTaskFreesSource ==
    \A t \in Task :
        state[t] \in TerminalState \ {"failed"} => lease[t] # "active"

-----------------------------------------------------------------------------
(* The life of a task as IsolatedWriters sees it: its lease says whether   *)
(* it is inside its source, its recorded launch whether it writes there.   *)

Writer(t) == req[t].isolated /\ launch[t] /\ proc[t] = "alive"

Source == {r.source : r \in Request}

PhaseOf(t) ==
    CASE Writer(t)                            -> "writing"
      [] ~Writer(t) /\ lease[t] = "none"      -> "outside"
      [] ~Writer(t) /\ lease[t] = "released"  -> "left"
      [] ~Writer(t) /\ lease[t] = "active"    -> IF launch[t] THEN "stopped"
                                                             ELSE "holding"

SourceOf(t) == IF lease[t] = "none" THEN "none" ELSE req[t].source

Isolation == INSTANCE IsolatedWriters
    WITH phase <- [t \in Task |-> PhaseOf(t)],
         source <- [t \in Task |-> SourceOf(t)],
         NoSource <- "none"

(* Every operation, cut by a broker loss anywhere and recovered, moves a   *)
(* task through its source as IsolatedWriters says: one at a time, a       *)
(* single launch, and never out while it writes.                           *)
ImplementsIsolation == Isolation!Spec

LeaderOf(t) == IF proc[t] \in {"none", "alive"} THEN proc[t] ELSE "ended"

Launches == INSTANCE RuntimeLaunches
    WITH Launch <- Task, leader <- [t \in Task |-> LeaderOf(t)],
         supervised <- sup

(* Recovery observes, it never redispatches: the runtime of a task is      *)
(* started once, whatever operation is cut and taken up again, and its     *)
(* manifest goes with it from state to state as RuntimeLaunches says.      *)
ImplementsLaunches == Launches!Spec

-----------------------------------------------------------------------------
(* The inductive invariant behind LiveWriterKeepsWorkspace and             *)
(* OneWriterPerSource: what each point of an operation may rely on, about  *)
(* a task that other operations and broker losses have had their way with. *)

Unlaunched(t) ==
    /\ ~launch[t] /\ mem[t] = "none"
    /\ proc[t] = "none" /\ manifest[t] = "none"

Unstarted == {"absent", "created", "queued"}

(* Nothing of a task exists before start() has prepared it.                *)
UnstartedIsFresh ==
    /\ \A t \in Task :
          state[t] \in Unstarted
              => Unlaunched(t) /\ lease[t] = "none" /\ ~worktree[t]
    /\ op.at = "enqueue" => state[op.task] = "created"
    /\ op.at \in {"acquire", "worktree", "spawn", "await", "record"}
          => state[op.task] = "preparing"
    /\ op.at \in {"kill", "release_row"} => state[op.task] \notin Unstarted

(* start() allocates before it launches, and nothing can take the          *)
(* allocation away before the launch is recorded.                          *)
AllocatedBeforeLaunch ==
    /\ op.at = "acquire" =>
          Unlaunched(op.task) /\ lease[op.task] = "none" /\ ~worktree[op.task]
    /\ op.at = "worktree" =>
          Unlaunched(op.task) /\ lease[op.task] = "active" /\ ~worktree[op.task]
    /\ op.at = "spawn" => Unlaunched(op.task)
    /\ op.at \in {"spawn", "await", "record"} =>
          /\ ~launch[op.task]
          /\ req[op.task].isolated =>
                 worktree[op.task] /\ lease[op.task] = "active"
    /\ op.at = "await" => req[op.task].runtime = "durable"
    /\ op.at = "record" /\ req[op.task].isolated => Subprocess(op.task)

(* Only subprocesses are launched in an isolated worktree.                 *)
LaunchedIsSubprocess ==
    \A t \in Task : launch[t] /\ req[t].isolated => Subprocess(t)

(* A final manifest, and an adopted one that is not final, are evidence.   *)
ManifestIsEvidence ==
    /\ \A t \in Task : manifest[t] = "final" => proc[t] # "alive"
    /\ \A t \in Task :
          mem[t] = "adopted" \/ (op.task = t /\ op.at = "gather"
                                    /\ op.how = "adopted")
            => \/ manifest[t] = "final"
               \/ manifest[t] = "running" /\ ProcStartIdentity

(* A collection persists only the outcome of a runtime that has ended,     *)
(* unless complete() supplies it.                                          *)
GatheredHasEnded ==
    /\ op.at = "gather" =>
          /\ op.how \in {"direct", "process", "adopted"}
          /\ op.how = "process" => proc[op.task] # "alive"
    /\ op.at = "persist" =>
          IF op.how = "complete" THEN req[op.task].runtime \in Completable
                                 ELSE proc[op.task] # "alive"

(* A release is under way only where there is no recorded living writer.   *)
ReleasedHasEnded ==
    op.at \in {"release_tree", "release_row"} => ~Writer(op.task)

(* The partial unique index.                                               *)
OneLeasePerSource ==
    \A t, u \in Task :
        t # u /\ lease[t] = "active" /\ lease[u] = "active"
            => req[t].source # req[u].source

WriterInv ==
    /\ UnstartedIsFresh
    /\ AllocatedBeforeLaunch
    /\ LaunchedIsSubprocess
    /\ ManifestIsEvidence
    /\ GatheredHasEnded
    /\ ReleasedHasEnded
    /\ OneLeasePerSource
    /\ LiveWriterKeepsWorkspace

(* The inductive invariant behind the other safety properties: what the    *)
(* operation in progress has made sure of when it records its outcome.     *)

Ending == {"release_tree", "release_row", "transit"}

(* Only the end of an operation carries a final state, and a stop that     *)
(* could not be confirmed is recorded as failed or left to recovery.       *)
OutcomeIsLast ==
    /\ op.at \in {"gather", "persist"} => state[op.task] = "collecting"
    /\ op.to \in SuccessState => op.at \in Ending
    /\ op.to \in TerminalState /\ op.at # "kill" => op.at \in Ending
    /\ op.at = "kill" => op.orelse \in {"failed", "recovery_required"}

SuccessBacked(t) ==
    /\ result[t] \in SuccessState
    /\ req[t].runtime \notin Completable => exit[t] = "ok" /\ proc[t] # "alive"

StopBacked(t) == Subprocess(t) /\ launch[t] => proc[t] # "alive"

OutcomeIsBacked ==
    /\ op.to \in SuccessState => SuccessBacked(op.task)
    /\ op.at \in Ending /\ op.to \in {"cancelled", "timed_out"}
          => StopBacked(op.task)
    /\ op.at = "transit" /\ op.to \in TerminalState \ {"failed"}
          => lease[op.task] # "active"

(* The directory goes before its row.                                      *)
TreeBeforeRow ==
    /\ ~RemovalFails /\ op.at = "release_row" => ~worktree[op.task]
    /\ ~RemovalFails => NoOrphanWorktree

OutcomeInv ==
    /\ OutcomeIsLast
    /\ OutcomeIsBacked
    /\ TreeBeforeRow
    /\ SuccessIsObserved
    /\ ClaimedStopIsStopped
    /\ SettledTaskFreesSource

-----------------------------------------------------------------------------
(* Liveness.  The broker finishes the operation it is in and is restarted  *)
(* when it goes away; runtimes end; the parent keeps collecting and        *)
(* reconciling (strongly fair, because other operations keep the broker    *)
(* busy now and then).  Cancellations, timeouts and crashes are never      *)
(* assumed.                                                                *)
Fairness ==
    /\ WF_vars(Restart) /\ WF_vars(Continue)
    /\ \A t \in Task :
        /\ WF_vars(CommitProof(t)) /\ WF_vars(RuntimeEnds(t))
        /\ WF_vars(HelpersEnd(t))
        /\ WF_vars(SupervisorFinalizes(t)) /\ WF_vars(RecoveryLeaseExpires(t))
        /\ SF_vars(Reconcile(t)) /\ SF_vars(CollectMock(t))
        /\ SF_vars(CollectHandle(t)) /\ SF_vars(CollectAdopted(t))

FairSpec == Spec /\ Fairness

Started(t) == state[t] \in {"preparing", "running", "collecting",
                            "cancelling", "recovery_required"}

(* Every started task that is not durable reaches a terminal state,        *)
(* wherever broker losses cut its operations.  (A durable one may stay in  *)
(* collecting: CollectingIsReconciled.)                                    *)
StartedTaskSettles ==
    \A t \in Task : (Started(t) /\ req[t].runtime # "durable")
                        ~> state[t] \in TerminalState

-----------------------------------------------------------------------------
(* Statements of the documentation that the code does not keep; each is    *)
(* the subject of a run that TLC answers with a counterexample.            *)

(* phase-5c.md: "a fresh broker reconciling a task stuck there reaches     *)
(* failed [...] or recovery_required": a task found in collecting after a  *)
(* broker loss does not stay in collecting.                                *)
CollectingIsReconciled ==
    \A t \in Task : (state[t] = "collecting" /\ ~up)
                        ~> state[t] # "collecting"

(* phase-5c.md, the table of timeout(): whatever it has finalized, it      *)
(* records as timed_out.                                                   *)
TimeoutIsRecorded ==
    [][op.at = "transit" /\ op'.at = "idle" /\ op.to = "timed_out" /\ up'
         /\ lease[op.task] = "released"
         => state'[op.task] = "timed_out"]_vars

(* reconcile()'s docstring: it "never touches a workspace/lease it cannot  *)
(* prove is safe to release": it does not set about removing the worktree  *)
(* of a task whose leader lives, whether or not the launch was recorded.   *)
NoReleaseUnderWriter ==
    [][\A t \in Task :
          Reconcile(t) /\ op'.at = "release_tree" /\ lease[t] = "active"
          => proc[t] # "alive"]_vars

=============================================================================
