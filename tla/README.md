# Formal model of recollect-lines

TLA+ modules, TLC configurations and TLAPS proofs for the task broker in
`src/src/recollect_lines`. The broker delegates tasks to other agents (CLI tools
under a durable supervisor, HTTP model APIs, a mock), keeps their life in an SQLite
store, gives writers an isolated git worktree under a lease, and recovers after the
loss of its own process without running anything twice or inventing an outcome.
Paths below are relative to `src/src/recollect_lines` unless they start with `src/`.

## 1. Inventory

| Part | State it keeps | Operations | Interacts through | What is hard | Modules |
|---|---|---|---|---|---|
| Broker (`service.py`, `models.py`) | in-memory handles of direct requests, of launches it started, of adopted launches | `create`, `start`, `complete`, `collect`, `reconcile`, `timeout`, `cancel`, `verify`, `close`, the completion pump | the store, adapters, worktrees | every operation has several durable effects and may be cut between any two of them | `TaskStates`, `BrokerLifecycle`, `Preflight`, `ResultGates` |
| Store (`store.py`) | tasks, events, workspace leases, launch rows, recovery leases, artifacts | one SQL transaction each | all brokers on one home | check-then-update across processes; the partial unique index | `BrokerLifecycle`, `CompletionEvents`, `RecoveryLease` |
| Durable runner (`durable_runner.py`, `durable_cli_launch.py`) | a manifest file, a supervisor, a payload with its own process group | launch, wait for proof, inspect, cancel | manifest file, signals | a crash of any of three processes; four writers of one file | `DurableRunner`, `RuntimeLaunches` |
| Durable reconciliation (`durable_reconciliation.py`) | broker identity file, adopted handles | evaluate, adopt, adopted cancel, adopted collect | manifest, recovery lease | two recovering brokers; a lease that expires under its holder | `RecoveryLease`, `DurableRunner` |
| Workspaces (`workspace.py`) | worktree directories, branches | create, capture, release | git, the lease rows | removing a directory a process still writes to | `BrokerLifecycle`, `IsolatedWriters` |
| Direct API runtime (`direct_api_runtime.py`) | one thread per request | start, collect, cancel | HTTP, a cancel event | the abort is cooperative, retries are the thread's own; threads die with the broker | `DirectRequest` |
| Adapters (`adaptor/`) | none beyond their handles | build a command, start, cancel, collect, parse | the durable runner, process groups | helpers of a process group that outlive its leader; each CLI fails in its own way | `BrokerLifecycle`, `Preflight`, `ResultGates` |
| Completion events (`completion_events.py`, `mcp_server.py`) | the append-only events table, a caller's cursor | poll, pump | the store | a completion the caller's cursor has already passed | `CompletionEvents` |
| Lineage, admission, cost (`task_lineage.py`, `cost_rework_policy.py`) | parent, root, depth; policy and class of a task | limits checked at create, budgets at start | counts over the store | counts taken before the row is written | `Admission` |
| Operator control (`operator_control.py`) | none | status, cancel, collect behind a posture table | the broker | its gates differ from those of the operations | `OperatorControl` |
| Debate (`bounded_debate_workflow.py`) | phases, a completion cursor | dispatch, poll, collect, validate, materialize | the broker | tasks others settle, or set aside for recovery | `BoundedDebate` |
| Council (`council.py`) | waves, batches, a time budget | validate, bound the cost, run | the broker | the budget runs out anywhere; a process that outlives its stage | `Council` |
| Reports and result contracts (`verified_investigation_report.py`, `review_report.py`, `result_normalization.py`, `capability_contract_result.py`) | documents | validate, judge, write | artifacts | the order in which faults are looked at decides what becomes of a task | `ReportContracts`, `ResultGates` |
| Capabilities, profiles, permission modes, models, runtimes | configuration a process has loaded | resolve, refuse | `create`, `start`, the adapter | the same thing resolved three times, by processes with different configurations | `Preflight` |
| Providers, installation (`providers.py`, `provider_commands.py`, `init.py`, `mcp_commands.py`) | configuration files | init, add, test, install | files | read, decide, write back whole | `ConfigFiles` |
| MCP server, CLI | none | dispatch | one broker operation at a time | composition of operations | `CompletionEvents`, `Preflight` |
| Discovery, doctor, certify, recovery contract, claim diagnostics | none | probe, report | files | - | - (section 9) |

What makes each part correct, in one line: the **broker** never takes a worktree or
lease from a process that may be writing, never records a success or a stop it did not
observe, and leaves no task or source blocked for ever; the **store** lets one writer
per source through; the **durable runner** never lets a manifest claim an end that did
not happen; **reconciliation** acts only on proof, one broker per launch; **completion
events** reach a polling parent exactly once; **admission** keeps its limits; the
**gates** let nothing end well that failed; a **launch** is what was asked for.

`PROJECT.json` lists every component with its status and every hazard at its line.

## 2. Plan and state of the project

Ordered by how much of the broker's promise each part carries.

| # | Module | Models | What is claimed of it | By |
|---|---|---|---|---|
| 1 | `TaskStates` | the state table | - | - |
| 2 | `BrokerLifecycle` | one broker at a time, its runtimes, every crash point | no release under a living writer; one writer per source; no fabricated outcome; tasks settle | proofs; TLC for liveness |
| 2a | `IsolatedWriters` | the abstract promise about sources | `BrokerLifecycle` implements it | proof |
| 2b | `RuntimeLaunches` | the abstract promise about launches and their manifests | `BrokerLifecycle` and `DurableRunner` implement it; hence nothing is redispatched | proofs |
| 3 | `CompletionEvents` | the events table, the cursor and the pump, several brokers | delivered exactly once; the log tells the state; legal history; ends are reported | proofs; TLC for liveness |
| 4 | `RecoveryLease` | identities, epochs, the recovery lease, adopted handles of several brokers | one reconciler per launch; no stop or success that was not observed; stranded launches are found | proofs; TLC for liveness |
| 5 | `DurableRunner` | supervisor, child, payload and every writer of the manifest | the manifest is true and final; answers are true; ends are recorded | proofs; TLC for liveness |
| 6 | `DirectRequest` | the request thread against its callers | requests are settled as they ended; retries end | proofs; TLC for liveness |
| 7 | `ResultGates`, `ReportContracts` | from a runtime's output through both gates to the end of a task | gates cannot be got round; successes and blocks have their documents | proofs |
| 8 | `Admission` | concurrency, lineage, cost and rework | limits and budgets | proofs |
| 9 | `Preflight` | from a request to the command line | launches are what was asked for; read-only cannot write | proofs |
| 10 | `OperatorControl` | posture and permissions over `BrokerLifecycle` | control strands nothing | proof |
| 11 | `BoundedDebate` | the debate workflow over the broker | backed by collected successes; no completion missed; it returns | proofs; TLC for liveness |
| 11a | `Council` | the council workflow over the broker | accounted for; in order; only sound plans; it returns | proofs; TLC for liveness |
| 12 | `ConfigFiles` | the commands that rewrite configuration | what was in a file is kept | proof |

Every invariant and every safety action property a passing run checks is stated by a
theorem as well.

How modules compose: all that speak of task states extend `TaskStates`;
`OperatorControl` extends `BrokerLifecycle`; `ResultGates` and `Preflight` extend
`ReportContracts`. A component whose concurrency is the point (several brokers on one
store) has a module of its own rather than a second dimension in `BrokerLifecycle`,
whose state space is already the product of all operations and crashes. An MC module
gives instances; three of them (`MCRuntimes`, `MCWorkflows`, `MCConfigFiles`) hold
parts that share no state in one run: `kind` picks at the beginning the part that
moves, and the others keep one initial state. `RuntimesProofs`, `WorkflowsProofs` and
`ConfigFilesProofs` hold the proofs about them (`MCSpec`) and about their parts (`Spec`).

Most invariants are conjunctions of named parts (`EndIsDocumented` is
`SuccessIsDocumented`, `BlockIsExplained` and `SatisfiedIsSound`); what a part says
and which code it is about stands above it in its module. "Fault:" marks definitions
that break a modelled one as a plausible bug would: the project checks that each
property notices its fault.

## 3. `TaskStates`, `BrokerLifecycle`, `IsolatedWriters`, `RuntimeLaunches`, `OperatorControl`

`TaskStates` is `models.py`: the states, the terminal ones, the states the concurrency
cap counts, and `CanGo`, the relation `ALLOWED_TRANSITIONS`.

`BrokerLifecycle` is the life of tasks under **one broker process at a time**. The MCP
server is single-threaded and a CLI command is one operation, so at most one operation
is in progress; it is the record `op`:

* `op.at` is the point reached (the next durable effect), `op.to` the state it will ask
  for at its end, `op.orelse` the state it asks for instead when a termination is not
  confirmed, `op.how` the way it stops or collects the runtime;
* a Python exception that leaves an operation is a return to `Idle`;
* `Crash` may fall between any two steps, `Close` only between operations, and
  `Restart` starts a broker that knows nothing but the store and the file system.

| State | Code |
|---|---|
| `state`, `req` | the `tasks` row |
| `lease` | `workspace_leases.status` |
| `launch` | a `runtime_launches` row exists |
| `rlease` | the `durable_recovery_leases` row: absent or expired, of the broker that is up, of one that is lost |
| `result` | the outcome written to `result.json` |
| `worktree` | the task's directory under `worktrees/` |
| `proc`, `exit` | the runtime: thread, payload or process group; how its leader ended |
| `manifest`, `sup` | the durable launch's manifest; whether its supervisor lives |
| `mem` | which of `_direct_api_handles`, `_process_handles`, `_adopted_durable_handles` holds the task |

Runtimes by supervision: `"mock"` has none; `"direct"` is a daemon thread of the broker;
`"durable"` is every CLI adapter under `DurableSubprocessRunner`; `"cursor"` is the
Cursor adapter with `legacy_popen_launch`, a process group of the broker's own, whose
rows older homes also contain.

Actions follow the operations. `create()` is `Create`, `Enqueue`. `start()` is
`StartRejected` or `StartPrepare`, then `AcquireLease`, `CreateWorktree`, one of the
`Spawn...` actions, `LaunchProven`, `RecordLaunch`, with a failing alternative wherever
the code has one (`LeaseRefused`, `CaptureHeadRaises`, `CreateWorktreeFails`,
`SpawnRaises`, `LaunchTimesOut`). `collect()` is `CollectHandle`, `CollectAdopted` or
`CollectMock`, or falls back to `reconcile()`; then `Gather` (or `GatherRefused`) and
`Persist`. `reconcile()` is `ReconcileRefused`, `ReconcileAdopts`, `ReconcileDirect`,
`ReconcileCursor`, `ReconcileByGroup`. `timeout()` and `cancel()` choose how to stop the
runtime (`Timeout...`, `Cancel...`), and `KillDirect`, `KillGroup`, `KillDurable`,
`KillAdopted` are what that comes to, confirmed or not. All of them end in `ReleaseTree`,
`ReleaseRow`, `Transit`: the worktree is removed, then the row released, then the
outcome recorded, three effects a crash may separate.

Abstractions: texts, commands, artifacts other than the recorded outcome; the verdict of
the preflight checks (any task may be rejected) and of the gates (a success may be
downgraded, a failure is never rescued), which `Preflight` and `ResultGates` have in
full; the manifest's final states are one; `collect()` through `status()`, `reconcile()`
and the completion pump is `CollectHandle`; the recovery lease is given back in the step
that collects or stops an adopted launch; the branch of `timeout()` and `cancel()` for a
row without a valid pgid is left out, since no row of a subprocess is written without
one; process ids are not reused (the code documents that residual risk itself).

`IsolatedWriters` says what all of this promises about the sources of isolated_worktree
tasks, without leases, worktrees, launches, manifests, operations or crashes: a task takes
a source nobody is inside of (`Take`), writes there at most once (`Write`), stops (`Stop`)
and leaves (`Leave`), never from "writing". `PhaseOf` and `SourceOf` in `BrokerLifecycle`
are the mapping: the lease row says whether a task is inside, the recorded launch and its
leader whether it writes. A launch whose row was not written yet is invisible to the
mapping, as it is to the broker (section 8, `unrecorded_launch`).

`RuntimeLaunches` says what a broker may rely on of what it launches: a runtime is started
once (`Spawns`) and ends once, with one exit (`Ends`); the manifest of a durable one goes
from launching to running while its leader lives (`Proves`) and to final once it has ended
and if a supervisor is left to write it (`Finalizes`); and a supervisor may be lost at any
time (`Passes`). Here each of these is a single step: `LeaderOf` takes a group whose leader
has exited for ended, `exit`, `manifest` and `sup` go into it as they are. The supervisor is
`SupervisorFinalizes`, `SupervisorGone` (it is lost, or returns without having written) and
what `Crash` takes with it. The same contract is implemented by `DurableRunner` (section 5),
where a manifest is written in several steps by several processes. So what the two modules
say of a launch is stated once and each is held to it; it does not say that either has all
the behaviours of the other. Since a leader that has ended stays so, the contract also says
that recovery observes and never runs a task a second time.

`OperatorControl` adds no state: `Posture` is `_assess_actions`, `CancelPermitted` and
`CollectPermitted` the permissions it puts into the control view, `CancelAccepted` what
`cancel()` then asks of the state table. `ControlHolds` compares them in every state the
broker can be in, which is what the two modules, written apart, do not do. It excepts two
known ends of the road, named in the module.

All runs instantiate `MCBrokerLifecycle`.

| Run | Instance | Shows |
|---|---|---|
| `lifecycle` | 1 task, every runtime, isolated or not, 3 broker losses, removal may fail, process identities comparable, fairness | all single-task safety, control, every step is one of `RuntimeLaunches` (nothing is dispatched twice), every started task that is not durable settles |
| `lifecycle_writers` | 2 symmetric isolated subprocess tasks on 1 source, 1 loss, process identities not comparable | two writers never live together, no orphan worktree; every step is one of `IsolatedWriters` or a stutter |
| `unrecorded_launch` | 1 durable task, 2 losses, what reconcile() sets about | a statement of the docs the code does not keep (section 8) |

**Bounds.** The per-task properties mention one task and the operations of other tasks
do not write its variables, except through the one busy broker and the source index, so
one task with every request is the interesting instance; `lifecycle_writers` adds the
second task for what relates two. Three losses allow launch, recovery, a second loss
during recovery and a third during the cleanup. `MaxConcurrency` 1 per runtime is enough
for one task; `lifecycle_writers` has 2, so that two tasks of one runtime may be active
together. Where removal may fail a worktree may be left behind, so `NoOrphanWorktree`
belongs to the second run. Deadlock is not checked, here and in the other runs: a bounded
set of tasks that have all ended is the normal end.

**Fairness** (`Fairness`): the broker continues what it started and is restarted when
it goes away (weak); payloads, helpers and supervisors end, launch proofs get
committed, recovery leases expire (weak); the parent keeps calling collect and
reconcile (strong, since the broker may be busy with something else when it does).
`docs/mcp.md` describes the polling parent, `reconcile_pending()` the restart. No
fairness of cancel or timeout: nothing in the code fires them by itself.

## 4. Several brokers: `CompletionEvents`, `RecoveryLease`, `Admission`

The store is made for more than one broker: the MCP server a parent talks to and CLI
commands share one home. Three modules let brokers overlap, each cut where another
broker's step makes a difference.

`CompletionEvents` keeps the store's `tasks.state` and `events`, and lets every broker be
in an operation of its own. An operation is the sequence of goals it has left
(`work[b].goals`): the states it moves its task to, starting or stopping the runtime, an
event without a transition, and the high-water mark `delegate` reads at its end. `Check`
and `Record` are the two statements of `transition()`; between them another broker may do
anything. `work[b].seen` is the record the operation read: `transition()` records the
state it checked, `verify()` and the reconcile events the state their operation began
with. The parent is the caller of `completion_events`: its cursor, a filter (`Watched`)
and a page limit. `Poll`, `PumpCollect`, `PumpSkip`, `ReadPage` are one call: the pump
walks over the handles the server held when it started, collects those that have ended,
then one page is read. Every goal sequence an operation may have is chosen when it begins,
from the state and the handles it finds; worktrees and leases are left to
`BrokerLifecycle`, as are which broker may adopt to `RecoveryLease`; the schema-conflict
warning at creation and the gate's events are left out; the parent's first poll starts
at 0.

`RecoveryLease` is `load_broker_identity` (`ReadIdentity`, `TruncateIdentity`,
`WriteIdentity`: the file is read, then overwritten in place),
`try_acquire_recovery_lease` (`Granted`: no row, an expired one, or one of the same id and
epoch), the adoption, and collect, cancel, timeout, reconcile and close of a launch
several brokers may know of. `file` is `broker_instance.json`, `lease` the recovery-lease
rows, `handle` and `me` what a broker process holds in memory. Time is `LeaseExpires`. Two
circumstances are fixed at the beginning of a behaviour and open: whether brokers may
start at once (`alone` says no) and whether a lease may reach its TTL under its holder
(`lapses`). `OneReconciler` needs both to be ruled out; without them it fails (section 8),
while `ClaimsAreTrue` holds whatever overlaps.

`Admission` is what `create()` and `start()` count: `CheckConcurrency`, `CheckLineage`,
`Insert`, `Enqueue` are create(), `RecordProfile`, `Preflight`, `Reject`, `Prepare`
start(). Every transition is the two statements of `store.transition()`: `Checks` reads
the state and looks whether it may move, `Update` writes the new one over whatever is
there by then; any operation of another broker may come between. `Lives` is the transition
of any other operation, to one of the states the offer names (`Moved`). `row` holds root,
depth and parent, `snapshot` the tasks whose model profile is on disk (brokers share one
configuration, so that a start() that records it again records the same), `accepted` those
that were moved to preparing, from which usage is counted. The limits are stated with the
overshoot overlapping brokers can bring about and no more: `Within` allows one per other
broker, for a task counted in and not written or an update under way. `BudgetHolds` allows
none: a profile is recorded before usage is counted, so one of two racing starts sees the
other. It leaves out the tasks an `Update` wrote over (`overwritten`): a broker that has
read queued may write rejected over a task another has just let in, and a task that is
rejected counts no more (section 8). Without overlap nothing is written over, and it says
so. It speaks of trees of up to `MaxTree` rows (`TreeRows`), since usage counts no
further.

| Run | Instance | Shows |
|---|---|---|
| `completion_brokers` | 2 brokers (MCP and CLI), 1 subprocess task | the log tells the state under every race of two operations |
| `completion_seen` | 1 broker, a mock and a direct task, pages of 2, 1 loss, fairness | nothing skipped, nothing twice; histories are legal; every ended runtime is reported to a parent that only polls |
| `recovery_lease` | 3 brokers of which 1 is gone, 1 launch, fairness | one reconciler per launch, no invented stop or success, a launch whose holder is gone is found |
| `admission` | 2 brokers, 3 tasks, limits 1 and 2, overlapping or not, with and without recovery, with and without a policy | limits with at most one overshoot, forest, budgets but for tasks written over |

**Bounds.** `MaxEvents` stops only the operations that could be repeated for ever
(reconcile, timeout, cancel, verify) from beginning; what has begun goes on to its end.
Two brokers are what a race needs, and the third in `recovery_lease` is the one that left
a lease or a torn identity file behind. In `admission` three tasks are one more than any
limit allows, and let a tree have a parent, a child and a sibling or grandchild.

**Fairness.** A broker that is up goes on with its operation and its poll (weak); the
parent keeps polling (strong on `Poll`: the server may be busy when the call arrives);
leases run out (weak), and a broker that stays up keeps calling reconcile (strong, as its
lease may be denied). `StrandedIsFound` assumes that some broker stays up
(`SomeoneStaysUp`): where none does there is nobody to find anything.

## 5. What a runtime does and what is made of it: `DurableRunner`, `DirectRequest`, `ResultGates`

`DurableRunner` is one launch: the launching broker, the supervisor, the child it forks,
another broker that adopts it. The launcher waits for the proof (`SeesProof`), then writes
the launch row (`RecordLaunch`, `row`); without that row nobody adopts (`Adopt`), so a
launch whose broker was lost before it is `BrokerLifecycle`'s subject. A write of the
manifest is three steps, as `_atomic_write_json` has it: `Drafts` (temporary file),
`Replaces`, `Sweeps` (which unlinks leftovers of any writer). The child commits the
running proof before it runs the command (`ChildDrafts`, `ChildReplaces`, `ChildExecs`);
the supervisor waits and finalizes (`WaitPid`, `Finalizes`, `SupervisorReplaces`,
`SupervisorReturns`); a caller's cancel is `Cancel`, `Load`, `Inspect`, `Terminate`,
`GraceOver`, the launcher's wait() also rewrites cancelled into timed_out (`Reload`,
`RewriteReplaces`, `RewriteSweeps`); `AdoptedCollect`, `Gather`, `Look` are the adopter's.
Any of them may be killed. Left out: capture files and their bounds.

Seen from the broker this is one launch of `RuntimeLaunches`. `Leader` is "none" until the
supervisor is spawned and "alive" until the payload has been reaped: to whoever looks at the
pid a zombie is still there, and a supervisor that has not forked yet is about to. One that
is lost before it forks leaves a leader that has ended (badly) without ever having run.
`Recorded` is the manifest with its three final states as one, told from the supervisor's
start. Of all the steps above, `SpawnSupervisor` is then `Spawns`, `ChildReplaces` is
`Proves`, `SupervisorReplaces` is `Finalizes`, reaping the payload ends the leader, and the
rest passes.

`DirectRequest` is one request: the thread's loop (`Top`, `Send`, `WriteResponse`,
`Conclude`), the cancel event, the deadline (`DeadlinePasses`), the operations that join,
abort or fail it, and a broker that does not hold it. `resent` counts attempts after the
event was set.

An attempt is one step (`Send`) that ends: the code's timeout is one of every socket
operation, and a provider that keeps trickling its answer outlasts the deadline (section
8).

`ResultGates` takes it from there: `Complete` (or `CompleteRaises`, on a summary that
`validate_result()` does not accept), `CollectLaunched`, `CollectAdopted`, `CollectMock`
read what the runtime left (`output`), by the rules of its adapter (`ClaudeFails`,
`CursorFails`, `CodexFails`, `OpenCodeFails`; an adopted launch has none, `CollectAdopted`
looks at the exit status and the last line, and an empty stdout makes a success one with
warnings, `AdoptedEnds`); then the verification gate (`GateWithoutCommands`, `GateRuns`,
`GateRaises`), the capability gate (`ContractGate`), and the writes in their order:
`WriteGate`, `WriteResult`, `WriteEnvelope`, `Release`, `Transit`. `Loss` falls between
any two; `VerifyBegins`, `VerifyEnds` is `verify` run by another process.
`ReportContracts` holds the pure part, as operators: what a report must have
(`FieldPresent`, `EvidenceValid`, `RefsValid`), and what denials say about required
capabilities (`Unsatisfied`). Reports are records over a few ids, items are sound or not;
text, JSON syntax and redaction are left out.

| Run | Instance | Shows |
|---|---|---|
| `runtimes` | one launch with two callers; one request, alone or with a second broker; each of the cases of `MCResultCases` with 2 losses and 1 verify | the manifest is true and moves on as `RuntimeLaunches` says, answers are true, requests are settled as they ended, gates hold, successes and blocks have their documents, ends are recorded |
| `collect_window`, `adopted_result` | one launch; the cases with 1 loss | each a statement of the docs the code does not keep (section 8) |

**Bounds.** `DurableRunner` and `DirectRequest` are finite as they are, except for
`resent`, counted up to 2. `MCResultCases` pairs every ending with every policy, and every
schema with reports that are right or wrong in one respect each. Two losses give a second
collection after one that was cut; one `verify` can fall anywhere.

**Fairness.** The supervisor goes on until it is killed; the request thread runs, its
deadline comes, and operations go on (all weak). Nothing is assumed of payloads: that they
end is the hypothesis of `EndIsRecorded`; so is that the supervisor is not killed: without
one nobody writes the end. Of providers it is assumed that an attempt comes to an end, answered
or not: each socket operation has its timeout, and a provider that goes on trickling bytes for
ever is left out. A request may be undelivered on every attempt.

## 6. From request to launch and back: `Preflight`, `ConfigFiles`, `BoundedDebate`, `Council`

`Preflight` is one task and several broker processes, each with the configuration it has
loaded (`conf`), each of which may be lost and come back with another. `create()` writes
in `CreationOrder`: the row, its artifacts, and the transition to queued last; `start()`
goes through `StartOrder`: `Checks` (schema, tools, capabilities), `ResolveModel`,
`RecordModelProfile`, `Snapshot`, `RecordTools`, `Prepare`, `Command`, `Launch`. The
adapter resolves mode and tools once more (`AdapterRefuses`). `argv` is what the runtime
is launched with: permission mode, tools, sandbox, model, contract. Registries are
functions from names to profiles, as the loaders build them (`ToolRegistry`: one bad entry
and nothing is configured). `early` and `contended` are history: start() before create()
was done, start() beside another.

`ConfigFiles` is one file and several commands on it: `InitHome`, `ConfigInit`,
`ProviderAdd`, `ProviderTest`, `Install` decide, `Backup`, `Temp`, `Rename`, `Verify` are
the writes, `TempFails` and `Lost` the failures, `Edit` a person. `file` is what it is
called, which decides how it is parsed: a providers file in YAML or JSON, the file of an
MCP host in JSON or TOML. Its content is the set of names it has an entry for, or absent,
invalid, partial; "profiles" are the keys a providers file may have beside `providers`,
which `provider add` does not write back (`Merged`). A host file may be spelt as `mcp
install` renders it, in another way, so that it is rewritten with a backup though nothing
changes (`UpToDate`), or, in TOML, by an inline table or a quoted key, beside which a
section is a second definition (`Registered`). Only the JSON merge looks for another name
of the same server (`Conflicts`), and the starter is YAML whatever the file is called
(`StarterText`). `FilesAreKept` excepts these rewrites by name (`Misfit`, the keys beside
`providers`) and claims the rest; the documents that do not except them are refuted
(section 8). Reading is one step, also where the text is read once more for the backup,
and the merged document of other keys of a host file is left out.

`BoundedDebate` is `run_bounded_debate_workflow`: phases of participants dispatched one by
one, `Poll` with the workflow's own cursor and page limit, `Collect`, `EndPhase`,
`Validate`, `Materialize`. A poll collects what has ended in any order of its handles
(`Pumped`, `LogPumped`). The broker behind it is abstract: tasks run, end, are cancelled
or set aside by others (`Others`), readopted (`Readopts`). `Council` is `execute_council`:
`Validate`, `BoundCost`, waves (`Waves`, `NextWave`), batches (`NextBatch`), stages
(`Start`, `Collect`, `Skip`), `Report`, beside a clock (`Tick`). `Acyclic` says what the
depth-first search of `_assert_acyclic` finds: no walk along `depends_on` (`Follows`) that
comes back to where it began, none longer than there are stages being worth a look. `Begun`
is `completed` after so many turns of the loop in `_topological_waves`, and `Depth` the
turn at which it ends.

| Run | Instance | Shows |
|---|---|---|
| `config_files` | 2 commands and 1 edit on a providers or a host file, in either of its formats and in any state; 2 brokers, 2 starts, 1 loss, 4 configurations, the requests of `MCAsks` | what was in a file is kept, but for the rewrites named; launches are what was asked for, read-only launches cannot write, records describe the launch |
| `workflows` | debates of up to 4 participants, pages of 1; councils of up to 4 stages, 1 tick; fairness | nothing completes without observed successes, no completion is missed, every stage is accounted for and in order, both return |

**Bounds.** The requests vary one group of fields at a time over the values the code tells
apart, and groups together where they meet (mode, override and capabilities; tools and
capabilities; runtime, profile and model; agent and what was given). Two processes suffice
for a lost update; two starts for a record that is overwritten. A debate has two openings,
a rebuttal and a synthesis; pages of one event make every event a page's last. The
councils have a diamond, a cycle, a lone stage of every kind, with and without a budget.

**Fairness.** The workflow goes on, and its deadline comes (weak); in a council a direct
request ends by its own deadline (weak). Nothing is assumed of other tasks' ends.

## 7. Proofs

`BrokerLifecycleProofs` proves, for any set of tasks, any set of requests, any bounds and
either platform:

* `TypeCorrect`: `Spec => []TypeOK`, one step per action;
* `WriterInvariant`: `WriterInv` holds in every state, from which `LiveWriterSafe` and
  `OneWriterSafe`. `LiveWriterKeepsWorkspace` alone is not inductive: a release in progress
  has decided that the runtime is gone, so the invariant says what each point of an
  operation may rely on. Its parts: an unstarted task has nothing (`UnstartedIsFresh`), a
  launch is preceded by its allocation (`AllocatedBeforeLaunch`), only subprocesses are
  launched in a worktree, a final manifest is evidence of an end (`ManifestIsEvidence`), a
  collection persists only what has ended (`GatheredHasEnded`), a release is under way only
  where no recorded writer lives (`ReleasedHasEnded`), active leases have distinct sources;
* `OutcomeInvariant` (lemma): `OutcomeInv` holds, from which `SuccessSafe`, `StopSafe`,
  `SettledSafe`, `WorktreeSafe`: what an operation in progress has made sure of before
  it records its outcome.

It also proves `ImplementsSafe`: `Spec => ImplementsIsolation`. Four kinds of steps move a
task: `AcquireLease` is `Take` (the unique index is its guard), `RecordLaunch` is `Write`
(`Stop` when the leader is gone already), the end of a writer's leader is `Stop`,
`ReleaseRow` is `Leave` (`ReleasedHasEnded` says it does not write). Every other step,
losses of the broker included, is a stutter. Beyond `WriterInv` it needs `IsolationInv`:
only isolated tasks have leases, and a row is released only while active.

`LaunchesSafe`: `Spec => ImplementsLaunches`. `LaunchInv` is what it needs: whatever a
broker holds or is about to stop, and whatever tells of a launch, has been launched, and
an end has an exit. `SpawnDirect`, `SpawnCursor` and `SpawnDurable` find nothing launched
(`WriterInv`, `Unlaunched`), so they are `Spawns`; `EnderEnds` says that a stop ends the
leader it was meant for, at most, with or without the supervisor's last word;
`OutsidePasses` and `LossPasses` are what happens by itself and with the loss of a broker,
which may end several launches in one step. That is why `Next` of `RuntimeLaunches` speaks
of every launch.

Last, `ControlSafe`: `Spec => []ControlHolds`, under `MockOnly`. `ControlInv`, inductive
relative to the invariants above, says what a handle, a recorded launch and the end an
operation is heading for tell of each other: a handle fits the task's runtime, a recorded
durable launch has its proof, a task that is cancelling has let go of its own handle, and an
operation that ends without a result has no adopted one.

Assumptions: those the module states about its constants; `MockOnly` (clients call
`complete()` on mock tasks only, as `src/docs/cli.md` says; the code does not check it) for
everything but the types; and for `WorktreeSafe` that removal works (`~RemovalFails`).

`CompletionEventsProofs` proves, for any sets of brokers and tasks, any filter, any limit
and any bounds:

* `TypeCorrect`: `Spec => []TypeOK` (with the two sequences of the same length);
* `DeliverySafe`: `Spec => []DeliveredExactly`. The only action that moves the cursor is
  `ReadPage`, and what `PageEndsAt` says of the page's last event is exactly what makes the
  step inductive; every other action appends behind the cursor;
* `LogSafe`: `Spec => []LogTellsState`. The state and its event are written in one
  transaction, and only events of the task itself can become its last transition;
* `HistorySafe`: `Spec => []LegalHistory` for a home with one broker
  (`\A b, c \in Broker : b = c`). What holds it up is `CheckedIsLegal` (a checked transition
  is legal from the state seen), `SeenIsState` (with one broker, what an operation has seen
  is what is) and `LastEventTells` (the last event of a task tells its state). With two
  brokers `SeenIsState` fails and a history may record two ends.

`RecoveryLeaseProofs` proves, for any brokers and launches:

* `TypeCorrect`: `Spec => []TypeOK`;
* `IdentitiesDistinct`: `Spec => []DistinctIdentity`, by `IdentityInv`: with `alone`, the
  file's identity is that of the broker that started last, every other identity is older
  (a smaller epoch of the same id, or another id), and a torn file means one is starting;
* `ReconcilersExclude`: `Spec => []OneReconciler`, by `LeaseInv`: whoever holds an adopted
  handle, or is about to, holds the row under its own identity while leases do not lapse,
  and identities tell holders apart;
* `ClaimsTrue`: `Spec => []ClaimsAreTrue`, whatever overlaps and lapses, by `BackedInv`:
  past the signal or the artifacts, an operation has seen what it is going to record
  (`OperationBacked`), and what it has seen stays so, since a payload that has ended does
  not run again (`Forward`). Leases play no part in it.

`AdmissionProofs` proves, for any finite sets of brokers and tasks and any limits:

* `TypeCorrect`: `Spec => []TypeOK`;
* `LimitsSafe`: `Spec => []LimitsHold`. Counts of rows alone are not inductive: an operation
  that was counted in and has not written its row yet has reserved a place, and so has one
  that is about to update a task to an active state, whatever the task has become since it
  was checked. `ConcurrencyInv`, `AgentsInv` and `ChildrenInv` bound rows and reservations
  together; a check that succeeds finds the rows below the limit, and each other broker has
  at most one reservation;
* `BudgetSafe`: `Spec => []BudgetHolds`, by `BudgetInv` over the tasks that have passed a
  preflight, prepared or about to be, and were not written over. `ProfileInv` is what makes it
  inductive: whoever has passed recorded its profile first, so every later count includes it;
  and a task let in is rejected or queued again only by an update that writes over it.

`RuntimesProofs` proves, for any requests, any outputs a runtime of the request's kind may
leave (`Fits`), reports of any length, and any number of losses and of `verify` runs:

* `GatesSafe`: `Spec => []GatesHold`; `DocumentsSafe`: `Spec => []EndIsDocumented`;
  `TypeCorrect`. The invariant says what each step of a collection has made sure of: a
  candidate success is what the runtime left (`CandidateInv`), the gates behind it have
  decided as they must (`GateInv`), the documents before it are this operation's
  (`DocumentInv`). `LossInv` separates the first collection, by the broker that launched,
  from those after a loss, which know less: where the properties are conditional on there
  being no loss, it is what they rest on. After one, `GatesHold` still says that verification
  was passed and no nonzero exit rescued, not that no required capability was denied and the
  CLI reported no failure, which an adopted launch has nobody to ask about (`adopted_result`);
  and `EndIsDocumented` is about successes and blocks: what an envelope says beside another
  end may be left of before the loss (`EnvelopeAgrees`, section 8).

And of the durable runner and the direct request, which have no constants (the run sees all
of their states; the proofs say why none of them is bad):

* `ManifestTrue`, `AnswersTrue`: `MCSpec => []ManifestIsTrue`, `MCSpec => []AnswersAreTrue`,
  by `RunnerInv`. It follows what is known from the process to its readers: before the
  supervisor has forked there is nothing to tell and nobody adopts (`BirthInv`); a committed
  proof stays while the command waits for it (`ProofInv`); an exit status is written only
  once the payload is reaped and is the one it ended with, in the manifest and in any copy on
  its way to it (`EndInv`); what a caller read or answered has happened (`ToldInv`);
* `ManifestMoves`: `MCSpec => ManifestMovesOn`, which is the refinement of `RuntimeLaunches`
  and the action property `FinalStays`. Of the four writers only the launcher's rewrite of a
  cancellation may follow a final manifest (`RunnerKeepsFinal`). The mapping needs
  `LaunchedInv` beyond `RunnerInv`: there is a manifest from launch() on, a supervisor once it
  is spawned, and what a supervisor is about to put is the end of a proven launch. The step
  lemmas (`SpawnIsSeen`, `PayloadIsSeen`, `SupervisorIsSeen`) say which step of the contract
  an action is; a cancel, a collect or the loss of a caller is none (`QuietPasses`);
* `RequestSettled`: `MCSpec => []RequestIsSettled`, by `ThreadInv` (the attempt that had begun
  when the event was set is the last) and `HandleInv` (an operation has taken the handle
  before it judges the request, and what it is about to record is so);
* `RuntimesTyped`: `MCSpec => []RuntimesTypeOK`.

`ConfigFilesProofs` proves, for any requests, any configurations (`PreflightAssumption`:
typed entries, sound or not), any number of brokers, starts and losses:

* `ReadOnlySafe`: `Spec => []ReadOnlyCannotWrite`. `RegistryFacts` says, for any entries an
  operator wrote, what the profiles of the loaded registry have in common: each reads the
  workspace, one usable read-only has nothing else but the tools named one by one, and one
  that says it reads remote repositories names some;
* `LaunchSafe`: `Spec => []LaunchIsAsAsked`; `TypeCorrect`. Unless somebody started a task
  while it was being created, its artifacts are complete when it is queued (`CreationInv`);
  past the capability check what is required is among what the process advertises under the
  configuration it still has (`CapabilityInv`); a model the caller named is the one every
  start resolves (`ModelInv`); and while one start records at a time, what is recorded is
  what that process has loaded (`RecordInv`). `RefusedEarly` follows from the second:
  whoever advertises anything has passed all the adapter looks at. Assumed besides the types
  is that `None` is none of four names of permission modes and sandboxes (`NoneAssumption`).

Of the files those configurations are read from it proves, for any commands, any number of
them at once and of edits beside them, `FilesSafe`: `MCSpec => FilesAreKept`, four action
properties. `DecisionInv` says that a command on its way to the rename has decided to go,
on what it has read: what it will write can be read and keeps the entries it read, unless
it misfits the file's format (`Misfit`), it was told to overwrite the one it replaces, and
what `mcp install` replaces is backed up. `FilesKeep` makes the four of that. `AloneInv`
says that a command that is alone has read what is there. `ConfigTyped`: `MCSpec =>
[]ConfigTypeOK`.

`WorkflowsProofs` proves, for any plans (valid or not), pages of any size and any number
of participants and events of others:

* `BackedSafe`: `MCSpec => []DebateIsBacked`. The invariant follows the workflow: a plan that
  is carried out is valid (`PlanInv`), hence uses no id twice, within a phase or across
  (`PhasesDistinct`: the parser compares the number of ids with the number of participants);
  a participant whose turn has not come has no task (`TurnInv`), so a dispatch touches no
  task that was collected; the phases behind have succeeded as they were collected
  (`BackedInv`), and a task that ended as a success is not touched again; what is written
  has passed the validation (`TextInv`);
* `CursorSafe`: `MCSpec => []CursorMissesNothing`. `LogInv` is what it rests on: events are of
  tasks that are there, so when a phase begins the cursor cannot have passed one of it;
  `PollReads` says what a page of any size adds to what was seen;
* `CouncilCarriedOut`: `MCSpec => []CouncilHolds`, and `WorkflowsTyped`: `MCSpec =>
  []WorkflowsTypeOK`, from `CouncilProofs`, which is instantiated for the council of the run
  (the `Same...` lemmas: the two instances of `Council` agree).

`CouncilProofs` proves, for any set of plans, of any number of stages and
any bounds (`Assumed`: plans are `Plan` records, ids positive numbers), `CouncilSafe`:
`Spec => []CouncilHolds` and `CouncilTyped`: `Spec => []TypeOK`. It is in three layers:

* what `_topological_waves` makes of a plan. `SomeReady`: while stages remain, one of them
  is ready; otherwise each waits for another that remains, a walk along `depends_on` can be
  carried on to any length, and once it is longer than there are stages it has come back to
  one of them, which `Acyclic` rules out. (So the refusal at council.py:199-200 is never
  reached.) Hence each turn takes at least one stage (`BegunRises`), the loop ends within as
  many turns as there are stages (`DepthFacts`), and `WavesFacts`: the waves hold every stage
  once, each after those it needs;
* the notion `Planned(T, ws)`: the sequences `ws` are what is left once the stages of `T` are
  taken, each stage once, in an order that heeds `depends_on`. Lemmas say that it is kept by
  taking the head of a sequence, splitting one into a batch and the rest, dropping an empty
  one and moving a whole wave to the skipped (`TailTakes`, `SplitTakes`, `ConcatAdds`,
  `AppendAdds`, `WaveTakes`);
* `CouncilInvariant`: `CouncilInv` is inductive. `EveryStageAccounted` alone speaks of the
  end only; the invariant says at every point of the loops that reported, batch, wave and
  waves to come make up the plan: `LineInv` (batch and wave are disjoint, not reported yet,
  and need only what is), `HandledInv` (nothing reported twice, each after what it needs),
  and `Planned(Handled \cup Line, waves)`. `PlanInv` carries the checks past the point
  where they were made; `LoopInv` says that the stage being collected heads its batch and
  that nothing runs once something was skipped.

`Begun` is a recursive function, and what it computes is shown by induction. The library's
induction theorems cannot be used here (section 9), so the proofs argue by a least
counterexample (`LeastNat`, from the well-foundedness of the natural numbers), over sets of
numbers rather than over predicates.

## 8. Where the code and its documents differ

Three are runs, each with one property that states the document, refuted by TLC:

| Run | The document | The code |
|---|---|---|
| `unrecorded_launch` | reconcile()'s docstring: never touches a workspace it cannot prove is safe to release | a launch without a row counts as no launch: after a broker was lost between spawn and row, reconcile() sets about removing the worktree of a living writer |
| `collect_window` | phase-7c-rfc.md:60, 71: collect is "supported after adoption when terminal", "only if terminal" | adopted_collect refuses only while the payload lives; between its exit and the final manifest it finds no exit status, makes it 127, and records a success as a failure |
| `adopted_result` | phase-6a.md:130-132: failed "whenever the *task* failed (`is_error` or a non-zero process exit)" | an adopted launch is judged without its adapter: exit 0 with is_error is recorded as succeeded |

Others are stated as a property of a module, without a run of their own, and refuted when
the property is put into the configuration named:

| Property (configuration) | The document | The code |
|---|---|---|
| `BrokerLifecycle!CollectingIsReconciled` (`Lifecycle`) | phase-5c.md: a task found in collecting reaches failed or recovery_required | a durable task is adopted without a transition and stays in collecting |
| `BrokerLifecycle!TimeoutIsRecorded` (`Lifecycle`) | phase-5c.md: a confirmed-dead task becomes timed_out, its lease released | outside running the release happens and the transition is refused |
| `OperatorControl!PermittedCancelIsAccepted` (`Lifecycle`) | operator_control.py: "cancellation available for non-terminal task" | cancel() asks the state table, which has no way to cancelling from some of these states |
| `CompletionEvents!CursorCoversOutcome` (`CompletionSeen`) | mcp_server.py, delegate's description: polling from completion_cursor observes the task finish | the cursor is read after start(); a task start() ends lies before it |
| `CompletionEvents!CancelledIsStopped` (`CompletionBrokers`) | cancel()'s docstring: observing, never assuming, whether the work stopped | a cancel decided on queued is recorded after another broker launched the task |
| `RecoveryLease!OutcomeStays` (`RecoveryLease`) | models.py:38: these states are terminal | check and update of two brokers may both pass, and the second end replaces the first |
| `RecoveryLease!OneReconciler` without `alone` or without `~lapses` | store.py:430: one active reconciler per durable launch | two brokers that start at once take the same identity; a lease is not renewed, and after its TTL another broker adopts |
| `Admission!LimitsHold` with `Within` allowing no overshoot | the limits as such | counted before the insert: each further broker may add one; the cap does not count recovery_required, so a readopted task is one more |
| `Admission!BudgetHolds` with `overwritten` tasks counted in `Admitted` (`Admission`) | cost-rework-policy.md:34: premium tasks allowed per workflow | transition() checks and then updates: two brokers start one task, and the rejection of one is written over the other's preparing; the task runs, is not counted, and another premium task is let in |
| `ResultGates!EnvelopeAgrees` (`AdoptedResult`) | the envelope describes the task | an envelope written before a loss is not rewritten when the task ends another way |
| `ResultGates!EvidenceIsTheGates` (`AdoptedResult`, one verify) | broker_verified evidence is what the gate ran | the envelope reads verification.json, which another process may have overwritten, or which is left of an earlier verify where the gate was blocked |
| `Preflight!RecordsAlwaysTell` (`ConfigFiles`) | the effective model in the row is that of the launch | a start() after the launch records before it is refused |
| `Preflight!DefaultsDoNotExpand` (`ConfigFiles`) | tool_access_profile.py:9-13: external tools only with the profile that names them | a configured entry named like the built-in default takes its place |
| `Preflight!CapabilitiesAreChecked` (`ConfigFiles`) | required capabilities are checked before launch | a start() between row and request artifact finds none required |
| `Preflight!NeverRefusedLate` (`ConfigFiles`) | refusals come before preparing | without required capabilities the permission mode is first looked at by the adapter |
| `Council!ConcurrencyRespected` (`Workflows`) | phase-6d.md:99: batches respect `max_concurrency` | a subprocess that outlives collect()'s grace runs on beside the next stages (council.py:422) |
| `ConfigFiles!InitPreserves` (`ConfigFiles`) | docs/cli.md:85: init leaves an existing config untouched without --force | a file that appears between check and rename is replaced |
| `ConfigFiles!OnlyTheEntryChanges` (`ConfigFiles`) | docs/cli.md:103: provider add appends or overwrites one provider entry | the document is written back with the key `providers` only: model_profiles and tool_access_profiles beside it are gone |
| `ConfigFiles!StarterIsValid` (`ConfigFiles`) | providers.py:381: a minimal, immediately-valid starter config | it is YAML also where init --force or config init writes a .json file, which is parsed as JSON |
| `ConfigFiles!InstallLeavesItReadable` (`ConfigFiles`) | docs/cli.md:155: mcp install preserves unrelated MCP servers | a TOML section put beside an inline table or a quoted key makes the file one that cannot be parsed |
| `ConfigFiles!NoSecondRegistration` (`ConfigFiles`) | mcp_commands.py:347: another server with the same invocation is to be removed first | only the JSON merge looks for it |

And met while modelling, visible in the definitions named:

| Definition | The document | The code |
|---|---|---|
| `BrokerLifecycle!CollectAdopted` | phase-7c-rfc.md:71: an adopted running launch is collected "only if terminal" | the handle is popped and collecting recorded before the payload is looked at |
| `BrokerLifecycle!LaunchTimesOut` | - | start() gives up the worktree and the lease of a launch it stopped waiting for, and nothing stops the payload |
| `BrokerLifecycle!Unconfirmed` | phase-3.md:116: the lease stays "until termination can be confirmed some other way" | failed is terminal: no operation looks at the task again |
| `BrokerLifecycle!Complete` | cli.md:190: complete finishes mock tasks | complete() accepts any running task; with `Completable` extended to other runtimes the invariants on living writers fail |
| `CompletionEvents!Verify` | mcp.md:155: a terminal transition is recorded exactly once, repolling never duplicates it | verify's event of an ended task carries the terminal state and passes the completion filter |
| `CompletionEvents!Record` | the same sentence | two brokers may both check, then both record an end |
| `CompletionEvents!ReconcileGoals`, `DirectRequest!Reconcile` | phase-6c.md:80: requests in flight reconcile to failed on broker restart | reconcile() also fails a request that another live broker waits for |
| `ResultGates!CollectAdopted` | denials and the result contract | an adopted launch has no denials, and its JSON passes for an evidence report |
| `ResultGates!CompleteRaises` | models.py:386: a summary must be non-empty | complete() checks it after collecting has been recorded: the task stays there |
| `DirectRequest!Send` | a deadline for the request | a timeout per socket operation: an answer that trickles on outlasts it (direct_api_runtime.py:154) |
| `Preflight!ToolsUsable` | custom tool profiles can be named | a profile of a name of its own passes validation and is never available to a launch |
| `ConfigFiles!ProviderAdd` | - | two concurrent adds: the later rename loses the earlier entry |
| `ConfigFiles!TempFails` | - | a temporary file is left behind when the write fails on an existing file |

## 9. Only model-checked, and not modelled

Liveness (`StartedTaskSettles`, `FinishedIsObserved`, `StrandedIsFound`, `RuntimesEnd`,
`WorkflowReturns`) and everything about ENABLED are beyond TLAPS here and stay with TLC.
All invariants, action properties and refinements that the passing runs check are proved
as well. `BrokerLifecycleProofs` needs `MockOnly` for most of them, `HistorySafe` is about
homes with one broker, and `WorktreeSafe` about a removal that works; what the code does
where these do not hold is in section 8 or left to the runs.

The library's induction theorems take an operator as a parameter, which no installed prover
can instantiate; where a proof needs induction over numbers it uses `LeastNat` (section 7).

Not modelled, and why:

* discovery, doctor and certify: probes of the installation and reports about it; they
  change no state the broker reads;
* `recovery_contract.py`: a declaration of what each adapter can recover, which nothing
  acts on; `claim_capability_diagnostics.py`: warnings added to a result;
* argument schemas of the MCP tools and of the CLI, listings and public projections,
  redaction, the concise view of a result: shaping of data that is read elsewhere;
* bounds of captured output, text formats of the CLIs, JSON syntax, HTTP framing;
* the schema migration of the store, and SQLite's own locking: a statement is a step;
* reuse of process ids; the seconds in names of backups (`mcp_commands.py:380`), by which
  two backups of one second are one.
