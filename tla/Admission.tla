------------------------------ MODULE Admission ------------------------------
(***************************************************************************)
(* What the brokers of one home let in: the concurrency limit of a runtime *)
(* and the lineage limits create() checks, and the cost and rework policy  *)
(* start() checks against the tasks of the same tree.  Both count rows     *)
(* first and write theirs later, so that the operations of two brokers     *)
(* may count past each other; and every transition checks the state it has *)
(* read and updates the row afterwards, whatever its state is by then.     *)
(* The brokers resolve model profiles by one configuration, so that a      *)
(* profile recorded again is the same.                                     *)
(***************************************************************************)
EXTENDS TaskStates, Naturals, FiniteSets

CONSTANTS
    Broker,          \* broker processes on the home
    Task,            \* the tasks there is room for
    NoTask,
    Offers,          \* named sets of requests; a behaviour draws on one
    Worlds,          \* what a behaviour may fix: alone, readopts, offer
    MaxConcurrency,  \* ProfilePolicy.max_concurrency of the one runtime
    MaxAgents,       \* LineagePolicy.max_active_agents
    MaxChildren,     \* LineagePolicy.max_children_per_parent
    MaxDepth,        \* LineagePolicy.max_delegation_depth
    MaxTree,         \* MAX_TREE_NODES
    MaxPremium,      \* CostReworkPolicy.max_premium_tasks
    MaxRetries,      \* CostReworkPolicy.max_premium_retries_per_task
    MaxEscalations,  \* CostReworkPolicy.max_escalations_per_workflow
    Moved,           \* by offer, what operations other than these move to
    AllowHigher      \* CostReworkPolicy.allow_higher_cost_reexecution

Scope   == {"none", "targeted", "full"}
Class   == {"low", "standard", "premium", "unknown"}
Request == [parent : Task \cup {NoTask}, class : Class, policy : BOOLEAN,
            prior : Task \cup {NoTask}, scope : Scope]

ASSUME ConstantsAssumption ==
    /\ IsFiniteSet(Broker) /\ IsFiniteSet(Task) /\ NoTask \notin Task
    /\ \A name \in DOMAIN Offers : Offers[name] \subseteq Request
    /\ Worlds \subseteq [alone : BOOLEAN, readopts : BOOLEAN,
                          offer : DOMAIN Offers]
    /\ \A name \in DOMAIN Offers :
          Moved[name] \subseteq TaskState \ {"created", "queued", "preparing"}
    /\ AllowHigher \in BOOLEAN
    /\ {MaxConcurrency, MaxAgents, MaxChildren, MaxTree} \subseteq Nat \ {0}
    /\ {MaxDepth, MaxPremium, MaxRetries, MaxEscalations} \subseteq Nat

VARIABLES
    alone,     \* no two operations of different brokers overlap
    readopts,  \* a task that needs recovery may run again
    offer,     \* the name of the requests of this behaviour
    state,     \* tasks.state, or "absent"
    row,       \* the other columns of tasks, and the request artifact
    snapshot,  \* the tasks whose model_profile_resolution.json is written
    accepted,  \* the tasks start() has moved to preparing
    overwritten,  \* history: tasks updated from a state they were not in
    op         \* what a broker is in the middle of

store == <<state, row, snapshot, accepted, overwritten>>
fixed == <<alone, readopts, offer>>
vars  == <<fixed, store, op>>

NoRow == [root |-> NoTask]
Row   == [request : Request, root : Task, depth : 0..MaxDepth,
          born : 0..(Cardinality(Task) - 1)]
Idle  == [at |-> "idle"]

Operation ==
    {Idle} \cup [at : {"lineage", "insert"}, task : Task, request : Request]
           \cup [at : {"enqueue", "preflight", "reject", "prepare"},
                 task : Task]
           \cup [at : {"update"}, task : Task, from : TaskState,
                 to : TaskState]

TypeOK ==
    /\ alone \in BOOLEAN /\ readopts \in BOOLEAN /\ offer \in DOMAIN Offers
    /\ state \in [Task -> TaskState \cup {"absent"}]
    /\ row \in [Task -> Row \cup {NoRow}]
    /\ snapshot \subseteq Task /\ accepted \subseteq Task
    /\ overwritten \subseteq Task
    /\ op \in [Broker -> Operation]

Init ==
    /\ \E w \in Worlds :
          alone = w.alone /\ readopts = w.readopts /\ offer = w.offer
    /\ state = [t \in Task |-> "absent"]
    /\ row = [t \in Task |-> NoRow]
    /\ snapshot = {} /\ accepted = {} /\ overwritten = {}
    /\ op = [b \in Broker |-> Idle]

Rows == {t \in Task : state[t] # "absent"}

Ready(b) ==
    /\ op[b] = Idle
    /\ alone => \A c \in Broker : op[c] = Idle

At(b, point) == op[b].at = point
Stops(b) == op' = [op EXCEPT ![b] = Idle]
Proceeds(b, point) == op' = [op EXCEPT ![b].at = point]

(* store.transition: one statement reads the state, which must allow the   *)
(* move, ...                                                               *)
Checks(b, t, to) ==
    \/ /\ CanGo(state[t], to)
       /\ op' = [op EXCEPT ![b] = [at |-> "update", task |-> t,
                                   from |-> state[t], to |-> to]]
    \/ ~CanGo(state[t], to) /\ Stops(b)

(* ... and another updates the row.                                        *)
Update(b) ==
    /\ At(b, "update")
    /\ LET t == op[b].task IN
       /\ state' = [state EXCEPT ![t] = op[b].to]
       /\ accepted' = accepted \cup {u \in {t} : op[b].to = "preparing"}
       /\ overwritten' = overwritten \cup {u \in {t} : state[u] # op[b].from}
    /\ Stops(b)
    /\ UNCHANGED <<fixed, row, snapshot>>

-----------------------------------------------------------------------------
(* create(): two checks, the INSERT, the transition to queued.             *)

ActiveCount == Cardinality({t \in Task : state[t] \in ActiveState})

(* _validate_request.                                                      *)
CheckConcurrency(b, t) ==
    /\ Ready(b) /\ state[t] = "absent"
    /\ \A c \in Broker : op[c] # Idle => op[c].task # t   \* a fresh uuid
    /\ ActiveCount < MaxConcurrency
    /\ \E r \in Offers[offer] :
          op' = [op EXCEPT ![b] = [at |-> "lineage", task |-> t,
                                   request |-> r]]
    /\ UNCHANGED <<fixed, store>>

(* Fault: a task that needs recovery is not counted.                       *)
AgentCountRunning == ActiveCount

AgentCount ==
    Cardinality({t \in Task :
                    state[t] \in ActiveState \cup {"recovery_required"}})

Children(p) == {t \in Rows : row[t].request.parent = p}

(* resolve_lineage.                                                        *)
LineageAdmits(r) ==
    /\ r.parent # NoTask =>
          /\ r.parent \in Rows
          /\ Cardinality(Children(r.parent)) < MaxChildren
          /\ row[r.parent].depth + 1 <= MaxDepth
    /\ AgentCount < MaxAgents

CheckLineage(b) ==
    /\ At(b, "lineage")
    /\ IF LineageAdmits(op[b].request) THEN Proceeds(b, "insert") ELSE Stops(b)
    /\ UNCHANGED <<fixed, store>>

(* Fault: a request without a parent takes no root.                        *)
NewRowUnrooted(t, r) ==
    [request |-> r,
     root    |-> IF r.parent = NoTask THEN NoTask ELSE row[r.parent].root,
     depth   |-> 0, born |-> Cardinality(Rows)]

NewRow(t, r) ==
    [request |-> r,
     root    |-> IF r.parent = NoTask THEN t ELSE row[r.parent].root,
     depth   |-> IF r.parent = NoTask THEN 0 ELSE row[r.parent].depth + 1,
     born    |-> Cardinality(Rows)]

Insert(b) ==
    /\ At(b, "insert")
    /\ LET t == op[b].task IN
       /\ state' = [state EXCEPT ![t] = "created"]
       /\ row' = [row EXCEPT ![t] = NewRow(t, op[b].request)]
       /\ op' = [op EXCEPT ![b] = [at |-> "enqueue", task |-> t]]
    /\ UNCHANGED <<fixed, snapshot, accepted, overwritten>>

Enqueue(b) ==
    /\ At(b, "enqueue")
    /\ Checks(b, op[b].task, "queued")
    /\ UNCHANGED <<fixed, store>>

-----------------------------------------------------------------------------
(* start(): the model profile is recorded before the policy is asked.      *)

(* Fault: a task is counted from the moment it is being prepared.          *)
StartedOnceMoved(t) ==
    t \in snapshot /\ state[t] \notin {"created", "queued", "rejected"}

Started(t) == t \in snapshot /\ state[t] # "rejected"

(* list_tree_tasks: the first MaxTree rows of the tree.                    *)
Before(c, t) ==
    \/ row[c].depth < row[t].depth
    \/ row[c].depth = row[t].depth /\ row[c].born < row[t].born

TreeRows(root) == {t \in Rows : row[t].root = root}

Tree(root) ==
    {t \in TreeRows(root) :
        Cardinality({c \in TreeRows(root) : Before(c, t)}) < MaxTree}

(* compute_workflow_usage, as the tasks it counts.                         *)
Counted(t) == {c \in Tree(row[t].root) \ {t} : Started(c)}
Premium(S) == {c \in S : row[c].request.class = "premium"}
Full(S)    == {c \in S : row[c].request.scope = "full"}
RetriesOf(S, prior) ==
    {c \in Premium(S) : row[c].request.scope # "none"
                        /\ row[c].request.prior = prior}

(* _prior_task_satisfied: a success whose contract is satisfied.           *)
Satisfied(t) == state[t] = "succeeded"

Rank(class) == CASE class = "low" -> 1 [] class = "standard" -> 2
                 [] class = "premium" -> 3 [] OTHER -> 0

ReworkAdmitted(t) ==
    LET r == row[t].request IN
    r.scope # "none" =>
        /\ r.prior \in Rows
        /\ row[r.prior].root = row[t].root
        /\ r.scope = "full" /\ Satisfied(r.prior)
              /\ Rank(r.class) > (IF r.prior \in snapshot
                                  THEN Rank(row[r.prior].request.class) ELSE 0)
           => AllowHigher

WithinBudget(t) ==
    LET r == row[t].request  used == Counted(t)  with == used \cup {t} IN
    /\ Cardinality(Premium(with)) <= MaxPremium
    /\ r.scope # "none" /\ r.class = "premium" =>
          Cardinality(RetriesOf(with, r.prior)) <= MaxRetries
    /\ Cardinality(Full(with)) <= MaxEscalations

PolicyAdmits(t) ==
    row[t].request.policy =>
        /\ row[t].request.class # "unknown"
        /\ ReworkAdmitted(t)
        /\ WithinBudget(t)

(* start() may be called of any task, in any state.                        *)
RecordProfile(b, t) ==
    /\ Ready(b) /\ t \in Rows
    /\ snapshot' = snapshot \cup {t}
    /\ op' = [op EXCEPT ![b] = [at |-> "preflight", task |-> t]]
    /\ UNCHANGED <<fixed, state, row, accepted, overwritten>>

Preflight(b) ==
    /\ At(b, "preflight")
    /\ \/ PolicyAdmits(op[b].task) /\ Proceeds(b, "prepare")
       \/ ~PolicyAdmits(op[b].task) /\ Proceeds(b, "reject")
    /\ UNCHANGED <<fixed, store>>

Reject(b) ==
    /\ At(b, "reject")
    /\ Checks(b, op[b].task, "rejected")
    /\ UNCHANGED <<fixed, store>>

Prepare(b) ==
    /\ At(b, "prepare")
    /\ Checks(b, op[b].task, "preparing")
    /\ UNCHANGED <<fixed, store>>

-----------------------------------------------------------------------------
(* Every other operation, what start() does before and after this among    *)
(* them, as the transitions it makes; and a broker that is lost.           *)

Lives(b, t) ==
    /\ Ready(b) /\ t \in Rows
    /\ \E to \in Moved[offer] :
          /\ CanGo(state[t], to)
          /\ state[t] = "recovery_required" /\ to \in ActiveState => readopts
          /\ Checks(b, t, to)
    /\ UNCHANGED <<fixed, store>>

Crash(b) ==
    /\ op[b] # Idle
    /\ Stops(b)
    /\ UNCHANGED <<fixed, store>>

Creates(b) ==
    \/ \E t \in Task : CheckConcurrency(b, t)
    \/ CheckLineage(b) \/ Insert(b) \/ Enqueue(b)

Starts(b) ==
    \/ \E t \in Task : RecordProfile(b, t)
    \/ Preflight(b) \/ Reject(b) \/ Prepare(b)

Next ==
    \E b \in Broker :
        \/ Creates(b) \/ Starts(b) \/ Update(b) \/ Crash(b)
        \/ \E t \in Task : Lives(b, t)

Spec == Init /\ [][Next]_vars

-----------------------------------------------------------------------------
(* Properties.  Overlapping operations may exceed a limit, by what they    *)
(* were in the middle of when it was counted and no more.                  *)

Within(S, limit) == Cardinality(S) <= limit + IF alone THEN 0
                                              ELSE Cardinality(Broker) - 1

(* The concurrency limit of the runtime, if no task that needs recovery,   *)
(* which the limit does not count, becomes active again: one task per      *)
(* other broker may have been counted past or brought back by an update    *)
(* that was under way when it ended, never more.                           *)
ConcurrencyHolds ==
    ~readopts => Within({t \in Task : state[t] \in ActiveState}, MaxConcurrency)

(* The limits of the lineage policy count tasks that need recovery, and    *)
(* hold whatever recovery does: agents, ...                                *)
AgentsHold ==
    Within({t \in Rows : state[t] \notin TerminalState \cup {"created"}},
           MaxAgents)

(* ... and children of one parent, tasks of a lost create() included.      *)
ChildrenHold ==
    \A p \in Task :
        Within({t \in Rows : row[t].request.parent = p}, MaxChildren)

(* Rows form a forest: a child lies one below its parent, in its tree, and *)
(* no deeper than the policy allows, whoever inserted what in between.     *)
LineageIsForest ==
    \A t \in Rows :
        LET p == row[t].request.parent IN
        /\ row[t].depth <= MaxDepth
        /\ IF p = NoTask THEN row[t].root = t /\ row[t].depth = 0
           ELSE /\ p \in Rows /\ row[p].born < row[t].born
                /\ row[t].root = row[p].root
                /\ row[t].depth = row[p].depth + 1

(* The limits on what may run, and the shape of the trees it runs in.      *)
LimitsHold ==
    ConcurrencyHolds /\ AgentsHold /\ ChildrenHold /\ LineageIsForest

(* cost_rework_policy.py: the tasks of a tree that start() has let in      *)
(* under the policy stay within its budgets, even when two brokers start   *)
(* tasks of the tree at once: each records its profile before it counts,   *)
(* so that one of them sees the other.  This says nothing of a task that   *)
(* two brokers have moved at once: `rejected', written over a task that    *)
(* has just been let in, takes it out of every later count, and what is    *)
(* written over `rejected' brings a task back that others did not count.   *)
(* Operations that do not overlap write over nothing.                      *)
(* Of a tree of more than MaxTree tasks usage counts only the first.       *)
Admitted(root) ==
    {t \in accepted \ overwritten :
        row[t].root = root /\ row[t].request.policy}

BudgetHolds ==
    /\ alone => overwritten = {}
    /\ \A root \in Rows :
          Cardinality(TreeRows(root)) <= MaxTree
          => /\ Cardinality(Premium(Admitted(root))) <= MaxPremium
             /\ Cardinality(Full(Admitted(root))) <= MaxEscalations
             /\ \A p \in Task :
                   Cardinality(RetriesOf(Admitted(root), p)) <= MaxRetries
=============================================================================
