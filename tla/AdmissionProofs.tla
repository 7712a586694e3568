--------------------------- MODULE AdmissionProofs ---------------------------
(***************************************************************************)
(* The limits and budgets of Admission hold for any number of brokers and  *)
(* tasks.  A broker that has been counted in and has not written its row   *)
(* yet has reserved a place: what never exceeds a limit by more than one   *)
(* place per other broker is the rows together with the reservations.      *)
(***************************************************************************)
EXTENDS Admission, FiniteSetTheorems, TLAPS

-----------------------------------------------------------------------------
(* The inductive invariant.                                                *)

(* The tasks brokers are in the middle of creating at one of these points. *)
Reserved(points) ==
    {t \in Task : \E b \in Broker : op[b].at \in points /\ op[b].task = t}

(* The tasks brokers are about to update to one of these states.           *)
Coming(states) ==
    {t \in Task : \E b \in Broker : /\ op[b].at = "update" /\ op[b].task = t
                                    /\ op[b].to \in states}

(* Of these, the children of p whose row is not written.                   *)
ReservedChildren(p) ==
    {t \in Task : \E b \in Broker : /\ op[b].at = "insert" /\ op[b].task = t
                                    /\ op[b].request.parent = p}

(* What operations have in hand.  A task being created is nobody else's,   *)
(* and its parent is a row that has room below it.  An update follows a    *)
(* check, and nothing comes between them if operations do not overlap.     *)
OperationInv ==
    /\ alone => \A b, c \in Broker :
                    op[b].at # "idle" /\ op[c].at # "idle" => b = c
    /\ \A b \in Broker :
          op[b].at \in {"lineage", "insert"} => state[op[b].task] = "absent"
    /\ \A b, c \in Broker :
          /\ b # c
          /\ op[b].at \in {"lineage", "insert"} /\ op[c].at # "idle"
          => op[c].task # op[b].task
    /\ \A b \in Broker :
          op[b].at \in {"enqueue", "preflight", "reject", "prepare", "update"}
          => state[op[b].task] # "absent"
    /\ \A b \in Broker :
          op[b].at = "insert" /\ op[b].request.parent # NoTask
          => /\ op[b].request.parent \in Rows
             /\ row[op[b].request.parent].depth + 1 <= MaxDepth
    /\ \A b \in Broker :
          op[b].at = "update"
          => /\ CanGo(op[b].from, op[b].to)
             /\ alone => state[op[b].task] = op[b].from

(* Rows are numbered as they are written.                                  *)
RowsInv ==
    \A t \in Rows : row[t] \in Row /\ row[t].born < Cardinality(Rows)

ActiveTasks  == {t \in Task : state[t] \in ActiveState}
PresentTasks == {t \in Task : state[t] \in ActiveState
                                           \cup {"recovery_required"}}

(* Rows, reservations and updates under way together keep within each      *)
(* limit.                                                                  *)
ConcurrencyInv ==
    ~readopts =>
        Within(ActiveTasks \cup Reserved({"lineage", "insert", "enqueue"})
                   \cup Coming(ActiveState),
               MaxConcurrency)
AgentsInv ==
    Within(PresentTasks \cup Reserved({"insert", "enqueue"})
               \cup Coming(ActiveState \cup {"recovery_required"}),
           MaxAgents)
ChildrenInv ==
    \A p \in Task : Within(Children(p) \cup ReservedChildren(p), MaxChildren)

(* A broker that is about to move its task to preparing.                   *)
Passing(b) ==
    \/ op[b].at = "prepare"
    \/ op[b].at = "update" /\ op[b].to = "preparing"

(* The tasks a preflight has let pass under the policy, prepared or about  *)
(* to be, but for those that were written over.                            *)
Passed ==
    {t \in Task : /\ \/ t \in accepted
                     \/ \E b \in Broker : Passing(b) /\ op[b].task = t
                  /\ t \notin overwritten
                  /\ state[t] # "rejected"
                  /\ row[t].request.policy}
PassedOf(root) == {t \in Passed : row[t].root = root}

(* Whoever has passed a preflight has recorded its profile before: it is   *)
(* seen by every later count, unless it was written over.                  *)
ProfileInv ==
    /\ snapshot \subseteq Rows /\ accepted \subseteq snapshot
    /\ \A b \in Broker : op[b].at = "preflight" \/ Passing(b)
                         => op[b].task \in snapshot
    /\ \A t \in accepted \ overwritten :
          state[t] \notin {"absent", "created", "queued", "rejected"}
    /\ alone => overwritten = {}

BudgetInv ==
    \A root \in Task : Cardinality(TreeRows(root)) <= MaxTree =>
        /\ Cardinality(Premium(PassedOf(root))) <= MaxPremium
        /\ Cardinality(Full(PassedOf(root))) <= MaxEscalations
        /\ \A p \in Task :
              Cardinality(RetriesOf(PassedOf(root), p)) <= MaxRetries

ShapeInv == OperationInv /\ RowsInv /\ LineageIsForest /\ ProfileInv
IInv == TypeOK /\ ShapeInv /\ ConcurrencyInv /\ AgentsInv /\ ChildrenInv
        /\ BudgetInv

-----------------------------------------------------------------------------
(* Sets of tasks and of brokers.                                           *)

(* A set of values of a function has no more members than its arguments.   *)
LEMMA ImageBound ==
    ASSUME NEW B, IsFiniteSet(B), NEW f, NEW S,
           \A s \in S : \E c \in B : s = f[c]
    PROVE  IsFiniteSet(S) /\ Cardinality(S) <= Cardinality(B)
<1> DEFINE C == {c \in B : f[c] \in S}
           g == [c \in C |-> f[c]]
<1>1. IsFiniteSet(C) /\ Cardinality(C) <= Cardinality(B)
  BY FS_Subset
<1>2. g \in Surjection(C, S)
  BY DEF Surjection
<1>3. IsFiniteSet(S) /\ Cardinality(S) <= Cardinality(C)
  BY <1>1, <1>2, FS_Surjection
<1>4. /\ Cardinality(S) \in Nat /\ Cardinality(C) \in Nat
      /\ Cardinality(B) \in Nat
  BY <1>1, <1>3, FS_CardinalityType
<1>5. QED
  BY <1>1, <1>3, <1>4

(* A union has no more members than its parts.                             *)
LEMMA UnionBound ==
    ASSUME NEW S, IsFiniteSet(S), NEW T, IsFiniteSet(T)
    PROVE  /\ IsFiniteSet(S \cup T)
           /\ Cardinality(S \cup T) <= Cardinality(S) + Cardinality(T)
<1>1. IsFiniteSet(S \cap T)
  BY FS_Intersection
<1>2. Cardinality(S \cap T) \in Nat /\ Cardinality(S) \in Nat
      /\ Cardinality(T) \in Nat
  BY <1>1, FS_CardinalityType
<1>3. /\ IsFiniteSet(S \cup T)
      /\ Cardinality(S \cup T) =
            Cardinality(S) + Cardinality(T) - Cardinality(S \cap T)
  BY FS_Union, Zenon
<1>4. QED
  BY <1>2, <1>3

(* Less of what keeps within a limit keeps within it.                      *)
LEMMA WithinLess ==
    ASSUME NEW S, IsFiniteSet(S), NEW T \in SUBSET S, NEW limit \in Nat,
           Within(S, limit)
    PROVE  Within(T, limit)
<1>1. Cardinality(T) <= Cardinality(S) /\ IsFiniteSet(T)
  BY FS_Subset
<1>2. Cardinality(S) \in Nat /\ Cardinality(T) \in Nat
      /\ Cardinality(Broker) \in Nat
  BY <1>1, FS_CardinalityType, ConstantsAssumption
<1>3. QED
  BY <1>1, <1>2 DEF Within

(* There is room for one more below the limit, beside what every other     *)
(* broker has reserved.                                                    *)
LEMMA Room ==
    ASSUME NEW limit \in Nat,
           NEW S, IsFiniteSet(S), Cardinality(S) < limit,
           NEW others, IsFiniteSet(others),
           Cardinality(others) <= Cardinality(Broker) - 1,
           alone => others = {},
           NEW t
    PROVE  Within(S \cup others \cup {t}, limit)
<1>1. /\ IsFiniteSet(S \cup others)
      /\ Cardinality(S \cup others) <= Cardinality(S) + Cardinality(others)
  BY UnionBound
<1>2. Cardinality(S \cup others \cup {t}) <= Cardinality(S \cup others) + 1
  <2>1. Cardinality(S \cup others) \in Nat
    BY <1>1, FS_CardinalityType
  <2>2. Cardinality(S \cup others \cup {t}) =
           IF t \in S \cup others THEN Cardinality(S \cup others)
                                 ELSE Cardinality(S \cup others) + 1
    BY <1>1, FS_AddElement, Zenon
  <2>3. QED
    BY <2>1, <2>2
<1>3. /\ Cardinality(S) \in Nat /\ Cardinality(others) \in Nat
      /\ Cardinality(S \cup others) \in Nat
      /\ Cardinality(Broker) \in Nat
      /\ IsFiniteSet(S \cup others \cup {t})
  BY <1>1, FS_CardinalityType, FS_AddElement, ConstantsAssumption
<1>4. Cardinality(S \cup others \cup {t}) \in Nat
  BY <1>3, FS_CardinalityType
<1>5. CASE alone
  <2>1. others = {} /\ Cardinality(others) = 0
    BY <1>5, FS_EmptySet
  <2>2. QED
    BY <1>1, <1>2, <1>3, <1>4, <1>5, <2>1 DEF Within
<1>6. CASE ~alone
  BY <1>1, <1>2, <1>3, <1>4, <1>6 DEF Within
<1>7. QED
  BY <1>5, <1>6

LEMMA TasksFinite ==
    ASSUME NEW S \in SUBSET Task
    PROVE  IsFiniteSet(S) /\ Cardinality(S) \in Nat
  BY FS_Subset, FS_CardinalityType, ConstantsAssumption

(* Some of a set of tasks are no more than all of it.                      *)
LEMMA FewerTasks ==
    ASSUME NEW S \in SUBSET Task, NEW T \in SUBSET S, NEW n \in Nat,
           Cardinality(S) <= n
    PROVE  Cardinality(T) <= n
<1>1. IsFiniteSet(S) /\ Cardinality(S) \in Nat
  BY TasksFinite
<1>2. Cardinality(T) <= Cardinality(S) /\ IsFiniteSet(T)
  BY <1>1, FS_Subset
<1>3. Cardinality(T) \in Nat
  BY <1>2, FS_CardinalityType
<1>4. QED
  BY <1>1, <1>2, <1>3

-----------------------------------------------------------------------------
(* What operations have in hand, and the shape of the rows.                *)

(* The fields an operation has at each of its points.                      *)
LEMMA OpShape ==
    ASSUME TypeOK, NEW b \in Broker
    PROVE  /\ op[b].at \in {"idle", "lineage", "insert", "enqueue",
                            "preflight", "reject", "prepare", "update"}
           /\ op[b].at = "idle" <=> op[b] = Idle
           /\ op[b].at # "idle" => op[b].task \in Task
           /\ op[b].at \in {"lineage", "insert"} => op[b].request \in Request
           /\ op[b].at = "update" => /\ op[b].from \in TaskState
                                     /\ op[b].to \in TaskState
<1>1. op[b] \in Operation
  BY DEF TypeOK
<1>2. QED
  BY <1>1 DEF Operation, Idle

(* Every transition is asked for by start(), by create() or by another     *)
(* operation that begins with it.                                          *)
Decides(b, t, to) ==
    /\ Checks(b, t, to) /\ UNCHANGED <<fixed, store>>
    /\ t \in Rows
    /\ \/ op[b].at = "enqueue" /\ op[b].task = t /\ to = "queued"
       \/ op[b].at = "reject" /\ op[b].task = t /\ to = "rejected"
       \/ op[b].at = "prepare" /\ op[b].task = t /\ to = "preparing"
       \/ /\ Ready(b) /\ to \notin {"created", "queued", "preparing"}
          /\ state[t] = "recovery_required" /\ to \in ActiveState => readopts

LEMMA Decided ==
    ASSUME TypeOK, ShapeInv, NEW b \in Broker,
           \/ Enqueue(b) \/ Reject(b) \/ Prepare(b)
           \/ \E t \in Task : Lives(b, t)
    PROVE  \E t \in Task, to \in TaskState : Decides(b, t, to)
<1>1. op[b].at \in {"enqueue", "reject", "prepare"}
      => op[b].task \in Task /\ op[b].task \in Rows
  BY OpShape DEF ShapeInv, OperationInv, Rows
<1>2. {"queued", "rejected", "preparing"} \subseteq TaskState
  BY DEF TaskState
<1>3. CASE Enqueue(b)
  BY <1>1, <1>2, <1>3 DEF Enqueue, At, Decides
<1>4. CASE Reject(b)
  BY <1>1, <1>2, <1>4 DEF Reject, At, Decides
<1>5. CASE Prepare(b)
  BY <1>1, <1>2, <1>5 DEF Prepare, At, Decides
<1>6. ASSUME NEW t \in Task, Lives(b, t)
      PROVE  \E to \in TaskState : Decides(b, t, to)
  <2>1. Moved[offer] \subseteq TaskState \ {"created", "queued", "preparing"}
    BY ConstantsAssumption DEF TypeOK
  <2>2. QED
    BY <1>6, <2>1 DEF Lives, Decides
<1>7. QED
  BY <1>3, <1>4, <1>5, <1>6

(* A check leaves everything as it is but what the broker has in hand.     *)
LEMMA CheckShape ==
    ASSUME TypeOK, NEW b \in Broker, NEW t \in Task, NEW to \in TaskState,
           Decides(b, t, to)
    PROVE  /\ UNCHANGED <<fixed, store>>
           /\ \A c \in Broker \ {b} : op'[c] = op[c]
           /\ state[t] # "absent" /\ state[t] \in TaskState
           /\ \/ op'[b] = Idle
              \/ /\ CanGo(state[t], to)
                 /\ op'[b] = [at |-> "update", task |-> t,
                              from |-> state[t], to |-> to]
<1>1. op \in [Broker -> Operation]
      /\ state \in [Task -> TaskState \cup {"absent"}]
  BY DEF TypeOK
<1>2. t \in Rows /\ UNCHANGED <<fixed, store>> /\ Checks(b, t, to)
  BY DEF Decides
<1>3. QED
  BY <1>1, <1>2 DEF Checks, Stops, Rows

(* A broker that goes on keeps its task and its request; the others keep   *)
(* what they have.                                                         *)
LEMMA LineageShape ==
    ASSUME TypeOK, NEW b \in Broker, CheckLineage(b)
    PROVE  /\ op[b].at = "lineage" /\ UNCHANGED <<fixed, store>>
           /\ \A c \in Broker \ {b} : op'[c] = op[c]
           /\ \/ op'[b] = Idle
              \/ /\ LineageAdmits(op[b].request)
                 /\ op'[b].at = "insert" /\ op'[b].task = op[b].task
                 /\ op'[b].request = op[b].request
<1>1. op \in [Broker -> Operation]
  BY DEF TypeOK
<1>2. op[b].at = "lineage" /\ UNCHANGED <<fixed, store>>
  BY DEF CheckLineage, At
<1>3. op[b] \in [at : {"lineage"}, task : Task, request : Request]
  BY <1>1, <1>2 DEF Operation, Idle
<1>4. CASE Stops(b)
  BY <1>1, <1>2, <1>4 DEF Stops
<1>5. CASE LineageAdmits(op[b].request) /\ Proceeds(b, "insert")
  BY <1>1, <1>2, <1>3, <1>5 DEF Proceeds
<1>6. QED
  BY <1>4, <1>5 DEF CheckLineage

LEMMA PreflightShape ==
    ASSUME TypeOK, NEW b \in Broker, Preflight(b)
    PROVE  /\ op[b].at = "preflight" /\ UNCHANGED <<fixed, store>>
           /\ \A c \in Broker \ {b} : op'[c] = op[c]
           /\ op'[b].task = op[b].task
           /\ \/ op'[b].at = "prepare" /\ PolicyAdmits(op[b].task)
              \/ op'[b].at = "reject"
<1>1. op \in [Broker -> Operation]
  BY DEF TypeOK
<1>2. op[b].at = "preflight" /\ UNCHANGED <<fixed, store>>
  BY DEF Preflight, At
<1>3. op[b] \in [at : {"preflight"}, task : Task]
  BY <1>1, <1>2 DEF Operation, Idle
<1>4. CASE PolicyAdmits(op[b].task) /\ Proceeds(b, "prepare")
  BY <1>1, <1>2, <1>3, <1>4 DEF Proceeds
<1>5. CASE Proceeds(b, "reject")
  BY <1>1, <1>2, <1>3, <1>5 DEF Proceeds
<1>6. QED
  BY <1>4, <1>5 DEF Preflight

(* An update moves one task, to where a check allowed it to go.            *)
LEMMA UpdateShape ==
    ASSUME TypeOK, ShapeInv, NEW b \in Broker, Update(b)
    PROVE  LET t == op[b].task IN
           /\ op[b].at = "update" /\ t \in Task /\ state[t] # "absent"
           /\ op[b].from \in TaskState /\ op[b].to \in TaskState
           /\ CanGo(op[b].from, op[b].to)
           /\ op[b].from \notin TerminalState
           /\ op[b].to \notin {"absent", "created"}
           /\ op'[b] = Idle /\ \A c \in Broker \ {b} : op'[c] = op[c]
           /\ state'[t] = op[b].to
           /\ \A u \in Task \ {t} : state'[u] = state[u]
           /\ op[b].to = "preparing" => accepted' = accepted \cup {t}
           /\ op[b].to # "preparing" => accepted' = accepted
           /\ state[t] # op[b].from => overwritten' = overwritten \cup {t}
           /\ state[t] = op[b].from => overwritten' = overwritten
           /\ UNCHANGED <<fixed, row, snapshot>>
<1>1. /\ op[b].at = "update" /\ op[b].task \in Task
      /\ op[b].from \in TaskState /\ op[b].to \in TaskState
  BY OpShape DEF Update, At
<1>2. state[op[b].task] # "absent" /\ CanGo(op[b].from, op[b].to)
  BY <1>1 DEF ShapeInv, OperationInv
<1>3. /\ op[b].from \notin TerminalState
      /\ op[b].to \notin {"absent", "created"}
  BY <1>2 DEF CanGo, TerminalState, SuccessState
<1>4. op \in [Broker -> Operation]
      /\ state \in [Task -> TaskState \cup {"absent"}]
  BY DEF TypeOK
<1>5. QED
  BY <1>1, <1>2, <1>3, <1>4 DEF Update, Stops

(* At the beginning there is no row and no operation.                      *)
LEMMA IInvInit == Init => IInv
<1> SUFFICES ASSUME Init PROVE IInv
  OBVIOUS
<1>1. Rows = {} /\ ActiveTasks = {} /\ PresentTasks = {} /\ accepted = {}
      /\ snapshot = {} /\ overwritten = {}
  BY DEF Init, Rows, ActiveTasks, PresentTasks, ActiveState
<1>2. /\ \A points \in SUBSET {"lineage", "insert", "enqueue"} :
            Reserved(points) = {}
      /\ \A states : Coming(states) = {}
      /\ \A p : ReservedChildren(p) = {} /\ Children(p) = {}
  BY <1>1 DEF Init, Reserved, Coming, ReservedChildren, Children, Idle
<1>3. TypeOK
  BY ConstantsAssumption DEF Init, TypeOK, Operation
<1>4. \A limit \in Nat \ {0} : Within({}, limit)
  BY FS_EmptySet, FS_CardinalityType, ConstantsAssumption DEF Within
<1>5. ConcurrencyInv /\ AgentsInv /\ ChildrenInv
  BY <1>1, <1>2, <1>4, ConstantsAssumption
     DEF ConcurrencyInv, AgentsInv, ChildrenInv
<1>6. OperationInv /\ RowsInv /\ LineageIsForest /\ ProfileInv
  BY <1>1 DEF Init, OperationInv, RowsInv, LineageIsForest, ProfileInv, Idle,
              Passing
<1>7. Passed = {}
  BY <1>1 DEF Init, Passed, Passing, Idle
<1>8. BudgetInv
  <2>1. \A root : PassedOf(root) = {}
    BY <1>7 DEF PassedOf
  <2>2. /\ Premium({}) = {} /\ Full({}) = {}
        /\ \A p : RetriesOf({}, p) = {}
    BY DEF Premium, Full, RetriesOf
  <2>3. /\ Cardinality({}) = 0
        /\ {MaxPremium, MaxEscalations, MaxRetries} \subseteq Nat
    BY FS_EmptySet, ConstantsAssumption
  <2>4. SUFFICES ASSUME NEW root \in Task
                 PROVE  /\ Cardinality(Premium(PassedOf(root))) <= MaxPremium
                        /\ Cardinality(Full(PassedOf(root))) <= MaxEscalations
                        /\ \A p \in Task :
                              Cardinality(RetriesOf(PassedOf(root), p))
                                  <= MaxRetries
    BY DEF BudgetInv
  <2>5. PassedOf(root) = {}
    BY <2>1
  <2>6. QED
    BY <2>2, <2>3, <2>5
<1>9. QED
  BY <1>3, <1>5, <1>6, <1>8 DEF IInv, ShapeInv

(* The row create() writes: one below its parent, in its tree, numbered.   *)
LEMMA NewRowShape ==
    ASSUME TypeOK, ShapeInv, NEW b \in Broker, op[b].at = "insert"
    PROVE  LET r == op[b].request  n == NewRow(op[b].task, r) IN
           /\ r \in Request /\ n \in Row
           /\ n.request = r /\ n.born = Cardinality(Rows)
           /\ IF r.parent = NoTask
              THEN n.root = op[b].task /\ n.depth = 0
              ELSE /\ r.parent \in Rows
                   /\ n.root = row[r.parent].root
                   /\ n.depth = row[r.parent].depth + 1
<1> DEFINE t == op[b].task
           r == op[b].request
<1>1. t \in Task /\ r \in Request /\ state[t] = "absent"
  BY OpShape DEF ShapeInv, OperationInv
<1>2. Cardinality(Rows) \in 0..(Cardinality(Task) - 1)
  <2>1. Rows \in SUBSET (Task \ {t})
    BY <1>1 DEF Rows
  <2>2. IsFiniteSet(Task \ {t})
        /\ Cardinality(Task \ {t}) = Cardinality(Task) - 1
    BY <1>1, FS_RemoveElement, ConstantsAssumption
  <2>3. Cardinality(Rows) <= Cardinality(Task) - 1
    BY <2>1, <2>2, FS_Subset
  <2>4. Rows \in SUBSET Task
    BY DEF Rows
  <2>5. Cardinality(Rows) \in Nat /\ Cardinality(Task) \in Nat
    BY <2>4, TasksFinite
  <2>6. QED
    BY <2>3, <2>5
<1>3. CASE r.parent = NoTask
  BY <1>1, <1>2, <1>3, ConstantsAssumption DEF NewRow, Row
<1>4. CASE r.parent # NoTask
  <2>1. r.parent \in Rows /\ row[r.parent].depth + 1 <= MaxDepth
    BY <1>4 DEF ShapeInv, OperationInv
  <2>2. row[r.parent] \in Row
    BY <2>1 DEF ShapeInv, RowsInv
  <2>3. row[r.parent].root \in Task /\ row[r.parent].depth \in 0..MaxDepth
    BY <2>2 DEF Row
  <2>4. row[r.parent].depth + 1 \in 0..MaxDepth
    BY <2>1, <2>3, ConstantsAssumption
  <2>5. QED
    BY <1>1, <1>2, <1>4, <2>1, <2>3, <2>4 DEF NewRow, Row
<1>5. QED
  BY <1>3, <1>4

(* Every step is an action of one broker, or none.                         *)
LEMMA StepIs ==
    ASSUME TypeOK, ShapeInv, [Next]_vars
    PROVE  \/ \E b \in Broker :
                 \/ \E t \in Task : CheckConcurrency(b, t)
                 \/ CheckLineage(b) \/ Insert(b)
                 \/ \E t \in Task : RecordProfile(b, t)
                 \/ Preflight(b)
                 \/ \E t \in Task, to \in TaskState : Decides(b, t, to)
                 \/ Update(b) \/ Crash(b)
           \/ UNCHANGED vars
<1>1. ASSUME NEW b \in Broker,
             \/ Enqueue(b) \/ Reject(b) \/ Prepare(b)
             \/ \E t \in Task : Lives(b, t)
      PROVE  \E t \in Task, to \in TaskState : Decides(b, t, to)
  BY <1>1, Decided
<1>2. QED
  BY <1>1 DEF Next, Creates, Starts

LEMMA TypeStep ==
    ASSUME TypeOK, ShapeInv, [Next]_vars
    PROVE  TypeOK'
<1> USE DEF TypeOK, fixed, store, At, Stops, Proceeds
<1>1. ASSUME NEW b \in Broker, NEW t \in Task, CheckConcurrency(b, t)
      PROVE  TypeOK'
  <2>1. Offers[offer] \subseteq Request
    BY ConstantsAssumption
  <2>2. QED
    BY <1>1, <2>1 DEF CheckConcurrency, Operation
<1>2. ASSUME NEW b \in Broker, CheckLineage(b) PROVE TypeOK'
  <2>1. op[b] \in [at : {"lineage"}, task : Task, request : Request]
    BY <1>2 DEF CheckLineage, Idle, Operation
  <2>2. QED
    BY <1>2, <2>1 DEF CheckLineage, Operation
<1>3. ASSUME NEW b \in Broker, Insert(b) PROVE TypeOK'
  <2>1. op[b].at = "insert" /\ op[b].task \in Task
    BY <1>3, OpShape DEF Insert
  <2>2. NewRow(op[b].task, op[b].request) \in Row
    BY <2>1, NewRowShape
  <2>3. QED
    BY <1>3, <2>1, <2>2 DEF Insert, Operation, TaskState
<1>4. ASSUME NEW b \in Broker, NEW t \in Task, RecordProfile(b, t)
      PROVE  TypeOK'
  BY <1>4 DEF RecordProfile, Operation
<1>5. ASSUME NEW b \in Broker, Preflight(b) PROVE TypeOK'
  <2>1. op[b] \in [at : {"preflight"}, task : Task]
    BY <1>5 DEF Preflight, Idle, Operation
  <2>2. QED
    BY <1>5, <2>1 DEF Preflight, Operation
<1>6. ASSUME NEW b \in Broker, NEW t \in Task, NEW to \in TaskState,
             Decides(b, t, to)
      PROVE  TypeOK'
  <2>1. op'[b] \in Operation
    <3>1. \/ op'[b] = Idle
          \/ /\ state[t] \in TaskState
             /\ op'[b] = [at |-> "update", task |-> t,
                          from |-> state[t], to |-> to]
      BY <1>6, CheckShape
    <3>2. [at |-> "update", task |-> t, from |-> state[t], to |-> to]
             \in [at : {"update"}, task : Task, from : TaskState,
                  to : TaskState] \/ state[t] \notin TaskState
      OBVIOUS
    <3>3. QED
      BY <3>1, <3>2 DEF Operation
  <2>2. op' = [op EXCEPT ![b] = op'[b]] /\ UNCHANGED <<fixed, store>>
    BY <1>6 DEF Decides, Checks
  <2>3. QED
    BY <2>1, <2>2
<1>7. ASSUME NEW b \in Broker, Update(b) PROVE TypeOK'
  <2>1. op[b].task \in Task /\ op[b].to \in TaskState
    BY <1>7, UpdateShape
  <2>2. QED
    BY <1>7, <2>1 DEF Update, Operation
<1>8. ASSUME NEW b \in Broker, Crash(b) PROVE TypeOK'
  BY <1>8 DEF Crash, Operation
<1>9. CASE UNCHANGED vars
  BY <1>9 DEF vars
<1>10. QED
  BY <1>1, <1>2, <1>3, <1>4, <1>5, <1>6, <1>7, <1>8, <1>9, StepIs

(* The circumstances of a behaviour do not change, a row that is written   *)
(* stays as it is, and no task becomes absent again.                       *)
LEMMA RowsStay ==
    ASSUME TypeOK, ShapeInv, [Next]_vars
    PROVE  /\ UNCHANGED fixed
           /\ Rows \subseteq Rows'
           /\ \A t \in Rows : row'[t] = row[t]
           /\ (\A b \in Broker : ~Insert(b)) => Rows' = Rows
<1> USE DEF TypeOK, fixed, store, Rows
<1>1. ASSUME NEW b \in Broker, Insert(b)
      PROVE  /\ UNCHANGED fixed
             /\ \A t \in Task \ {op[b].task} :
                   state'[t] = state[t] /\ row'[t] = row[t]
             /\ state[op[b].task] = "absent" /\ state'[op[b].task] = "created"
  BY <1>1, OpShape DEF Insert, At, ShapeInv, OperationInv
<1>2. ASSUME NEW b \in Broker,
             \/ \E t \in Task : CheckConcurrency(b, t) \/ RecordProfile(b, t)
             \/ CheckLineage(b) \/ Preflight(b) \/ Crash(b)
             \/ \E t \in Task, to \in TaskState : Decides(b, t, to)
      PROVE  UNCHANGED <<fixed, state, row>>
  BY <1>2 DEF CheckConcurrency, CheckLineage, RecordProfile, Preflight, Crash,
              Decides
<1>3. ASSUME NEW b \in Broker, Update(b)
      PROVE  /\ UNCHANGED <<fixed, row>>
             /\ \A t \in Task : state'[t] = "absent" <=> state[t] = "absent"
  BY <1>3, UpdateShape
<1>4. CASE UNCHANGED vars
  BY <1>4 DEF vars
<1>5. CASE \E b \in Broker : Insert(b)
  BY <1>1, <1>5
<1>6. CASE UNCHANGED <<fixed, state, row>>
  BY <1>6
<1>7. CASE \E b \in Broker : Update(b)
  BY <1>3, <1>7
<1>8. QED
  BY <1>2, <1>4, <1>5, <1>6, <1>7, StepIs

(* What one broker has in hand, another does not take away.                *)
LEMMA OperationStep ==
    ASSUME TypeOK, ShapeInv, [Next]_vars
    PROVE  OperationInv'
<1> USE DEF OperationInv, fixed, store, At, Stops, Proceeds
<1>0. /\ OperationInv /\ op \in [Broker -> Operation]
      /\ state \in [Task -> TaskState \cup {"absent"}]
  BY DEF ShapeInv, TypeOK
<1>a. /\ UNCHANGED fixed /\ Rows \subseteq Rows'
      /\ \A t \in Rows : row'[t] = row[t]
  BY RowsStay
<1>b. \A b \in Broker : /\ op[b].at = "idle" <=> op[b] = Idle
                        /\ op[b].at # "idle" => op[b].task \in Task
  BY OpShape
<1>c. \A t \in Task : state[t] # "absent" => state'[t] # "absent"
  BY <1>a DEF Rows
<1>d. Idle.at = "idle"
  BY DEF Idle
<1>1. ASSUME NEW b \in Broker, NEW t \in Task, CheckConcurrency(b, t)
      PROVE  OperationInv'
  <2>1. PICK r \in Offers[offer] :
           op' = [op EXCEPT ![b] = [at |-> "lineage", task |-> t,
                                    request |-> r]]
    BY <1>1 DEF CheckConcurrency
  <2>2. /\ state[t] = "absent" /\ UNCHANGED <<state, row, alone>>
        /\ alone => \A c \in Broker : op[c] = Idle
        /\ \A c \in Broker : op[c].at # "idle" => op[c].task # t
    BY <1>1, <1>b DEF CheckConcurrency, Ready
  <2>3. QED
    BY <1>0, <1>a, <1>d, <2>1, <2>2 DEF Rows
<1>2. ASSUME NEW b \in Broker, CheckLineage(b) PROVE OperationInv'
  <2>1. op[b].at = "lineage" /\ UNCHANGED <<state, row, alone>>
    BY <1>2 DEF CheckLineage
  <2>2. CASE LineageAdmits(op[b].request) /\ Proceeds(b, "insert")
    BY <1>0, <2>1, <2>2 DEF LineageAdmits, Rows
  <2>3. CASE Stops(b)
    BY <1>0, <1>d, <2>1, <2>3 DEF Rows
  <2>4. QED
    BY <1>2, <2>2, <2>3 DEF CheckLineage
<1>3. ASSUME NEW b \in Broker, Insert(b) PROVE OperationInv'
  <2>1. op[b].at = "insert" /\ op[b].task \in Task
    BY <1>3, OpShape DEF Insert
  <2>2. /\ state' = [state EXCEPT ![op[b].task] = "created"]
        /\ op' = [op EXCEPT ![b] = [at |-> "enqueue", task |-> op[b].task]]
    BY <1>3 DEF Insert
  <2>3. QED
    BY <1>0, <1>a, <1>b, <1>c, <2>1, <2>2 DEF Rows
<1>4. ASSUME NEW b \in Broker, op'[b] = Idle,
             \A c \in Broker \ {b} : op'[c] = op[c],
             \A t \in Task : state[t] = "absent" => state'[t] = "absent",
             alone => \A c \in Broker \ {b} : op[c].at = "idle"
      PROVE  OperationInv'
  BY <1>0, <1>a, <1>b, <1>c, <1>d, <1>4
<1>5. ASSUME NEW b \in Broker, NEW t \in Task, RecordProfile(b, t)
      PROVE  OperationInv'
  <2>1. /\ state[t] # "absent" /\ UNCHANGED <<state, row, alone>>
        /\ alone => \A c \in Broker : op[c] = Idle
        /\ op' = [op EXCEPT ![b] = [at |-> "preflight", task |-> t]]
    BY <1>5 DEF RecordProfile, Ready, Rows
  <2>2. QED
    BY <1>0, <1>a, <1>d, <2>1 DEF Rows
<1>6. ASSUME NEW b \in Broker, Preflight(b) PROVE OperationInv'
  <2>1. /\ op[b].at = "preflight" /\ UNCHANGED <<state, row, alone>>
        /\ \A c \in Broker \ {b} : op'[c] = op[c]
        /\ op'[b].task = op[b].task /\ op'[b].at \in {"prepare", "reject"}
    BY <1>6, PreflightShape
  <2>2. QED
    BY <1>0, <1>a, <2>1 DEF Rows
<1>7. ASSUME NEW b \in Broker, NEW t \in Task, NEW to \in TaskState,
             Decides(b, t, to)
      PROVE  OperationInv'
  <2>1. /\ UNCHANGED <<state, row, alone>> /\ state[t] # "absent"
        /\ \A c \in Broker \ {b} : op'[c] = op[c]
        /\ \/ op'[b] = Idle
           \/ /\ CanGo(state[t], to)
              /\ op'[b] = [at |-> "update", task |-> t,
                           from |-> state[t], to |-> to]
    BY <1>7, CheckShape
  <2>2. alone => \A c \in Broker \ {b} : op[c].at = "idle"
    BY <1>0, <1>7, <1>d DEF Decides, Ready
  <2>3. \A c \in Broker \ {b} : op[c].at \in {"lineage", "insert"}
                                => op[c].task # t
    BY <1>0, <2>1
  <2>4. CASE op'[b] = Idle
    BY <1>4, <2>1, <2>2, <2>4
  <2>5. CASE op'[b] = [at |-> "update", task |-> t,
                       from |-> state[t], to |-> to]
             /\ CanGo(state[t], to)
    BY <1>0, <1>a, <1>b, <1>d, <2>1, <2>2, <2>3, <2>5 DEF Rows
  <2>6. QED
    BY <2>1, <2>4, <2>5
<1>8. ASSUME NEW b \in Broker, Update(b) PROVE OperationInv'
  <2>1. /\ op[b].at = "update" /\ state[op[b].task] # "absent"
        /\ op'[b] = Idle /\ \A c \in Broker \ {b} : op'[c] = op[c]
        /\ \A u \in Task \ {op[b].task} : state'[u] = state[u]
    BY <1>8, UpdateShape
  <2>2. alone => \A c \in Broker \ {b} : op[c].at = "idle"
    BY <1>0, <2>1
  <2>3. QED
    BY <1>4, <2>1, <2>2
<1>9. ASSUME NEW b \in Broker, Crash(b) PROVE OperationInv'
  <2>1. /\ op[b].at # "idle" /\ op' = [op EXCEPT ![b] = Idle]
        /\ UNCHANGED state
    BY <1>9, <1>b DEF Crash
  <2>2. alone => \A c \in Broker \ {b} : op[c].at = "idle"
    BY <1>0, <2>1
  <2>3. QED
    BY <1>0, <1>4, <2>1, <2>2
<1>10. CASE UNCHANGED vars
  BY <1>0, <1>10 DEF vars, Rows
<1>11. QED
  BY <1>1, <1>2, <1>3, <1>5, <1>6, <1>7, <1>8, <1>9, <1>10, StepIs

(* Rows keep their numbers, and what was written is below its parent.      *)
LEMMA ForestStep ==
    ASSUME TypeOK, ShapeInv, [Next]_vars
    PROVE  RowsInv' /\ LineageIsForest'
<1>1. /\ Rows \subseteq Rows' /\ \A t \in Rows : row'[t] = row[t]
      /\ UNCHANGED fixed
  BY RowsStay
<1>2. /\ Cardinality(Rows) \in Nat /\ Cardinality(Rows') \in Nat
      /\ Cardinality(Rows) <= Cardinality(Rows')
  <2>1. Rows \in SUBSET Task /\ Rows' \in SUBSET Task
    BY DEF Rows
  <2>2. QED
    BY <1>1, <2>1, TasksFinite, FS_Subset
<1>3. \A t \in Rows : row[t] \in Row /\ row[t].born \in Nat
                      /\ row[t].born < Cardinality(Rows)
  BY DEF ShapeInv, RowsInv, Row
<1>4. \A t \in Rows : LET p == row[t].request.parent IN
          /\ row[t].depth <= MaxDepth
          /\ IF p = NoTask THEN row[t].root = t /\ row[t].depth = 0
             ELSE /\ p \in Rows /\ row[p].born < row[t].born
                  /\ row[t].root = row[p].root
                  /\ row[t].depth = row[p].depth + 1
  BY DEF ShapeInv, LineageIsForest
<1>5. CASE Rows' = Rows
  <2>1. RowsInv'
    BY <1>1, <1>3, <1>5 DEF RowsInv
  <2>2. LineageIsForest'
    BY <1>1, <1>4, <1>5 DEF LineageIsForest
  <2>3. QED
    BY <2>1, <2>2
<1>6. ASSUME NEW b \in Broker, Insert(b) PROVE RowsInv' /\ LineageIsForest'
  <2> DEFINE t == op[b].task
             r == op[b].request
             n == NewRow(t, r)
  <2>1. /\ t \in Task /\ state[t] = "absent" /\ op[b].at = "insert"
        /\ state' = [state EXCEPT ![t] = "created"]
        /\ row' = [row EXCEPT ![t] = n]
    BY <1>6, OpShape DEF Insert, At, ShapeInv, OperationInv
  <2>2. /\ n \in Row /\ n.request = r /\ n.born = Cardinality(Rows)
        /\ IF r.parent = NoTask THEN n.root = t /\ n.depth = 0
           ELSE /\ r.parent \in Rows /\ n.root = row[r.parent].root
                /\ n.depth = row[r.parent].depth + 1
    BY <2>1, NewRowShape
  <2>3. Rows' = Rows \cup {t} /\ t \notin Rows /\ row'[t] = n
    BY <2>1 DEF Rows, TypeOK
  <2>4. Cardinality(Rows') = Cardinality(Rows) + 1
    <3>1. Rows \in SUBSET Task
      BY DEF Rows
    <3>2. QED
      BY <2>3, <3>1, TasksFinite, FS_AddElement
  <2>5. RowsInv'
    BY <1>1, <1>2, <1>3, <2>2, <2>3, <2>4 DEF RowsInv
  <2>6. ASSUME NEW u \in Rows', u # t
        PROVE  LET p == row'[u].request.parent IN
               /\ row'[u].depth <= MaxDepth
               /\ IF p = NoTask THEN row'[u].root = u /\ row'[u].depth = 0
                  ELSE /\ p \in Rows' /\ row'[p].born < row'[u].born
                       /\ row'[u].root = row'[p].root
                       /\ row'[u].depth = row'[p].depth + 1
    BY <1>1, <1>4, <2>3, <2>6
  <2>7. /\ row'[t].depth <= MaxDepth
        /\ IF r.parent = NoTask THEN row'[t].root = t /\ row'[t].depth = 0
           ELSE /\ r.parent \in Rows' /\ row'[r.parent].born < row'[t].born
                /\ row'[t].root = row'[r.parent].root
                /\ row'[t].depth = row'[r.parent].depth + 1
    <3>1. n.depth <= MaxDepth
      BY <2>2, ConstantsAssumption DEF Row
    <3>2. CASE r.parent = NoTask
      BY <2>2, <2>3, <3>1, <3>2
    <3>3. CASE r.parent # NoTask
      BY <1>1, <1>3, <2>2, <2>3, <3>1, <3>3
    <3>4. QED
      BY <3>2, <3>3
  <2>8. row'[t].request.parent = r.parent
    BY <2>2, <2>3
  <2>9. LineageIsForest'
    BY <2>3, <2>6, <2>7, <2>8 DEF LineageIsForest
  <2>10. QED
    BY <2>5, <2>9
<1>7. CASE \A b \in Broker : ~Insert(b)
  BY <1>5, <1>7, RowsStay
<1>8. QED
  BY <1>6, <1>7

(* Who is about to start a task has recorded its profile.                  *)
LEMMA ProfileStep ==
    ASSUME TypeOK, ShapeInv, [Next]_vars
    PROVE  ProfileInv'
<1> USE DEF ProfileInv, Passing, fixed, store, At, Stops, Proceeds
<1>0. /\ ProfileInv /\ op \in [Broker -> Operation]
      /\ state \in [Task -> TaskState \cup {"absent"}]
      /\ snapshot \subseteq Task /\ accepted \subseteq Task
  BY DEF ShapeInv, TypeOK
<1>a. Rows \subseteq Rows' /\ UNCHANGED fixed
  BY RowsStay
<1>b. \A b \in Broker : op[b].at # "idle" => op[b].task \in Task
  BY OpShape
<1>c. Idle.at = "idle"
  BY DEF Idle
<1>1. ASSUME NEW b \in Broker, NEW t \in Task, CheckConcurrency(b, t)
      PROVE  ProfileInv'
  BY <1>0, <1>a, <1>1 DEF CheckConcurrency
<1>2. ASSUME NEW b \in Broker, CheckLineage(b) PROVE ProfileInv'
  <2>1. /\ UNCHANGED store /\ op'[b].at \in {"idle", "insert"}
        /\ \A c \in Broker \ {b} : op'[c] = op[c]
    BY <1>2, <1>c, LineageShape
  <2>2. QED
    BY <1>0, <1>a, <2>1
<1>3. ASSUME NEW b \in Broker, Insert(b) PROVE ProfileInv'
  <2>1. op[b].task \in Task /\ state[op[b].task] = "absent"
    BY <1>3, <1>b DEF Insert, ShapeInv, OperationInv
  <2>2. QED
    BY <1>0, <1>a, <1>3, <2>1 DEF Insert
<1>4. ASSUME NEW b \in Broker, NEW t \in Task, RecordProfile(b, t)
      PROVE  ProfileInv'
  BY <1>0, <1>a, <1>4 DEF RecordProfile
<1>5. ASSUME NEW b \in Broker, Preflight(b) PROVE ProfileInv'
  <2>1. /\ op[b].at = "preflight" /\ UNCHANGED store
        /\ \A c \in Broker \ {b} : op'[c] = op[c]
        /\ op'[b].task = op[b].task /\ op'[b].at \in {"prepare", "reject"}
    BY <1>5, PreflightShape
  <2>2. QED
    BY <1>0, <1>a, <2>1
<1>6. ASSUME NEW b \in Broker, NEW t \in Task, NEW to \in TaskState,
             Decides(b, t, to)
      PROVE  ProfileInv'
  <2>1. /\ UNCHANGED store /\ \A c \in Broker \ {b} : op'[c] = op[c]
        /\ \/ op'[b] = Idle
           \/ op'[b] = [at |-> "update", task |-> t,
                        from |-> state[t], to |-> to]
    BY <1>6, CheckShape
  <2>2. to = "preparing" => op[b].at = "prepare" /\ op[b].task = t
    BY <1>6 DEF Decides
  <2>3. QED
    BY <1>0, <1>a, <1>c, <2>1, <2>2
<1>7. ASSUME NEW b \in Broker, Update(b) PROVE ProfileInv'
  <2> DEFINE t == op[b].task
  <2>1. /\ op[b].at = "update" /\ t \in Task
        /\ CanGo(op[b].from, op[b].to)
        /\ op'[b] = Idle /\ \A c \in Broker \ {b} : op'[c] = op[c]
        /\ state'[t] = op[b].to
        /\ \A u \in Task \ {t} : state'[u] = state[u]
        /\ op[b].to = "preparing" => accepted' = accepted \cup {t}
        /\ op[b].to # "preparing" => accepted' = accepted
        /\ state[t] # op[b].from => overwritten' = overwritten \cup {t}
        /\ state[t] = op[b].from => overwritten' = overwritten
        /\ UNCHANGED snapshot
    BY <1>7, UpdateShape
  <2>2. snapshot' \subseteq Rows' /\ accepted' \subseteq snapshot'
    BY <1>0, <1>a, <2>1
  <2>3. \A c \in Broker : op'[c].at = "preflight" \/ Passing(c)'
                          => op'[c].task \in snapshot'
    BY <1>0, <1>c, <2>1
  <2>4. ASSUME t \in accepted' \ overwritten'
        PROVE  op[b].to \notin {"absent", "created", "queued", "rejected"}
    <3>1. state[t] = op[b].from /\ t \notin overwritten
      BY <2>1, <2>4
    <3>2. CASE op[b].to = "preparing"
      BY <3>2
    <3>3. CASE op[b].to # "preparing"
      <4>1. op[b].from \notin {"absent", "created", "queued", "rejected"}
        BY <1>0, <2>1, <2>4, <3>1, <3>3
      <4>2. QED
        BY <2>1, <4>1 DEF CanGo, SuccessState
    <3>4. QED
      BY <3>2, <3>3
  <2>5. \A u \in accepted' \ overwritten' :
           state'[u] \notin {"absent", "created", "queued", "rejected"}
    BY <1>0, <2>1, <2>4
  <2>6. alone => overwritten' = {}
    BY <1>0, <2>1 DEF ShapeInv, OperationInv
  <2>7. QED
    BY <1>a, <2>2, <2>3, <2>5, <2>6
<1>8. ASSUME NEW b \in Broker, Crash(b) PROVE ProfileInv'
  BY <1>0, <1>a, <1>c, <1>8 DEF Crash
<1>9. CASE UNCHANGED vars
  BY <1>0, <1>a, <1>9 DEF vars
<1>10. QED
  BY <1>1, <1>2, <1>3, <1>4, <1>5, <1>6, <1>7, <1>8, <1>9, StepIs

-----------------------------------------------------------------------------
(* The limits.                                                             *)

(* One more, counted in by broker b, beside the reservations of others.    *)
LEMMA CountedIn ==
    ASSUME NEW limit \in Nat, NEW S \in SUBSET Task, Cardinality(S) < limit,
           NEW b \in Broker, NEW T \in SUBSET Task,
           \A t \in T : \/ t \in S \/ t = op'[b].task
                        \/ \E c \in Broker \ {b} : op[c].task = t
                                                   /\ op[c].at # "idle",
           alone => \A c \in Broker \ {b} : op[c].at = "idle"
    PROVE  Within(T, limit)
<1> DEFINE others == {t \in Task : \E c \in Broker \ {b} :
                                      op[c].task = t /\ op[c].at # "idle"}
           task == [c \in Broker |-> op[c].task]
           new == op'[b].task
           all == S \cup others \cup {new}
<1>1. IsFiniteSet(S)
  BY TasksFinite
<1>2. IsFiniteSet(Broker \ {b})
      /\ Cardinality(Broker \ {b}) = Cardinality(Broker) - 1
  BY FS_RemoveElement, ConstantsAssumption
<1>3. /\ \A u \in others : \E c \in Broker \ {b} : u = task[c]
      /\ alone => others = {}
  OBVIOUS
<1>4. T \in SUBSET all
  OBVIOUS
<1> HIDE DEF others, task, new
<1>5. IsFiniteSet(others) /\ Cardinality(others) <= Cardinality(Broker) - 1
  BY <1>2, <1>3, ImageBound
<1>6. Within(all, limit)
  BY <1>1, <1>3, <1>5, Room
<1>7. IsFiniteSet(all)
  <2>1. IsFiniteSet(S \cup others)
    BY <1>1, <1>5, UnionBound
  <2>2. QED
    BY <2>1, FS_AddElement
<1>8. QED
  BY <1>4, <1>6, <1>7, WithinLess

(* Every step but the count itself leaves no more tasks active or reserved *)
(* than there were.                                                        *)
LEMMA ConcurrencyStep ==
    ASSUME TypeOK, ShapeInv, ConcurrencyInv, [Next]_vars
    PROVE  ConcurrencyInv'
<1> DEFINE P == {"lineage", "insert", "enqueue"}
           S == ActiveTasks \cup Reserved(P) \cup Coming(ActiveState)
<1> USE DEF fixed, store, At, Stops, Proceeds, Reserved, Coming, ActiveTasks,
            ActiveState
<1>0. /\ state \in [Task -> TaskState \cup {"absent"}]
      /\ op \in [Broker -> Operation]
  BY DEF TypeOK
<1>a. UNCHANGED fixed /\ MaxConcurrency \in Nat
  BY RowsStay, ConstantsAssumption
<1>b. \A b \in Broker : op[b].at # "idle" => op[b].task \in Task
  BY OpShape
<1>c. Idle.at = "idle"
  BY DEF Idle
<1>d. SUFFICES ASSUME ~readopts PROVE Within(S', MaxConcurrency)
  BY <1>a DEF ConcurrencyInv, Within
<1>e. ASSUME S' \subseteq S PROVE Within(S', MaxConcurrency)
  <2>1. Within(S, MaxConcurrency)
    BY <1>d DEF ConcurrencyInv
  <2>2. IsFiniteSet(S) /\ S' \in SUBSET S
    BY <1>e, TasksFinite
  <2> HIDE DEF S
  <2>3. QED
    BY <1>a, <2>1, <2>2, WithinLess
<1>1. ASSUME NEW b \in Broker, NEW t \in Task, CheckConcurrency(b, t)
      PROVE  Within(S', MaxConcurrency)
  <2>1. PICK r \in Offers[offer] :
           op' = [op EXCEPT ![b] = [at |-> "lineage", task |-> t,
                                    request |-> r]]
    BY <1>1 DEF CheckConcurrency
  <2>2. Cardinality(ActiveTasks) < MaxConcurrency /\ UNCHANGED state
    BY <1>1 DEF CheckConcurrency, ActiveCount
  <2>3. alone => \A c \in Broker \ {b} : op[c].at = "idle"
    BY <1>1, <1>c DEF CheckConcurrency, Ready
  <2>4. \A u \in S' : \/ u \in ActiveTasks \/ u = op'[b].task
                      \/ \E c \in Broker \ {b} : op[c].task = u
                                                 /\ op[c].at # "idle"
    BY <1>0, <2>1, <2>2
  <2>5. S' \in SUBSET Task /\ ActiveTasks \in SUBSET Task
    OBVIOUS
  <2> HIDE DEF S, ActiveTasks
  <2>6. QED
    BY <1>a, <2>2, <2>3, <2>4, <2>5, CountedIn
<1>2. ASSUME NEW b \in Broker, CheckLineage(b) PROVE S' \subseteq S
  <2>1. /\ op[b].at = "lineage" /\ UNCHANGED state
        /\ \A c \in Broker \ {b} : op'[c] = op[c]
        /\ \/ op'[b].at = "idle"
           \/ op'[b].at = "insert" /\ op'[b].task = op[b].task
    BY <1>2, <1>c, LineageShape
  <2>2. QED
    BY <2>1
<1>3. ASSUME NEW b \in Broker, Insert(b) PROVE S' \subseteq S
  BY <1>0, <1>b, <1>c, <1>3 DEF Insert
<1>4. ASSUME NEW b \in Broker, NEW t \in Task, RecordProfile(b, t)
      PROVE  S' \subseteq S
  BY <1>0, <1>b, <1>c, <1>4 DEF RecordProfile
<1>5. ASSUME NEW b \in Broker, Preflight(b) PROVE S' \subseteq S
  <2>1. /\ op'[b].at \in {"prepare", "reject"} /\ UNCHANGED state
        /\ \A c \in Broker \ {b} : op'[c] = op[c]
    BY <1>5, PreflightShape
  <2>2. QED
    BY <2>1
<1>6. ASSUME NEW b \in Broker, NEW t \in Task, NEW to \in TaskState,
             Decides(b, t, to)
      PROVE  S' \subseteq S
  <2>1. /\ UNCHANGED state /\ \A c \in Broker \ {b} : op'[c] = op[c]
        /\ \/ op'[b] = Idle
           \/ /\ CanGo(state[t], to)
              /\ op'[b] = [at |-> "update", task |-> t,
                           from |-> state[t], to |-> to]
    BY <1>6, CheckShape
  <2>2. CanGo(state[t], to) /\ to \in ActiveState => t \in S
    <3>1. CanGo(state[t], to) /\ to \in ActiveState
          => \/ state[t] \in ActiveState
             \/ state[t] = "recovery_required"
             \/ state[t] = "created" /\ to = "queued"
      BY DEF CanGo, SuccessState
    <3>2. ~(/\ CanGo(state[t], to) /\ to \in ActiveState
            /\ state[t] = "recovery_required")
      BY <1>d, <1>6 DEF Decides, CanGo, SuccessState
    <3>3. state[t] = "created" /\ to = "queued" => t \in S
      BY <1>6 DEF Decides
    <3>4. QED
      BY <3>1, <3>2, <3>3
  <2>3. QED
    BY <1>0, <1>c, <2>1, <2>2
<1>7. ASSUME NEW b \in Broker, Update(b) PROVE S' \subseteq S
  BY <1>0, <1>c, <1>7, UpdateShape
<1>8. ASSUME NEW b \in Broker, Crash(b) PROVE S' \subseteq S
  BY <1>0, <1>b, <1>c, <1>8 DEF Crash
<1>9. CASE UNCHANGED vars
  <2>1. S' \subseteq S
    BY <1>9 DEF vars
  <2>2. QED
    BY <1>e, <2>1
<1> HIDE DEF S
<1>10. QED
  BY <1>e, <1>1, <1>2, <1>3, <1>4, <1>5, <1>6, <1>7, <1>8, <1>9, StepIs

LEMMA AgentsStep ==
    ASSUME TypeOK, ShapeInv, AgentsInv, [Next]_vars
    PROVE  AgentsInv'
<1> DEFINE S == PresentTasks \cup Reserved({"insert", "enqueue"})
                    \cup Coming(ActiveState \cup {"recovery_required"})
<1> USE DEF fixed, store, At, Stops, Proceeds, Reserved, Coming, PresentTasks,
            ActiveState
<1>0. /\ state \in [Task -> TaskState \cup {"absent"}]
      /\ op \in [Broker -> Operation]
  BY DEF TypeOK
<1>a. UNCHANGED fixed /\ MaxAgents \in Nat
  BY RowsStay, ConstantsAssumption
<1>b. \A b \in Broker : op[b].at # "idle" => op[b].task \in Task
  BY OpShape
<1>c. Idle.at = "idle"
  BY DEF Idle
<1>d. SUFFICES Within(S', MaxAgents)
  BY <1>a DEF AgentsInv, Within
<1>e. ASSUME S' \subseteq S PROVE Within(S', MaxAgents)
  <2>1. Within(S, MaxAgents)
    BY DEF AgentsInv
  <2>2. IsFiniteSet(S) /\ S' \in SUBSET S
    BY <1>e, TasksFinite
  <2> HIDE DEF S
  <2>3. QED
    BY <1>a, <2>1, <2>2, WithinLess
<1>1. ASSUME NEW b \in Broker, NEW t \in Task, CheckConcurrency(b, t)
      PROVE  S' \subseteq S
  BY <1>0, <1>c, <1>1 DEF CheckConcurrency
<1>2. ASSUME NEW b \in Broker, CheckLineage(b)
      PROVE  Within(S', MaxAgents)
  <2>0. op[b].at = "lineage" /\ UNCHANGED state
    BY <1>2 DEF CheckLineage
  <2>1. CASE LineageAdmits(op[b].request) /\ Proceeds(b, "insert")
    <3>1. Cardinality(PresentTasks) < MaxAgents
      BY <2>1 DEF LineageAdmits, AgentCount
    <3>2. alone => \A c \in Broker \ {b} : op[c].at = "idle"
      BY <2>0 DEF ShapeInv, OperationInv
    <3>3. \A u \in S' : \/ u \in PresentTasks \/ u = op'[b].task
                        \/ \E c \in Broker \ {b} : op[c].task = u
                                                   /\ op[c].at # "idle"
      BY <1>0, <2>0, <2>1
    <3>4. S' \in SUBSET Task /\ PresentTasks \in SUBSET Task
      OBVIOUS
    <3> HIDE DEF S, PresentTasks
    <3>5. QED
      BY <1>a, <3>1, <3>2, <3>3, <3>4, CountedIn
  <2>2. CASE Stops(b)
    <3>1. S' \subseteq S
      BY <1>0, <1>c, <2>0, <2>2
    <3>2. QED
      BY <1>e, <3>1
  <2>3. QED
    BY <1>2, <2>1, <2>2 DEF CheckLineage
<1>3. ASSUME NEW b \in Broker, Insert(b) PROVE S' \subseteq S
  BY <1>0, <1>b, <1>c, <1>3 DEF Insert
<1>4. ASSUME NEW b \in Broker, NEW t \in Task, RecordProfile(b, t)
      PROVE  S' \subseteq S
  BY <1>0, <1>b, <1>c, <1>4 DEF RecordProfile
<1>5. ASSUME NEW b \in Broker, Preflight(b) PROVE S' \subseteq S
  <2>1. /\ op'[b].at \in {"prepare", "reject"} /\ UNCHANGED state
        /\ \A c \in Broker \ {b} : op'[c] = op[c]
    BY <1>5, PreflightShape
  <2>2. QED
    BY <2>1
<1>6. ASSUME NEW b \in Broker, NEW t \in Task, NEW to \in TaskState,
             Decides(b, t, to)
      PROVE  S' \subseteq S
  <2>1. /\ UNCHANGED state /\ \A c \in Broker \ {b} : op'[c] = op[c]
        /\ \/ op'[b] = Idle
           \/ /\ CanGo(state[t], to)
              /\ op'[b] = [at |-> "update", task |-> t,
                           from |-> state[t], to |-> to]
    BY <1>6, CheckShape
  <2>2. CanGo(state[t], to) /\ to \in ActiveState \cup {"recovery_required"} => t \in S
    <3>1. CanGo(state[t], to) /\ to \in ActiveState \cup {"recovery_required"}
          => \/ state[t] \in ActiveState \cup {"recovery_required"}
             \/ state[t] = "recovery_required"
             \/ state[t] = "created" /\ to = "queued"
      BY DEF CanGo, SuccessState
    <3>2. state[t] \in ActiveState \cup {"recovery_required"} => t \in S
      OBVIOUS
    <3>3. state[t] = "created" /\ to = "queued" => t \in S
      BY <1>6 DEF Decides
    <3>4. QED
      BY <3>1, <3>2, <3>3
  <2>3. QED
    BY <1>0, <1>c, <2>1, <2>2
<1>7. ASSUME NEW b \in Broker, Update(b) PROVE S' \subseteq S
  BY <1>0, <1>c, <1>7, UpdateShape
<1>8. ASSUME NEW b \in Broker, Crash(b) PROVE S' \subseteq S
  BY <1>0, <1>b, <1>c, <1>8 DEF Crash
<1>9. CASE UNCHANGED vars
  <2>1. S' \subseteq S
    BY <1>9 DEF vars
  <2>2. QED
    BY <1>e, <2>1
<1> HIDE DEF S
<1>10. QED
  BY <1>e, <1>1, <1>2, <1>3, <1>4, <1>5, <1>6, <1>7, <1>8, <1>9, StepIs

LEMMA ChildrenStep ==
    ASSUME TypeOK, ShapeInv, ChildrenInv, [Next]_vars
    PROVE  ChildrenInv'
<1> SUFFICES ASSUME NEW p \in Task
             PROVE  Within(Children(p)' \cup ReservedChildren(p)', MaxChildren)
  BY RowsStay DEF ChildrenInv, Within, fixed
<1> DEFINE S == Children(p) \cup ReservedChildren(p)
<1> SUFFICES Within(S', MaxChildren)
  OBVIOUS
<1> USE DEF fixed, store, At, Stops, Proceeds, Children, ReservedChildren
<1>0. /\ state \in [Task -> TaskState \cup {"absent"}]
      /\ op \in [Broker -> Operation]
  BY DEF TypeOK
<1>a. Rows \subseteq Task /\ Rows' \subseteq Task /\ MaxChildren \in Nat
  BY ConstantsAssumption DEF Rows
<1>b. \A b \in Broker : op[b].at # "idle" => op[b].task \in Task
  BY OpShape
<1>c. Idle.at = "idle"
  BY DEF Idle
<1>d. \A t \in Rows : row'[t] = row[t]
  BY RowsStay
<1>e. ASSUME S' \subseteq S PROVE Within(S', MaxChildren)
  <2>1. Within(S, MaxChildren)
    BY DEF ChildrenInv
  <2>2. IsFiniteSet(S) /\ S' \in SUBSET S
    BY <1>a, <1>e, TasksFinite
  <2> HIDE DEF S
  <2>3. QED
    BY <1>a, <2>1, <2>2, WithinLess
<1>f. ASSUME Rows' = Rows,
             \A b \in Broker : op'[b].at = "insert" => op'[b] = op[b]
      PROVE  S' \subseteq S
  BY <1>d, <1>f
<1>1. ASSUME NEW b \in Broker, NEW t \in Task, CheckConcurrency(b, t)
      PROVE  S' \subseteq S
  <2>1. Rows' = Rows /\ \A c \in Broker : op'[c].at = "insert" => op'[c] = op[c]
    BY <1>0, <1>1 DEF CheckConcurrency, Rows
  <2> HIDE DEF S
  <2>2. QED
    BY <1>f, <2>1
<1>2. ASSUME NEW b \in Broker, CheckLineage(b)
      PROVE  Within(S', MaxChildren)
  <2>0. /\ op[b].at = "lineage" /\ Rows' = Rows
        /\ \A c \in Broker \ {b} : op'[c] = op[c]
        /\ \/ op'[b].at = "idle"
           \/ /\ LineageAdmits(op[b].request)
              /\ op'[b].at = "insert" /\ op'[b].task = op[b].task
              /\ op'[b].request = op[b].request
    BY <1>2, <1>c, LineageShape DEF Rows
  <2>1. CASE LineageAdmits(op[b].request) /\ op'[b].request.parent = p
             /\ op'[b].at = "insert"
    <3>1. Cardinality(Children(p)) < MaxChildren
      <4>1. p # NoTask
        BY ConstantsAssumption
      <4>2. op[b].request.parent = p
        BY <2>0, <2>1
      <4>3. QED
        BY <2>1, <4>1, <4>2 DEF LineageAdmits
    <3>2. alone => \A c \in Broker \ {b} : op[c].at = "idle"
      BY <2>0 DEF ShapeInv, OperationInv
    <3>3. \A u \in S' : \/ u \in Children(p) \/ u = op'[b].task
                        \/ \E c \in Broker \ {b} : op[c].task = u
                                                   /\ op[c].at # "idle"
      BY <1>d, <2>0
    <3>4. S' \in SUBSET Task /\ Children(p) \in SUBSET Task
      BY <1>a
    <3> HIDE DEF S, Children
    <3>5. QED
      BY <1>a, <3>1, <3>2, <3>3, <3>4, CountedIn
  <2>2. CASE op'[b].at = "insert" => op'[b].request.parent # p
    <3>1. S' \subseteq S
      BY <1>d, <2>0, <2>2
    <3>2. QED
      BY <1>e, <3>1
  <2>3. QED
    BY <2>0, <2>1, <2>2
<1>3. ASSUME NEW b \in Broker, Insert(b) PROVE S' \subseteq S
  <2>1. /\ op[b].at = "insert" /\ op[b].task \in Task
        /\ row' = [row EXCEPT ![op[b].task] =
                       NewRow(op[b].task, op[b].request)]
        /\ row \in [Task -> Row \cup {NoRow}]
    BY <1>3, OpShape DEF Insert, TypeOK
  <2>2. NewRow(op[b].task, op[b].request).request = op[b].request
    BY <2>1, NewRowShape
  <2>3. Rows' = Rows \cup {op[b].task}
    BY <1>0, <1>3, <2>1 DEF Insert, Rows
  <2>4. \A c \in Broker : op'[c].at = "insert" => op'[c] = op[c]
    BY <1>0, <1>3 DEF Insert
  <2>5. QED
    BY <1>d, <2>1, <2>2, <2>3, <2>4
<1>4. ASSUME NEW b \in Broker,
             \/ \E t \in Task : RecordProfile(b, t)
             \/ Preflight(b) \/ Crash(b)
      PROVE  S' \subseteq S
  <2>1. \A c \in Broker : op'[c].at = "insert" => op'[c] = op[c]
    <3>1. CASE Preflight(b)
      BY <3>1, PreflightShape
    <3>2. CASE Crash(b) \/ \E t \in Task : RecordProfile(b, t)
      BY <1>0, <1>c, <3>2 DEF Crash, RecordProfile
    <3>3. QED
      BY <1>4, <3>1, <3>2
  <2>2. Rows' = Rows
    BY <1>4 DEF Preflight, Crash, RecordProfile, Rows
  <2> HIDE DEF S
  <2>3. QED
    BY <1>f, <2>1, <2>2
<1>5. ASSUME NEW b \in Broker,
             \/ \E t \in Task, to \in TaskState : Decides(b, t, to)
             \/ Update(b)
      PROVE  S' \subseteq S
  <2>1. \A c \in Broker : op'[c].at = "insert" => op'[c] = op[c]
    <3>1. /\ \A c \in Broker \ {b} : op'[c] = op[c]
          /\ op'[b].at \in {"idle", "update"}
      <4>1. CASE Update(b)
        BY <1>c, <4>1, UpdateShape
      <4>2. ASSUME NEW t \in Task, NEW to \in TaskState, Decides(b, t, to)
            PROVE  /\ \A c \in Broker \ {b} : op'[c] = op[c]
                   /\ op'[b].at \in {"idle", "update"}
        <5>1. /\ \A c \in Broker \ {b} : op'[c] = op[c]
              /\ \/ op'[b] = Idle
                 \/ op'[b] = [at |-> "update", task |-> t,
                              from |-> state[t], to |-> to]
          BY <4>2, CheckShape
        <5>2. QED
          BY <1>c, <5>1
      <4>3. QED
        BY <1>5, <4>1, <4>2
    <3>2. QED
      BY <3>1
  <2>2. Rows' = Rows
    <3>1. CASE \E t \in Task, to \in TaskState : Decides(b, t, to)
      BY <3>1 DEF Decides, Rows
    <3>2. CASE Update(b)
      BY <3>2, UpdateShape DEF Rows
    <3>3. QED
      BY <1>5, <3>1, <3>2
  <2> HIDE DEF S
  <2>3. QED
    BY <1>f, <2>1, <2>2
<1>6. CASE UNCHANGED vars
  <2>1. S' \subseteq S
    BY <1>6 DEF vars, Rows
  <2>2. QED
    BY <1>e, <2>1
<1> HIDE DEF S
<1>7. QED
  BY <1>e, <1>1, <1>2, <1>3, <1>4, <1>5, <1>6, StepIs

-----------------------------------------------------------------------------
(* The budgets.                                                            *)

(* Of a tree of up to MaxTree tasks usage counts every one.                *)
LEMMA TreeWhole ==
    ASSUME TypeOK, ShapeInv, NEW root, Cardinality(TreeRows(root)) <= MaxTree
    PROVE  Tree(root) = TreeRows(root)
<1> DEFINE all == TreeRows(root)
<1>1. all \in SUBSET Task /\ all \subseteq Rows
  BY DEF TreeRows, Rows
<1>2. IsFiniteSet(all) /\ Cardinality(all) \in Nat /\ MaxTree \in Nat
  BY <1>1, TasksFinite, ConstantsAssumption
<1>3. ASSUME NEW t \in all
      PROVE  Cardinality({c \in all : Before(c, t)}) < MaxTree
  <2> DEFINE earlier == {c \in all : Before(c, t)}
  <2>1. row[t].depth \in Nat /\ row[t].born \in Nat
    BY <1>1, ConstantsAssumption DEF ShapeInv, RowsInv, Row
  <2>2. earlier \in SUBSET (all \ {t})
    BY <2>1 DEF Before
  <2>3. IsFiniteSet(all \ {t})
        /\ Cardinality(all \ {t}) = Cardinality(all) - 1
    BY <1>2, FS_RemoveElement
  <2> HIDE DEF earlier, all
  <2>4. Cardinality(earlier) <= Cardinality(all) - 1 /\ IsFiniteSet(earlier)
    BY <2>2, <2>3, FS_Subset
  <2>5. Cardinality(earlier) \in Nat
    BY <2>4, FS_CardinalityType
  <2>6. Cardinality(all) <= MaxTree
    BY DEF all
  <2>7. QED
    BY <1>2, <2>4, <2>5, <2>6 DEF earlier
<1>4. QED
  BY <1>3 DEF Tree

(* Who has passed a preflight is a row with its profile recorded.          *)
LEMMA PassedRecorded ==
    ASSUME TypeOK, ShapeInv
    PROVE  Passed \subseteq snapshot /\ Passed \subseteq Rows
  BY DEF ShapeInv, ProfileInv, Passed

(* Only a preflight adds to the tasks that have passed one.                *)
LEMMA PassedStep ==
    ASSUME TypeOK, ShapeInv, [Next]_vars
    PROVE  \/ Passed' \subseteq Passed
           \/ \E b \in Broker :
                 /\ op[b].at = "preflight" /\ PolicyAdmits(op[b].task)
                 /\ Passed' \subseteq Passed \cup {op[b].task}
                 /\ op[b].task \in Passed' => state[op[b].task] # "rejected"
<1> USE DEF Passed, Passing, fixed, store, At, Stops, Proceeds
<1>0. /\ state \in [Task -> TaskState \cup {"absent"}]
      /\ accepted \subseteq Task
      /\ op \in [Broker -> Operation]
  BY DEF TypeOK
<1>a. \A b \in Broker : op[b].at # "idle" => op[b].task \in Task
  BY OpShape
<1>c. Idle.at = "idle"
  BY DEF Idle
<1>d. \A t \in Rows : row'[t] = row[t]
  BY RowsStay
<1>e. ASSUME accepted' = accepted, overwritten' = overwritten,
             \A b \in Broker : Passing(b)' => Passing(b)
                                              /\ op'[b].task = op[b].task,
             \A t \in Task : state[t] = "rejected" => state'[t] = "rejected"
      PROVE  Passed' \subseteq Passed
  <2>1. ASSUME NEW t \in Passed' PROVE t \in Passed
    <3>1. \/ t \in accepted
          \/ \E b \in Broker : Passing(b) /\ op[b].task = t
      BY <1>e, <2>1
    <3>2. t \in Rows
      BY <3>1 DEF ShapeInv, ProfileInv
    <3>3. QED
      BY <1>d, <1>e, <2>1, <3>1, <3>2
  <2>2. QED
    BY <2>1
<1>1. ASSUME NEW b \in Broker,
             \/ \E t \in Task : CheckConcurrency(b, t) \/ RecordProfile(b, t)
             \/ CheckLineage(b) \/ Crash(b)
      PROVE  Passed' \subseteq Passed
  <2>1. /\ \A c \in Broker : Passing(c)' => op'[c] = op[c]
        /\ UNCHANGED <<state, accepted, overwritten>>
    <3>1. CASE CheckLineage(b)
      BY <1>c, <3>1, LineageShape
    <3>2. CASE \E t \in Task : CheckConcurrency(b, t) \/ RecordProfile(b, t)
      BY <1>0, <3>2 DEF CheckConcurrency, RecordProfile
    <3>3. CASE Crash(b)
      BY <1>0, <1>c, <3>3 DEF Crash
    <3>4. QED
      BY <1>1, <3>1, <3>2, <3>3
  <2>2. QED
    BY <1>e, <2>1
<1>2. ASSUME NEW b \in Broker, Insert(b) PROVE Passed' \subseteq Passed
  <2>1. \A c \in Broker : Passing(c)' => op'[c] = op[c]
    BY <1>0, <1>2 DEF Insert
  <2>2. op[b].task \in Task /\ state[op[b].task] = "absent"
    BY <1>2, <1>a DEF Insert, ShapeInv, OperationInv
  <2>3. \A t \in Task : state[t] = "rejected" => state'[t] = "rejected"
    BY <1>0, <1>2, <2>2 DEF Insert
  <2>4. QED
    BY <1>2, <1>e, <2>1, <2>3 DEF Insert
<1>3. ASSUME NEW b \in Broker, Preflight(b)
      PROVE  \/ Passed' \subseteq Passed
             \/ /\ op[b].at = "preflight" /\ PolicyAdmits(op[b].task)
                /\ Passed' \subseteq Passed \cup {op[b].task}
                /\ op[b].task \in Passed' => state[op[b].task] # "rejected"
  <2>1. /\ op[b].at = "preflight" /\ UNCHANGED <<fixed, store>>
        /\ \A c \in Broker \ {b} : op'[c] = op[c]
        /\ op'[b].task = op[b].task
        /\ \/ op'[b].at = "prepare" /\ PolicyAdmits(op[b].task)
           \/ op'[b].at = "reject"
    BY <1>3, PreflightShape
  <2>2. CASE op'[b].at = "prepare" /\ PolicyAdmits(op[b].task)
    BY <2>1, <2>2
  <2>3. CASE op'[b].at = "reject"
    <3>1. \A c \in Broker : Passing(c)' => op'[c] = op[c]
      BY <2>1, <2>3
    <3>2. QED
      BY <1>e, <2>1, <3>1
  <2>4. QED
    BY <2>1, <2>2, <2>3
<1>4. ASSUME NEW b \in Broker, NEW t \in Task, NEW to \in TaskState,
             Decides(b, t, to)
      PROVE  Passed' \subseteq Passed
  <2>1. /\ UNCHANGED store /\ \A c \in Broker \ {b} : op'[c] = op[c]
        /\ \/ op'[b] = Idle
           \/ op'[b] = [at |-> "update", task |-> t,
                        from |-> state[t], to |-> to]
    BY <1>4, CheckShape
  <2>2. to = "preparing" => op[b].at = "prepare" /\ op[b].task = t
    BY <1>4 DEF Decides
  <2>3. \A c \in Broker : Passing(c)' => Passing(c)
                                        /\ op'[c].task = op[c].task
    BY <1>c, <2>1, <2>2
  <2>4. QED
    BY <1>e, <2>1, <2>3
<1>5. ASSUME NEW b \in Broker, Update(b) PROVE Passed' \subseteq Passed
  <2> DEFINE t == op[b].task
  <2>1. /\ op[b].at = "update" /\ t \in Task
        /\ op[b].from \notin TerminalState
        /\ op'[b] = Idle /\ \A c \in Broker \ {b} : op'[c] = op[c]
        /\ \A u \in Task \ {t} : state'[u] = state[u]
        /\ op[b].to = "preparing" => accepted' = accepted \cup {t}
        /\ op[b].to # "preparing" => accepted' = accepted
        /\ state[t] # op[b].from => overwritten' = overwritten \cup {t}
        /\ state[t] = op[b].from => overwritten' = overwritten
        /\ UNCHANGED row
    BY <1>5, UpdateShape
  <2>2. ASSUME NEW u \in Passed' PROVE u \in Passed
    <3>1. \/ u \in accepted
          \/ \E c \in Broker : Passing(c) /\ op[c].task = u
      BY <1>c, <2>1, <2>2
    <3>2. u \notin overwritten /\ row[u].request.policy /\ u \in Task
      BY <2>1, <2>2
    <3>3. state[u] # "rejected"
      BY <2>1, <2>2 DEF TerminalState
    <3>4. QED
      BY <3>1, <3>2, <3>3
  <2>3. QED
    BY <2>2
<1>6. CASE UNCHANGED vars
  BY <1>6, <1>e DEF vars
<1> HIDE DEF Passed
<1>7. QED
  BY <1>1, <1>2, <1>3, <1>4, <1>5, <1>6, StepIs

(* Each who passes has counted all who passed before.                      *)
LEMMA BudgetStep ==
    ASSUME TypeOK, ShapeInv, BudgetInv, [Next]_vars
    PROVE  BudgetInv'
<1> SUFFICES ASSUME NEW root \in Task,
                    Cardinality(TreeRows(root)') <= MaxTree
             PROVE  /\ Cardinality(Premium(PassedOf(root))') <= MaxPremium
                    /\ Cardinality(Full(PassedOf(root))') <= MaxEscalations
                    /\ \A p \in Task :
                          Cardinality(RetriesOf(PassedOf(root), p)')
                              <= MaxRetries
  BY DEF BudgetInv
<1> DEFINE Q == PassedOf(root)
<1>0. {MaxPremium, MaxEscalations, MaxRetries, MaxTree} \subseteq Nat
  BY ConstantsAssumption
<1>1. Rows \subseteq Rows' /\ \A t \in Rows : row'[t] = row[t]
  BY RowsStay
<1>2. Q \subseteq Rows /\ Q \subseteq snapshot /\ Q \subseteq Task
  BY PassedRecorded DEF PassedOf, Passed
<1>3. Cardinality(TreeRows(root)) <= MaxTree
  <2>1. TreeRows(root) \in SUBSET TreeRows(root)'
        /\ TreeRows(root)' \in SUBSET Task
    BY <1>1 DEF TreeRows, Rows
  <2>2. /\ IsFiniteSet(TreeRows(root)') /\ Cardinality(TreeRows(root)') \in Nat
        /\ Cardinality(TreeRows(root)) \in Nat
    BY <2>1, TasksFinite
  <2>3. Cardinality(TreeRows(root)) <= Cardinality(TreeRows(root)')
    BY <2>1, <2>2, FS_Subset
  <2>4. QED
    BY <1>0, <2>2, <2>3
<1>4. /\ Cardinality(Premium(Q)) <= MaxPremium
      /\ Cardinality(Full(Q)) <= MaxEscalations
      /\ \A p \in Task : Cardinality(RetriesOf(Q, p)) <= MaxRetries
  BY <1>3 DEF BudgetInv
<1>5. ASSUME NEW S \in SUBSET Task, NEW T \in SUBSET S, NEW n \in Nat,
             Cardinality(S) <= n
      PROVE  Cardinality(T) <= n
  BY <1>5, FewerTasks
<1>6. CASE Passed' \subseteq Passed
  <2>1. Q' \subseteq Q
    BY <1>1, <1>6, PassedRecorded DEF PassedOf
  <2>2. /\ Premium(Q)' \in SUBSET Premium(Q) /\ Premium(Q) \in SUBSET Task
        /\ Full(Q)' \in SUBSET Full(Q) /\ Full(Q) \in SUBSET Task
        /\ \A p : /\ RetriesOf(Q, p)' \in SUBSET RetriesOf(Q, p)
                  /\ RetriesOf(Q, p) \in SUBSET Task
    BY <1>1, <1>2, <2>1 DEF Premium, Full, RetriesOf
  <2> HIDE DEF Q
  <2>3. QED
    BY <1>0, <1>4, <1>5, <2>2 DEF Q
<1>7. ASSUME NEW b \in Broker, op[b].at = "preflight",
             PolicyAdmits(op[b].task),
             Passed' \subseteq Passed \cup {op[b].task},
             op[b].task \in Passed' => state[op[b].task] # "rejected",
             op[b].task \in Passed', row[op[b].task].root = root
      PROVE  /\ Cardinality(Premium(Q)') <= MaxPremium
             /\ Cardinality(Full(Q)') <= MaxEscalations
             /\ \A p \in Task : Cardinality(RetriesOf(Q, p)') <= MaxRetries
  <2> DEFINE t == op[b].task
             with == Counted(t) \cup {t}
  <2>1. t \in Task /\ t \in snapshot /\ t \in Rows
    BY <1>7, OpShape DEF ShapeInv, ProfileInv
  <2>2. row[t].request.policy
    BY <1>1, <1>7, <2>1 DEF Passed
  <2>3. WithinBudget(t)
    BY <1>7, <2>2 DEF PolicyAdmits
  <2>4. Q \subseteq with
    <3>1. \A c \in Q : /\ c \in TreeRows(root) /\ c \in snapshot
                       /\ state[c] # "rejected"
      BY <1>2 DEF PassedOf, Passed, TreeRows
    <3>2. Tree(row[t].root) = TreeRows(root)
      BY <1>3, <1>7, TreeWhole
    <3>3. QED
      BY <3>1, <3>2 DEF Counted, Started
  <2>5. Q' \subseteq Q \cup {t} /\ with \subseteq Task /\ with \subseteq Rows
    <3>1. with \subseteq Rows /\ with \subseteq Task
      BY <2>1 DEF Counted, Tree, TreeRows, Rows
    <3>2. \A c \in Q' : c = t \/ c \in Passed
      BY <1>7 DEF PassedOf
    <3>3. \A c \in Q' : c \in Passed => c \in Q
      BY <1>1, PassedRecorded DEF PassedOf
    <3>4. QED
      BY <3>1, <3>2, <3>3
  <2>6. Premium(Q)' \in SUBSET Premium(with) /\ Premium(with) \in SUBSET Task
        /\ Full(Q)' \in SUBSET Full(with) /\ Full(with) \in SUBSET Task
    BY <1>1, <2>1, <2>4, <2>5 DEF Premium, Full
  <2>7. Cardinality(Premium(with)) <= MaxPremium
        /\ Cardinality(Full(with)) <= MaxEscalations
    BY <2>3 DEF WithinBudget
  <2>8. ASSUME NEW p \in Task
        PROVE  Cardinality(RetriesOf(Q, p)') <= MaxRetries
    <3>1. CASE t \in RetriesOf(Q, p)'
      <4>1. /\ row[t].request.class = "premium" /\ row[t].request.scope # "none"
            /\ row[t].request.prior = p
        BY <1>1, <2>1, <3>1 DEF RetriesOf, Premium
      <4>2. Cardinality(RetriesOf(with, p)) <= MaxRetries
        BY <2>3, <4>1 DEF WithinBudget
      <4>3. RetriesOf(Q, p)' \in SUBSET RetriesOf(with, p)
            /\ RetriesOf(with, p) \in SUBSET Task
        BY <1>1, <2>1, <2>4, <2>5 DEF RetriesOf, Premium
      <4> HIDE DEF Q, with
      <4>4. QED
        BY <1>0, <1>5, <4>2, <4>3
    <3>2. CASE t \notin RetriesOf(Q, p)'
      <4>1. RetriesOf(Q, p)' \in SUBSET RetriesOf(Q, p)
            /\ RetriesOf(Q, p) \in SUBSET Task
        BY <1>1, <1>2, <2>5, <3>2 DEF RetriesOf, Premium
      <4> HIDE DEF Q
      <4>2. QED
        BY <1>0, <1>4, <1>5, <4>1
    <3>3. QED
      BY <3>1, <3>2
  <2> HIDE DEF Q, with
  <2>9. QED
    BY <1>0, <1>5, <2>6, <2>7, <2>8
<1>8. ASSUME NEW b \in Broker, op[b].at = "preflight",
             Passed' \subseteq Passed \cup {op[b].task},
             op[b].task \notin Passed' \/ row[op[b].task].root # root
      PROVE  /\ Cardinality(Premium(Q)') <= MaxPremium
             /\ Cardinality(Full(Q)') <= MaxEscalations
             /\ \A p \in Task : Cardinality(RetriesOf(Q, p)') <= MaxRetries
  <2>1. op[b].task \in Rows
    BY <1>8, OpShape DEF ShapeInv, ProfileInv
  <2>2. Q' \subseteq Q
    BY <1>1, <1>8, <2>1, PassedRecorded DEF PassedOf
  <2>3. /\ Premium(Q)' \in SUBSET Premium(Q) /\ Premium(Q) \in SUBSET Task
        /\ Full(Q)' \in SUBSET Full(Q) /\ Full(Q) \in SUBSET Task
        /\ \A p : /\ RetriesOf(Q, p)' \in SUBSET RetriesOf(Q, p)
                  /\ RetriesOf(Q, p) \in SUBSET Task
    BY <1>1, <1>2, <2>2 DEF Premium, Full, RetriesOf
  <2> HIDE DEF Q
  <2>4. QED
    BY <1>0, <1>4, <1>5, <2>3
<1>9. QED
  BY <1>6, <1>7, <1>8, PassedStep

-----------------------------------------------------------------------------
LEMMA IInvStep == IInv /\ [Next]_vars => IInv'
<1> SUFFICES ASSUME IInv, [Next]_vars PROVE IInv'
  OBVIOUS
<1>1. TypeOK /\ ShapeInv /\ ConcurrencyInv /\ AgentsInv /\ ChildrenInv
      /\ BudgetInv
  BY DEF IInv
<1>2. TypeOK' /\ ShapeInv'
  BY <1>1, TypeStep, OperationStep, ForestStep, ProfileStep DEF ShapeInv
<1>3. ConcurrencyInv' /\ AgentsInv' /\ ChildrenInv' /\ BudgetInv'
  BY <1>1, ConcurrencyStep, AgentsStep, ChildrenStep, BudgetStep
<1>4. QED
  BY <1>2, <1>3 DEF IInv

(* What the limits and the budgets rest on holds in every behaviour.       *)
LEMMA Invariant == Spec => []IInv
  BY IInvInit, IInvStep, PTL DEF Spec

(* Rows, snapshots and operations of any number of brokers keep their      *)
(* types: no task is written deeper than the policy allows.                *)
THEOREM TypeCorrect == Spec => []TypeOK
<1>1. IInv => TypeOK
  BY DEF IInv
<1>2. QED
  BY <1>1, Invariant, PTL

(* However many brokers create and start tasks at once, and whichever of   *)
(* them are lost on the way, a limit is exceeded by at most one task per   *)
(* other broker, by none if operations do not overlap, and rows are a      *)
(* forest.                                                                 *)
THEOREM LimitsSafe == Spec => []LimitsHold
<1>1. ASSUME IInv PROVE LimitsHold
  <2>1. IInv /\ ShapeInv
    BY <1>1 DEF IInv
  <2>2. ConcurrencyHolds
    <3> DEFINE S == ActiveTasks \cup Reserved({"lineage", "insert", "enqueue"})
                        \cup Coming(ActiveState)
    <3>1. S \in SUBSET Task /\ ActiveTasks \in SUBSET S
      BY DEF ActiveTasks, Reserved, Coming
    <3>2. IsFiniteSet(S) /\ MaxConcurrency \in Nat
      BY <3>1, TasksFinite, ConstantsAssumption
    <3>3. ~readopts => Within(S, MaxConcurrency)
      BY <1>1 DEF IInv, ConcurrencyInv
    <3> HIDE DEF S
    <3>4. ~readopts => Within(ActiveTasks, MaxConcurrency)
      BY <3>1, <3>2, <3>3, WithinLess
    <3>5. QED
      BY <3>4 DEF ConcurrencyHolds, ActiveTasks
  <2>3. AgentsHold
    <3> DEFINE S == PresentTasks \cup Reserved({"insert", "enqueue"})
                        \cup Coming(ActiveState \cup {"recovery_required"})
               T == {t \in Rows : state[t] \notin TerminalState
                                                  \cup {"created"}}
    <3>1. S \in SUBSET Task /\ T \in SUBSET S
      BY <1>1 DEF IInv, TypeOK, PresentTasks, Reserved, Coming, Rows,
                  TaskState, TerminalState, ActiveState
    <3>2. IsFiniteSet(S) /\ MaxAgents \in Nat
      BY <3>1, TasksFinite, ConstantsAssumption
    <3>3. Within(S, MaxAgents)
      BY <1>1 DEF IInv, AgentsInv
    <3> HIDE DEF S, T
    <3>4. Within(T, MaxAgents)
      BY <3>1, <3>2, <3>3, WithinLess
    <3>5. QED
      BY <3>4 DEF AgentsHold, T
  <2>4. ChildrenHold
    <3> SUFFICES ASSUME NEW p \in Task
                 PROVE  Within(Children(p), MaxChildren)
      BY DEF ChildrenHold, Children
    <3> DEFINE S == Children(p) \cup ReservedChildren(p)
    <3>1. S \in SUBSET Task /\ Children(p) \in SUBSET S
      BY DEF Children, ReservedChildren, Rows
    <3>2. IsFiniteSet(S) /\ MaxChildren \in Nat
      BY <3>1, TasksFinite, ConstantsAssumption
    <3>3. Within(S, MaxChildren)
      BY <1>1 DEF IInv, ChildrenInv
    <3> HIDE DEF S
    <3>4. QED
      BY <3>1, <3>2, <3>3, WithinLess
  <2>5. LineageIsForest
    BY <2>1 DEF ShapeInv
  <2>6. QED
    BY <2>2, <2>3, <2>4, <2>5 DEF LimitsHold
<1>2. QED
  BY <1>1, Invariant, PTL

(* However many brokers start tasks of a tree at once, those let in under  *)
(* the policy keep within its budgets, but for a task whose state was      *)
(* written over; operations that do not overlap write over none.           *)
THEOREM BudgetSafe == Spec => []BudgetHolds
<1>1. ASSUME IInv PROVE BudgetHolds
  <2>0. alone => overwritten = {}
    BY <1>1 DEF IInv, ShapeInv, ProfileInv
  <2> SUFFICES ASSUME NEW root \in Rows,
                      Cardinality(TreeRows(root)) <= MaxTree
               PROVE  /\ Cardinality(Premium(Admitted(root))) <= MaxPremium
                      /\ Cardinality(Full(Admitted(root))) <= MaxEscalations
                      /\ \A p \in Task :
                            Cardinality(RetriesOf(Admitted(root), p))
                                <= MaxRetries
    BY <2>0 DEF BudgetHolds
  <2> DEFINE A == Admitted(root)
             Q == PassedOf(root)
  <2>1. A \subseteq Q /\ Q \subseteq Task
    BY <1>1 DEF IInv, TypeOK, ShapeInv, ProfileInv, Admitted, PassedOf, Passed
  <2>2. /\ Cardinality(Premium(Q)) <= MaxPremium
        /\ Cardinality(Full(Q)) <= MaxEscalations
        /\ \A p \in Task : Cardinality(RetriesOf(Q, p)) <= MaxRetries
    BY <1>1 DEF IInv, BudgetInv, Rows
  <2>3. ASSUME NEW S \in SUBSET Task, NEW T \in SUBSET S, NEW n \in Nat,
               Cardinality(S) <= n
        PROVE  Cardinality(T) <= n
    BY <2>3, FewerTasks
  <2>4. /\ Premium(A) \in SUBSET Premium(Q) /\ Premium(Q) \in SUBSET Task
        /\ Full(A) \in SUBSET Full(Q) /\ Full(Q) \in SUBSET Task
        /\ \A p : /\ RetriesOf(A, p) \in SUBSET RetriesOf(Q, p)
                  /\ RetriesOf(Q, p) \in SUBSET Task
    BY <2>1 DEF Premium, Full, RetriesOf
  <2>5. {MaxPremium, MaxEscalations, MaxRetries} \subseteq Nat
    BY ConstantsAssumption
  <2> HIDE DEF A, Q
  <2>6. QED
    BY <2>2, <2>3, <2>4, <2>5 DEF A
<1>2. QED
  BY <1>1, Invariant, PTL
=============================================================================
