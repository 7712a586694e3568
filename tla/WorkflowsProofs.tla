-------------------------- MODULE WorkflowsProofs --------------------------
(***************************************************************************)
(* A debate goes on, completes and writes only upon successes it has       *)
(* collected, and its cursor passes no completion it waits for: for any    *)
(* plans, pages of any size, and whatever others do to its tasks.  The     *)
(* argument is that a phase is dispatched only when what came before it    *)
(* has been collected as a success, that a success stays one, and that     *)
(* events of a phase are written only once the phase is there.  What is    *)
(* proved of a council (CouncilProofs) holds beside it.                    *)
(***************************************************************************)
EXTENDS MCWorkflows, FiniteSetTheorems, TLAPS

CP == INSTANCE CouncilProofs WITH
          Plans <- Councils, plan <- cplan, task <- ctask,
          process <- cprocess, answer <- canswer

(* The state of a task that succeeded is what was collected.               *)
Backed(k) ==
    \A i \in IdsOf(Phases[k]) :
        task[i] \in SuccessState /\ collected[i] = task[i]

(* Only a plan that was found valid is carried out.                        *)
PlanInv == at.point \notin {"parse", "done"} => ValidPlan

(* What runs is the process of a task.                                     *)
ProcessInv == \A i \in Id : process[i] # "none" => task[i] # "absent"

(* No participant has a task before its turn.                              *)
TurnInv ==
    /\ at.point \in {"parse", "anchor"} => \A i \in Id : task[i] = "absent"
    /\ at.point = "dispatch" =>
          \A n \in DOMAIN Here : n > sent => task[Here[n].id] = "absent"
    /\ \A k \in 1..3 : k > at.phase =>
          \A i \in IdsOf(Phases[k]) : task[i] = "absent"

(* What is behind the workflow has succeeded, and was collected as it is.  *)
BackedInv ==
    /\ \A k \in 1..3 : k < at.phase => Backed(k)
    /\ at.point \in {"validate", "materialize"} \/ answer = "completed" =>
          at.phase = 3 /\ Backed(3)
    /\ \A i \in Id : collected[i] \in SuccessState => collected[i] = task[i]

(* What is to be written, or was, has passed the validation.               *)
TextInv ==
    /\ at.point = "materialize" => text.contract /\ text.criteria
    /\ answer # "none" => at.point = "done"
    /\ written # "none" =>
          /\ answer = "completed" /\ written = "inside" /\ ~plan.dry
          /\ text.contract /\ text.criteria

(* Events are of tasks that are there; of a phase that is being dispatched *)
(* none has been read.                                                     *)
LogInv ==
    /\ \A n \in DOMAIN log : task[log[n][1]] # "absent"
    /\ at.point = "dispatch" => \A n \in 1..cursor : log[n][1] \notin Expected

IInv ==
    /\ TypeOK
    /\ PlanInv /\ ProcessInv /\ TurnInv /\ BackedInv /\ TextInv /\ LogInv
    /\ CursorMissesNothing

-----------------------------------------------------------------------------
(* Plans.                                                                  *)

LEMMA PlanType ==
    ASSUME plan \in Plans
    PROVE  /\ plan.openings \in Seq(Participant)
           /\ plan.rebuttals \in Seq(Participant)
           /\ plan.synthesis \in Participant
           /\ Phases[1] = plan.openings /\ Phases[2] = plan.rebuttals
           /\ Phases[3] = <<plan.synthesis>>
           /\ \A k \in 1..3 : Phases[k] \in Seq(Participant)
<1>1. plan \in Plan
  BY PlansAssumption
<1>2. /\ plan.openings \in Seq(Participant)
      /\ plan.rebuttals \in Seq(Participant)
      /\ plan.synthesis \in Participant
  BY <1>1 DEF Plan
<1>3. /\ Phases[1] = plan.openings /\ Phases[2] = plan.rebuttals
      /\ Phases[3] = <<plan.synthesis>>
  BY DEF Phases
<1>4. <<plan.synthesis>> \in Seq(Participant)
  BY <1>2
<1>5. Phases[1] \in Seq(Participant) /\ Phases[2] \in Seq(Participant)
      /\ Phases[3] \in Seq(Participant)
  BY <1>2, <1>3, <1>4
<1>6. \A k \in 1..3 : k = 1 \/ k = 2 \/ k = 3
  OBVIOUS
<1>7. \A k \in 1..3 : Phases[k] \in Seq(Participant)
  BY <1>5, <1>6, Zenon
<1>8. QED
  BY <1>2, <1>3, <1>7

LEMMA IdsIn ==
    ASSUME NEW s \in Seq(Participant)
    PROVE  /\ IdsOf(s) \subseteq Id
           /\ \A n \in DOMAIN s : s[n].id \in IdsOf(s)
           /\ \A i \in IdsOf(s) : \E n \in DOMAIN s : i = s[n].id
<1>1. \A n \in DOMAIN s : s[n] \in Participant
  OBVIOUS
<1>2. QED
  BY <1>1 DEF IdsOf, Participant

LEMMA PhaseIds ==
    ASSUME plan \in Plans, NEW k \in 1..3
    PROVE  /\ IdsOf(Phases[k]) \subseteq Id
           /\ \A n \in DOMAIN Phases[k] : Phases[k][n].id \in IdsOf(Phases[k])
           /\ \A i \in IdsOf(Phases[k]) :
                 \E n \in DOMAIN Phases[k] : i = Phases[k][n].id
<1>1. Phases[k] \in Seq(Participant)
  BY PlanType
<1> HIDE DEF Phases
<1>2. QED
  BY <1>1, IdsIn

(* The ids of a sequence are its image.                                    *)
LEMMA IdsSurjection ==
    ASSUME NEW s \in Seq(Participant)
    PROVE  [n \in 1..Len(s) |-> s[n].id] \in Surjection(1..Len(s), IdsOf(s))
<1> DEFINE f == [n \in 1..Len(s) |-> s[n].id]
<1>1. DOMAIN s = 1..Len(s)
  OBVIOUS
<1>2. \A n \in 1..Len(s) : f[n] = s[n].id
  OBVIOUS
<1>3. f = [n \in 1..Len(s) |-> f[n]]
  OBVIOUS
<1> HIDE DEF f
<1>4. f \in [1..Len(s) -> IdsOf(s)]
  BY <1>1, <1>2, <1>3, IdsIn
<1>5. \A i \in IdsOf(s) : \E n \in 1..Len(s) : f[n] = i
  BY <1>1, <1>2, IdsIn
<1>6. f \in Surjection(1..Len(s), IdsOf(s))
  BY <1>4, <1>5 DEF Surjection
<1>7. QED
  BY <1>6 DEF f

LEMMA OneTo ==
    ASSUME NEW n \in Nat
    PROVE  IsFiniteSet(1..n) /\ Cardinality(1..n) = n
<1>1. IsFiniteSet(1..n) /\ Cardinality(1..n) = IF 1 > n THEN 0 ELSE n - 1 + 1
  BY FS_Interval
<1>2. (IF 1 > n THEN 0 ELSE n - 1 + 1) = n
  OBVIOUS
<1>3. QED
  BY <1>1, <1>2

LEMMA ConcatAt ==
    ASSUME NEW X, NEW s \in Seq(X), NEW t \in Seq(X)
    PROVE  /\ s \o t \in Seq(X)
           /\ Len(s \o t) = Len(s) + Len(t)
           /\ \A n \in 1..Len(s) : (s \o t)[n] = s[n]
           /\ \A n \in 1..Len(t) : (s \o t)[Len(s) + n] = t[n]
OBVIOUS

LEMMA IdsFinite ==
    ASSUME NEW s \in Seq(Participant)
    PROVE  IsFiniteSet(IdsOf(s))
<1>1. IsFiniteSet(1..Len(s))
  BY OneTo
<1>2. QED
  BY <1>1, IdsSurjection, FS_Surjection

(* A sequence with as many ids as members has no id twice.                 *)
LEMMA DistinctIds ==
    ASSUME NEW s \in Seq(Participant), Cardinality(IdsOf(s)) = Len(s)
    PROVE  \A m, n \in DOMAIN s : s[m].id = s[n].id => m = n
<1> DEFINE f == [n \in 1..Len(s) |-> s[n].id]
<1>1. DOMAIN s = 1..Len(s) /\ Len(s) \in Nat
  OBVIOUS
<1>2. f \in Surjection(1..Len(s), IdsOf(s))
  BY IdsSurjection
<1>3. IsFiniteSet(1..Len(s)) /\ Cardinality(1..Len(s)) = Len(s)
  BY <1>1, OneTo
<1>4. \A n \in 1..Len(s) : f[n] = s[n].id
  OBVIOUS
<1> HIDE DEF f
<1>5. f \in Injection(1..Len(s), IdsOf(s))
  BY <1>2, <1>3, FS_Surjection
<1>6. \A m, n \in 1..Len(s) : f[m] = f[n] => m = n
  BY <1>5 DEF Injection, IsInjective
<1>7. QED
  BY <1>1, <1>4, <1>6

(* In a valid plan no id is used twice, in one phase or in two.            *)
LEMMA PhasesDistinct ==
    ASSUME plan \in Plans, ValidPlan
    PROVE  \A k, l \in 1..3 : \A m \in DOMAIN Phases[k], n \in DOMAIN Phases[l] :
              Phases[k][m].id = Phases[l][n].id => k = l /\ m = n
<1> DEFINE a == plan.openings
           b == plan.rebuttals
           o == Len(a)
           r == Len(b)
           both == a \o b
           whole == both \o <<plan.synthesis>>
<1>1. /\ a \in Seq(Participant) /\ b \in Seq(Participant)
      /\ <<plan.synthesis>> \in Seq(Participant)
      /\ Phases[1] = a /\ Phases[2] = b
      /\ Phases[3] = <<plan.synthesis>>
  BY PlanType
<1>2. /\ o \in Nat /\ r \in Nat
      /\ DOMAIN Phases[1] = 1..o /\ DOMAIN Phases[2] = 1..r
      /\ DOMAIN Phases[3] = 1..1
      /\ Len(<<plan.synthesis>>) = 1
  BY <1>1
<1>3. Cardinality(IdsOf(whole)) = Len(whole)
  BY DEF ValidPlan
<1> HIDE DEF a, b
<1>4. /\ both \in Seq(Participant) /\ Len(both) = o + r
      /\ \A n \in 1..o : both[n] = Phases[1][n]
      /\ \A n \in 1..r : both[o + n] = Phases[2][n]
  BY <1>1, ConcatAt
<1> HIDE DEF both, o, r
<1>5. /\ whole \in Seq(Participant) /\ Len(whole) = o + r + 1
      /\ \A n \in 1..(o + r) : whole[n] = both[n]
      /\ \A n \in 1..1 : whole[o + r + n] = Phases[3][n]
  BY <1>1, <1>2, <1>4, ConcatAt
<1> HIDE DEF whole, Phases
<1>6. DOMAIN whole = 1..(o + r + 1)
  BY <1>5
<1>7. \A m, n \in 1..(o + r + 1) : whole[m].id = whole[n].id => m = n
  BY <1>3, <1>5, <1>6, DistinctIds
<1>8. ASSUME NEW k \in 1..3, NEW n \in DOMAIN Phases[k]
      PROVE  \E p \in 1..(o + r + 1) :
                /\ whole[p] = Phases[k][n]
                /\ \/ k = 1 /\ p = n /\ n <= o
                   \/ k = 2 /\ p = o + n /\ 1 <= n /\ n <= r
                   \/ k = 3 /\ p = o + r + 1 /\ n = 1
  <2>1. CASE k = 1
    <3>1. n \in 1..o
      BY <1>2, <2>1
    <3>2. n \in 1..(o + r) /\ n \in 1..(o + r + 1) /\ n <= o
      BY <1>2, <3>1
    <3>3. whole[n] = Phases[1][n]
      BY <1>4, <1>5, <3>1, <3>2
    <3>4. QED
      BY <2>1, <3>2, <3>3
  <2>2. CASE k = 2
    <3>1. n \in DOMAIN Phases[2]
      BY <2>2
    <3>2. n \in 1..r
      BY <1>2, <3>1
    <3>3. /\ o + n \in 1..(o + r) /\ o + n \in 1..(o + r + 1)
          /\ 1 <= n /\ n <= r
      BY <1>2, <3>2
    <3>4. whole[o + n] = Phases[2][n]
      BY <1>4, <1>5, <3>2, <3>3
    <3>5. QED
      BY <2>2, <3>3, <3>4
  <2>3. CASE k = 3
    <3>1. n = 1
      BY <1>2, <2>3
    <3>2. o + r + 1 \in 1..(o + r + 1)
      BY <1>2
    <3>3. whole[o + r + 1] = Phases[3][1]
      BY <1>5
    <3>4. QED
      BY <2>3, <3>1, <3>2, <3>3
  <2>4. QED
    BY <2>1, <2>2, <2>3
<1>9. ASSUME NEW k \in 1..3, NEW l \in 1..3,
             NEW m \in DOMAIN Phases[k], NEW n \in DOMAIN Phases[l],
             Phases[k][m].id = Phases[l][n].id
      PROVE  k = l /\ m = n
  <2>1. PICK p \in 1..(o + r + 1) :
           /\ whole[p] = Phases[k][m]
           /\ \/ k = 1 /\ p = m /\ m <= o
              \/ k = 2 /\ p = o + m /\ 1 <= m /\ m <= r
              \/ k = 3 /\ p = o + r + 1 /\ m = 1
    BY <1>8
  <2>2. PICK q \in 1..(o + r + 1) :
           /\ whole[q] = Phases[l][n]
           /\ \/ l = 1 /\ q = n /\ n <= o
              \/ l = 2 /\ q = o + n /\ 1 <= n /\ n <= r
              \/ l = 3 /\ q = o + r + 1 /\ n = 1
    BY <1>8
  <2>3. p = q
    BY <1>7, <1>9, <2>1, <2>2
  <2>4. m \in Int /\ n \in Int
    BY <1>2
  <2>5. QED
    BY <1>2, <2>1, <2>2, <2>3, <2>4
<1>10. QED
  BY <1>9

-----------------------------------------------------------------------------
(* What a step leaves alone.                                               *)

LEMMA Going ==
    ASSUME TypeOK, NEW p \in Points, Goto(p)
    PROVE  /\ at' \in [point : Points, phase : 1..3]
           /\ at'.point = p /\ at'.phase = at.phase
BY DEF TypeOK, Goto

LEMMA SamePhase ==
    ASSUME plan' = plan
    PROVE  /\ Phases' = Phases /\ ValidPlan' = ValidPlan
           /\ at'.phase = at.phase => Here' = Here /\ Expected' = Expected
<1>1. Phases' = Phases
  BY DEF Phases
<1>2. ValidPlan' = ValidPlan
  BY DEF ValidPlan, IdsOf
<1>3. at'.phase = at.phase => Here' = Here
  BY <1>1 DEF Here
<1>4. at'.phase = at.phase => Expected' = Expected
  BY <1>3 DEF Expected, IdsOf
<1>5. QED
  BY <1>1, <1>2, <1>3, <1>4

LEMMA HereType ==
    ASSUME TypeOK
    PROVE  /\ plan \in Plans /\ at.phase \in 1..3
           /\ Here = Phases[at.phase] /\ Here \in Seq(Participant)
           /\ Expected = IdsOf(Here) /\ Expected \subseteq Id
           /\ Len(Here) \in Nat /\ DOMAIN Here = 1..Len(Here)
           /\ \A n \in DOMAIN Here : Here[n].id \in Expected
           /\ \A i \in Expected : \E n \in DOMAIN Here : i = Here[n].id
<1>1. plan \in Plans /\ at.phase \in 1..3
  BY DEF TypeOK
<1>2. Here = Phases[at.phase] /\ Expected = IdsOf(Here)
  BY DEF Here, Expected
<1>3. Here \in Seq(Participant)
  BY <1>1, <1>2, PlanType
<1>4. /\ Expected \subseteq Id
      /\ \A n \in DOMAIN Here : Here[n].id \in Expected
      /\ \A i \in Expected : \E n \in DOMAIN Here : i = Here[n].id
  BY <1>2, <1>3, IdsIn
<1>5. Len(Here) \in Nat /\ DOMAIN Here = 1..Len(Here)
  BY <1>3
<1>6. QED
  BY <1>1, <1>2, <1>3, <1>4, <1>5

(* The log grows by events of tasks that are there.                        *)
Grows ==
    /\ log' \in Seq(Id \X Outcome) /\ Len(log) <= Len(log')
    /\ \A n \in 1..Len(log) : log'[n] = log[n]
    /\ \A n \in 1..Len(log') : n > Len(log) => task'[log'[n][1]] # "absent"

(* A success stays as it is, and a task that is there stays there.         *)
Steady ==
    /\ plan' = plan
    /\ task' \in [Id -> TaskState \cup {"absent"}]
    /\ \A j \in Id :
          /\ task[j] \in SuccessState => task'[j] = task[j]
          /\ task[j] # "absent" => task'[j] # "absent"
    /\ Grows

(* No task comes to be there.                                              *)
NoneStarts == \A j \in Id : task[j] = "absent" => task'[j] = "absent"

LEMMA SettlesSteady ==
    ASSUME TypeOK, plan' = plan, NEW i \in Id, NEW to \in Outcome,
           task[i] \notin SuccessState, Settles(i, to)
    PROVE  /\ Steady
           /\ \A j \in Id : j # i => task'[j] = task[j]
           /\ task'[i] = to
<1>1. /\ task' = [task EXCEPT ![i] = to] /\ log' = Append(log, <<i, to>>)
      /\ task \in [Id -> TaskState \cup {"absent"}]
      /\ log \in Seq(Id \X Outcome)
  BY DEF TypeOK, Settles
<1>2. to \in TaskState /\ to # "absent"
  BY DEF Outcome, TaskState, TerminalState
<1>3. /\ task' \in [Id -> TaskState \cup {"absent"}]
      /\ \A j \in Id : j # i => task'[j] = task[j]
      /\ task'[i] = to
  BY <1>1, <1>2
<1>4. <<i, to>> \in Id \X Outcome
  OBVIOUS
<1>5. /\ log' \in Seq(Id \X Outcome) /\ Len(log') = Len(log) + 1
      /\ \A n \in 1..Len(log) : log'[n] = log[n]
      /\ log'[Len(log) + 1] = <<i, to>>
      /\ Len(log) \in Nat
  BY <1>1, <1>4
<1>6. \A n \in 1..Len(log') : n > Len(log) => n = Len(log) + 1
  BY <1>5
<1>7. Grows
  BY <1>2, <1>3, <1>5, <1>6 DEF Grows
<1>8. QED
  BY <1>2, <1>3, <1>7 DEF Steady

LEMMA QuietSteady ==
    ASSUME TypeOK, plan' = plan, UNCHANGED <<task, log>>
    PROVE  Steady /\ NoneStarts
<1>1. Len(log) \in Nat
  BY DEF TypeOK
<1>2. Grows
  BY <1>1 DEF Grows, TypeOK
<1>3. QED
  BY <1>2 DEF Steady, NoneStarts, TypeOK

LEMMA PollSteady ==
    ASSUME TypeOK, Poll
    PROVE  Steady /\ NoneStarts
<1>1. /\ plan' = plan
      /\ task' = [i \in Id |-> IF i \in Pumped THEN Verdict(i) ELSE task[i]]
      /\ task \in [Id -> TaskState \cup {"absent"}]
      /\ log \in Seq(Id \X Outcome)
  BY DEF Poll, TypeOK
<1>2. PICK order \in SetToSeqs(Pumped) : log' = LogPumped(order)
  BY DEF Poll
<1>3. /\ Pumped \subseteq Expected /\ Pumped \subseteq Id
      /\ \A i \in Pumped : task[i] = "running"
  BY HereType DEF Pumped, Finished
<1>4. \A i \in Id : /\ Verdict(i) \in Outcome /\ Verdict(i) \in TaskState
                    /\ Verdict(i) # "absent"
  BY DEF Verdict, Outcome, TerminalState, TaskState
<1>5. IsFiniteSet(Pumped)
  BY <1>3, HereType, IdsFinite, FS_Subset
<1>6. Cardinality(Pumped) \in Nat
  BY <1>5, FS_CardinalityType
<1>7. order \in [1..Cardinality(Pumped) -> Pumped]
  BY DEF SetToSeqs
<1> DEFINE events == [k \in DOMAIN order |-> <<order[k], Verdict(order[k])>>]
<1>8. /\ DOMAIN events = 1..Cardinality(Pumped)
      /\ \A k \in DOMAIN events : /\ events[k] \in Id \X Outcome
                                  /\ events[k][1] \in Pumped
  BY <1>3, <1>4, <1>7
<1>9. log' = log \o events
  BY <1>2 DEF LogPumped
<1> HIDE DEF events
<1>10. events \in Seq(Id \X Outcome)
  <2>1. events = [k \in 1..Cardinality(Pumped) |-> events[k]]
    BY <1>8 DEF events
  <2>2. QED
    BY <1>6, <1>8, <2>1
<1>11. DOMAIN events = 1..Len(events) /\ Len(events) \in Nat /\ Len(log) \in Nat
  BY <1>1, <1>10
<1>12. /\ log' \in Seq(Id \X Outcome) /\ Len(log') = Len(log) + Len(events)
       /\ \A n \in 1..Len(log) : log'[n] = log[n]
       /\ \A n \in 1..Len(events) : log'[Len(log) + n] = events[n]
  BY <1>1, <1>9, <1>10, ConcatAt
<1>13. /\ task' \in [Id -> TaskState \cup {"absent"}]
       /\ \A j \in Id : task'[j] = IF j \in Pumped THEN Verdict(j) ELSE task[j]
  BY <1>1, <1>4
<1>14. \A n \in 1..Len(log') : n > Len(log) => task'[log'[n][1]] # "absent"
  <2> SUFFICES ASSUME NEW n \in 1..Len(log'), n > Len(log)
               PROVE  task'[log'[n][1]] # "absent"
    OBVIOUS
  <2>1. n - Len(log) \in 1..Len(events) /\ n = Len(log) + (n - Len(log))
    BY <1>11, <1>12
  <2>2. log'[n] = events[n - Len(log)]
    BY <1>12, <2>1
  <2>3. log'[n][1] \in Pumped
    BY <1>8, <1>11, <2>1, <2>2
  <2>4. QED
    BY <1>3, <1>4, <1>13, <2>3
<1>15. Grows
  BY <1>11, <1>12, <1>14 DEF Grows
<1>16. \A j \in Id : /\ task[j] \in SuccessState => task'[j] = task[j]
                     /\ (task[j] = "absent") <=> (task'[j] = "absent")
  BY <1>3, <1>4, <1>13 DEF SuccessState
<1>17. QED
  BY <1>1, <1>13, <1>15, <1>16 DEF Steady, NoneStarts

LEMMA OthersSteady ==
    ASSUME TypeOK, NEW i \in Id, RuntimeEnds(i) \/ Others(i) \/ Readopts(i)
    PROVE  Steady /\ NoneStarts
<1>1. plan' = plan
  BY DEF RuntimeEnds, Others, Readopts, workflow
<1>2. CASE RuntimeEnds(i)
  BY <1>1, <1>2, QuietSteady DEF RuntimeEnds
<1>3. CASE Others(i)
  <2>1. PICK to \in {"cancelled", "recovery_required", "failed"} :
           Settles(i, to) /\ task[i] \in {"running", "recovery_required"}
    BY <1>3 DEF Others
  <2>2. to \in Outcome /\ task[i] \notin SuccessState /\ to # "absent"
    BY <2>1 DEF Outcome, TerminalState, SuccessState
  <2>3. /\ Steady /\ task'[i] = to
        /\ \A j \in Id : j # i => task'[j] = task[j]
    BY <1>1, <2>1, <2>2, SettlesSteady
  <2>4. QED
    BY <2>1, <2>3 DEF NoneStarts
<1>4. CASE Readopts(i)
  <2>1. /\ task[i] = "recovery_required" /\ log' = log
        /\ task' = [task EXCEPT ![i] = "running"]
        /\ task \in [Id -> TaskState \cup {"absent"}]
    BY <1>4 DEF Readopts, TypeOK
  <2>2. /\ task' \in [Id -> TaskState \cup {"absent"}] /\ task'[i] = "running"
        /\ \A j \in Id : j # i => task'[j] = task[j]
    BY <2>1 DEF TaskState
  <2>3. Grows
    BY <2>1 DEF Grows, TypeOK
  <2>4. QED
    BY <1>1, <2>1, <2>2, <2>3 DEF Steady, NoneStarts, SuccessState
<1>5. QED
  BY <1>2, <1>3, <1>4

(* What collect() does, or a refusal of it.                                *)
LEMMA CollectSteady ==
    ASSUME TypeOK, ProcessInv, Collect
    PROVE  /\ Steady /\ NoneStarts
           /\ collected' \in [Id -> TaskState \cup {"none"}]
           /\ \A j \in Id : /\ collected'[j] \in SuccessState
                            /\ collected'[j] # collected[j]
                            => collected'[j] = task'[j]
<1> DEFINE i == Here[sent + 1].id
<1>1. sent \in Nat /\ sent < Len(Here) /\ plan' = plan
  BY HereType DEF Collect, TypeOK
<1>2. i \in Id
  <2>1. sent + 1 \in DOMAIN Here
    BY <1>1, HereType
  <2>2. QED
    BY <2>1, HereType
<1>3. /\ task \in [Id -> TaskState \cup {"absent"}]
      /\ collected \in [Id -> TaskState \cup {"none"}]
  BY DEF TypeOK
<1>4. \/ /\ task[i] \in TerminalState \/ process[i] = "alive"
         /\ collected' = [collected EXCEPT ![i] = task[i]]
         /\ UNCHANGED <<task, log>>
      \/ /\ Finished(i) /\ Settles(i, Verdict(i))
         /\ collected' = [collected EXCEPT ![i] = Verdict(i)]
      \/ UNCHANGED <<collected, task, log>>
  BY DEF Collect, broker
<1> HIDE DEF i
<1>5. CASE UNCHANGED <<collected, task, log>>
  BY <1>1, <1>3, <1>5, QuietSteady
<1>6. CASE /\ collected' = [collected EXCEPT ![i] = task[i]]
           /\ UNCHANGED <<task, log>>
  <2>1. Steady /\ NoneStarts
    BY <1>1, <1>6, QuietSteady
  <2>2. task[i] \in TaskState
    BY <1>2, <1>3, <1>4, <1>6 DEF ProcessInv, Finished, TerminalState, TaskState
  <2>3. QED
    BY <1>2, <1>3, <1>6, <2>1, <2>2
<1>7. CASE /\ Finished(i) /\ Settles(i, Verdict(i))
           /\ collected' = [collected EXCEPT ![i] = Verdict(i)]
  <2>1. /\ Verdict(i) \in Outcome /\ Verdict(i) \in TaskState
        /\ Verdict(i) # "absent" /\ task[i] = "running"
    BY <1>7 DEF Verdict, Outcome, TerminalState, TaskState, Finished
  <2>2. /\ Steady /\ task'[i] = Verdict(i)
        /\ \A j \in Id : j # i => task'[j] = task[j]
    BY <1>1, <1>2, <1>7, <2>1, SettlesSteady DEF SuccessState
  <2>3. NoneStarts
    BY <2>1, <2>2 DEF NoneStarts
  <2>4. QED
    BY <1>2, <1>3, <1>7, <2>1, <2>2, <2>3
<1>8. QED
  BY <1>4, <1>5, <1>6, <1>7

(* A participant is dispatched that has no task and is not another's.      *)
LEMMA DispatchSteady ==
    ASSUME IInv, Dispatch
    PROVE  \E i \in Expected :
              /\ i = Here[sent + 1].id /\ task[i] = "absent"
              /\ Steady /\ \A j \in Id : j # i => task'[j] = task[j]
              /\ \A j \in Id : j # i => process'[j] = process[j]
              /\ process' \in [Id -> {"none", "alive", "done", "broken"}]
              /\ process'[i] = process[i] \/ task'[i] = "running"
<1> DEFINE i == Here[sent + 1].id
<1>1. /\ TypeOK /\ plan' = plan /\ at.point = "dispatch"
      /\ sent \in Nat /\ sent < Len(Here)
  BY HereType DEF IInv, Dispatch, TypeOK, At
<1>2. sent + 1 \in DOMAIN Here /\ sent + 1 > sent
  BY <1>1, HereType
<1>3. i \in Expected /\ i \in Id /\ task[i] = "absent"
  BY <1>1, <1>2, HereType DEF IInv, TurnInv
<1>4. \/ UNCHANGED <<task, log, process>>
      \/ Settles(i, "rejected") /\ UNCHANGED process
      \/ Settles(i, "failed") /\ UNCHANGED process
      \/ /\ task' = [task EXCEPT ![i] = "running"]
         /\ process' = [process EXCEPT ![i] = "alive"] /\ UNCHANGED log
  BY DEF Dispatch, broker
<1> HIDE DEF i
<1>5. /\ task \in [Id -> TaskState \cup {"absent"}]
      /\ process \in [Id -> {"none", "alive", "done", "broken"}]
      /\ task[i] \notin SuccessState
      /\ "rejected" \in Outcome /\ "failed" \in Outcome
  BY <1>1, <1>3 DEF TypeOK, SuccessState, Outcome, TerminalState
<1>6. CASE UNCHANGED <<task, log, process>>
  BY <1>1, <1>3, <1>5, <1>6, QuietSteady DEF i
<1>7. CASE (Settles(i, "rejected") \/ Settles(i, "failed")) /\ UNCHANGED process
  <2>1. Steady /\ \A j \in Id : j # i => task'[j] = task[j]
    BY <1>1, <1>3, <1>5, <1>7, SettlesSteady
  <2>2. QED
    BY <1>3, <1>5, <1>7, <2>1 DEF i
<1>8. CASE /\ task' = [task EXCEPT ![i] = "running"]
           /\ process' = [process EXCEPT ![i] = "alive"] /\ UNCHANGED log
  <2>1. /\ task' \in [Id -> TaskState \cup {"absent"}] /\ task'[i] = "running"
        /\ \A j \in Id : j # i => task'[j] = task[j]
        /\ \A j \in Id : j # i => process'[j] = process[j]
        /\ process' \in [Id -> {"none", "alive", "done", "broken"}]
    BY <1>3, <1>5, <1>8 DEF TaskState
  <2>2. Grows
    BY <1>1, <1>8 DEF Grows, TypeOK
  <2>3. Steady
    BY <1>1, <1>3, <1>5, <2>1, <2>2 DEF Steady
  <2>4. QED
    BY <1>3, <2>1, <2>3 DEF i
<1>9. QED
  BY <1>4, <1>6, <1>7, <1>8

Other == \/ Parse \/ Anchor \/ Dispatched \/ TimesOut \/ EndPhase \/ Validate
         \/ Materialize \/ Deadline \/ UNCHANGED vars

LEMMA NextIs ==
    ASSUME [Next]_vars
    PROVE  \/ Dispatch \/ Poll \/ Collect \/ Other
           \/ \E i \in Id : RuntimeEnds(i) \/ Others(i) \/ Readopts(i)
BY DEF Next, Works, Other

LEMMA OtherQuiet ==
    ASSUME Other
    PROVE  plan' = plan /\ UNCHANGED <<task, process, log, collected>>
BY DEF Other, Parse, Anchor, Dispatched, TimesOut, EndPhase, Validate,
       Materialize, Deadline, vars, broker, workflow

(* What every step leaves alone; only a dispatch starts a task.            *)
LEMMA StepSteady ==
    ASSUME IInv, [Next]_vars
    PROVE  /\ Steady
           /\ Dispatch \/ NoneStarts
           /\ collected' \in [Id -> TaskState \cup {"none"}]
           /\ \A j \in Id : /\ collected'[j] \in SuccessState
                            /\ collected'[j] # collected[j]
                            => collected'[j] = task'[j]
<1>1. TypeOK /\ ProcessInv
  BY DEF IInv
<1>2. CASE Dispatch
  <2>1. Steady
    BY <1>2, DispatchSteady
  <2>2. collected' = collected
    BY <1>2 DEF Dispatch
  <2>3. QED
    BY <1>1, <1>2, <2>1, <2>2 DEF TypeOK
<1>3. CASE Poll
  BY <1>1, <1>3, PollSteady DEF Poll, TypeOK
<1>4. CASE Collect
  BY <1>1, <1>4, CollectSteady
<1>5. CASE Other
  BY <1>1, <1>5, OtherQuiet, QuietSteady DEF TypeOK
<1>6. CASE \E i \in Id : RuntimeEnds(i) \/ Others(i) \/ Readopts(i)
  <2>1. Steady /\ NoneStarts
    BY <1>1, <1>6, OthersSteady
  <2>2. collected' = collected
    BY <1>6 DEF RuntimeEnds, Others, Readopts, workflow
  <2>3. QED
    BY <1>1, <2>1, <2>2 DEF TypeOK
<1>7. QED
  BY <1>2, <1>3, <1>4, <1>5, <1>6, NextIs

(* A runtime is started with the task and survives nothing it outlives.    *)
LEMMA ProcessStep ==
    ASSUME IInv, [Next]_vars
    PROVE  /\ process' \in [Id -> {"none", "alive", "done", "broken"}]
           /\ ProcessInv'
<1>1. /\ process \in [Id -> {"none", "alive", "done", "broken"}]
      /\ ProcessInv
      /\ \A j \in Id : task[j] # "absent" => task'[j] # "absent"
  BY StepSteady DEF IInv, TypeOK, Steady
<1>2. CASE Dispatch
  <2>1. PICK i \in Expected :
           /\ \A j \in Id : j # i => process'[j] = process[j]
           /\ process' \in [Id -> {"none", "alive", "done", "broken"}]
           /\ process'[i] = process[i] \/ task'[i] = "running"
    BY <1>2, DispatchSteady
  <2>2. QED
    BY <1>1, <2>1 DEF ProcessInv
<1>3. CASE UNCHANGED process
  BY <1>1, <1>3 DEF ProcessInv
<1>4. CASE \E i \in Id : RuntimeEnds(i) \/ Others(i) \/ Readopts(i)
  <2>1. PICK i \in Id : RuntimeEnds(i) \/ Others(i) \/ Readopts(i)
    BY <1>4
  <2>2. \/ process' = process
        \/ /\ process[i] = "alive"
           /\ \E how \in {"done", "broken"} : process' = [process EXCEPT ![i] = how]
    BY <2>1 DEF RuntimeEnds, Others, Readopts
  <2>3. QED
    BY <1>1, <2>2 DEF ProcessInv
<1>5. QED
  BY <1>2, <1>3, <1>4, NextIs, OtherQuiet DEF Poll, Collect, broker

(* The phase changes only upon what is dispatched or collected in full.    *)
LEMMA PhaseStep ==
    ASSUME IInv, [Next]_vars
    PROVE  /\ at' \in [point : Points, phase : 1..3]
           /\ \/ at'.phase = at.phase
              \/ /\ at'.phase = at.phase + 1 /\ sent' = 0
                 /\ at'.point = "dispatch"
                 /\ \/ at.point = "dispatch" /\ Dispatched /\ Here = <<>>
                    \/ at.point = "collect" /\ EndPhase /\ ~PhaseFailed
<1>1. TypeOK /\ at \in [point : Points, phase : 1..3]
  BY DEF IInv, TypeOK
<1>2. CASE at' = at
  BY <1>1, <1>2
<1>3. CASE \E p \in Points : Goto(p)
  BY <1>1, <1>3, Going
<1>4. CASE Dispatched /\ Here = <<>>
  <2>1. at.phase # 3
    <3>1. Here = Phases[at.phase] /\ Phases[3] = <<plan.synthesis>>
      BY <1>1, HereType, PlanType
    <3>2. <<plan.synthesis>> # <<>>
      OBVIOUS
    <3>3. QED
      BY <1>4, <3>1, <3>2, Zenon
  <2>2. at' = [at EXCEPT !.phase = at.phase + 1] /\ at.point = "dispatch" /\ sent' = 0
    BY <1>4 DEF Dispatched, At
  <2>3. at.phase + 1 \in 1..3
    BY <1>1, <2>1
  <2>4. QED
    BY <1>1, <1>4, <2>2, <2>3
<1>5. CASE /\ EndPhase /\ ~PhaseFailed /\ at.phase # 3
  <2>1. /\ at' = [point |-> "dispatch", phase |-> at.phase + 1]
        /\ sent' = 0 /\ at.point = "collect"
    BY <1>5 DEF EndPhase, At
  <2>2. at.phase + 1 \in 1..3 /\ "dispatch" \in Points
    BY <1>1, <1>5 DEF Points
  <2>3. QED
    BY <1>5, <2>1, <2>2
<1>6. CASE EndPhase /\ ~(~PhaseFailed /\ at.phase # 3)
  BY <1>6, <1>3 DEF EndPhase, Goto, Returns, Points
<1>7. \A p \in {"done", "anchor", "dispatch", "wait", "collect", "validate",
                "materialize"} : p \in Points
  BY DEF Points
<1>8. CASE Parse \/ Anchor \/ Dispatch \/ Poll \/ Collect
  BY <1>2, <1>3, <1>7, <1>8 DEF Parse, Anchor, Dispatch, Poll, Collect, Returns
<1>9. CASE Validate \/ Materialize \/ TimesOut
  BY <1>2, <1>3, <1>7, <1>9 DEF Validate, Materialize, TimesOut, Returns
<1>10. CASE Dispatched /\ Here # <<>>
  BY <1>3, <1>7, <1>10 DEF Dispatched
<1>11. CASE Deadline \/ UNCHANGED vars
  BY <1>2, <1>11 DEF Deadline, vars, workflow
<1>12. CASE \E i \in Id : RuntimeEnds(i) \/ Others(i) \/ Readopts(i)
  BY <1>2, <1>12 DEF RuntimeEnds, Others, Readopts, workflow
<1>13. QED
  BY <1>4, <1>5, <1>6, <1>8, <1>9, <1>10, <1>11, <1>12, NextIs DEF Other

LEMMA SentStep ==
    ASSUME IInv, [Next]_vars
    PROVE  sent' \in 0..Len(Here')
<1>1. TypeOK /\ sent \in 0..Len(Here) /\ Len(Here) \in Nat
  BY HereType DEF IInv, TypeOK
<1>2. /\ plan' = plan /\ plan \in Plans
      /\ at' \in [point : Points, phase : 1..3]
  BY StepSteady, PhaseStep DEF Steady, IInv, TypeOK
<1>3. Len(Here') \in Nat
  <2>1. Here' = Phases'[at'.phase]
    BY DEF Here
  <2>2. Phases' = Phases /\ at'.phase \in 1..3
    BY <1>2, SamePhase
  <2>3. Here' \in Seq(Participant)
    BY <1>2, <2>1, <2>2, PlanType
  <2>4. QED
    BY <2>3
<1>4. CASE sent' = 0
  BY <1>3, <1>4
<1>5. CASE /\ at'.phase = at.phase
           /\ sent' = sent \/ (sent < Len(Here) /\ sent' = sent + 1)
  <2>1. Here' = Here
    BY <1>2, <1>5, SamePhase
  <2>2. sent' \in 0..Len(Here)
    BY <1>1, <1>5
  <2>3. QED
    BY <2>1, <2>2
<1>6. \/ sent' = 0 \/ sent' = sent
      \/ sent < Len(Here) /\ sent' = sent + 1
  <2>1. CASE Dispatch
    BY <2>1 DEF Dispatch
  <2>2. CASE Poll
    BY <2>2 DEF Poll
  <2>3. CASE Collect
    BY <2>3 DEF Collect
  <2>4. CASE Other
    BY <2>4 DEF Other, Parse, Anchor, Dispatched, TimesOut, EndPhase, Validate,
           Materialize, Deadline, vars, workflow
  <2>5. CASE \E i \in Id : RuntimeEnds(i) \/ Others(i) \/ Readopts(i)
    BY <2>5 DEF RuntimeEnds, Others, Readopts, workflow
  <2>6. QED
    BY <2>1, <2>2, <2>3, <2>4, <2>5, NextIs
<1>7. QED
  BY <1>4, <1>5, <1>6, PhaseStep

(* A poll moves the cursor by a page, and sees what is on it.              *)
LEMMA PollReads ==
    ASSUME IInv, Poll
    PROVE  /\ cursor' \in 0..Len(log')
           /\ seen' \subseteq Expected
           /\ \A k \in 1..cursor' :
                 /\ log'[k][1] \in Expected
                 /\ k <= cursor => log[k][1] \in seen
                 => log'[k][1] \in seen'
<1> DEFINE to == Least(cursor + PageLimit, Len(log'))
           page == SubSeq(log', cursor + 1, to)
<1>1. /\ log \in Seq(Id \X Outcome) /\ Len(log) \in Nat
      /\ cursor \in Nat /\ cursor <= Len(log)
      /\ PageLimit \in Nat /\ PageLimit # 0
  BY PlansAssumption DEF IInv, TypeOK
<1>2. /\ log' \in Seq(Id \X Outcome) /\ Len(log') \in Nat
      /\ Len(log) <= Len(log')
      /\ \A n \in 1..Len(log) : log'[n] = log[n]
  BY PollSteady DEF IInv, Steady, Grows
<1>3. cursor' = to /\ seen' = Read(page) \cap Expected
  BY DEF Poll, NextCursor
<1>4. to \in Nat /\ to <= Len(log') /\ cursor <= to
  BY <1>1, <1>2 DEF Least
<1> HIDE DEF to
<1>5. /\ DOMAIN page = 1..(to - cursor)
      /\ \A n \in 1..(to - cursor) : page[n] = log'[cursor + n]
  BY <1>1, <1>2, <1>4
<1> HIDE DEF page
<1>6. ASSUME NEW k \in 1..cursor', log'[k][1] \in Expected,
             k <= cursor => log[k][1] \in seen
      PROVE  log'[k][1] \in seen'
  <2>1. CASE k <= cursor
    <3>1. k \in 1..Len(log)
      BY <1>1, <1>3, <1>4, <2>1
    <3>2. log'[k][1] \in seen
      BY <1>2, <1>6, <2>1, <3>1
    <3>3. QED
      BY <1>3, <1>6, <3>2 DEF Read
  <2>2. CASE k > cursor
    <3>1. k - cursor \in 1..(to - cursor) /\ cursor + (k - cursor) = k
      BY <1>1, <1>3, <1>4, <2>2
    <3>2. page[k - cursor] = log'[k] /\ k - cursor \in DOMAIN page
      BY <1>5, <3>1
    <3>3. log'[k][1] \in Read(page)
      BY <3>2 DEF Read
    <3>4. QED
      BY <1>3, <1>6, <3>3
  <2>3. QED
    BY <1>1, <1>3, <1>4, <2>1, <2>2
<1>7. QED
  BY <1>3, <1>4, <1>6

LEMMA TypeStep ==
    ASSUME IInv, [Next]_vars
    PROVE  TypeOK'
<1>1. TypeOK
  BY DEF IInv
<1>2. /\ plan' = plan /\ log' \in Seq(Id \X Outcome)
      /\ task' \in [Id -> TaskState \cup {"absent"}]
      /\ collected' \in [Id -> TaskState \cup {"none"}]
      /\ Len(log) \in Nat /\ Len(log') \in Nat /\ Len(log) <= Len(log')
  BY <1>1, StepSteady DEF Steady, Grows, TypeOK
<1>3. /\ process' \in [Id -> {"none", "alive", "done", "broken"}]
      /\ at' \in [point : Points, phase : 1..3]
      /\ sent' \in 0..Len(Here')
  BY ProcessStep, PhaseStep, SentStep
<1>4. cursor' \in 0..Len(log') /\ seen' \subseteq Id
  <2>1. CASE Poll
    BY <2>1, PollReads, HereType, <1>1
  <2>2. CASE cursor' = cursor /\ (seen' = seen \/ seen' = {})
    BY <1>1, <1>2, <2>2 DEF TypeOK
  <2>3. CASE Dispatch \/ Collect
    BY <2>2, <2>3 DEF Dispatch, Collect
  <2>4. CASE Other
    BY <2>2, <2>4 DEF Other, Parse, Anchor, Dispatched, TimesOut, EndPhase,
           Validate, Materialize, Deadline, vars, workflow
  <2>5. CASE \E i \in Id : RuntimeEnds(i) \/ Others(i) \/ Readopts(i)
    BY <2>2, <2>5 DEF RuntimeEnds, Others, Readopts, workflow
  <2>6. QED
    BY <2>1, <2>3, <2>4, <2>5, NextIs
<1>5. /\ late' \in BOOLEAN
      /\ text' \in [contract : BOOLEAN, criteria : BOOLEAN]
      /\ answer' \in {"none", "completed", "failed", "raised"}
      /\ written' \in {"none", "inside", "outside"}
  <2> USE <1>1 DEF TypeOK
  <2>1. CASE Dispatch \/ Collect \/ Poll
    BY <2>1 DEF Dispatch, Collect, Poll, Returns
  <2>2. CASE Parse \/ Anchor \/ Dispatched \/ TimesOut \/ EndPhase
    BY <2>2 DEF Parse, Anchor, Dispatched, TimesOut, EndPhase, Returns
  <2>3. CASE Validate
    BY <2>3 DEF Validate, Returns
  <2>4. CASE Materialize
    BY <2>4 DEF Materialize, Returns, Target
  <2>5. CASE Deadline \/ UNCHANGED vars
    BY <2>5 DEF Deadline, vars, workflow
  <2>6. CASE \E i \in Id : RuntimeEnds(i) \/ Others(i) \/ Readopts(i)
    BY <2>6 DEF RuntimeEnds, Others, Readopts, workflow
  <2>7. QED
    BY <2>1, <2>2, <2>3, <2>4, <2>5, <2>6, NextIs DEF Other
<1>6. plan' \in Plans
  BY <1>1, <1>2 DEF TypeOK
<1>7. QED
  BY <1>2, <1>3, <1>4, <1>5, <1>6 DEF TypeOK

-----------------------------------------------------------------------------
(* The invariant, part by part.                                            *)

LEMMA PlanStep ==
    ASSUME IInv, [Next]_vars
    PROVE  PlanInv'
<1>1. PlanInv /\ plan' = plan /\ ValidPlan' = ValidPlan
  BY StepSteady, SamePhase DEF IInv, Steady
<1>2. at' \in [point : Points, phase : 1..3] /\ at \in [point : Points, phase : 1..3]
  BY PhaseStep DEF IInv, TypeOK
<1>3. CASE Parse
  BY <1>1, <1>2, <1>3 DEF Parse, Returns, Goto, PlanInv, At
<1>4. CASE at.point \notin {"parse", "done"}
  BY <1>1, <1>4 DEF PlanInv
<1>5. CASE at.point \in {"parse", "done"} /\ at' = at
  BY <1>1, <1>5 DEF PlanInv
<1>6. CASE Dispatch \/ Poll \/ Collect
  BY <1>4, <1>6 DEF Dispatch, Poll, Collect, At
<1>7. CASE Other
  BY <1>3, <1>4, <1>5, <1>7 DEF Other, Anchor, Dispatched, TimesOut, EndPhase,
         Validate, Materialize, Deadline, At, vars, workflow
<1>8. CASE \E i \in Id : RuntimeEnds(i) \/ Others(i) \/ Readopts(i)
  BY <1>4, <1>5, <1>8 DEF RuntimeEnds, Others, Readopts, workflow
<1>9. QED
  BY <1>6, <1>7, <1>8, NextIs

(* From where a step takes the workflow to where it is then.               *)
Arrives ==
    /\ at'.point \in {"parse", "anchor"} =>
          at.point \in {"parse", "anchor"} /\ at'.phase = at.phase
    /\ at'.point = "dispatch" =>
          \/ at.point = "anchor" /\ at'.phase = at.phase
          \/ at' = at /\ (Dispatch \/ sent' = sent)
          \/ at'.phase = at.phase + 1 /\ sent' = 0
    /\ at'.point = "wait" =>
          /\ at'.phase = at.phase
          /\ \/ at.point = "wait" /\ (Poll \/ UNCHANGED <<cursor, seen>>)
             \/ at.point = "dispatch" /\ UNCHANGED <<cursor, log, task>>
    /\ at'.point \in {"validate", "materialize"} =>
          /\ at'.phase = at.phase
          /\ \/ at.point \in {"validate", "materialize"}
             \/ EndPhase /\ ~PhaseFailed /\ at.phase = 3
    /\ at'.point = "dispatch" => cursor' = cursor

LEMMA PointStep ==
    ASSUME IInv, [Next]_vars
    PROVE  Arrives
<1>1. at \in [point : Points, phase : 1..3]
  BY DEF IInv, TypeOK
<1> USE <1>1 DEF At, Returns, Goto, Arrives
<1>2. CASE Parse
  BY <1>2 DEF Parse
<1>3. CASE Anchor
  BY <1>3 DEF Anchor
<1>4. CASE Dispatch
  BY <1>4 DEF Dispatch
<1>5. CASE Dispatched
  BY <1>5 DEF Dispatched, broker
<1>6. CASE Poll
  BY <1>6 DEF Poll
<1>7. CASE TimesOut
  BY <1>7 DEF TimesOut
<1>8. CASE Collect
  BY <1>8 DEF Collect
<1>9. CASE EndPhase
  <2>1. CASE PhaseFailed
    BY <1>9, <2>1 DEF EndPhase
  <2>2. CASE ~PhaseFailed /\ at.phase = 3
    BY <1>9, <2>2 DEF EndPhase
  <2>3. CASE ~PhaseFailed /\ at.phase # 3
    BY <1>9, <2>3 DEF EndPhase
  <2>4. QED
    BY <2>1, <2>2, <2>3
<1>10. CASE Validate
  BY <1>10 DEF Validate
<1>11. CASE Materialize
  BY <1>11 DEF Materialize
<1>12. CASE Deadline \/ UNCHANGED vars
  BY <1>12 DEF Deadline, vars, workflow
<1>13. CASE \E i \in Id : RuntimeEnds(i) \/ Others(i) \/ Readopts(i)
  BY <1>13 DEF RuntimeEnds, Others, Readopts, workflow
<1>14. QED
  BY <1>2, <1>3, <1>4, <1>5, <1>6, <1>7, <1>8, <1>9, <1>10, <1>11, <1>12,
     <1>13, NextIs DEF Other

LEMMA PhasesKept ==
    ASSUME IInv, [Next]_vars
    PROVE  /\ plan' = plan /\ Phases' = Phases /\ plan \in Plans
           /\ at.phase \in 1..3 /\ at'.phase \in 1..3
           /\ Here = Phases[at.phase] /\ Here' = Phases[at'.phase]
           /\ \A k \in 1..3 :
                 /\ IdsOf(Phases[k]) \subseteq Id
                 /\ IdsOf(Phases[k])' = IdsOf(Phases[k])
                 /\ \A n \in DOMAIN Phases[k] :
                       Phases[k][n].id \in IdsOf(Phases[k])
<1>1. /\ plan' = plan /\ Phases' = Phases /\ plan \in Plans
      /\ at.phase \in 1..3 /\ at'.phase \in 1..3
  BY StepSteady, PhaseStep, SamePhase DEF IInv, Steady, TypeOK
<1>2. Here = Phases[at.phase] /\ Here' = Phases[at'.phase]
  BY <1>1 DEF Here
<1>3. \A k \in 1..3 : IdsOf(Phases[k])' = IdsOf(Phases[k])
  BY <1>1 DEF IdsOf
<1>4. QED
  BY <1>1, <1>2, <1>3, PhaseIds

(* A step that starts no task leaves the turns of the phases to come.      *)
LEMMA TurnStep ==
    ASSUME IInv, [Next]_vars
    PROVE  TurnInv'
<1> HIDE DEF Phases
<1>1. /\ TypeOK /\ TurnInv /\ Phases' = Phases /\ plan \in Plans
      /\ Dispatch \/ NoneStarts
      /\ at.phase \in 1..3 /\ at'.phase \in 1..3
      /\ Here = Phases[at.phase] /\ Here' = Phases[at'.phase]
      /\ \A k \in 1..3 :
            /\ IdsOf(Phases[k]) \subseteq Id
            /\ IdsOf(Phases[k])' = IdsOf(Phases[k])
            /\ \A n \in DOMAIN Phases[k] : Phases[k][n].id \in IdsOf(Phases[k])
      /\ Arrives
  BY StepSteady, PhasesKept, PointStep DEF IInv
<1>2. at'.phase = at.phase \/ (at'.phase = at.phase + 1 /\ sent' = 0)
  BY PhaseStep
<1>3. CASE NoneStarts /\ ~Dispatch
  <2>1. at'.point \in {"parse", "anchor"} => \A i \in Id : task'[i] = "absent"
    BY <1>1, <1>3 DEF TurnInv, NoneStarts, Arrives
  <2>2. ASSUME at'.point = "dispatch", NEW n \in DOMAIN Here', n > sent'
        PROVE  task'[Here'[n].id] = "absent"
    <3>1. Here'[n].id \in IdsOf(Phases[at'.phase]) /\ Here'[n].id \in Id
      BY <1>1, <2>2
    <3>2. CASE at.point = "anchor" /\ at'.phase = at.phase
      BY <1>1, <1>3, <3>1, <3>2 DEF TurnInv, NoneStarts
    <3>3. CASE at' = at /\ sent' = sent
      BY <1>1, <1>3, <2>2, <3>1, <3>3 DEF TurnInv, NoneStarts
    <3>4. CASE at'.phase = at.phase + 1
      <4>1. at'.phase > at.phase
        BY <1>1, <3>4
      <4>2. task[Here'[n].id] = "absent"
        BY <1>1, <3>1, <4>1 DEF TurnInv
      <4>3. QED
        BY <1>3, <3>1, <4>2 DEF NoneStarts
    <3>5. QED
      BY <1>1, <1>3, <2>2, <3>2, <3>3, <3>4 DEF Arrives
  <2>3. ASSUME NEW k \in 1..3, k > at'.phase, NEW i \in IdsOf(Phases[k])
        PROVE  task'[i] = "absent"
    <3>1. k > at.phase
      BY <1>1, <1>2, <2>3
    <3>2. task[i] = "absent" /\ i \in Id
      BY <1>1, <2>3, <3>1 DEF TurnInv
    <3>3. QED
      BY <1>3, <3>2 DEF NoneStarts
  <2>4. QED
    BY <1>1, <2>1, <2>2, <2>3 DEF TurnInv
<1>4. CASE Dispatch
  <2>1. PICK i \in Expected :
           /\ i = Here[sent + 1].id
           /\ \A j \in Id : j # i => task'[j] = task[j]
    BY <1>4, DispatchSteady
  <2>2. /\ at.point = "dispatch" /\ at'.phase = at.phase /\ sent \in Nat
        /\ at' = at \/ at'.point = "done"
        /\ sent' = sent \/ sent' = sent + 1
        /\ at' = at => sent' = sent + 1
        /\ sent + 1 \in DOMAIN Here
    <3>1. /\ sent \in Nat
          /\ at \in [point : Points, phase : 1..3]
      BY <1>1 DEF TypeOK
    <3>2. at.point = "dispatch" /\ sent < Len(Here)
      BY <1>4 DEF Dispatch, At
    <3>3. \/ Goto("done") /\ sent' = sent
          \/ at' = at /\ sent' = sent + 1
      BY <1>4 DEF Dispatch, Returns
    <3>4. Here \in Seq(Participant)
      BY <1>1, HereType
    <3>5. sent + 1 \in DOMAIN Here
      BY <3>1, <3>2, <3>4
    <3>6. QED
      BY <3>1, <3>2, <3>3, <3>5 DEF Goto
  <2>3. ValidPlan
    BY <2>2 DEF IInv, PlanInv
  <2>4. \A k \in 1..3 : \A n \in DOMAIN Phases[k] :
           Phases[k][n].id = i => k = at.phase /\ n = sent + 1
    BY <1>1, <2>1, <2>2, <2>3, PhasesDistinct
  <2>5. at'.point \notin {"parse", "anchor"}
    BY <2>2
  <2>6. ASSUME at'.point = "dispatch", NEW n \in DOMAIN Here', n > sent'
        PROVE  task'[Here'[n].id] = "absent"
    <3>1. at' = at /\ sent' = sent + 1 /\ n \in Int /\ Here' = Here
      BY <1>1, <2>2, <2>6, HereType
    <3>2. n > sent /\ n # sent + 1
      BY <2>2, <2>6, <3>1
    <3>3. Here[n].id \in Id /\ Here[n].id # i
      BY <1>1, <2>4, <2>6, <3>1, <3>2
    <3>4. task[Here[n].id] = "absent"
      BY <1>1, <2>2, <2>6, <3>1, <3>2 DEF TurnInv
    <3>5. QED
      BY <2>1, <3>1, <3>3, <3>4
  <2>7. ASSUME NEW k \in 1..3, k > at'.phase, NEW j \in IdsOf(Phases[k])
        PROVE  task'[j] = "absent"
    <3>1. PICK n \in DOMAIN Phases[k] : j = Phases[k][n].id
      BY <1>1, PhaseIds
    <3>2. k # at.phase
      BY <1>1, <2>2, <2>7
    <3>3. j # i /\ j \in Id
      BY <1>1, <2>4, <3>1, <3>2
    <3>4. task[j] = "absent"
      BY <1>1, <2>2, <2>7 DEF TurnInv
    <3>5. QED
      BY <2>1, <3>3, <3>4
  <2>8. QED
    BY <1>1, <2>5, <2>6, <2>7 DEF TurnInv
<1>5. QED
  BY <1>1, <1>3, <1>4

(* Success that was collected is not collected as something else.          *)
LEMMA CollectedStep ==
    ASSUME IInv, [Next]_vars, NEW i \in Id
    PROVE  collected'[i] = collected[i] \/ collected'[i] = task'[i]
<1>1. CASE collected' = collected
  BY <1>1
<1>2. CASE Collect
  <2> DEFINE h == Here[sent + 1].id
  <2>1. /\ collected \in [Id -> TaskState \cup {"none"}]
        /\ task \in [Id -> TaskState \cup {"absent"}]
    BY DEF IInv, TypeOK
  <2>2. \/ collected' = [collected EXCEPT ![h] = task[h]] /\ task' = task
        \/ /\ collected' = [collected EXCEPT ![h] = Verdict(h)]
           /\ task' = [task EXCEPT ![h] = Verdict(h)]
        \/ collected' = collected
    BY <1>2 DEF Collect, Settles, broker
  <2> HIDE DEF h
  <2>3. QED
    BY <2>1, <2>2
<1>3. CASE Dispatch \/ Poll
  BY <1>1, <1>3 DEF Dispatch, Poll
<1>4. CASE Other
  BY <1>1, <1>4, OtherQuiet
<1>5. CASE \E j \in Id : RuntimeEnds(j) \/ Others(j) \/ Readopts(j)
  BY <1>1, <1>5 DEF RuntimeEnds, Others, Readopts, workflow
<1>6. QED
  BY <1>2, <1>3, <1>4, <1>5, NextIs

(* A workflow completes from "materialize".                                *)
LEMMA CompletesAt ==
    ASSUME IInv, [Next]_vars, answer' = "completed"
    PROVE  /\ answer = "completed" \/ at.point = "materialize"
           /\ at'.phase = at.phase
<1>1. at \in [point : Points, phase : 1..3] /\ TextInv
  BY DEF IInv, TypeOK
<1>2. answer = "completed" => at.point = "done"
  BY <1>1 DEF TextInv
<1> USE DEF At, Returns, Goto
<1>3. CASE Dispatch \/ Poll \/ Collect
  BY <1>1, <1>2, <1>3 DEF Dispatch, Poll, Collect
<1>4. CASE Parse \/ Anchor \/ Dispatched \/ TimesOut \/ EndPhase
  BY <1>1, <1>2, <1>4 DEF Parse, Anchor, Dispatched, TimesOut, EndPhase
<1>5. CASE Validate \/ Materialize
  BY <1>1, <1>2, <1>5 DEF Validate, Materialize
<1>6. CASE Deadline \/ UNCHANGED vars
  BY <1>1, <1>2, <1>6 DEF Deadline, vars, workflow
<1>7. CASE \E i \in Id : RuntimeEnds(i) \/ Others(i) \/ Readopts(i)
  BY <1>1, <1>2, <1>7 DEF RuntimeEnds, Others, Readopts, workflow
<1>8. QED
  BY <1>3, <1>4, <1>5, <1>6, <1>7, NextIs DEF Other

(* What was collected as a success still is one.                           *)
LEMMA BackedKept ==
    ASSUME IInv, [Next]_vars, NEW k \in 1..3, Backed(k)
    PROVE  Backed(k)'
<1> HIDE DEF Phases
<1>1. /\ IdsOf(Phases[k]) \subseteq Id
      /\ IdsOf(Phases[k])' = IdsOf(Phases[k])
  BY PhasesKept
<1>2. ASSUME NEW i \in IdsOf(Phases[k])
      PROVE  task'[i] \in SuccessState /\ collected'[i] = task'[i]
  <2>1. i \in Id /\ task[i] \in SuccessState /\ collected[i] = task[i]
    BY <1>1, <1>2 DEF Backed
  <2>2. task'[i] = task[i]
    BY <2>1, StepSteady DEF Steady
  <2>3. collected'[i] = collected[i] \/ collected'[i] = task'[i]
    BY <2>1, <2>2, CollectedStep
  <2>4. QED
    BY <2>1, <2>2, <2>3
<1>3. QED
  BY <1>1, <1>2 DEF Backed

LEMMA BackedStep ==
    ASSUME IInv, [Next]_vars
    PROVE  BackedInv'
<1> HIDE DEF Phases
<1>1. /\ TypeOK /\ BackedInv /\ TextInv /\ Arrives
      /\ at.phase \in 1..3 /\ at'.phase \in 1..3
      /\ at'.phase = at.phase \/ at'.phase = at.phase + 1
  BY PhasesKept, PointStep, PhaseStep DEF IInv
<1>2. (EndPhase /\ ~PhaseFailed) \/ (Dispatched /\ Here = <<>>) => Backed(at.phase)
  <2>1. CASE EndPhase /\ ~PhaseFailed
    BY <1>1, <2>1, HereType DEF PhaseFailed, BackedInv, Backed
  <2>2. CASE Here = <<>>
    <3>1. Expected = {}
      BY <1>1, <2>2, HereType
    <3>2. QED
      BY <1>1, <3>1, HereType DEF Backed
  <2>3. QED
    BY <2>1, <2>2
<1>3. ASSUME NEW k \in 1..3, k < at'.phase
      PROVE  Backed(k)'
  <2>1. CASE k < at.phase
    BY <1>1, <2>1, BackedKept DEF BackedInv
  <2>2. CASE k = at.phase
    <3>1. at'.phase = at.phase + 1
      BY <1>1, <1>3, <2>2
    <3>2. Backed(k)
      BY <1>1, <1>2, <2>2, <3>1, PhaseStep
    <3>3. QED
      BY <3>2, BackedKept
  <2>3. QED
    BY <1>1, <1>3, <2>1, <2>2
<1>4. ASSUME at'.point \in {"validate", "materialize"} \/ answer' = "completed"
      PROVE  at'.phase = 3 /\ Backed(3)'
  <2>1. at.phase = 3 /\ Backed(3) /\ at'.phase = at.phase
    <3>1. CASE at'.point \in {"validate", "materialize"}
      BY <1>1, <1>2, <3>1 DEF Arrives, BackedInv
    <3>2. CASE answer' = "completed"
      BY <1>1, <3>2, CompletesAt DEF BackedInv
    <3>3. QED
      BY <1>4, <3>1, <3>2
  <2>2. QED
    BY <2>1, BackedKept
<1>5. ASSUME NEW i \in Id, collected'[i] \in SuccessState
      PROVE  collected'[i] = task'[i]
  BY <1>1, <1>5, StepSteady DEF BackedInv, Steady
<1>6. QED
  BY <1>3, <1>4, <1>5 DEF BackedInv

(* Only what passed the validation is written, and only on completion.     *)
LEMMA TextStep ==
    ASSUME IInv, [Next]_vars
    PROVE  TextInv'
<1>1. /\ TypeOK /\ TextInv /\ plan' = plan
      /\ at \in [point : Points, phase : 1..3]
  BY StepSteady DEF IInv, TypeOK, Steady
<1> USE <1>1 DEF At, Returns, Goto, TextInv
<1>2. CASE /\ UNCHANGED <<text, answer, written>>
           /\ at'.point = "materialize" => at.point = "materialize"
           /\ at.point = "done" => at'.point = "done"
  BY <1>2
<1>3. CASE Parse
  BY <1>3 DEF Parse
<1>4. CASE Anchor
  BY <1>4 DEF Anchor
<1>5. CASE Dispatch
  BY <1>5 DEF Dispatch
<1>6. CASE Dispatched
  BY <1>6 DEF Dispatched
<1>7. CASE Poll
  BY <1>7 DEF Poll
<1>8. CASE TimesOut
  BY <1>8 DEF TimesOut
<1>9. CASE Collect
  BY <1>9 DEF Collect
<1>10. CASE EndPhase
  BY <1>10 DEF EndPhase
<1>11. CASE Validate
  BY <1>11 DEF Validate, Passes
<1>12. CASE Materialize
  <2>1. /\ text.contract /\ text.criteria /\ text' = text
        /\ at'.point = "done" /\ answer' # "none"
        /\ written = "none"
        /\ \/ written' = written
           \/ answer' = "completed" /\ ~plan.dry /\ written' = "inside"
    BY <1>12 DEF Materialize, Target
  <2>2. QED
    BY <2>1
<1>13. CASE Deadline \/ UNCHANGED vars
  BY <1>2, <1>13 DEF Deadline, vars, workflow
<1>14. CASE \E i \in Id : RuntimeEnds(i) \/ Others(i) \/ Readopts(i)
  BY <1>2, <1>14 DEF RuntimeEnds, Others, Readopts, workflow
<1>15. QED
  BY <1>3, <1>4, <1>5, <1>6, <1>7, <1>8, <1>9, <1>10, <1>11, <1>12, <1>13,
     <1>14, NextIs DEF Other

LEMMA LogStep ==
    ASSUME IInv, [Next]_vars
    PROVE  LogInv'
<1> HIDE DEF Phases
<1>1. /\ TypeOK /\ LogInv /\ TurnInv /\ Arrives /\ Grows
      /\ \A j \in Id : task[j] # "absent" => task'[j] # "absent"
      /\ at.phase \in 1..3 /\ at'.phase \in 1..3
      /\ Here = Phases[at.phase] /\ Here' = Phases[at'.phase]
      /\ at'.phase = at.phase => Expected' = Expected
  BY StepSteady, PhasesKept, PointStep, SamePhase DEF IInv, Steady
<1>2. /\ log \in Seq(Id \X Outcome) /\ Len(log) \in Nat /\ Len(log') \in Nat
      /\ DOMAIN log = 1..Len(log) /\ DOMAIN log' = 1..Len(log')
      /\ \A n \in DOMAIN log : log[n] \in Id \X Outcome
      /\ cursor \in Nat /\ cursor <= Len(log)
  BY <1>1 DEF TypeOK, Grows
<1>3. \A n \in DOMAIN log : log[n][1] \in Id /\ task[log[n][1]] # "absent"
  BY <1>1, <1>2 DEF LogInv
<1>4. ASSUME NEW n \in DOMAIN log'
      PROVE  task'[log'[n][1]] # "absent"
  <2>1. CASE n <= Len(log)
    <3>1. n \in DOMAIN log
      BY <1>2, <2>1
    <3>2. QED
      BY <1>1, <1>2, <1>3, <3>1 DEF Grows
  <2>2. CASE n > Len(log)
    BY <1>1, <1>2, <2>2 DEF Grows
  <2>3. QED
    BY <1>2, <2>1, <2>2
<1>5. ASSUME at'.point = "dispatch", NEW n \in 1..cursor'
      PROVE  log'[n][1] \notin Expected'
  <2>1. n \in 1..cursor /\ n \in DOMAIN log /\ log'[n] = log[n]
    BY <1>1, <1>2, <1>5 DEF Arrives, Grows
  <2>2. log[n][1] \in Id /\ task[log[n][1]] # "absent"
    BY <1>3, <2>1
  <2>3. CASE at.point = "anchor"
    BY <1>1, <2>2, <2>3 DEF TurnInv
  <2>4. CASE at' = at
    BY <1>1, <1>5, <2>1, <2>4 DEF LogInv
  <2>5. CASE at'.phase = at.phase + 1
    <3>1. \A i \in IdsOf(Phases[at'.phase]) : task[i] = "absent"
      BY <1>1, <2>5 DEF TurnInv
    <3>2. Expected' = IdsOf(Phases[at'.phase])
      <4>1. Expected' = IdsOf(Here')
        BY DEF Expected, IdsOf
      <4>2. QED
        BY <1>1, <4>1
    <3>3. QED
      BY <2>1, <2>2, <3>1, <3>2
  <2>6. QED
    BY <1>1, <1>5, <2>3, <2>4, <2>5 DEF Arrives
<1>6. QED
  BY <1>4, <1>5 DEF LogInv

LEMMA CursorStep ==
    ASSUME IInv, [Next]_vars
    PROVE  CursorMissesNothing'
<1>1. /\ TypeOK /\ LogInv /\ CursorMissesNothing /\ Arrives /\ Grows
      /\ plan' = plan
  BY StepSteady, PointStep DEF IInv, Steady
<1>2. SUFFICES ASSUME at'.point = "wait", NEW k \in 1..cursor',
                      log'[k][1] \in Expected'
               PROVE  log'[k][1] \in seen'
  BY DEF CursorMissesNothing, At
<1>3. at'.phase = at.phase /\ Expected' = Expected
  BY <1>1, <1>2, SamePhase DEF Arrives
<1>4. ASSUME cursor' = cursor
      PROVE  log'[k] = log[k]
  BY <1>1, <1>2, <1>4 DEF TypeOK, Grows
<1>5. CASE at.point = "wait" /\ Poll
  <2>1. cursor' \in Nat /\ cursor \in Nat /\ cursor <= Len(log) /\ Len(log) \in Nat
    BY <1>1, <1>5, PollReads DEF TypeOK
  <2>2. k <= cursor => log'[k] = log[k]
    BY <1>1, <1>2, <2>1 DEF Grows
  <2>3. k <= cursor => log[k][1] \in seen
    BY <1>1, <1>2, <1>3, <1>5, <2>1, <2>2 DEF CursorMissesNothing, At
  <2>4. QED
    BY <1>2, <1>3, <1>5, <2>3, PollReads
<1>6. CASE at.point = "wait" /\ UNCHANGED <<cursor, seen>>
  BY <1>1, <1>2, <1>3, <1>4, <1>6 DEF CursorMissesNothing, At
<1>7. CASE at.point = "dispatch" /\ UNCHANGED <<cursor, log, task>>
  BY <1>1, <1>2, <1>3, <1>7 DEF LogInv
<1>8. QED
  BY <1>1, <1>2, <1>5, <1>6, <1>7 DEF Arrives

-----------------------------------------------------------------------------

LEMMA InitHolds == Init => IInv
<1> SUFFICES ASSUME Init
             PROVE  IInv
  OBVIOUS
<1> USE DEF Init
<1>1. PlanInv /\ ProcessInv /\ TextInv /\ CursorMissesNothing
  BY DEF PlanInv, ProcessInv, TextInv, CursorMissesNothing, At
<1>2. at.phase = 1 /\ at.point = "parse" /\ plan \in Plans
  OBVIOUS
<1>3. TurnInv
  <2>1. \A k \in 1..3 : IdsOf(Phases[k]) \subseteq Id
    BY <1>2, PhaseIds
  <2>2. QED
    BY <1>2, <2>1 DEF TurnInv
<1>4. BackedInv
  BY <1>2 DEF BackedInv, SuccessState
<1>5. LogInv
  BY DEF LogInv
<1>6. TypeOK
  <2>1. /\ Here = Phases[1] /\ Here \in Seq(Participant)
    BY <1>2, PlanType DEF Here
  <2>2. sent \in 0..Len(Here)
    BY <2>1
  <2>3. log \in Seq(Id \X Outcome) /\ cursor \in 0..Len(log)
    OBVIOUS
  <2>4. at \in [point : Points, phase : 1..3]
    BY DEF Points
  <2>5. QED
    BY <2>2, <2>3, <2>4 DEF TypeOK
<1>7. QED
  BY <1>1, <1>3, <1>4, <1>5, <1>6 DEF IInv

LEMMA StepHolds == IInv /\ [Next]_vars => IInv'
BY TypeStep, PlanStep, ProcessStep, TurnStep, BackedStep, TextStep, LogStep,
   CursorStep DEF IInv

LEMMA IInvBacks == IInv => DebateIsBacked
<1> SUFFICES ASSUME IInv
             PROVE  DebateIsBacked
  OBVIOUS
<1> HIDE DEF Phases
<1>1. /\ plan \in Plans /\ at.phase \in 1..3
      /\ TurnInv /\ BackedInv /\ TextInv
  BY HereType DEF IInv
<1>2. PhasesAreOrdered
  <2> SUFFICES ASSUME NEW k \in 1..3, NEW i \in Id,
                      i \in IdsOf(Phases[k]), task[i] # "absent",
                      NEW l \in 1..(k - 1), NEW j \in IdsOf(Phases[l])
               PROVE  task[j] \in SuccessState
    BY DEF PhasesAreOrdered
  <2>1. k <= at.phase
    BY <1>1 DEF TurnInv
  <2>2. l \in 1..3 /\ l < at.phase
    BY <1>1, <2>1
  <2>3. QED
    BY <1>1, <2>2 DEF BackedInv, Backed
<1>3. CompletedIsBacked
  <2> SUFFICES ASSUME answer = "completed", NEW k \in 1..3,
                      NEW i \in IdsOf(Phases[k])
               PROVE  task[i] \in SuccessState /\ collected[i] = task[i]
    BY DEF CompletedIsBacked
  <2>1. at.phase = 3 /\ Backed(3)
    BY <1>1 DEF BackedInv
  <2>2. Backed(k)
    BY <1>1, <2>1 DEF BackedInv
  <2>3. QED
    BY <2>2 DEF Backed
<1>4. MaterializedIsValid
  <2> SUFFICES ASSUME written # "none"
               PROVE  /\ written = "inside" /\ ~plan.dry
                      /\ text.contract /\ text.criteria
                      /\ task[plan.synthesis.id] \in SuccessState
    BY DEF MaterializedIsValid
  <2>1. Backed(3)
    BY <1>1 DEF TextInv, BackedInv
  <2>2. plan.synthesis.id \in IdsOf(Phases[3])
    <3>1. Phases[3] = <<plan.synthesis>>
      BY <1>1, PlanType
    <3>2. 1 \in DOMAIN <<plan.synthesis>> /\ <<plan.synthesis>>[1] = plan.synthesis
      OBVIOUS
    <3>3. QED
      BY <3>1, <3>2 DEF IdsOf
  <2>3. QED
    BY <1>1, <2>1, <2>2 DEF Backed, TextInv
<1>5. QED
  BY <1>2, <1>3, <1>4 DEF DebateIsBacked

-----------------------------------------------------------------------------
(* The run of the two workflows.                                           *)

LEMMA Invariant == Spec => []IInv
BY InitHolds, StepHolds, PTL DEF Spec

LEMMA DebatePart == MCSpec => Spec
<1>1. MCInit => Init
  BY DEF MCInit
<1>2. [MCNext]_all => [Next]_vars
  BY DEF MCNext, all
<1>3. QED
  BY <1>1, <1>2, PTL DEF MCSpec, Spec

(* The proofs are about the council of the run: the definitions agree.     *)
LEMMA SameIds == C!Ids = CP!Ids /\ (\A i : C!Of(i) = CP!Of(i))
BY DEF C!Ids, CP!Ids, C!Of, CP!Of

LEMMA SameChecks ==
    (C!ValidPlan <=> CP!ValidPlan) /\ (C!Affordable <=> CP!Affordable)
<1>1. C!ValidPlan <=> CP!ValidPlan
  BY DEF
     C!ValidPlan, CP!ValidPlan, C!Follows, CP!Follows, C!Acyclic, CP!Acyclic,
     C!SelfCritique, CP!SelfCritique, C!Ids, CP!Ids, C!Of, CP!Of,
     C!Cardinality, CP!Cardinality
<1>2. C!Affordable <=> CP!Affordable
  BY DEF
     C!Affordable, CP!Affordable, C!Costs, CP!Costs, C!Bound, CP!Bound,
     C!SumFunction, CP!SumFunction, C!SumFunctionOnSet, CP!SumFunctionOnSet,
     C!FoldFunctionOnSet, CP!FoldFunctionOnSet, C!MapThenFoldSet,
     CP!MapThenFoldSet
<1>3. QED
  BY <1>1, <1>2

LEMMA SameWaves == C!Waves = CP!Waves
BY DEF
   C!Waves, CP!Waves, C!Depth, CP!Depth, C!Begun, CP!Begun, C!Ready, CP!Ready,
   C!InOrder, CP!InOrder, C!Ids, CP!Ids, C!Of, CP!Of, C!Cardinality,
   CP!Cardinality

LEMMA SameNext == C!Next <=> CP!Next
<1> USE DEF C!council, CP!council, C!broker, CP!broker, C!Returns, CP!Returns,
            C!NoStage, CP!NoStage, C!Exhausted, CP!Exhausted, C!Records,
            CP!Records
<1>1. (C!Validate <=> CP!Validate) /\ (C!Report <=> CP!Report)
  BY SameChecks DEF C!Validate, CP!Validate, C!Report, CP!Report
<1>2. C!BoundCost <=> CP!BoundCost
  BY SameChecks, SameWaves DEF C!BoundCost, CP!BoundCost
<1>3. C!NextWave <=> CP!NextWave
  BY DEF C!NextWave, CP!NextWave
<1>4. C!NextBatch <=> CP!NextBatch
  BY DEF C!NextBatch, CP!NextBatch, C!Least, CP!Least, C!Rest, CP!Rest
<1>5. (C!EndBatch <=> CP!EndBatch) /\ (C!Skip <=> CP!Skip)
  BY DEF C!EndBatch, CP!EndBatch, C!Skip, CP!Skip
<1>6. C!Start <=> CP!Start
  BY SameIds DEF C!Start, CP!Start
<1>7. C!Collect <=> CP!Collect
  BY SameIds DEF
     C!Collect, CP!Collect, C!Ended, CP!Ended, C!Verdict, CP!Verdict,
     C!Evidence, CP!Evidence, C!TerminalState, CP!TerminalState
<1>8. C!Tick <=> CP!Tick
  BY DEF C!Tick, CP!Tick
<1>9. ASSUME NEW i
      PROVE  /\ C!RuntimeEnds(i) <=> CP!RuntimeEnds(i)
             /\ C!Others(i) <=> CP!Others(i)
  BY DEF C!RuntimeEnds, CP!RuntimeEnds, C!Others, CP!Others
<1>10. QED
  BY SameIds, <1>1, <1>2, <1>3, <1>4, <1>5, <1>6, <1>7, <1>8, <1>9
     DEF C!Next, CP!Next, C!Works, CP!Works

LEMMA SameHolds == CouncilHolds <=> CP!CouncilHolds
BY DEF CouncilHolds,
       C!CouncilHolds, CP!CouncilHolds, C!EveryStageAccounted,
       CP!EveryStageAccounted, C!OrderIsRespected, CP!OrderIsRespected,
       C!OnlySoundPlansRun, CP!OnlySoundPlansRun, C!EvidenceIsObserved,
       CP!EvidenceIsObserved, C!Handled, CP!Handled, C!Ids, CP!Ids, C!Of,
       CP!Of, C!Cardinality, CP!Cardinality, C!SumFunction, CP!SumFunction,
       C!SumFunctionOnSet, CP!SumFunctionOnSet, C!FoldFunctionOnSet,
       CP!FoldFunctionOnSet, C!MapThenFoldSet, CP!MapThenFoldSet,
       C!TerminalState, CP!TerminalState, C!NoStage, CP!NoStage, C!Exhausted,
       CP!Exhausted

LEMMA SameTypes == C!TypeOK <=> CP!TypeOK
BY DEF
   C!TypeOK, CP!TypeOK, C!NoStage, CP!NoStage, C!TaskState, CP!TaskState,
   C!Ids, CP!Ids, C!Of, CP!Of, C!Cardinality, CP!Cardinality

LEMMA CouncilPart == MCSpec => CP!Spec
<1>1. MCInit => CP!Init
  BY DEF MCInit, C!Init, CP!Init, C!NoStage, CP!NoStage
<1>2. [MCNext]_all => [CP!Next]_(CP!vars)
  BY SameNext DEF MCNext, all, council, CP!vars, CP!council, CP!broker
<1>3. QED
  BY <1>1, <1>2, PTL DEF MCSpec, CP!Spec

LEMMA CouncilsMeet == CP!Assumed
  BY CouncilsAssumption DEF CP!Assumed, C!Plan, CP!Plan, C!Stage, CP!Stage,
     C!Kind, CP!Kind

(* A debate goes on to its next phase, completes and writes only upon the  *)
(* success of every participant's task, which the broker still has when    *)
(* the workflow returns (run_bounded_debate_workflow).                     *)
THEOREM BackedSafe == MCSpec => []DebateIsBacked
BY DebatePart, Invariant, IInvBacks, PTL

(* No completion of a phase is passed by the cursor unseen, whatever the   *)
(* size of a page and whoever settles the tasks                            *)
(* (wait_for_task_completions).                                            *)
THEOREM CursorSafe == MCSpec => []CursorMissesNothing
<1>1. IInv => CursorMissesNothing
  BY DEF IInv
<1>2. QED
  BY DebatePart, Invariant, <1>1, PTL

(* A council, whatever its plan, is carried out as it was planned: every   *)
(* stage accounted for once and after those it needs, nothing run of a     *)
(* plan that is unsound or too dear, and evidence as the broker has it     *)
(* (execute_council).                                                      *)
THEOREM CouncilCarriedOut == MCSpec => []CouncilHolds
<1>1. CP!Spec => []CP!CouncilHolds
  BY CouncilsMeet, CP!CouncilSafe
<1>2. QED
  BY <1>1, SameHolds, CouncilPart, PTL

(* The state of both workflows, the tasks of participants and stages and   *)
(* their events are what they should be.                                   *)
THEOREM WorkflowsTyped == MCSpec => []WorkflowsTypeOK
<1>1. IInv => TypeOK
  BY DEF IInv
<1>2. CP!Spec => []CP!TypeOK
  BY CouncilsMeet, CP!CouncilTyped
<1>3. TypeOK /\ CP!TypeOK => WorkflowsTypeOK
  BY SameTypes DEF WorkflowsTypeOK
<1>4. QED
  BY <1>1, <1>2, <1>3, DebatePart, Invariant, CouncilPart, PTL
=============================================================================
