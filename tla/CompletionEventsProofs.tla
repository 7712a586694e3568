----------------------- MODULE CompletionEventsProofs -----------------------
(***************************************************************************)
(* Proofs about CompletionEvents.  The delivery of completions and the     *)
(* agreement of the log with the task table hold for any number of         *)
(* brokers; that the log of a task is a path of the transition table needs *)
(* a single one.                                                           *)
(***************************************************************************)
EXTENDS CompletionEvents, TLAPS

(* Every target the store may be asked for is a state, and no transition   *)
(* is from a state to itself or from no state.                             *)
LEMMA CanGoFacts ==
    ASSUME NEW x, NEW y, CanGo(x, y)
    PROVE  x \in TaskState /\ y \in TaskState /\ x # y
BY DEF CanGo, TaskState, SuccessState

(* Short sequences over a set.                                             *)
LEMMA ShortSeq ==
    ASSUME NEW S, NEW x \in S, NEW y \in S, NEW z \in S
    PROVE  /\ <<>> \in Seq(S) /\ <<x>> \in Seq(S)
           /\ <<x, y>> \in Seq(S) /\ <<x, y, z>> \in Seq(S)
  OBVIOUS

(* The operations set out with goals of the right type.                    *)
LEMMA GoalTypes ==
    ASSUME TypeOK, NEW b \in Broker, NEW t \in Task
    PROVE  /\ StartGoals(t) \subseteq Seq(Goal)
           /\ CollectGoals \subseteq Seq(Goal)
           /\ ReconcileGoals(t) \subseteq Seq(Goal)
           /\ CancelGoals(b, t) \subseteq Seq(Goal)
           /\ Stopped(b, t) \in Seq(Goal)
<1> DEFINE G == Goal
<1>0. /\ "rejected" \in G /\ "preparing" \in G /\ "failed" \in G
      /\ "running" \in G /\ "spawn" \in G /\ "stop" \in G /\ "audit" \in G
      /\ "cancelled" \in G /\ "uncollected" \in G /\ "cancelling" \in G
      /\ "recovery_required" \in G /\ "collecting" \in G
      /\ SuccessState \subseteq G
  BY DEF Goal, TaskState, SuccessState
<1> HIDE DEF G
<1>1. StartGoals(t) \subseteq Seq(G)
  <2>1. /\ <<"rejected">> \in Seq(G) /\ <<"preparing", "failed">> \in Seq(G)
        /\ <<"preparing", "running">> \in Seq(G)
        /\ <<"preparing", "spawn", "running">> \in Seq(G)
    BY <1>0, ShortSeq
  <2>2. QED BY <2>1 DEF StartGoals
<1>2. CollectGoals \subseteq Seq(G)
  <2>1. ASSUME NEW s \in SuccessState \cup {"failed"}
        PROVE  <<"collecting", s>> \in Seq(G)
    BY <1>0, ShortSeq
  <2>2. QED BY <2>1 DEF CollectGoals
<1>3. ReconcileGoals(t) \subseteq Seq(G)
  <2>1. /\ <<"failed">> \in Seq(G) /\ <<"cancelled">> \in Seq(G)
        /\ <<"uncollected">> \in Seq(G) /\ <<"running">> \in Seq(G)
        /\ <<"audit">> \in Seq(G) /\ <<"recovery_required">> \in Seq(G)
    BY <1>0, ShortSeq
  <2>2. QED BY <2>1, ZenonT(30) DEF ReconcileGoals
<1>4. Stopped(b, t) \in Seq(G)
  BY <1>0, ShortSeq DEF Stopped
<1>5. CancelGoals(b, t) \subseteq Seq(G)
  <2>1. \A f \in {<<>>, <<"cancelling">>}, s \in {"failed", "recovery_required"} :
           Append(f, s) \in Seq(G)
    <3> TAKE f \in {<<>>, <<"cancelling">>}, s \in {"failed", "recovery_required"}
    <3>1. f \in Seq(G) /\ s \in G
      BY <1>0, ShortSeq
    <3>2. QED BY <3>1
  <2>2. \A f \in {<<>>, <<"cancelling">>} :
           f \o Stopped(b, t) \o <<"cancelled">> \in Seq(G)
    <3> TAKE f \in {<<>>, <<"cancelling">>}
    <3>1. f \in Seq(G) /\ <<"cancelled">> \in Seq(G)
      BY <1>0, ShortSeq
    <3>2. f \o Stopped(b, t) \in Seq(G)
      BY <3>1, <1>4
    <3>3. QED BY <3>1, <3>2
  <2>3. <<"cancelled">> \in Seq(G)
    BY <1>0, ShortSeq
  <2>4. QED BY <2>1, <2>2, <2>3 DEF CancelGoals
<1>6. QED
  BY <1>1, <1>2, <1>3, <1>4, <1>5 DEF G

(* A broker that begins an operation, or is done with a goal of it, keeps  *)
(* the type of its work.                                                   *)
LEMMA BeginTypes ==
    ASSUME TypeOK, NEW b \in Broker, NEW t \in Task, NEW seen \in TaskState,
           NEW goals \in Seq(Goal), BeginSeeing(b, t, seen, goals)
    PROVE  work' \in [Broker -> Work \cup {Idle}]
<1>1. [task |-> t, goals |-> goals, seen |-> seen, checked |-> FALSE] \in Work
  BY DEF Work
<1>2. QED BY <1>1 DEF BeginSeeing, TypeOK

LEMMA DoneTypes ==
    ASSUME TypeOK, NEW b \in Broker, work[b].goals # <<>>,
           NEW seen \in TaskState, DoneSeeing(b, seen)
    PROVE  work' \in [Broker -> Work \cup {Idle}]
<1>1. work[b] \in Work
  BY DEF TypeOK, Idle
<1>2. Tail(work[b].goals) \in Seq(Goal)
  BY <1>1 DEF Work
<1>3. [task |-> work[b].task, goals |-> Tail(work[b].goals), seen |-> seen,
       checked |-> FALSE] \in Work
  BY <1>1, <1>2 DEF Work
<1>4. QED BY <1>3 DEF DoneSeeing, TypeOK

LEMMA LogTypes ==
    ASSUME TypeOK, NEW t \in Task, NEW before \in TaskState \cup {"absent"},
           NEW after \in TaskState, Log(t, before, after)
    PROVE  /\ events' \in Seq(Event) /\ times' \in Seq(Nat)
<1>1. [task |-> t, before |-> before, after |-> after] \in Event
  BY DEF Event
<1>2. QED BY <1>1 DEF Log, TypeOK

-----------------------------------------------------------------------------
(* A page: where it may end, and that it stays within the log.             *)
LEMMA PageFacts ==
    ASSUME TypeOK, Len(times) = Len(events), NEW n \in cursor .. Len(events)
    PROVE  /\ n \in Nat
           /\ [i \in 1..Len(events) |->
                 IF i \in Unread /\ i <= n THEN times[i] + 1 ELSE times[i]]
                \in Seq(Nat)
<1>1. /\ cursor \in Nat /\ Len(events) \in Nat /\ times \in Seq(Nat)
  BY DEF TypeOK
<1>2. \A i \in 1..Len(events) : times[i] \in Nat
  BY <1>1
<1>3. QED BY <1>1, <1>2

(* The operations that begin without touching the log.                     *)
Beginning(b, t) ==
    \/ Start(b, t) \/ Collect(b, t) \/ CollectUnheld(b, t)
    \/ CollectMock(b, t) \/ Reconcile(b, t) \/ Timeout(b, t)
    \/ Cancel(b, t) \/ Verify(b, t) \/ (PumpCollect(t) /\ b = Server)

(* The parent's counts cover the log, and its cursor stays within it.      *)
LoggedOnce == Len(times) = Len(events) /\ cursor <= Len(events)

(* The state variables keep their types, whatever the brokers do: no       *)
(* operation records a state that is none, and every event has a task.     *)
THEOREM TypeCorrect == Spec => [](TypeOK /\ LoggedOnce)
<1> DEFINE Inv == TypeOK /\ LoggedOnce
<1>1. Init => Inv
  <2> SUFFICES ASSUME Init PROVE TypeOK /\ LoggedOnce
    OBVIOUS
  <2>1. 0 \in 0..MaxCrashes
    BY EventBoundAssumption
  <2>2. <<>> \in Seq(Event) /\ <<>> \in Seq(Nat) /\ Len(<<>>) = 0
    OBVIOUS
  <2>3. TypeOK
    BY <2>1, <2>2 DEF Init, TypeOK
  <2>4. LoggedOnce
    BY <2>2 DEF Init, LoggedOnce
  <2>5. QED BY <2>3, <2>4
<1>2. Inv /\ [Next]_vars => Inv'
  <2> SUFFICES ASSUME TypeOK, LoggedOnce, [Next]_vars
               PROVE  TypeOK' /\ LoggedOnce'
    OBVIOUS
  <2> USE DEF LoggedOnce
  <2>0. /\ state \in [Task -> TaskState \cup {"absent"}]
        /\ events \in Seq(Event) /\ times \in Seq(Nat)
        /\ runtime \in [Task -> {"none", "ended", "process"} \cup Broker]
        /\ held \in [Broker -> SUBSET Task]
        /\ work \in [Broker -> Work \cup {Idle}]
        /\ polling \in BOOLEAN /\ pump \subseteq Task
        /\ crashes \in 0..MaxCrashes /\ cursor \in Nat
        /\ since \in [Task -> Nat]
    BY DEF TypeOK
  <2>1. ASSUME NEW b \in Broker, NEW t \in Task, Create(b, t)
        PROVE  TypeOK' /\ LoggedOnce'
    <3>1. PICK goals \in {<<"queued">>, <<"queued", "preparing">>}
                    \cup {<<"queued">> \o g \o <<"cursor">> :
                              g \in StartGoals(t)} :
             BeginSeeing(b, t, "created", goals)
      BY <2>1 DEF Create
    <3>2. "queued" \in Goal /\ "preparing" \in Goal /\ "cursor" \in Goal
      BY DEF Goal, TaskState
    <3>3. /\ <<"queued">> \in Seq(Goal) /\ <<"cursor">> \in Seq(Goal)
          /\ <<"queued", "preparing">> \in Seq(Goal)
      BY <3>2, ShortSeq
    <3>4. goals \in Seq(Goal)
      <4>1. \A g \in StartGoals(t) : g \in Seq(Goal)
        BY GoalTypes
      <4>2. \A g \in StartGoals(t) :
                <<"queued">> \o g \o <<"cursor">> \in Seq(Goal)
        BY <4>1, <3>3
      <4>3. QED BY <3>1, <3>3, <4>2
    <3>5. "created" \in TaskState
      BY DEF TaskState
    <3>6. work' \in [Broker -> Work \cup {Idle}]
      BY <3>1, <3>4, <3>5, BeginTypes
    <3>7. Log(t, "absent", "created")
      BY <2>1 DEF Create
    <3>8. events' \in Seq(Event) /\ times' \in Seq(Nat)
      BY <3>5, <3>7, LogTypes
    <3>9. state' \in [Task -> TaskState \cup {"absent"}]
      BY <2>0, <2>1, <3>5 DEF Create
    <3>10. Len(events') = Len(events) + 1 /\ Len(times') = Len(times) + 1
      BY <2>0, <3>7 DEF Log
    <3>11. QED
      BY <2>0, <2>1, <3>6, <3>8, <3>9, <3>10 DEF Create, TypeOK
  <2>2. ASSUME NEW b \in Broker, NEW t \in Task,
               Beginning(b, t)
        PROVE  TypeOK' /\ LoggedOnce'
    <3>0. \/ Start(b, t) \/ Collect(b, t) \/ CollectUnheld(b, t)
          \/ CollectMock(b, t) \/ Reconcile(b, t) \/ Timeout(b, t)
          \/ Cancel(b, t) \/ Verify(b, t) \/ (PumpCollect(t) /\ b = Server)
      BY <2>2 DEF Beginning
    <3>1. /\ <<"preparing">> \in Seq(Goal) /\ <<"failed">> \in Seq(Goal)
          /\ <<"timed_out">> \in Seq(Goal) /\ <<"audit">> \in Seq(Goal)
          /\ <<"recovery_required">> \in Seq(Goal)
      <4>1. /\ "preparing" \in Goal /\ "failed" \in Goal
            /\ "timed_out" \in Goal /\ "audit" \in Goal
            /\ "recovery_required" \in Goal
        BY DEF Goal, TaskState
      <4>2. QED BY <4>1, ShortSeq
    <3>2. Stopped(b, t) \o <<"timed_out">> \in Seq(Goal)
      BY <3>1, GoalTypes
    <3>3. \E goals \in Seq(Goal) : Begin(b, t, goals)
      <4>1. CASE Start(b, t)
        BY <4>1, <3>1, GoalTypes DEF Start
      <4>2. CASE Collect(b, t)
        BY <4>2, GoalTypes DEF Collect, TakeFinished
      <4>3. CASE CollectUnheld(b, t)
        BY <4>3, GoalTypes DEF CollectUnheld
      <4>4. CASE CollectMock(b, t)
        BY <4>4, <3>1 DEF CollectMock
      <4>5. CASE Reconcile(b, t)
        BY <4>5, GoalTypes DEF Reconcile
      <4>6. CASE Timeout(b, t)
        BY <4>6, <3>1, <3>2 DEF Timeout
      <4>7. CASE Cancel(b, t)
        BY <4>7, GoalTypes DEF Cancel
      <4>8. CASE Verify(b, t)
        BY <4>8, <3>1 DEF Verify
      <4>9. CASE PumpCollect(t) /\ b = Server
        BY <4>9, GoalTypes DEF PumpCollect, TakeFinished
      <4>10. QED
        BY <3>0, <4>1, <4>2, <4>3, <4>4, <4>5, <4>6, <4>7, <4>8, <4>9
    <3>4. state[t] \in TaskState
      <4>1. state[t] # "absent"
        BY <3>0 DEF Start, Collect, TakeFinished, CollectUnheld, CollectMock,
                    Reconcile, Timeout, Cancel, Verify, PumpCollect
      <4>2. QED BY <4>1, <2>0
    <3>5. work' \in [Broker -> Work \cup {Idle}]
      BY <3>3, <3>4, BeginTypes DEF Begin
    <3>6. /\ UNCHANGED <<state, events, runtime, polling, crashes, cursor,
                         times, since>>
          /\ pump' = pump \/ pump' = pump \ {t}
          /\ held' = held \/ held' = [held EXCEPT ![b] = @ \ {t}]
      BY <3>0 DEF Start, Collect, TakeFinished, CollectUnheld, CollectMock,
                  Reconcile, Timeout, Cancel, Verify, PumpCollect, parent
    <3>7. pump' \subseteq Task /\ held' \in [Broker -> SUBSET Task]
      BY <3>6, <2>0
    <3>8. QED
      BY <2>0, <3>5, <3>6, <3>7 DEF TypeOK
  <2>3. ASSUME NEW b \in Broker, Step(b)
        PROVE  TypeOK' /\ LoggedOnce'
    <3>1. work[b].goals # <<>>
      BY <2>3 DEF Step, Check, Record, Audit, Spawn, StopConfirmed,
                  ReturnCursor, Doing
    <3>2. /\ work[b] \in Work /\ work[b].task \in Task
          /\ work[b].seen \in TaskState
      BY <3>1, <2>0 DEF Idle, Work
    <3>3. CASE Check(b)
      <4>1. PICK goal \in TaskState :
              work' = [work EXCEPT ![b] =
                      IF CanGo(state[work[b].task], goal)
                      THEN [work[b] EXCEPT !.seen = state[work[b].task],
                                           !.checked = TRUE]
                      ELSE Idle]
        BY <3>3 DEF Check
      <4>2. CanGo(state[work[b].task], goal) =>
              [work[b] EXCEPT !.seen = state[work[b].task], !.checked = TRUE]
                \in Work
        BY <3>2, CanGoFacts DEF Work
      <4>3. work' \in [Broker -> Work \cup {Idle}]
        BY <4>1, <4>2, <2>0
      <4>4. QED BY <4>3, <3>3, <2>0 DEF Check, TypeOK, parent
    <3>4. CASE Record(b)
      <4>1. PICK goal \in TaskState :
              /\ state' = [state EXCEPT ![work[b].task] = goal]
              /\ held' = [held EXCEPT ![b] = IF goal = "cancelling"
                                     THEN @ \ {work[b].task} ELSE @]
              /\ Log(work[b].task, work[b].seen, goal)
              /\ DoneSeeing(b, goal)
        BY <3>4 DEF Record
      <4>2. work' \in [Broker -> Work \cup {Idle}]
        BY <4>1, <3>1, DoneTypes
      <4>3. events' \in Seq(Event) /\ times' \in Seq(Nat)
        BY <4>1, <3>2, LogTypes
      <4>4. Len(events') = Len(events) + 1 /\ Len(times') = Len(times) + 1
        BY <2>0, <4>1 DEF Log
      <4>5. /\ state' \in [Task -> TaskState \cup {"absent"}]
            /\ held' \in [Broker -> SUBSET Task]
        BY <4>1, <2>0
      <4>6. QED
        BY <4>2, <4>3, <4>4, <4>5, <3>4, <2>0 DEF Record, TypeOK
    <3>5. CASE Audit(b)
      <4>1. Log(work[b].task, work[b].seen, work[b].seen) /\ Done(b)
        BY <3>5 DEF Audit
      <4>2. work' \in [Broker -> Work \cup {Idle}]
        BY <4>1, <3>1, <3>2, DoneTypes DEF Done
      <4>3. events' \in Seq(Event) /\ times' \in Seq(Nat)
        BY <4>1, <3>2, LogTypes
      <4>4. Len(events') = Len(events) + 1 /\ Len(times') = Len(times) + 1
        BY <2>0, <4>1 DEF Log
      <4>5. QED
        BY <4>2, <4>3, <4>4, <3>5, <2>0 DEF Audit, TypeOK
    <3>6. CASE Spawn(b) \/ StopConfirmed(b) \/ ReturnCursor(b)
      <4>1. work' \in [Broker -> Work \cup {Idle}]
        BY <3>6, <3>1, <3>2, DoneTypes
           DEF Spawn, StopConfirmed, ReturnCursor, Done
      <4>2. /\ UNCHANGED <<state, events, polling, pump, crashes, cursor, times>>
            /\ \/ runtime' = runtime
               \/ \E v \in {"ended", "process"} \cup Broker :
                      runtime' = [runtime EXCEPT ![work[b].task] = v]
            /\ \/ held' = held
               \/ held' = [held EXCEPT ![b] = @ \cup {work[b].task}]
            /\ \/ since' = since
               \/ since' = [since EXCEPT ![work[b].task] = Len(events)]
        BY <3>6 DEF Spawn, StopConfirmed, ReturnCursor, parent
      <4>3. runtime' \in [Task -> {"none", "ended", "process"} \cup Broker]
        <5>1. CASE runtime' = runtime
          BY <5>1, <2>0
        <5>2. ASSUME NEW v \in {"ended", "process"} \cup Broker,
                     runtime' = [runtime EXCEPT ![work[b].task] = v]
              PROVE  runtime' \in [Task -> {"none", "ended", "process"}
                                             \cup Broker]
          BY <5>2, <2>0
        <5>3. QED BY <4>2, <5>1, <5>2
      <4>4. held' \in [Broker -> SUBSET Task]
        <5>1. CASE held' = held
          BY <5>1, <2>0
        <5>2. CASE held' = [held EXCEPT ![b] = @ \cup {work[b].task}]
          BY <5>2, <3>2, <2>0
        <5>3. QED BY <4>2, <5>1, <5>2
      <4>5. Len(events) \in Nat
        BY <2>0
      <4>6. since' \in [Task -> Nat]
        BY <4>2, <4>5, <3>2, <2>0
      <4>7. QED BY <4>1, <4>2, <4>3, <4>4, <4>6, <2>0 DEF TypeOK
    <3>7. QED BY <2>3, <3>3, <3>4, <3>5, <3>6 DEF Step
  <2>4. CASE Poll
    <3>1. pump' \subseteq Task
      BY <2>0, <2>4, BrokerAssumption DEF Poll
    <3>2. QED BY <2>0, <2>4, <3>1 DEF Poll, TypeOK, parent
  <2>5. CASE ReadPage
    <3>1. PICK n \in cursor .. Len(events) :
             /\ cursor' = n
             /\ times' = [i \in 1..Len(events) |->
                            IF i \in Unread /\ i <= n THEN times[i] + 1
                            ELSE times[i]]
      BY <2>5 DEF ReadPage, NextCursor
    <3>2. cursor' \in Nat /\ times' \in Seq(Nat)
      BY <3>1, PageFacts
    <3>3. Len(times') = Len(events) /\ cursor' <= Len(events)
      BY <3>1, <2>0
    <3>4. QED BY <2>0, <2>5, <3>2, <3>3 DEF ReadPage, TypeOK
  <2>6. ASSUME NEW t \in Task, PumpSkip(t) \/ RuntimeEnds(t)
        PROVE  TypeOK' /\ LoggedOnce'
    BY <2>0, <2>6 DEF PumpSkip, RuntimeEnds, TypeOK, parent
  <2>7. ASSUME NEW b \in Broker, Crash(b)
        PROVE  TypeOK' /\ LoggedOnce'
    <3>1. crashes' \in 0..MaxCrashes
      BY <2>0, <2>7, EventBoundAssumption DEF Crash
    <3>2. runtime' \in [Task -> {"none", "ended", "process"} \cup Broker]
      BY <2>0, <2>7 DEF Crash
    <3>3. /\ work' \in [Broker -> Work \cup {Idle}]
          /\ held' \in [Broker -> SUBSET Task]
      BY <2>0, <2>7 DEF Crash
    <3>4. polling' \in BOOLEAN /\ pump' \subseteq Task
      BY <2>0, <2>7 DEF Crash
    <3>5. UNCHANGED <<state, events, cursor, times, since>>
      BY <2>7 DEF Crash, parent
    <3>6. QED
      BY <2>0, <3>1, <3>2, <3>3, <3>4, <3>5 DEF TypeOK
  <2>8. CASE UNCHANGED vars
    BY <2>0, <2>8 DEF vars, TypeOK
  <2>9. QED
    <3>1. CASE \E b \in Broker, t \in Task : Client(b, t)
      <4>1. PICK b \in Broker, t \in Task : Client(b, t)
        BY <3>1
      <4>2. CASE Create(b, t)
        BY <4>2, <2>1
      <4>3. CASE ~Create(b, t)
        <5>1. \/ Start(b, t) \/ Collect(b, t) \/ CollectUnheld(b, t)
              \/ CollectMock(b, t) \/ Reconcile(b, t) \/ Timeout(b, t)
              \/ Cancel(b, t) \/ Verify(b, t)
          BY <4>1, <4>3 DEF Client
        <5>2. Beginning(b, t)
          BY <5>1 DEF Beginning
        <5>3. QED BY <5>2, <2>2
      <4>4. QED BY <4>2, <4>3
    <3>2. CASE \E b \in Broker : Step(b) \/ Crash(b)
      BY <3>2, <2>3, <2>7
    <3>3. CASE \E t \in Task : PumpCollect(t) \/ PumpSkip(t) \/ RuntimeEnds(t)
      <4>1. ASSUME NEW t \in Task, PumpCollect(t)
            PROVE  Beginning(Server, t)
        BY <4>1 DEF Beginning
      <4>2. QED BY <3>3, <4>1, <2>2, <2>6, BrokerAssumption
    <3>4. QED
      BY <3>1, <3>2, <3>3, <2>4, <2>5, <2>8 DEF Next
<1>3. QED
  BY <1>1, <1>2, PTL DEF Spec

-----------------------------------------------------------------------------
(* What the steps do to the log: it grows by one event that its task's     *)
(* table row agrees with, or it stays as it is.                            *)
LEMMA LogGrows ==
    ASSUME TypeOK, LoggedOnce, NEW t \in Task,
           NEW before \in TaskState \cup {"absent"}, NEW after \in TaskState,
           Log(t, before, after)
    PROVE  /\ Len(events') = Len(events) + 1
           /\ Len(times') = Len(events) + 1
           /\ Len(events) \in Nat
           /\ \A i \in 1..Len(events) :
                  events'[i] = events[i] /\ times'[i] = times[i]
           /\ times'[Len(events) + 1] = 0
           /\ events'[Len(events) + 1] =
                  [task |-> t, before |-> before, after |-> after]
BY DEF Log, TypeOK, LoggedOnce

(* A step that logs: create(), a recorded transition, an audit event.      *)
LoggingStep ==
    \E t \in Task, before \in TaskState \cup {"absent"}, after \in TaskState :
        Log(t, before, after) /\ cursor' = cursor

LEMMA StepKinds ==
    ASSUME TypeOK, [Next]_vars
    PROVE  \/ LoggingStep
           \/ UNCHANGED <<events, times, cursor>>
           \/ ReadPage
<1> USE DEF TypeOK
<1>1. ASSUME NEW b \in Broker, NEW t \in Task, Client(b, t)
      PROVE  LoggingStep \/ UNCHANGED <<events, times, cursor>>
  <2>1. CASE Create(b, t)
    <3>1. "created" \in TaskState
      BY DEF TaskState
    <3>2. QED BY <2>1, <3>1 DEF Create, LoggingStep
  <2>2. CASE ~Create(b, t)
    BY <1>1, <2>2
       DEF Client, Start, Collect, TakeFinished, CollectUnheld, CollectMock,
           Reconcile, Timeout, Cancel, Verify, parent
  <2>3. QED BY <2>1, <2>2
<1>2. ASSUME NEW b \in Broker, Step(b)
      PROVE  LoggingStep \/ UNCHANGED <<events, times, cursor>>
  <2>1. ASSUME work[b].goals # <<>>
        PROVE  work[b].task \in Task /\ work[b].seen \in TaskState
    BY <2>1 DEF Idle, Work
  <2>2. CASE Record(b)
    BY <2>1, <2>2 DEF Record, Doing, LoggingStep
  <2>3. CASE Audit(b)
    BY <2>1, <2>3 DEF Audit, Doing, LoggingStep
  <2>4. CASE Check(b) \/ Spawn(b) \/ StopConfirmed(b) \/ ReturnCursor(b)
    BY <2>4 DEF Check, Spawn, StopConfirmed, ReturnCursor, parent
  <2>5. QED BY <1>2, <2>2, <2>3, <2>4 DEF Step
<1>3. ASSUME NEW b \in Broker, Crash(b)
      PROVE  UNCHANGED <<events, times, cursor>>
  BY <1>3 DEF Crash, parent
<1>4. ASSUME NEW t \in Task, PumpCollect(t) \/ PumpSkip(t) \/ RuntimeEnds(t)
      PROVE  UNCHANGED <<events, times, cursor>>
  BY <1>4 DEF PumpCollect, PumpSkip, RuntimeEnds, parent
<1>5. Poll => UNCHANGED <<events, times, cursor>>
  BY DEF Poll, parent
<1>6. UNCHANGED vars => UNCHANGED <<events, times, cursor>>
  BY DEF vars
<1>7. QED
  BY <1>1, <1>2, <1>3, <1>4, <1>5, <1>6 DEF Next

(* Every completion of a watched task up to the cursor has been delivered  *)
(* exactly once, whatever brokers, pages and crashes came in between.      *)
THEOREM DeliverySafe == Spec => []DeliveredExactly
<1> DEFINE Inv == TypeOK /\ LoggedOnce
<1>1. Init => DeliveredExactly
  BY DEF Init, DeliveredExactly
<1>2. Inv /\ Inv' /\ DeliveredExactly /\ [Next]_vars => DeliveredExactly'
  <2> SUFFICES ASSUME TypeOK, LoggedOnce, LoggedOnce', DeliveredExactly,
                      [Next]_vars
               PROVE  DeliveredExactly'
    OBVIOUS
  <2>0. cursor \in Nat /\ Len(events) \in Nat
    BY DEF TypeOK
  <2>1. CASE LoggingStep
    <3>1. PICK t \in Task, before \in TaskState \cup {"absent"},
               after \in TaskState : Log(t, before, after)
      BY <2>1 DEF LoggingStep
    <3>2. /\ Len(events') = Len(events) + 1
          /\ \A i \in 1..Len(events) :
                 events'[i] = events[i] /\ times'[i] = times[i]
          /\ times'[Len(events) + 1] = 0
      BY <3>1, LogGrows
    <3>3. cursor' = cursor
      BY <2>1 DEF LoggingStep
    <3>4. ASSUME NEW i \in 1..Len(events')
          PROVE  times'[i] = IF i <= cursor' /\ Completion(i)' THEN 1 ELSE 0
      <4>1. CASE i \in 1..Len(events)
        BY <4>1, <3>2, <3>3 DEF DeliveredExactly, Completion
      <4>2. CASE i = Len(events) + 1
        BY <4>2, <3>2, <3>3, <2>0 DEF LoggedOnce
      <4>3. QED BY <4>1, <4>2, <3>2, <2>0
    <3>5. QED BY <3>4 DEF DeliveredExactly, LoggedOnce
  <2>2. CASE UNCHANGED <<events, times, cursor>>
    BY <2>2 DEF DeliveredExactly, Completion
  <2>3. CASE ReadPage
    <3>1. PICK n \in cursor .. Len(events) :
             /\ cursor' = n
             /\ times' = [i \in 1..Len(events) |->
                            IF i \in Unread /\ i <= n THEN times[i] + 1
                            ELSE times[i]]
      BY <2>3 DEF ReadPage, NextCursor
    <3>2. events' = events
      BY <2>3 DEF ReadPage
    <3>3. ASSUME NEW i \in 1..Len(events)
          PROVE  times'[i] = IF i <= n /\ Completion(i) THEN 1 ELSE 0
      <4>1. i \in Unread <=> cursor < i /\ Completion(i)
        BY <2>0 DEF Unread
      <4>2. times[i] = IF i <= cursor /\ Completion(i) THEN 1 ELSE 0
        BY DEF DeliveredExactly
      <4>3. times'[i] = IF i \in Unread /\ i <= n THEN times[i] + 1
                        ELSE times[i]
        BY <3>1
      <4>4. n \in Nat /\ cursor <= n
        BY <2>0, <3>1
      <4>5. QED BY <4>1, <4>2, <4>3, <4>4, <2>0
    <3>4. QED BY <3>1, <3>2, <3>3 DEF DeliveredExactly, LoggedOnce, Completion
  <2>4. QED BY <2>1, <2>2, <2>3, StepKinds
<1>3. QED
  BY <1>1, <1>2, TypeCorrect, PTL DEF Spec

-----------------------------------------------------------------------------
(* The steps by what they do to the work of the brokers.                   *)
LEMMA WorkSteps ==
    ASSUME TypeOK, [Next]_vars
    PROVE  \/ \E b \in Broker, t \in Task, goals \in Seq(Goal) :
                 BeginSeeing(b, t, "created", goals) /\ Create(b, t)
           \/ \E b \in Broker, t \in Task :
                 /\ \E goals : Begin(b, t, goals)
                 /\ UNCHANGED <<state, events>>
           \/ \E b \in Broker : Check(b) \/ Record(b) \/ Audit(b)
           \/ \E b \in Broker : Done(b) /\ work[b].goals # <<>>
                              /\ UNCHANGED <<state, events>>
           \/ \E b \in Broker : work' = [work EXCEPT ![b] = Idle]
                              /\ UNCHANGED <<state, events>>
           \/ UNCHANGED <<state, events, work>>
<1>1. ASSUME NEW b \in Broker, NEW t \in Task, Create(b, t)
      PROVE  \E goals \in Seq(Goal) : BeginSeeing(b, t, "created", goals)
  <2>1. PICK goals \in {<<"queued">>, <<"queued", "preparing">>}
                  \cup {<<"queued">> \o g \o <<"cursor">> :
                            g \in StartGoals(t)} :
           BeginSeeing(b, t, "created", goals)
    BY <1>1 DEF Create
  <2>2. "queued" \in Goal /\ "preparing" \in Goal /\ "cursor" \in Goal
    BY DEF Goal, TaskState
  <2>3. /\ <<"queued">> \in Seq(Goal) /\ <<"cursor">> \in Seq(Goal)
        /\ <<"queued", "preparing">> \in Seq(Goal)
    BY <2>2, ShortSeq
  <2>4. \A g \in StartGoals(t) : g \in Seq(Goal)
    BY GoalTypes
  <2>5. \A g \in StartGoals(t) :
            <<"queued">> \o g \o <<"cursor">> \in Seq(Goal)
    BY <2>4, <2>3
  <2>6. goals \in Seq(Goal)
    BY <2>1, <2>3, <2>5
  <2>7. QED BY <2>1, <2>6
<1>2. ASSUME NEW b \in Broker, NEW t \in Task, Beginning(b, t)
      PROVE  /\ \E goals : Begin(b, t, goals)
             /\ UNCHANGED <<state, events>>
  BY <1>2
     DEF Beginning, Start, Collect, TakeFinished, CollectUnheld, CollectMock,
         Reconcile, Timeout, Cancel, Verify, PumpCollect
<1>3. ASSUME NEW b \in Broker, Step(b)
      PROVE  \/ Check(b) \/ Record(b) \/ Audit(b)
             \/ (Done(b) /\ work[b].goals # <<>> /\ UNCHANGED <<state, events>>)
  BY <1>3 DEF Step, Spawn, StopConfirmed, ReturnCursor, Doing
<1>4. ASSUME NEW b \in Broker, Crash(b)
      PROVE  work' = [work EXCEPT ![b] = Idle] /\ UNCHANGED <<state, events>>
  BY <1>4 DEF Crash
<1>5. ASSUME NEW t \in Task, PumpSkip(t) \/ RuntimeEnds(t)
      PROVE  UNCHANGED <<state, events, work>>
  BY <1>5 DEF PumpSkip, RuntimeEnds
<1>6. Poll \/ ReadPage => UNCHANGED <<state, events, work>>
  BY DEF Poll, ReadPage
<1>7. UNCHANGED vars => UNCHANGED <<state, events, work>>
  BY DEF vars
<1>8. ASSUME NEW b \in Broker, NEW t \in Task, Client(b, t)
      PROVE  Create(b, t) \/ Beginning(b, t)
  BY <1>8 DEF Client, Beginning
<1>9. ASSUME NEW t \in Task, PumpCollect(t)
      PROVE  Beginning(Server, t)
  BY <1>9 DEF Beginning
<1>10. QED
  <2>1. CASE \E b \in Broker, t \in Task : Client(b, t)
    BY <2>1, <1>1, <1>2, <1>8
  <2>2. CASE \E b \in Broker : Step(b) \/ Crash(b)
    BY <2>2, <1>3, <1>4
  <2>3. CASE \E t \in Task : PumpCollect(t) \/ PumpSkip(t) \/ RuntimeEnds(t)
    BY <2>3, <1>2, <1>5, <1>9, BrokerAssumption
  <2>4. QED
    BY <2>1, <2>2, <2>3, <1>6, <1>7 DEF Next

(* A broker that begins an operation has just that operation to do.        *)
LEMMA BegunWork ==
    ASSUME TypeOK, NEW b \in Broker, NEW t, NEW seen, NEW goals,
           BeginSeeing(b, t, seen, goals)
    PROVE  /\ work'[b].task = t /\ work'[b].seen = seen
           /\ work'[b].checked = FALSE
           /\ \A c \in Broker \ {b} : work'[c] = work[c]
  BY DEF BeginSeeing, TypeOK

(* A broker's work after a begin or a done.                                *)
LEMMA WorkAfter ==
    ASSUME TypeOK, NEW b \in Broker, NEW seen
    PROVE  /\ \A t, goals : BeginSeeing(b, t, seen, goals) =>
                /\ work'[b].task = t /\ work'[b].seen = seen
                /\ work'[b].checked = FALSE
                /\ \A c \in Broker \ {b} : work'[c] = work[c]
           /\ DoneSeeing(b, seen) =>
                /\ work'[b] = Idle \/ (/\ work'[b].task = work[b].task
                                       /\ work'[b].seen = seen)
                /\ work'[b].checked = FALSE
                /\ \A c \in Broker \ {b} : work'[c] = work[c]
<1>0. work \in [Broker -> Work \cup {Idle}]
  BY DEF TypeOK
<1>1. ASSUME NEW t, NEW goals, BeginSeeing(b, t, seen, goals)
      PROVE  /\ work'[b].task = t /\ work'[b].seen = seen
             /\ work'[b].checked = FALSE
             /\ \A c \in Broker \ {b} : work'[c] = work[c]
  BY <1>1, BegunWork
<1>2. ASSUME DoneSeeing(b, seen)
      PROVE  /\ work'[b] = Idle \/ (/\ work'[b].task = work[b].task
                                    /\ work'[b].seen = seen)
             /\ work'[b].checked = FALSE
             /\ \A c \in Broker \ {b} : work'[c] = work[c]
  <2>1. PICK rest : work' = [work EXCEPT ![b] =
               IF rest = <<>> THEN Idle
               ELSE [task |-> work[b].task, goals |-> rest, seen |-> seen,
                     checked |-> FALSE]]
    BY <1>2, <1>0 DEF DoneSeeing
  <2>2. \A c \in Broker \ {b} : work'[c] = work[c]
    BY <2>1, <1>0
  <2>3. CASE rest = <<>>
    <3>1. work'[b] = Idle
      BY <2>1, <2>3, <1>0
    <3>2. QED BY <3>1, <2>2 DEF Idle
  <2>4. CASE rest # <<>>
    <3>1. work'[b] = [task |-> work[b].task, goals |-> rest, seen |-> seen,
                      checked |-> FALSE]
      BY <2>1, <2>4, <1>0
    <3>2. QED BY <3>1, <2>2
  <2>5. QED BY <2>3, <2>4
<1>3. QED BY <1>1, <1>2

(* A transition is recorded only if it was legal from the state seen.      *)
THEOREM CheckedSafe == Spec => []CheckedIsLegal
<1>1. Init => CheckedIsLegal
  BY DEF Init, CheckedIsLegal, Idle
<1>2. TypeOK /\ CheckedIsLegal /\ [Next]_vars => CheckedIsLegal'
  <2> SUFFICES ASSUME TypeOK, CheckedIsLegal, [Next]_vars
               PROVE  CheckedIsLegal'
    OBVIOUS
  <2>0. work \in [Broker -> Work \cup {Idle}]
    BY DEF TypeOK
  <2>1. ASSUME NEW b \in Broker, NEW t, NEW seen, NEW goals,
               BeginSeeing(b, t, seen, goals)
        PROVE  CheckedIsLegal'
    BY <2>1, WorkAfter DEF CheckedIsLegal
  <2>2. ASSUME NEW b \in Broker, NEW seen, DoneSeeing(b, seen)
        PROVE  CheckedIsLegal'
    BY <2>2, WorkAfter DEF CheckedIsLegal
  <2>3. ASSUME NEW b \in Broker, Check(b)
        PROVE  CheckedIsLegal'
    <3>1. PICK goal \in TaskState :
            /\ Doing(b, goal)
            /\ work' = [work EXCEPT ![b] =
                    IF CanGo(state[work[b].task], goal)
                    THEN [work[b] EXCEPT !.seen = state[work[b].task],
                                         !.checked = TRUE]
                    ELSE Idle]
      BY <2>3 DEF Check
    <3>2. work[b] \in Work
      BY <3>1, <2>0 DEF Doing, Idle
    <3>3. work'[b].checked => CanGo(work'[b].seen, Head(work'[b].goals))
      BY <3>1, <3>2, <2>0 DEF Doing, Work, Idle
    <3>4. \A c \in Broker \ {b} : work'[c] = work[c]
      BY <3>1, <2>0
    <3>5. QED BY <3>3, <3>4 DEF CheckedIsLegal
  <2>4. ASSUME NEW b \in Broker, work' = [work EXCEPT ![b] = Idle]
        PROVE  CheckedIsLegal'
    BY <2>4, <2>0 DEF CheckedIsLegal, Idle
  <2>5. ASSUME NEW b \in Broker, Record(b)
        PROVE  \E seen : DoneSeeing(b, seen)
    BY <2>5 DEF Record
  <2>6. ASSUME NEW b \in Broker, Audit(b) \/ Done(b)
        PROVE  \E seen : DoneSeeing(b, seen)
    BY <2>6 DEF Audit, Done
  <2>7. work' = work => CheckedIsLegal'
    BY DEF CheckedIsLegal
  <2>8. QED
    BY WorkSteps, <2>1, <2>2, <2>3, <2>4, <2>5, <2>6, <2>7 DEF Begin
<1>3. QED
  BY <1>1, <1>2, TypeCorrect, PTL DEF Spec

-----------------------------------------------------------------------------
(* What a step writes: a transition, with its event, that was legal from   *)
(* the state seen; an audit event; or nothing.                             *)
Recorded(t, before, after) ==
    /\ Log(t, before, after)
    /\ state' = [state EXCEPT ![t] = after]
    /\ \/ before = "absent" /\ after = "created" /\ state[t] = "absent"
       \/ CanGo(before, after)
    /\ SeenIsState => before = state[t]

Audited(t, seen) ==
    /\ Log(t, seen, seen)
    /\ UNCHANGED state
    /\ SeenIsState => seen = state[t]

LEMMA LogSteps ==
    ASSUME TypeOK, CheckedIsLegal, [Next]_vars
    PROVE  \/ \E t \in Task, before \in TaskState \cup {"absent"},
                 after \in TaskState : Recorded(t, before, after)
           \/ \E t \in Task, seen \in TaskState : Audited(t, seen)
           \/ UNCHANGED <<state, events>>
<1>0. work \in [Broker -> Work \cup {Idle}]
  BY DEF TypeOK
<1>1. ASSUME NEW b \in Broker, NEW t \in Task, Create(b, t)
      PROVE  "created" \in TaskState /\ Recorded(t, "absent", "created")
  BY <1>1 DEF Create, Recorded, TaskState
<1>2. ASSUME NEW b \in Broker, work[b].goals # <<>>
      PROVE  /\ work[b].task \in Task /\ work[b].seen \in TaskState
             /\ SeenIsState => work[b].seen = state[work[b].task]
  BY <1>0, <1>2 DEF Idle, Work, SeenIsState
<1>3. ASSUME NEW b \in Broker, Record(b)
      PROVE  \E goal \in TaskState : /\ Recorded(work[b].task, work[b].seen, goal)
                                    /\ work[b].goals # <<>>
  BY <1>2, <1>3 DEF Record, Recorded, Doing, CheckedIsLegal
<1>4. ASSUME NEW b \in Broker, Audit(b)
      PROVE  Audited(work[b].task, work[b].seen) /\ work[b].goals # <<>>
  BY <1>2, <1>4 DEF Audit, Audited, Doing
<1>5. ASSUME NEW b \in Broker, Check(b)
      PROVE  UNCHANGED <<state, events>>
  BY <1>5 DEF Check
<1>6. QED
  BY <1>1, <1>2, <1>3, <1>4, <1>5, WorkSteps

(* The log tells the state of every task: with any number of brokers, and  *)
(* although they check and record in separate statements, a task is where  *)
(* its last recorded transition led to.                                    *)
THEOREM LogSafe == Spec => []LogTellsState
<1>1. Init => LogTellsState
  BY DEF Init, LogTellsState
<1>2. TypeOK /\ LoggedOnce /\ CheckedIsLegal /\ LogTellsState /\ [Next]_vars
        => LogTellsState'
  <2> SUFFICES ASSUME TypeOK, LoggedOnce, CheckedIsLegal, LogTellsState,
                      [Next]_vars
               PROVE  LogTellsState'
    OBVIOUS
  <2>0. /\ Len(events) \in Nat /\ state \in [Task -> TaskState \cup {"absent"}]
    BY DEF TypeOK
  <2>1. ASSUME NEW t \in Task, NEW before \in TaskState \cup {"absent"},
               NEW after \in TaskState, Log(t, before, after),
               \/ before # after /\ state' = [state EXCEPT ![t] = after]
               \/ before = after /\ state' = state
        PROVE  LogTellsState'
    <3>1. /\ Len(events') = Len(events) + 1
          /\ \A i \in 1..Len(events) : events'[i] = events[i]
          /\ events'[Len(events) + 1] =
                 [task |-> t, before |-> before, after |-> after]
      BY <2>1, LogGrows
    <3>2. ASSUME NEW u \in Task, NEW i \in 1..Len(events'),
                 events'[i].task = u, events'[i].before # events'[i].after,
                 \A j \in i + 1 .. Len(events') :
                     ~(events'[j].task = u
                         /\ events'[j].before # events'[j].after)
          PROVE  state'[u] = events'[i].after
      <4>1. CASE i = Len(events) + 1
        BY <4>1, <2>0, <2>1, <3>1, <3>2
      <4>2. CASE i \in 1..Len(events)
        <5>1. ~(t = u /\ before # after)
          <6>1. Len(events) + 1 \in i + 1 .. Len(events')
            BY <4>2, <2>0, <3>1
          <6>2. QED BY <6>1, <3>1, <3>2
        <5>2. state'[u] = state[u]
          BY <5>1, <2>0, <2>1
        <5>3. \A j \in i + 1 .. Len(events) :
                  ~(events[j].task = u /\ events[j].before # events[j].after)
          <6> TAKE j \in i + 1 .. Len(events)
          <6>1. j \in i + 1 .. Len(events') /\ j \in 1..Len(events)
            BY <4>2, <2>0, <3>1
          <6>2. QED BY <6>1, <3>1, <3>2
        <5>4. events[i].task = u /\ events[i].before # events[i].after
          BY <4>2, <3>1, <3>2
        <5>5. state[u] = events[i].after
          BY <4>2, <5>3, <5>4 DEF LogTellsState, Transition
        <5>6. QED BY <4>2, <5>2, <5>5, <3>1
      <4>3. QED BY <4>1, <4>2, <2>0, <3>1
    <3>3. QED BY <3>2 DEF LogTellsState, Transition
  <2>2. ASSUME NEW t \in Task, NEW before \in TaskState \cup {"absent"},
               NEW after \in TaskState, Recorded(t, before, after)
        PROVE  LogTellsState'
    <3>1. before # after
      BY <2>2, CanGoFacts DEF Recorded
    <3>2. QED BY <3>1, <2>1, <2>2 DEF Recorded
  <2>3. ASSUME NEW t \in Task, NEW seen \in TaskState, Audited(t, seen)
        PROVE  LogTellsState'
    BY <2>1, <2>3 DEF Audited
  <2>4. CASE UNCHANGED <<state, events>>
    BY <2>4 DEF LogTellsState, Transition
  <2>5. QED BY <2>2, <2>3, <2>4, LogSteps
<1>3. QED
  BY <1>1, <1>2, TypeCorrect, CheckedSafe, PTL DEF Spec

-----------------------------------------------------------------------------
(* With one broker nothing changes a task behind an operation's back.      *)
LEMMA SeenStep ==
    ASSUME \A b, c \in Broker : b = c,
           TypeOK, CheckedIsLegal, SeenIsState, [Next]_vars
    PROVE  SeenIsState'
<1>0. /\ work \in [Broker -> Work \cup {Idle}]
      /\ state \in [Task -> TaskState \cup {"absent"}]
  BY DEF TypeOK
<1>1. ASSUME NEW b \in Broker, NEW t \in Task, NEW goals, Begin(b, t, goals),
             state' = state
      PROVE  SeenIsState'
  <2>0. BeginSeeing(b, t, state[t], goals)
    BY <1>1 DEF Begin
  <2>1. work'[b].task = t /\ work'[b].seen = state[t]
    BY <1>0, <2>0 DEF BeginSeeing
  <2>2. \A c \in Broker : c = b
    OBVIOUS
  <2>3. \A c \in Broker : work'[c].seen = state'[work'[c].task]
    BY <1>1, <2>1, <2>2
  <2>4. QED BY <2>3 DEF SeenIsState
<1>2. ASSUME NEW b \in Broker, NEW t \in Task, Create(b, t)
      PROVE  SeenIsState'
  <2>1. PICK goals : BeginSeeing(b, t, "created", goals)
    BY <1>2 DEF Create
  <2>2. work'[b].task = t /\ work'[b].seen = "created"
    BY <2>1, BegunWork
  <2>3. state'[t] = "created"
    BY <1>0, <1>2 DEF Create
  <2>4. \A c \in Broker : c = b
    OBVIOUS
  <2>5. \A c \in Broker : work'[c].seen = state'[work'[c].task]
    BY <2>2, <2>3, <2>4
  <2>6. QED BY <2>5 DEF SeenIsState
<1>3. ASSUME NEW b \in Broker, NEW seen, DoneSeeing(b, seen),
             work[b].goals # <<>>, state'[work[b].task] = seen
      PROVE  SeenIsState'
  <2>1. work'[b] = Idle \/ (work'[b].task = work[b].task /\ work'[b].seen = seen)
    BY <1>3, WorkAfter
  <2>2. QED BY <1>3, <2>1 DEF SeenIsState
<1>4. ASSUME NEW b \in Broker, work[b].goals # <<>>
      PROVE  /\ work[b] \in Work /\ work[b].task \in Task
             /\ work[b].seen = state[work[b].task]
  BY <1>0, <1>4 DEF Idle, Work, SeenIsState
<1>5. ASSUME NEW b \in Broker, Record(b)
      PROVE  SeenIsState'
  <2>1. PICK goal \in TaskState :
          /\ Doing(b, goal) /\ DoneSeeing(b, goal)
          /\ state' = [state EXCEPT ![work[b].task] = goal]
    BY <1>5 DEF Record
  <2>2. work[b].goals # <<>>
    BY <2>1 DEF Doing
  <2>3. state'[work[b].task] = goal
    BY <1>0, <1>4, <2>1, <2>2
  <2>4. QED BY <1>3, <2>1, <2>2, <2>3
<1>6. ASSUME NEW b \in Broker, Done(b), work[b].goals # <<>>, state' = state
      PROVE  SeenIsState'
  BY <1>3, <1>4, <1>6 DEF Done
<1>7. ASSUME NEW b \in Broker, Audit(b)
      PROVE  Done(b) /\ work[b].goals # <<>> /\ state' = state
  BY <1>7 DEF Audit, Doing
<1>8. ASSUME NEW b \in Broker, Check(b)
      PROVE  SeenIsState'
  <2>1. PICK goal \in TaskState :
          /\ Doing(b, goal)
          /\ work' = [work EXCEPT ![b] =
                  IF CanGo(state[work[b].task], goal)
                  THEN [work[b] EXCEPT !.seen = state[work[b].task],
                                       !.checked = TRUE]
                  ELSE Idle]
    BY <1>8 DEF Check
  <2>2. work[b] \in Work
    BY <2>1, <1>4 DEF Doing
  <2>3. work'[b] # Idle => work'[b].seen = state[work'[b].task]
    BY <1>0, <2>1, <2>2 DEF Work
  <2>4. state' = state
    BY <1>8 DEF Check
  <2>5. QED BY <2>3, <2>4 DEF SeenIsState
<1>9. ASSUME NEW b \in Broker, work' = [work EXCEPT ![b] = Idle]
      PROVE  SeenIsState'
  BY <1>0, <1>9 DEF SeenIsState
<1>10. UNCHANGED <<state, work>> => SeenIsState'
  BY DEF SeenIsState
<1>11. QED
  BY <1>1, <1>2, <1>5, <1>6, <1>7, <1>8, <1>9, <1>10, WorkSteps

(* An event about a task, new at the end of the log, is the last of its    *)
(* task, and the others keep theirs.                                       *)
LEMMA LastStep ==
    ASSUME TypeOK, LoggedOnce, LastEventTells,
           NEW t \in Task, NEW before \in TaskState \cup {"absent"},
           NEW after \in TaskState, Log(t, before, after),
           state' = [state EXCEPT ![t] = after]
    PROVE  LastEventTells'
<1>0. /\ Len(events) \in Nat /\ state \in [Task -> TaskState \cup {"absent"}]
  BY DEF TypeOK
<1>1. /\ Len(events') = Len(events) + 1
      /\ \A i \in 1..Len(events) : events'[i] = events[i]
      /\ events'[Len(events) + 1] =
             [task |-> t, before |-> before, after |-> after]
  BY LogGrows
<1>2. ASSUME NEW u \in Task, state'[u] # "absent"
      PROVE  \E j \in 1..Len(events') :
                /\ events'[j].task = u /\ events'[j].after = state'[u]
                /\ \A k \in j + 1 .. Len(events') : events'[k].task # u
  <2>1. CASE u = t
    <3>1. /\ Len(events) + 1 \in 1..Len(events')
          /\ events'[Len(events) + 1].task = u
          /\ events'[Len(events) + 1].after = state'[u]
          /\ \A k \in (Len(events) + 1) + 1 .. Len(events') : FALSE
      BY <1>0, <1>1, <2>1
    <3>2. QED BY <3>1
  <2>2. CASE u # t
    <3>1. state'[u] = state[u]
      BY <1>0, <2>2
    <3>2. PICK j \in 1..Len(events) :
             /\ events[j].task = u /\ events[j].after = state[u]
             /\ \A k \in j + 1 .. Len(events) : events[k].task # u
      BY <1>2, <3>1 DEF LastEventTells
    <3>3. \A k \in j + 1 .. Len(events') : events'[k].task # u
      <4> TAKE k \in j + 1 .. Len(events')
      <4>1. k \in 1..Len(events) \/ k = Len(events) + 1
        BY <1>0, <1>1, <3>2
      <4>2. QED BY <1>0, <1>1, <2>2, <3>2, <4>1
    <3>4. j \in 1..Len(events')
      BY <1>0, <1>1
    <3>5. QED BY <1>1, <3>1, <3>2, <3>3, <3>4
  <2>3. QED BY <2>1, <2>2
<1>3. QED BY <1>2 DEF LastEventTells

(* An event that starts where the last one of its task ended extends a     *)
(* legal history.                                                          *)
LEMMA HistoryStep ==
    ASSUME TypeOK, LoggedOnce, LastEventTells, LegalHistory,
           NEW t \in Task, NEW before \in TaskState \cup {"absent"},
           NEW after \in TaskState, Log(t, before, after),
           before = state[t],
           before # after => \/ before = "absent" /\ after = "created"
                             \/ CanGo(before, after)
    PROVE  LegalHistory'
<1>0. Len(events) \in Nat
  BY DEF TypeOK
<1>1. /\ Len(events') = Len(events) + 1
      /\ \A i \in 1..Len(events) : events'[i] = events[i]
      /\ events'[Len(events) + 1] =
             [task |-> t, before |-> before, after |-> after]
  BY LogGrows
<1>2. ASSUME NEW i \in 1..Len(events'), events'[i].before # events'[i].after
      PROVE  \/ events'[i].before = "absent" /\ events'[i].after = "created"
             \/ CanGo(events'[i].before, events'[i].after)
  <2>1. CASE i \in 1..Len(events)
    BY <1>1, <1>2, <2>1 DEF LegalHistory, Transition
  <2>2. CASE i = Len(events) + 1
    BY <1>1, <1>2, <2>2
  <2>3. QED BY <1>0, <1>1, <2>1, <2>2
<1>3. ASSUME NEW i \in 1..Len(events'), events'[i].before # "absent"
      PROVE  \E j \in 1..i - 1 :
                /\ events'[j].task = events'[i].task
                /\ events'[j].after = events'[i].before
                /\ \A k \in j + 1 .. i - 1 : events'[k].task # events'[i].task
  <2>1. CASE i \in 1..Len(events)
    <3>1. PICK j \in 1..i - 1 :
             /\ events[j].task = events[i].task
             /\ events[j].after = events[i].before
             /\ \A k \in j + 1 .. i - 1 : events[k].task # events[i].task
      BY <1>1, <1>3, <2>1 DEF LegalHistory
    <3>2. j \in 1..Len(events) /\ \A k \in j + 1 .. i - 1 : k \in 1..Len(events)
      BY <1>0, <2>1
    <3>3. QED BY <1>1, <2>1, <3>1, <3>2
  <2>2. CASE i = Len(events) + 1
    <3>1. PICK j \in 1..Len(events) :
             /\ events[j].task = t /\ events[j].after = before
             /\ \A k \in j + 1 .. Len(events) : events[k].task # t
      BY <1>1, <1>3, <2>2 DEF LastEventTells
    <3>2. /\ i - 1 = Len(events)
          /\ \A k \in j + 1 .. i - 1 : k \in 1..Len(events)
      BY <1>0, <2>2
    <3>3. QED BY <1>1, <2>2, <3>1, <3>2
  <2>3. QED BY <1>0, <1>1, <2>1, <2>2
<1>4. QED BY <1>2, <1>3 DEF LegalHistory, Transition

(* With a single broker on the home, every task's history in the log is a  *)
(* path of the transition table that starts with its creation, and its     *)
(* last event tells its state.                                             *)
THEOREM HistorySafe ==
    ASSUME \A b, c \in Broker : b = c
    PROVE  Spec => []LegalHistory
<1> DEFINE Inv == SeenIsState /\ LastEventTells /\ LegalHistory
<1>1. Init => Inv
  BY DEF Init, SeenIsState, LastEventTells, LegalHistory
<1>2. TypeOK /\ LoggedOnce /\ CheckedIsLegal /\ Inv /\ [Next]_vars => Inv'
  <2> SUFFICES ASSUME TypeOK, LoggedOnce, CheckedIsLegal, Inv, [Next]_vars
               PROVE  LastEventTells' /\ LegalHistory'
    BY SeenStep
  <2>0. state \in [Task -> TaskState \cup {"absent"}]
    BY DEF TypeOK
  <2>1. ASSUME NEW t \in Task, NEW before \in TaskState \cup {"absent"},
               NEW after \in TaskState, Recorded(t, before, after)
        PROVE  LastEventTells' /\ LegalHistory'
    BY <2>1, LastStep, HistoryStep DEF Recorded
  <2>2. ASSUME NEW t \in Task, NEW seen \in TaskState, Audited(t, seen)
        PROVE  LastEventTells' /\ LegalHistory'
    <3>1. seen = state[t] /\ state' = [state EXCEPT ![t] = seen]
      BY <2>0, <2>2 DEF Audited
    <3>2. QED BY <2>2, <3>1, LastStep, HistoryStep DEF Audited
  <2>3. CASE UNCHANGED <<state, events>>
    BY <2>3 DEF LastEventTells, LegalHistory, Transition
  <2>4. QED BY <2>1, <2>2, <2>3, LogSteps
<1>3. QED
  BY <1>1, <1>2, TypeCorrect, CheckedSafe, PTL DEF Spec

=============================================================================
