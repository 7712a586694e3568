-------------------------- MODULE CompletionEvents --------------------------
(***************************************************************************)
(* The event log of the store and the parent that polls it: several broker *)
(* processes (the MCP server the parent talks to, CLI commands) work on    *)
(* one home, TaskStore.transition() checks a transition in one statement   *)
(* and records it in another, delegate hands out a completion cursor, and  *)
(* completion_events pumps the finished runtimes of its own broker before  *)
(* it reads a page.                                                        *)
(*                                                                         *)
(* An operation of a broker is the sequence of goals it has left: a state  *)
(* to move its task to, or one of                                          *)
(*   "spawn", "stop"  the runtime is started or has been stopped,          *)
(*   "audit"          an event without a transition,                       *)
(*   "cursor"         delegate reads the high-water mark and returns it.   *)
(* The event's before and after of an audit event are the state the        *)
(* operation read when it began, as in the code.                           *)
(***************************************************************************)
EXTENDS TaskStates, Integers, Sequences, FiniteSets

CONSTANTS
    Task, NoTask,
    Broker,      \* broker processes on one home
    Server,      \* the broker the parent talks to
    Mock,        \* tasks of the mock runtime
    Direct,      \* tasks whose runtime is a request thread of their broker
    Watched,     \* what the parent filters by (task_id or root_task_id)
    Limit,       \* its page limit
    MaxEvents,   \* bound: no repeatable operation begins after this many
    MaxCrashes   \* bound: how often a broker goes away

ASSUME BrokerAssumption ==
    Server \in Broker /\ {"none", "ended", "process"} \cap Broker = {}
ASSUME TaskAssumption ==
    NoTask \notin Task /\ Mock \subseteq Task /\ Direct \subseteq Task \ Mock
ASSUME PollAssumption == Watched \subseteq Task /\ Limit \in Nat \ {0}
ASSUME EventBoundAssumption == MaxEvents \in Nat /\ MaxCrashes \in Nat

VARIABLES
    \* the store
    state,     \* tasks.state
    events,    \* the events table; an event's id is its position
    \* the runtimes
    runtime,   \* "none", "ended", or what it lives in: a process of its own,
               \* or the broker b it is a request thread of
    \* the broker processes
    held,      \* the tasks whose runtime handle broker b holds
    work,      \* the operation broker b is in
    polling,   \* the server executes completion_events_since()
    pump,      \* handles the pump has not looked at yet
    crashes,
    \* the parent
    cursor,    \* after_event_id of its next poll
    times,     \* how often event i was delivered to it
    since      \* the completion_cursor delegate returned for a task, or 0

vars == <<state, events, runtime, held, work, polling, pump, crashes,
          cursor, times, since>>
parent == <<cursor, times, since>>

Goal  == TaskState \cup {"spawn", "stop", "audit", "cursor"}
Event == [task : Task, before : TaskState \cup {"absent"}, after : TaskState]
Work  == [task : Task, goals : Seq(Goal), seen : TaskState,
          checked : BOOLEAN]
Idle  == [task |-> NoTask, goals |-> <<>>, seen |-> "absent",
          checked |-> FALSE]

TypeOK ==
    /\ state \in [Task -> TaskState \cup {"absent"}]
    /\ events \in Seq(Event)
    /\ runtime \in [Task -> {"none", "ended", "process"} \cup Broker]
    /\ held \in [Broker -> SUBSET Task]
    /\ work \in [Broker -> Work \cup {Idle}]
    /\ polling \in BOOLEAN
    /\ pump \subseteq Task
    /\ crashes \in 0..MaxCrashes
    /\ cursor \in Nat
    /\ times \in Seq(Nat)
    /\ since \in [Task -> Nat]

Init ==
    /\ state = [t \in Task |-> "absent"]
    /\ events = <<>>
    /\ runtime = [t \in Task |-> "none"]
    /\ held = [b \in Broker |-> {}]
    /\ work = [b \in Broker |-> Idle]
    /\ polling = FALSE
    /\ pump = {}
    /\ crashes = 0
    /\ cursor = 0
    /\ times = <<>>
    /\ since = [t \in Task |-> 0]

-----------------------------------------------------------------------------
Alive(t) == runtime[t] \notin {"none", "ended"}

(* The events table.                                                       *)

Log(t, before, after) ==
    /\ events' = Append(events, [task |-> t, before |-> before,
                                 after |-> after])
    /\ times' = Append(times, 0)

(* COMPLETION_CURSOR_STATES.                                               *)
CursorState == TerminalState \cup {"recovery_required"}

(* events_since() with the parent's filters.                               *)
Completion(i) == events[i].task \in Watched /\ events[i].after \in CursorState
Unread == {i \in cursor + 1 .. Len(events) : Completion(i)}

(* completion_events_page(): the page holds the unread completions up to   *)
(* n, at most Limit of them, and is cut short by nothing but the limit.    *)
PageEndsAt(n) ==
    IF Unread = {} THEN n = cursor
    ELSE /\ n \in Unread
         /\ LET size == Cardinality({i \in Unread : i <= n}) IN
                \/ size = Limit
                \/ size < Limit /\ \A i \in Unread : i <= n

-----------------------------------------------------------------------------
(* The operations of a broker, by the goals they set out with.             *)

Free(b) == work[b] = Idle /\ (b = Server => ~polling)
Bounded == Len(events) < MaxEvents

(* The record an operation works with is the one it read when it began.    *)
BeginSeeing(b, t, seen, goals) ==
    work' = [work EXCEPT ![b] = [task |-> t, goals |-> goals,
                                 seen |-> seen, checked |-> FALSE]]
Begin(b, t, goals) == BeginSeeing(b, t, state[t], goals)

(* start() as far as it returns: a preflight check or the workspace        *)
(* refuses, or the runtime is started.                                     *)
StartGoals(t) ==
    {<<"rejected">>, <<"preparing", "failed">>,
     IF t \in Mock THEN <<"preparing", "running">>
                   ELSE <<"preparing", "spawn", "running">>}

(* create(): the row and its first event; delegate goes on with start()    *)
(* and, unless that raises, returns the cursor.                            *)
Create(b, t) ==
    /\ Free(b)
    /\ state[t] = "absent"
    /\ state' = [state EXCEPT ![t] = "created"]
    /\ Log(t, "absent", "created")
    /\ \E goals \in {<<"queued">>, <<"queued", "preparing">>}
                    \cup {<<"queued">> \o g \o <<"cursor">> :
                              g \in StartGoals(t)} :
           BeginSeeing(b, t, "created", goals)
    /\ UNCHANGED <<runtime, held, polling, pump, crashes, cursor, since>>

Start(b, t) ==
    /\ Free(b)
    /\ state[t] = "queued"
    /\ \E goals \in StartGoals(t) \cup {<<"preparing">>} : Begin(b, t, goals)
    /\ UNCHANGED <<state, events, runtime, held, polling, pump, crashes,
                   parent>>

CollectGoals == {<<"collecting", s>> : s \in SuccessState \cup {"failed"}}

(* collect() of a finished runtime this broker holds the handle of.        *)
TakeFinished(b, t) ==
    /\ state[t] \notin TerminalState \cup {"absent"}
    /\ t \in held[b] /\ runtime[t] = "ended"
    /\ held' = [held EXCEPT ![b] = @ \ {t}]
    /\ \E goals \in CollectGoals : Begin(b, t, goals)

Collect(b, t) ==
    /\ Free(b)
    /\ TakeFinished(b, t)
    /\ UNCHANGED <<state, events, runtime, polling, pump, crashes, parent>>

(* complete() and, once a broker has adopted it, collect() of a durable    *)
(* launch (which broker may adopt it is left open here).                   *)
CollectUnheld(b, t) ==
    /\ Free(b)
    /\ state[t] = "running"
    /\ t \in Mock \/ (t \notin Direct /\ t \notin held[b]
                        /\ runtime[t] = "ended")
    /\ \E goals \in CollectGoals : Begin(b, t, goals)
    /\ UNCHANGED <<state, events, runtime, held, polling, pump, crashes,
                   parent>>

(* reconcile() of a task this broker has no handle of.                     *)
ReconcileGoals(t) ==
    IF t \in Direct THEN {<<"failed">>}
    ELSE (IF Alive(t) THEN {}
          ELSE {<<IF state[t] = "cancelling" THEN "cancelled" ELSE "failed">>,
                <<"uncollected">>})
         \cup {IF state[t] = "recovery_required" THEN <<"audit">>
               ELSE <<"recovery_required">>}
         \cup {IF state[t] \in {"recovery_required", "preparing"}
               THEN <<"running">> ELSE <<"audit">>}

Reconcile(b, t) ==
    /\ Free(b) /\ Bounded
    /\ t \notin held[b] \cup Mock
    /\ state[t] \in {"preparing", "running", "collecting", "cancelling",
                     "recovery_required"}
    /\ \E goals \in ReconcileGoals(t) : Begin(b, t, goals)
    /\ UNCHANGED <<state, events, runtime, held, polling, pump, crashes,
                   parent>>

(* collect() of a mock task: a protocol error, recorded as a failure.      *)
CollectMock(b, t) ==
    /\ Free(b)
    /\ t \in Mock /\ state[t] \notin TerminalState \cup {"absent"}
    /\ Begin(b, t, <<"failed">>)
    /\ UNCHANGED <<state, events, runtime, held, polling, pump, crashes,
                   parent>>

(* timeout() and cancel(): what they do is decided on the state and the    *)
(* handles they find when they begin.  A runtime they can reach is stopped *)
(* first; when its end is not confirmed they record that instead.          *)
Stoppable(b, t) == runtime[t] # "none" /\ (t \in held[b] \/ t \notin Direct)
Stopped(b, t) == IF Stoppable(b, t) THEN <<"stop">> ELSE <<>>

(* timeout() pops the handle at once.                                      *)
Timeout(b, t) ==
    /\ Free(b) /\ Bounded
    /\ state[t] \notin TerminalState \cup {"absent"}
    /\ \/ Begin(b, t, Stopped(b, t) \o <<"timed_out">>)
       \/ Stoppable(b, t) /\ Begin(b, t, <<"recovery_required">>)
    /\ held' = [held EXCEPT ![b] = @ \ {t}]
    /\ UNCHANGED <<state, events, runtime, polling, pump, crashes, parent>>

CancelGoals(b, t) ==
    LET first == IF state[t] = "cancelling" /\ t \notin held[b]
                 THEN <<>> ELSE <<"cancelling">> IN
    IF state[t] = "queued" THEN {<<"cancelled">>}
    ELSE {first \o Stopped(b, t) \o <<"cancelled">>}
         \cup {Append(first, s) : s \in IF Stoppable(b, t)
                                       THEN {"failed", "recovery_required"}
                                       ELSE {}}

Cancel(b, t) ==
    /\ Free(b) /\ Bounded
    /\ state[t] \notin TerminalState \cup {"absent"}
    /\ \E goals \in CancelGoals(b, t) : Begin(b, t, goals)
    /\ UNCHANGED <<state, events, runtime, held, polling, pump, crashes,
                   parent>>

(* verify(): runs its commands and records an event in the state it read.  *)
Verify(b, t) ==
    /\ Free(b) /\ Bounded
    /\ state[t] \notin {"recovery_required", "absent"}
    /\ Begin(b, t, <<"audit">>)
    /\ UNCHANGED <<state, events, runtime, held, polling, pump, crashes,
                   parent>>

-----------------------------------------------------------------------------
(* The steps of an operation.                                              *)

Doing(b, goal) == work[b].goals # <<>> /\ Head(work[b].goals) = goal

DoneSeeing(b, seen) ==
    LET rest == Tail(work[b].goals) IN
    work' = [work EXCEPT ![b] =
               IF rest = <<>> THEN Idle
               ELSE [task |-> @.task, goals |-> rest, seen |-> seen,
                     checked |-> FALSE]]
Done(b) == DoneSeeing(b, work[b].seen)

(* Fault: the target is not checked against the table.                     *)
CheckNothing(b) ==
    /\ \E goal \in TaskState : Doing(b, goal) /\ ~work[b].checked
    /\ work' = [work EXCEPT ![b].seen = state[work[b].task],
                           ![b].checked = TRUE]
    /\ UNCHANGED <<state, events, runtime, held, polling, pump, crashes,
                   parent>>

(* transition(): the state is read and the target checked ...              *)
Check(b) ==
    LET w == work[b] IN
    /\ \E goal \in TaskState :
        /\ Doing(b, goal) /\ ~w.checked
        /\ work' = [work EXCEPT ![b] =
                      IF CanGo(state[w.task], goal)
                      THEN [w EXCEPT !.seen = state[w.task], !.checked = TRUE]
                      ELSE Idle]
    /\ UNCHANGED <<state, events, runtime, held, polling, pump, crashes,
                   parent>>

(* Fault: the update asks for the state that was read, the event does not. *)
RecordCompares(b) ==
    LET w == work[b] IN
    /\ \E goal \in TaskState :
        /\ Doing(b, goal) /\ w.checked
        /\ state' = [state EXCEPT ![w.task] = IF @ = w.seen THEN goal ELSE @]
        /\ held' = [held EXCEPT ![b] = IF goal = "cancelling"
                                       THEN @ \ {w.task} ELSE @]
        /\ Log(w.task, w.seen, goal)
        /\ DoneSeeing(b, goal)
    /\ UNCHANGED <<runtime, polling, pump, crashes, cursor, since>>

(* ... and then updated, with its event, in one transaction that does not  *)
(* look at the state again.  cancel() pops the handle next.                *)
Record(b) ==
    LET w == work[b] IN
    /\ \E goal \in TaskState :
        /\ Doing(b, goal) /\ w.checked
        /\ state' = [state EXCEPT ![w.task] = goal]
        /\ held' = [held EXCEPT ![b] = IF goal = "cancelling"
                                       THEN @ \ {w.task} ELSE @]
        /\ Log(w.task, w.seen, goal)
        /\ DoneSeeing(b, goal)
    /\ UNCHANGED <<runtime, polling, pump, crashes, cursor, since>>

Audit(b) ==
    /\ Doing(b, "audit")
    /\ Log(work[b].task, work[b].seen, work[b].seen)
    /\ Done(b)
    /\ UNCHANGED <<state, runtime, held, polling, pump, crashes, cursor,
                   since>>

Spawn(b) ==
    /\ Doing(b, "spawn")
    /\ runtime' = [runtime EXCEPT ![work[b].task] =
                     IF work[b].task \in Direct THEN b ELSE "process"]
    /\ held' = [held EXCEPT ![b] = @ \cup {work[b].task}]
    /\ Done(b)
    /\ UNCHANGED <<state, events, polling, pump, crashes, parent>>

StopConfirmed(b) ==
    /\ Doing(b, "stop")
    /\ runtime' = [runtime EXCEPT ![work[b].task] = "ended"]
    /\ Done(b)
    /\ UNCHANGED <<state, events, held, polling, pump, crashes, parent>>

ReturnCursor(b) ==
    /\ Doing(b, "cursor")
    /\ since' = [since EXCEPT ![work[b].task] = Len(events)]
    /\ Done(b)
    /\ UNCHANGED <<state, events, runtime, held, polling, pump, crashes,
                   cursor, times>>

Step(b) ==
    \/ Check(b) \/ Record(b) \/ Audit(b) \/ Spawn(b) \/ StopConfirmed(b)
    \/ ReturnCursor(b)

-----------------------------------------------------------------------------
(* completion_events_since(): pump, then read one page.                    *)

(* Fault: the pump looks at subprocess handles only.                       *)
PollProcesses ==
    /\ Free(Server)
    /\ polling' = TRUE
    /\ pump' = held[Server] \ Direct
    /\ UNCHANGED <<state, events, runtime, held, work, crashes, parent>>

Poll ==
    /\ Free(Server)
    /\ polling' = TRUE
    /\ pump' = held[Server]
    /\ UNCHANGED <<state, events, runtime, held, work, crashes, parent>>

PumpCollect(t) ==
    /\ polling /\ work[Server] = Idle /\ t \in pump
    /\ TakeFinished(Server, t)
    /\ pump' = pump \ {t}
    /\ UNCHANGED <<state, events, runtime, polling, crashes, parent>>

(* Still running, or collect() returns an already terminal record.         *)
PumpSkip(t) ==
    /\ polling /\ work[Server] = Idle /\ t \in pump
    /\ Alive(t) \/ state[t] \in TerminalState
    /\ pump' = pump \ {t}
    /\ UNCHANGED <<state, events, runtime, held, work, polling, crashes,
                   parent>>

(* Fault: the cursor moves on to the high-water mark.                      *)
NextCursorMark(n) == Len(events)
(* Fault: an empty page answers with the "no event" sentinel.              *)
NextCursorNone(n) == IF Unread = {} THEN -1 ELSE n
(* next_cursor: the last event of the page, not the high-water mark.       *)
NextCursor(n) == n

ReadPage ==
    /\ polling /\ work[Server] = Idle /\ pump = {}
    /\ polling' = FALSE
    /\ \E n \in cursor .. Len(events) :
        /\ PageEndsAt(n)
        /\ cursor' = NextCursor(n)
        /\ times' = [i \in 1..Len(events) |->
                       IF i \in Unread /\ i <= n THEN times[i] + 1
                       ELSE times[i]]
    /\ UNCHANGED <<state, events, runtime, held, work, pump, crashes, since>>

-----------------------------------------------------------------------------

RuntimeEnds(t) ==
    /\ Alive(t)
    /\ runtime' = [runtime EXCEPT ![t] = "ended"]
    /\ UNCHANGED <<state, events, held, work, polling, pump, crashes, parent>>

(* A broker goes away, with its handles and its request threads, and       *)
(* another takes its place; an interrupted poll has told the parent        *)
(* nothing.                                                                *)
Crash(b) ==
    /\ crashes < MaxCrashes
    /\ crashes' = crashes + 1
    /\ work' = [work EXCEPT ![b] = Idle]
    /\ held' = [held EXCEPT ![b] = {}]
    /\ runtime' = [t \in Task |->
                     IF runtime[t] = b THEN "ended" ELSE runtime[t]]
    /\ IF b = Server THEN polling' = FALSE /\ pump' = {}
                     ELSE UNCHANGED <<polling, pump>>
    /\ UNCHANGED <<state, events, parent>>

Client(b, t) ==
    \/ Create(b, t) \/ Start(b, t) \/ Collect(b, t) \/ CollectUnheld(b, t)
    \/ CollectMock(b, t) \/ Reconcile(b, t) \/ Timeout(b, t)
    \/ Cancel(b, t) \/ Verify(b, t)

Next ==
    \/ \E b \in Broker, t \in Task : Client(b, t)
    \/ \E b \in Broker : Step(b) \/ Crash(b)
    \/ Poll \/ ReadPage
    \/ \E t \in Task : PumpCollect(t) \/ PumpSkip(t) \/ RuntimeEnds(t)

Spec == Init /\ [][Next]_vars

-----------------------------------------------------------------------------

(* Whatever the brokers do, and whenever the parent polls, it is delivered *)
(* every completion of the tasks it watches, up to its cursor, exactly     *)
(* once, and nothing else.                                                 *)
DeliveredExactly ==
    /\ cursor <= Len(events) /\ Len(times) = Len(events)
    /\ \A i \in 1..Len(events) :
           times[i] = IF i <= cursor /\ Completion(i) THEN 1 ELSE 0

Transition(i) == events[i].before # events[i].after

(* The log tells the state of every task: it is where its last transition  *)
(* led to, even when two brokers raced for it.                             *)
LogTellsState ==
    \A t \in Task : \A i \in 1..Len(events) :
        /\ events[i].task = t /\ Transition(i)
        /\ \A j \in i + 1 .. Len(events) :
               ~(events[j].task = t /\ Transition(j))
        => state[t] = events[i].after

(* With one broker on the home the history of a task is a path of the      *)
(* transition table: each event starts where the one before it ended.      *)
LegalHistory ==
    \A i \in 1..Len(events) :
        /\ Transition(i) =>
               \/ events[i].before = "absent" /\ events[i].after = "created"
               \/ CanGo(events[i].before, events[i].after)
        /\ events[i].before # "absent" =>
               \E j \in 1..i - 1 :
                   /\ events[j].task = events[i].task
                   /\ events[j].after = events[i].before
                   /\ \A k \in j + 1 .. i - 1 :
                          events[k].task # events[i].task

(* What LogTellsState and LegalHistory rest on: a checked transition is a  *)
(* legal one from the state that was seen; and with one broker what an     *)
(* operation has seen is what is, and the last event of a task tells it.   *)
CheckedIsLegal ==
    \A b \in Broker : work[b].checked =>
        CanGo(work[b].seen, Head(work[b].goals))

SeenIsState ==
    \A b \in Broker :
        work[b] # Idle => work[b].seen = state[work[b].task]

LastEventTells ==
    \A t \in Task : state[t] # "absent" =>
        \E j \in 1..Len(events) :
            /\ events[j].task = t /\ events[j].after = state[t]
            /\ \A k \in j + 1 .. Len(events) : events[k].task # t

Observed(t) == \E i \in 1..cursor : events[i].task = t /\ Completion(i)

(* Unless the broker is lost first, a runtime the server has started and   *)
(* that has ended is reported to a parent that keeps polling: it never has *)
(* to collect, wait or guess.                                              *)
FinishedIsObserved ==
    \A t \in Watched :
        (t \in held[Server] /\ runtime[t] = "ended" /\ crashes = MaxCrashes)
            ~> Observed(t)

Fairness ==
    /\ \A b \in Broker : WF_vars(Step(b))
    /\ SF_vars(Poll) /\ WF_vars(ReadPage)
    /\ \A t \in Task : WF_vars(PumpCollect(t)) /\ WF_vars(PumpSkip(t))

FairSpec == Spec /\ Fairness

-----------------------------------------------------------------------------
(* Statements of the documentation that the code does not keep.            *)

(* mcp.md and the delegate tool's description: polling from the returned   *)
(* completion_cursor observes the task finish.                             *)
CursorCoversOutcome ==
    \A t \in Task :
        since[t] > 0 /\ state[t] \in TerminalState =>
            \E i \in since[t] + 1 .. Len(events) :
                events[i].task = t /\ events[i].after \in CursorState

(* cancel()'s docstring: it observes, never assumes, whether the work      *)
(* stopped: a cancelled task other than a direct request has no living     *)
(* runtime.                                                                *)
CancelledIsStopped ==
    \A t \in Task \ Direct : state[t] = "cancelled" => ~Alive(t)

=============================================================================
