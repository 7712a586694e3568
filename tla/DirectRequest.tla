---------------------------- MODULE DirectRequest ----------------------------
(***************************************************************************)
(* One request of the direct API runtime: the thread that sends it, sends  *)
(* it again while the connection fails, and abandons it when it is told to *)
(* or its deadline passes; the operations of the broker that holds it; and *)
(* a broker on the same home that does not.  BrokerLifecycle has the       *)
(* request as a runtime that ends in one step.                             *)
(***************************************************************************)
EXTENDS TaskStates, Naturals

VARIABLES
    alone,    \* no other broker runs on this home while this one is up
    thread,   \* the request thread: "top" of its loop, "sending", "answered",
              \* "written" (response.json), "ended", "lost"
    event,    \* cancel_event
    late,     \* the deadline has passed
    answer,   \* what the provider answered, or "cancelled" (status 499)
    result,   \* handle.result
    resent,   \* how often it was sent after cancel_event was set, 2 for more
    state,    \* tasks.state
    held,     \* the broker has the handle
    up,       \* the broker is running
    op        \* its operation: [at, to], to being the state it wants

request == <<thread, event, late, answer, result, resent>>
broker  == <<state, held, up, op>>
vars    == <<alone, request, broker>>

Answer == {"summary", "malformed", "refused", "cancelled"}
Result == {"success", "failure", "cancelled"}
Idle   == [at |-> "idle", to |-> "none"]

TypeOK ==
    /\ alone \in BOOLEAN
    /\ thread \in {"top", "sending", "answered", "written", "ended", "lost"}
    /\ event \in BOOLEAN /\ late \in BOOLEAN
    /\ answer \in Answer \cup {"none"}
    /\ result \in Result \cup {"none"}
    /\ resent \in 0..2
    /\ state \in TaskState
    /\ held \in BOOLEAN /\ up \in BOOLEAN
    /\ op \in [at : {"join", "abort", "grace", "record"}, to : TaskState]
              \cup {Idle, [at |-> "join", to |-> "none"]}

(* start() has returned and the launch is recorded.                        *)
Init ==
    /\ alone \in BOOLEAN
    /\ thread = "top" /\ event = FALSE /\ late = FALSE
    /\ answer = "none" /\ result = "none" /\ resent = 0
    /\ state = "running" /\ held = TRUE /\ up = TRUE /\ op = Idle

-----------------------------------------------------------------------------
(* The request thread: _post_chat_completions and _worker.                 *)

Ends(r) == thread' = "ended" /\ result' = r
Answers(a) == thread' = "answered" /\ answer' = a

(* The head of the loop, and what follows it.                              *)
Top ==
    /\ thread = "top"
    /\ \/ event /\ Answers("cancelled") /\ UNCHANGED result
       \/ ~event /\ late /\ Ends("failure") /\ UNCHANGED answer
       \/ ~event /\ ~late /\ thread' = "sending"
          /\ UNCHANGED <<answer, result>>
    /\ UNCHANGED <<alone, event, late, resent, broker>>

(* A request on the wire is answered with some status, cannot be delivered *)
(* (to be tried again), fails for good, or takes longer than it may.  The  *)
(* timeout is that of each socket operation: an attempt ends only if the   *)
(* provider does not trickle its answer for ever (response.read()).        *)
Answered ==
    /\ \E a \in Answer \ {"cancelled"} : Answers(a)
    /\ UNCHANGED <<late, result>>

Undelivered ==
    /\ IF event THEN Answers("cancelled")
                ELSE thread' = "top" /\ UNCHANGED answer
    /\ UNCHANGED <<late, result>>

FailsForGood == Ends("failure") /\ UNCHANGED <<late, answer>>

TakesTooLong ==
    /\ late' = TRUE
    /\ IF event THEN Answers("cancelled")
                ELSE thread' = "top" /\ UNCHANGED answer
    /\ UNCHANGED result

Resent == IF event /\ resent < 2 THEN resent + 1 ELSE resent

Send ==
    /\ thread = "sending"
    /\ resent' = Resent
    /\ Answered \/ Undelivered \/ FailsForGood \/ TakesTooLong
    /\ UNCHANGED <<alone, event, broker>>

DeadlinePasses ==
    /\ ~late
    /\ late' = TRUE
    /\ UNCHANGED <<alone, thread, event, answer, result, resent, broker>>

(* response.json; a full disk is a failure like any other.                 *)
WriteResponse ==
    /\ thread = "answered"
    /\ \/ thread' = "written" /\ UNCHANGED result
       \/ Ends("failure")
    /\ UNCHANGED <<alone, event, late, answer, resent, broker>>

Conclude ==
    /\ thread = "written"
    /\ Ends(IF event THEN "cancelled"
            ELSE IF answer = "summary" THEN "success" ELSE "failure")
    /\ UNCHANGED <<alone, event, late, answer, resent, broker>>

-----------------------------------------------------------------------------
(* The broker that holds the request.                                      *)

Ready == up /\ op = Idle
At(point) == up /\ op.at = point
Records(to) ==
    /\ state' = IF CanGo(state, to) THEN to ELSE state
    /\ op' = Idle

Collect ==
    /\ Ready /\ held /\ state \notin TerminalState
    /\ held' = FALSE
    /\ IF CanGo(state, "collecting")
       THEN state' = "collecting" /\ op' = [at |-> "join", to |-> "none"]
       ELSE UNCHANGED <<state, op>>
    /\ UNCHANGED <<alone, request, up>>

(* collect() joins the thread; the gates may take a success back.          *)
Join ==
    /\ At("join") /\ thread = "ended"
    /\ \E to \in IF result = "success" THEN SuccessState \cup {"failed"}
                                       ELSE {"failed"} :
          op' = [at |-> "record", to |-> to]
    /\ UNCHANGED <<alone, request, state, held, up>>

Record ==
    /\ At("record")
    /\ Records(op.to)
    /\ UNCHANGED <<alone, request, held, up>>

Cancel ==
    /\ Ready /\ held /\ state \notin TerminalState
    /\ IF CanGo(state, "cancelling")
       THEN /\ state' = "cancelling" /\ held' = FALSE
            /\ op' = [at |-> "abort", to |-> "cancelled"]
       ELSE UNCHANGED <<state, held, op>>
    /\ UNCHANGED <<alone, request, up>>

Timeout ==
    /\ Ready /\ held /\ state \notin TerminalState
    /\ held' = FALSE
    /\ op' = [at |-> "abort", to |-> "timed_out"]
    /\ UNCHANGED <<alone, request, state, up>>

Abort ==
    /\ At("abort")
    /\ event' = TRUE
    /\ op' = [op EXCEPT !.at = "grace"]
    /\ UNCHANGED <<alone, thread, late, answer, result, resent, state,
                   held, up>>

(* The join of runtime.cancel() and what it makes of a living thread.      *)
Grace ==
    /\ At("grace")
    /\ op' = [at |-> "record",
              to |-> IF thread = "ended" THEN op.to
                     ELSE IF op.to = "cancelled" THEN "failed"
                     ELSE "recovery_required"]
    /\ UNCHANGED <<alone, request, state, held, up>>

-----------------------------------------------------------------------------
(* A broker without the handle.                                            *)

Reconcilable ==
    state \in {"preparing", "running", "collecting", "cancelling",
               "recovery_required"}

(* Fault: a broker does not look whether it holds the request itself.      *)
ReconcileUnasked ==
    /\ Reconcilable /\ op = Idle
    /\ state' = "failed"
    /\ UNCHANGED <<alone, request, held, up, op>>

(* reconcile() fails a request it has no handle of: after a restart, in    *)
(* another broker, or when an operation has given the handle up.           *)
Reconcile ==
    /\ Reconcilable
    /\ ~up \/ ~alone \/ (op = Idle /\ ~held)
    /\ state' = "failed"
    /\ UNCHANGED <<alone, request, held, up, op>>

(* The thread is a daemon of its process.                                  *)
Crash ==
    /\ up
    /\ up' = FALSE /\ held' = FALSE /\ op' = Idle
    /\ thread' = IF thread = "ended" THEN thread ELSE "lost"
    /\ UNCHANGED <<alone, event, late, answer, result, resent, state>>

-----------------------------------------------------------------------------
Works == Top \/ Send \/ WriteResponse \/ Conclude

Operates ==
    Join \/ Record \/ Abort \/ Grace

Next ==
    \/ Works \/ DeadlinePasses
    \/ Collect \/ Cancel \/ Timeout \/ Operates
    \/ Reconcile \/ Crash

Spec == Init /\ [][Next]_vars

(* Threads run and time passes; no socket operation outlives its timeout,  *)
(* and (assumed of the provider, not enforced by the code) no answer is    *)
(* spread over ever more of them.                                          *)
FairSpec ==
    Spec /\ WF_vars(Works) /\ WF_vars(DeadlinePasses) /\ WF_vars(Operates)

-----------------------------------------------------------------------------
(* Properties.                                                             *)

Active == thread \in {"top", "sending", "answered", "written"}

(* A request recorded as cancelled or timed out is not on its way any      *)
(* more, though its abort is cooperative and its retries are its own.      *)
StoppedIsOver ==
    state \in {"cancelled", "timed_out"} => ~Active

(* A success was answered with a summary; what an aborted or a failed     *)
(* request leaves behind is not taken for one.                             *)
SuccessIsAnswered ==
    state \in SuccessState => result = "success" /\ answer = "summary"

(* A request that was told to stop is sent at most once more: by the       *)
(* attempt that had already looked at the event.                           *)
StopEndsRetries == resent <= 1

(* Nobody settles a task under the handle of a living broker, if it is the *)
(* only one: what it holds it can still collect or stop.                   *)
HeldIsUnsettled == alone /\ held => state \notin TerminalState

(* A request is settled as it ended: stopped when it is over, after one    *)
(* more attempt at most, successful when it was answered, and by whoever   *)
(* holds it.                                                               *)
RequestIsSettled ==
    StoppedIsOver /\ SuccessIsAnswered /\ StopEndsRetries /\ HeldIsUnsettled

(* A connection that keeps failing is retried until the deadline and no    *)
(* longer: every request ends, so that collect(), which joins the thread   *)
(* without a timeout, returns.                                             *)
RequestEnds == <>~Active /\ (op.at = "join" ~> op.at # "join")
=============================================================================
