---------------------------- MODULE BoundedDebate ----------------------------
(***************************************************************************)
(* run_bounded_debate_workflow: a host that dispatches the participants of *)
(* a phase, polls completion events until it has seen all of them, and     *)
(* collects them before the next phase.  Its tasks belong to the broker    *)
(* and may be settled, or set aside for recovery, by others.               *)
(***************************************************************************)
EXTENDS TaskStates, Integers, Sequences, FiniteSets, SequencesExt

CONSTANTS
    Id,          \* participant ids
    None,
    Plans,       \* the plans hosts hand in
    PageLimit,   \* events of one page of completion_events_since
    MaxEvents    \* bound: completion events others may add

Path == {"disabled", "inside", "absolute", "dotdot", "link_out"}
Participant == [id : Id, responds : Id \cup {None}]
Plan == [openings : Seq(Participant), rebuttals : Seq(Participant),
         synthesis : Participant, path : Path, dry : BOOLEAN]

ASSUME PlansAssumption ==
    /\ Plans \subseteq Plan
    /\ PageLimit \in Nat \ {0} /\ MaxEvents \in Nat

VARIABLES
    plan,
    at,         \* where the workflow is, a phase number with it: [point, phase]
    sent,       \* the participants of the phase already dispatched
    task,       \* tasks.state of every participant's task, or "absent"
    process,    \* its runtime: "none", "alive", "done" or "broken"
    log,        \* completion events of the tree, oldest first
    cursor,     \* how many of them the workflow has read
    seen,       \* the ids wait_for_task_completions has seen
    late,       \* the poll deadline has passed
    collected,  \* the state in the payload collected, or "none"
    text,       \* what is true of the synthesis: contract, criteria
    answer,     \* "none", "completed", "failed", "raised"
    written     \* what was materialized: "none", "inside", "outside"

workflow == <<plan, at, sent, cursor, seen, late, collected, text, answer,
              written>>
broker   == <<task, process, log>>
vars     == <<workflow, broker>>

Outcome == TerminalState \cup {"recovery_required"}
Points  == {"parse", "anchor", "dispatch", "wait", "collect", "validate",
            "materialize", "done"}

Phases == <<plan.openings, plan.rebuttals, <<plan.synthesis>>>>
Here == Phases[at.phase]
IdsOf(participants) == {participants[k].id : k \in DOMAIN participants}
Expected == IdsOf(Here)

TypeOK ==
    /\ plan \in Plans
    /\ at \in [point : Points, phase : 1..3]
    /\ sent \in 0..Len(Here)
    /\ task \in [Id -> TaskState \cup {"absent"}]
    /\ process \in [Id -> {"none", "alive", "done", "broken"}]
    /\ log \in Seq(Id \X Outcome)
    /\ cursor \in 0..Len(log)
    /\ seen \subseteq Id /\ late \in BOOLEAN
    /\ collected \in [Id -> TaskState \cup {"none"}]
    /\ text \in [contract : BOOLEAN, criteria : BOOLEAN]
    /\ answer \in {"none", "completed", "failed", "raised"}
    /\ written \in {"none", "inside", "outside"}

Init ==
    /\ plan \in Plans
    /\ at = [point |-> "parse", phase |-> 1] /\ sent = 0
    /\ task = [i \in Id |-> "absent"] /\ process = [i \in Id |-> "none"]
    /\ log = <<>> /\ cursor = 0 /\ seen = {} /\ late = FALSE
    /\ collected = [i \in Id |-> "none"]
    /\ text = [contract |-> FALSE, criteria |-> FALSE]
    /\ answer = "none" /\ written = "none"

At(point) == at.point = point
Goto(point) == at' = [at EXCEPT !.point = point]
Returns(what) == Goto("done") /\ answer' = what

-----------------------------------------------------------------------------
(* parse_bounded_debate_plan.                                              *)
ValidPlan ==
    LET all == plan.openings \o plan.rebuttals \o <<plan.synthesis>> IN
    /\ plan.openings # <<>>
    /\ Cardinality(IdsOf(all)) = Len(all)
    /\ \A k \in DOMAIN plan.rebuttals :
          plan.rebuttals[k].responds \in IdsOf(plan.openings) \cup {None}
    /\ plan.path \notin {"absolute", "dotdot"}

Parse ==
    /\ At("parse")
    /\ IF ValidPlan THEN Goto("anchor") /\ UNCHANGED answer
                    ELSE Returns("raised")
    /\ UNCHANGED <<plan, sent, cursor, seen, late, collected, text, written,
                   broker>>

(* The mock task the others hang under: created, started and completed at  *)
(* once, or refused.  Its own event precedes the ones modelled here.       *)
Anchor ==
    /\ At("anchor")
    /\ \/ Goto("dispatch") /\ UNCHANGED answer
       \/ Returns("raised")
    /\ UNCHANGED <<plan, sent, cursor, seen, late, collected, text, written,
                   broker>>

-----------------------------------------------------------------------------
(* run_phase.                                                              *)

Settles(i, to) ==
    /\ task' = [task EXCEPT ![i] = to]
    /\ log' = Append(log, <<i, to>>)

(* create() may refuse the participant, start() may reject it or fail to   *)
(* launch; only the last does not raise.                                   *)
Dispatch ==
    /\ At("dispatch") /\ sent < Len(Here)
    /\ LET i == Here[sent + 1].id IN
       \/ /\ Returns("raised")
          /\ UNCHANGED <<sent, broker>>
       \/ /\ Returns("raised")
          /\ Settles(i, "rejected")
          /\ UNCHANGED <<sent, process>>
       \/ /\ Settles(i, "failed")
          /\ sent' = sent + 1
          /\ UNCHANGED <<at, answer, process>>
       \/ /\ task' = [task EXCEPT ![i] = "running"]
          /\ process' = [process EXCEPT ![i] = "alive"]
          /\ sent' = sent + 1
          /\ UNCHANGED <<at, answer, log>>
    /\ UNCHANGED <<plan, cursor, seen, late, collected, text, written>>

(* A phase without participants is skipped.                                *)
Dispatched ==
    /\ At("dispatch") /\ sent = Len(Here)
    /\ IF Here = <<>> THEN at' = [at EXCEPT !.phase = @ + 1]
                      ELSE Goto("wait")
    /\ seen' = {} /\ late' = FALSE /\ sent' = 0
    /\ UNCHANGED <<plan, cursor, collected, text, answer, written, broker>>

(* completion_events_since first collects the finished processes of this   *)
(* broker, those of subprocesses before the requests, each in the order of *)
(* its handles; a task set aside for recovery is not collected.            *)
Finished(i) == task[i] = "running" /\ process[i] \in {"done", "broken"}
Verdict(i) == IF process[i] = "done" THEN "succeeded" ELSE "failed"

Pumped == {i \in Expected : Finished(i)}

(* Fault: only the events of the page at hand count.                       *)
ReadForgetful(page) == {e[1] : e \in {page[k] : k \in DOMAIN page}}

Read(page) == seen \cup {page[k][1] : k \in DOMAIN page}

LogPumped(order) ==
    log \o [k \in DOMAIN order |-> <<order[k], Verdict(order[k])>>]

Least(a, b) == IF a < b THEN a ELSE b

(* Fault: every page is taken for a full one.                              *)
NextCursorFull(length) == cursor + PageLimit

NextCursor(length) == Least(cursor + PageLimit, length)

Poll ==
    /\ At("wait") /\ ~late
    /\ task' = [i \in Id |-> IF i \in Pumped THEN Verdict(i) ELSE task[i]]
    /\ \E order \in SetToSeqs(Pumped) : log' = LogPumped(order)
    /\ cursor' = NextCursor(Len(log'))
    /\ LET page == SubSeq(log', cursor + 1, Least(cursor + PageLimit, Len(log')))
       IN  seen' = Read(page) \cap Expected
    /\ IF seen' = Expected THEN Goto("collect") ELSE UNCHANGED at
    /\ UNCHANGED <<plan, sent, late, collected, text, answer, written, process>>

(* Fault: a phase of which nothing was observed is waited for.             *)
TimesOutLater ==
    /\ At("wait") /\ late /\ seen # {}
    /\ Returns("failed")
    /\ UNCHANGED <<plan, sent, cursor, seen, late, collected, text, written,
                   broker>>

TimesOut ==
    /\ At("wait") /\ late
    /\ Returns("failed")
    /\ UNCHANGED <<plan, sent, cursor, seen, late, collected, text, written,
                   broker>>

(* collect() returns an open task as it is while its process lives, and    *)
(* raises if it is set aside for recovery or its handle is gone.           *)
Collect ==
    /\ At("collect") /\ sent < Len(Here)
    /\ LET i == Here[sent + 1].id IN
       \/ /\ task[i] \in TerminalState \/ process[i] = "alive"
          /\ collected' = [collected EXCEPT ![i] = task[i]]
          /\ sent' = sent + 1
          /\ UNCHANGED <<at, answer, broker>>
       \/ /\ Finished(i)
          /\ Settles(i, Verdict(i))
          /\ collected' = [collected EXCEPT ![i] = Verdict(i)]
          /\ sent' = sent + 1
          /\ UNCHANGED <<at, answer, process>>
       \/ /\ task[i] \notin TerminalState /\ process[i] # "alive"
          /\ Returns("raised")
          /\ UNCHANGED <<collected, sent, broker>>
    /\ UNCHANGED <<plan, cursor, seen, late, text, written>>

(* Fault: only a failed task fails its phase.                              *)
PhaseFailedOnly == \E i \in Expected : collected[i] = "failed"

PhaseFailed == \E i \in Expected : collected[i] \notin SuccessState

EndPhase ==
    /\ At("collect") /\ sent = Len(Here)
    /\ IF PhaseFailed THEN Returns("failed")
       ELSE /\ at' = IF at.phase = 3 THEN [at EXCEPT !.point = "validate"]
                     ELSE [point |-> "dispatch", phase |-> at.phase + 1]
            /\ UNCHANGED answer
    /\ sent' = 0
    /\ UNCHANGED <<plan, cursor, seen, late, collected, text, written, broker>>

-----------------------------------------------------------------------------
(* validate_synthesis_output and apply_parent_materialization.             *)

Passes == text'.contract /\ text'.criteria

(* What the summary of the synthesis is like is the provider's affair.     *)
Validate ==
    /\ At("validate")
    /\ text' \in [contract : BOOLEAN, criteria : BOOLEAN]
    /\ \/ Passes /\ Goto("materialize") /\ UNCHANGED answer
       \/ ~Passes /\ Returns("failed")
    /\ UNCHANGED <<plan, sent, cursor, seen, late, collected, written, broker>>

(* Where the resolved path lies; a link may lead out of the workspace.     *)
Target == IF plan.path = "link_out" THEN "refused" ELSE "inside"

Materialize ==
    /\ At("materialize")
    /\ \/ plan.path = "disabled" /\ Returns("completed") /\ UNCHANGED written
       \/ /\ plan.path # "disabled" /\ Target # "refused" /\ plan.dry
          /\ Returns("completed") /\ UNCHANGED written
       \/ /\ plan.path # "disabled" /\ Target # "refused" /\ ~plan.dry
          /\ Returns("completed") /\ written' = Target
       \/ /\ plan.path # "disabled"
          /\ Target = "refused" \/ ~plan.dry       \* the write may fail
          /\ Returns("raised") /\ UNCHANGED written
    /\ UNCHANGED <<plan, sent, cursor, seen, late, collected, text, broker>>

-----------------------------------------------------------------------------
(* The runtimes of the tasks, the other hosts of the broker, the clock.    *)

RuntimeEnds(i) ==
    /\ process[i] = "alive"
    /\ \E how \in {"done", "broken"} : process' = [process EXCEPT ![i] = how]
    /\ UNCHANGED <<workflow, task, log>>

Others(i) ==
    /\ Len(log) < MaxEvents
    /\ \/ task[i] = "running"
          /\ \E to \in {"cancelled", "recovery_required"} : Settles(i, to)
       \/ task[i] = "recovery_required" /\ Settles(i, "failed")
    /\ process' = IF task'[i] \in TerminalState /\ process[i] = "alive"
                  THEN [process EXCEPT ![i] = "broken"] ELSE process
    /\ UNCHANGED workflow

Readopts(i) ==
    /\ task[i] = "recovery_required"
    /\ task' = [task EXCEPT ![i] = "running"]
    /\ UNCHANGED <<workflow, process, log>>

Deadline ==
    /\ At("wait") /\ ~late /\ late' = TRUE
    /\ UNCHANGED <<plan, at, sent, cursor, seen, collected, text, answer,
                   written, broker>>

Works ==
    \/ Parse \/ Anchor \/ Dispatch \/ Dispatched \/ Poll \/ TimesOut
    \/ Collect \/ EndPhase \/ Validate \/ Materialize

Next ==
    \/ Works
    \/ \E i \in Id : RuntimeEnds(i) \/ Others(i) \/ Readopts(i)
    \/ Deadline

Spec == Init /\ [][Next]_vars

(* The host runs, its clock too; nothing says that a task ends.            *)
FairSpec == Spec /\ WF_vars(Works) /\ WF_vars(Deadline)

-----------------------------------------------------------------------------
(* Properties.                                                             *)

(* No participant is dispatched while one of an earlier phase is open, or  *)
(* after one that did not succeed: run_phase collects what it has seen.    *)
PhasesAreOrdered ==
    \A k \in 1..3, i \in Id :
        i \in IdsOf(Phases[k]) /\ task[i] # "absent" =>
            \A l \in 1..(k - 1) :
                \A j \in IdsOf(Phases[l]) : task[j] \in SuccessState

(* A completed workflow is backed by the success of every participant's    *)
(* task, as the broker has it, and not by what an event once said.         *)
CompletedIsBacked ==
    answer = "completed" =>
        \A k \in 1..3 : \A i \in IdsOf(Phases[k]) :
            task[i] \in SuccessState /\ collected[i] = task[i]

(* What is written is the text of a synthesis that passed validation, lies *)
(* in the workspace, and was not asked for as a dry run.                   *)
MaterializedIsValid ==
    written # "none" =>
        /\ written = "inside" /\ ~plan.dry
        /\ text.contract /\ text.criteria
        /\ task[plan.synthesis.id] \in SuccessState

(* A debate goes on, completes and writes only upon successes it has       *)
(* collected.                                                              *)
DebateIsBacked == PhasesAreOrdered /\ CompletedIsBacked /\ MaterializedIsValid

(* The cursor never passes a completion the workflow waits for without     *)
(* having seen it, however the pages are cut and whoever settled the task. *)
CursorMissesNothing ==
    At("wait") =>
        \A k \in 1..cursor : log[k][1] \in Expected => log[k][1] \in seen

(* The workflow returns though its tasks may never end: the deadline of a  *)
(* phase does not depend on them.                                          *)
DebateReturns == <>(at.point = "done")
=============================================================================
