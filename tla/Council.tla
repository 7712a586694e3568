------------------------------ MODULE Council ------------------------------
(***************************************************************************)
(* execute_council: a plan of stages with dependencies is validated, its   *)
(* cost bounded, and its stages are run one after the other, wave by wave, *)
(* until the time budget is used up.  The tasks of the stages are the      *)
(* broker's.                                                               *)
(***************************************************************************)
EXTENDS TaskStates, Naturals, Sequences, FiniteSets, Functions

CONSTANTS
    StageId,    \* the ids of their stages, numbers in their order
    Plans,      \* the plans callers hand in
    MaxTicks    \* bound: the clock stops there

Kind  == {"mock", "direct", "subprocess", "unsupported"}
Stage == [id : StageId, role : {"plan", "critique"}, who : STRING, kind : Kind,
          needs : SUBSET StageId, round : Nat, cost : Nat]

(* A cost of 0 stands for no budget; the time is in seconds.               *)
Plan == [stages : Seq(Stage), rounds : Nat \ {0}, concurrency : Nat \ {0},
         time : Nat \ {0}, cost : Nat, selfCritique : BOOLEAN]

VARIABLES
    plan,      \* what the caller handed in
    point,     \* "validate", "cost", "wave", "batch", "run", "done"
    waves,     \* the waves still to come, each a sequence of ids
    wave,      \* what is left of the present one
    batch,     \* what is left of the present batch of it
    stage,     \* the stage whose task was started and is being collected
    clock,     \* seconds since the council began, up to MaxTicks
    task,      \* tasks.state of every stage's task, or "absent"
    process,   \* the runtime of the task: "none", "alive", "done", "broken"
    outcomes,  \* stage_outcomes: [id, state], state "error" for an error
    skipped,   \* skipped_stages
    answer     \* "none", "raised", "rejected", "completed", "with_skips"

council == <<plan, point, waves, wave, batch, stage, clock, outcomes, skipped,
             answer>>
broker  == <<task, process>>
vars    == <<council, broker>>

NoStage == 0
Ids   == {plan.stages[k].id : k \in DOMAIN plan.stages}
Of(i) == CHOOSE s \in {plan.stages[k] : k \in DOMAIN plan.stages} : s.id = i

TypeOK ==
    /\ plan \in Plans
    /\ point \in {"validate", "cost", "wave", "batch", "run", "done"}
    /\ waves \in Seq(Seq(Ids))
    /\ wave \in Seq(Ids)
    /\ batch \in Seq(Ids)
    /\ Len(batch) <= plan.concurrency
    /\ stage \in Ids \cup {NoStage}
    /\ clock \in 0..MaxTicks
    /\ task \in [StageId -> TaskState \cup {"absent"}]
    /\ process \in [StageId -> {"none", "alive", "done", "broken"}]
    /\ outcomes \in Seq([id : Ids, state : TaskState \cup {"error"}])
    /\ skipped \in Seq(Ids)
    /\ answer \in {"none", "raised", "rejected", "completed", "with_skips"}

Init ==
    /\ plan \in Plans
    /\ point = "validate" /\ waves = <<>> /\ wave = <<>> /\ batch = <<>>
    /\ stage = NoStage /\ clock = 0
    /\ task = [i \in StageId |-> "absent"]
    /\ process = [i \in StageId |-> "none"]
    /\ outcomes = <<>> /\ skipped = <<>> /\ answer = "none"

-----------------------------------------------------------------------------
(* parse_council_plan.                                                     *)

(* q follows depends_on from one stage to the next for n steps.            *)
Follows(q, n) == \A k \in 1..n : q[k] \in Of(q[k - 1]).needs

(* No stage is come back to while it is being visited.                     *)
Acyclic ==
    ~ \E n \in 1..Cardinality(Ids) :
          \E q \in [0..n -> Ids] : Follows(q, n) /\ q[0] = q[n]

SelfCritique ==
    \E i \in Ids : /\ Of(i).role = "critique"
                   /\ \E j \in Of(i).needs : Of(j).who = Of(i).who

ValidPlan ==
    /\ plan.stages # <<>>
    /\ Cardinality(Ids) = Len(plan.stages)
    /\ \A i \in Ids : Of(i).needs \subseteq Ids \ {i}
    /\ \A i \in Ids : Of(i).round <= plan.rounds
    /\ Acyclic
    /\ SelfCritique => plan.selfCritique

Returns(what) == point' = "done" /\ answer' = what

(* A candidate may also turn out not to be available.                      *)
Validate ==
    /\ point = "validate"
    /\ \/ ValidPlan /\ point' = "cost" /\ UNCHANGED answer
       \/ Returns("raised")
    /\ UNCHANGED <<plan, waves, wave, batch, stage, clock, outcomes, skipped,
                   broker>>

(* _resolve_cost_budget_enforcement: only providers of the direct API have *)
(* a bound, and every stage needs one; 0 stands for none.                  *)
Bound(s) == IF s.kind = "direct" THEN s.cost ELSE 0

Costs == [k \in DOMAIN plan.stages |-> Bound(plan.stages[k])]

Affordable ==
    /\ \A k \in DOMAIN Costs : Costs[k] # 0
    /\ SumFunction(Costs) <= plan.cost

(* _topological_waves: every wave needs only the ones before it; stages of *)
(* one wave are taken in the order of their ids.                           *)
InOrder(S) ==
    CHOOSE q \in [1..Cardinality(S) -> S] :
        \A j, k \in 1..Cardinality(S) : j < k => q[j] < q[k]

(* Fault: a stage is ready as soon as one it depends on is.                *)
ReadyOnAny(done) ==
    {i \in Ids \ done : Of(i).needs = {} \/ Of(i).needs \cap done # {}}

Ready(done) == {i \in Ids \ done : Of(i).needs \subseteq done}

Begun[n \in 0..Cardinality(Ids)] ==
    IF n = 0 THEN {} ELSE Begun[n - 1] \cup Ready(Begun[n - 1])

Depth ==
    CHOOSE n \in 0..Cardinality(Ids) :
        Begun[n] = Ids /\ \A m \in 0..(n - 1) : Begun[m] # Ids

Waves == [n \in 1..Depth |-> InOrder(Ready(Begun[n - 1]))]

(* A rejected council leaves its evidence and no task.                     *)
BoundCost ==
    /\ point = "cost"
    /\ \/ /\ plan.cost = 0 \/ Affordable
          /\ waves' = Waves
          /\ point' = "wave" /\ UNCHANGED answer
       \/ /\ plan.cost # 0 /\ ~Affordable
          /\ Returns("rejected") /\ UNCHANGED waves
    /\ UNCHANGED <<plan, wave, batch, stage, clock, outcomes, skipped, broker>>

-----------------------------------------------------------------------------
(* The loops of execute_council.                                           *)

Exhausted == skipped # <<>>

NextWave ==
    /\ point = "wave" /\ waves # <<>>
    /\ IF Exhausted
       THEN /\ skipped' = skipped \o Head(waves)
            /\ UNCHANGED <<point, wave>>
       ELSE /\ wave' = Head(waves)
            /\ point' = "batch"
            /\ UNCHANGED skipped
    /\ waves' = Tail(waves)
    /\ UNCHANGED <<plan, batch, stage, clock, outcomes, answer, broker>>

Least(a, b) == IF a < b THEN a ELSE b

Rest(size) == SubSeq(wave, size + 1, Len(wave))

NextBatch ==
    /\ point = "batch"
    /\ IF wave = <<>> THEN point' = "wave" /\ UNCHANGED <<wave, batch>>
       ELSE LET size == Least(plan.concurrency, Len(wave)) IN
            /\ batch' = SubSeq(wave, 1, size)
            /\ wave' = Rest(size)
            /\ point' = "run"
    /\ UNCHANGED <<plan, waves, stage, clock, outcomes, skipped, answer, broker>>

EndBatch ==
    /\ point = "run" /\ batch = <<>> /\ stage = NoStage
    /\ point' = "batch"
    /\ UNCHANGED <<plan, waves, wave, batch, stage, clock, outcomes, skipped,
                   answer, broker>>

Skip ==
    /\ point = "run" /\ stage = NoStage /\ batch # <<>>
    /\ clock >= plan.time
    /\ skipped' = Append(skipped, Head(batch))
    /\ batch' = Tail(batch)
    /\ UNCHANGED <<plan, point, waves, wave, stage, clock, outcomes, answer, broker>>

Records(i, state) == outcomes' = Append(outcomes, [id |-> i, state |-> state])

(* create() and start(); a stage whose create() or start() raises leaves   *)
(* an error behind, and so does one whose runtime is not supported.        *)
Start ==
    /\ point = "run" /\ stage = NoStage /\ batch # <<>>
    /\ clock < plan.time
    /\ LET i == Head(batch) IN
       \/ /\ Of(i).kind # "unsupported"
          /\ task' = [task EXCEPT ![i] = "running"]
          /\ process' = IF Of(i).kind = "mock" THEN process
                        ELSE [process EXCEPT ![i] = "alive"]
          /\ stage' = i
          /\ UNCHANGED <<batch, outcomes>>
       \/ /\ Of(i).kind # "unsupported"
          /\ \E to \in {"rejected", "failed"} :
                task' = [task EXCEPT ![i] = to]
          /\ Records(i, "error")
          /\ batch' = Tail(batch)
          /\ UNCHANGED <<stage, process>>
       \/ /\ Records(i, "error")
          /\ batch' = Tail(batch)
          /\ UNCHANGED <<stage, broker>>
    /\ UNCHANGED <<plan, point, waves, wave, clock, skipped, answer>>

(* What collect() makes of a task that has ended.                          *)
Verdict(i) ==
    IF Of(i).kind = "mock" \/ process[i] = "done" THEN "succeeded" ELSE "failed"

Ended(i) == Of(i).kind = "mock" \/ process[i] \in {"done", "broken"}

Evidence(i) == task'[i]

(* complete() of a mock task, collect() of any other: it gathers a task    *)
(* that has ended, waits for a direct request, and leaves a subprocess     *)
(* that outlives the grace period running.  Another broker may have        *)
(* settled the task, or set it aside, which raises.                        *)
Collect ==
    /\ point = "run" /\ stage # NoStage
    /\ \/ /\ task[stage] = "running" /\ Ended(stage)
          /\ task' = [task EXCEPT ![stage] = Verdict(stage)]
          /\ Records(stage, Evidence(stage))
       \/ /\ task[stage] = "running" /\ ~Ended(stage)
          /\ Of(stage).kind = "subprocess"
          /\ UNCHANGED task
          /\ Records(stage, Evidence(stage))
       \/ /\ task[stage] \in TerminalState
          /\ UNCHANGED task
          /\ Records(stage, IF Of(stage).kind = "mock" THEN "error"
                            ELSE Evidence(stage))
       \/ /\ task[stage] = "recovery_required"
          /\ UNCHANGED task
          /\ Records(stage, IF Of(stage).kind = "subprocess" /\ ~Ended(stage)
                            THEN Evidence(stage) ELSE "error")
    /\ stage' = NoStage
    /\ batch' = Tail(batch)
    /\ UNCHANGED <<plan, point, waves, wave, clock, skipped, answer, process>>

(* council_evidence.json.                                                  *)
Report ==
    /\ point = "wave" /\ waves = <<>>
    /\ Returns(IF skipped = <<>> THEN "completed" ELSE "with_skips")
    /\ UNCHANGED <<plan, waves, wave, batch, stage, clock, outcomes, skipped,
                   broker>>

-----------------------------------------------------------------------------
Tick ==
    /\ point \notin {"done", "validate", "cost"} /\ clock < MaxTicks
    /\ clock' = clock + 1
    /\ UNCHANGED <<plan, point, waves, wave, batch, stage, outcomes, skipped,
                   answer, broker>>

RuntimeEnds(i) ==
    /\ process[i] = "alive"
    /\ \E how \in {"done", "broken"} : process' = [process EXCEPT ![i] = how]
    /\ UNCHANGED <<council, task>>

DirectEnds == \E i \in Ids : Of(i).kind = "direct" /\ RuntimeEnds(i)

(* Other clients of the broker, and other brokers.                         *)
Others(i) ==
    /\ task[i] = "running"
    /\ \/ /\ task' = [task EXCEPT ![i] = "cancelled"]
          /\ process' = [process EXCEPT ![i] = IF @ = "alive" THEN "broken"
                                               ELSE @]
       \/ /\ task' = [task EXCEPT ![i] = "recovery_required"]
          /\ UNCHANGED process
    /\ UNCHANGED council

Works ==
    \/ Validate \/ BoundCost \/ NextWave \/ NextBatch \/ Skip \/ Start
    \/ Collect \/ EndBatch \/ Report

Next == Works \/ Tick \/ \E i \in Ids : RuntimeEnds(i) \/ Others(i)

Spec == Init /\ [][Next]_vars

(* The council runs; a direct request ends by its deadline, a process need *)
(* not end.                                                                *)
FairSpec == Spec /\ WF_vars(Works) /\ WF_vars(DirectEnds)

-----------------------------------------------------------------------------
(* Properties.                                                             *)

Handled == {outcomes[k].id : k \in DOMAIN outcomes}
           \cup {skipped[k] : k \in DOMAIN skipped}

(* The report accounts for every stage of the plan once: it was run, or    *)
(* skipped because the time was used up.                                   *)
EveryStageAccounted ==
    answer \in {"completed", "with_skips"} =>
        /\ Handled = Ids
        /\ Len(outcomes) + Len(skipped) = Cardinality(Ids)

(* Stages are taken up in the order of their dependencies, and none is     *)
(* started once another was skipped for want of time.                      *)
OrderIsRespected ==
    /\ stage # NoStage => Of(stage).needs \subseteq Handled
    /\ \A k \in DOMAIN outcomes :
          /\ Of(outcomes[k].id).needs
                \subseteq {outcomes[l].id : l \in 1..(k - 1)}
    /\ Exhausted => stage = NoStage

(* No task of a council exists unless its plan was sound: nobody judges    *)
(* their own work, and with a cost budget every cost is known and the sum  *)
(* is within it.                                                           *)
OnlySoundPlansRun ==
    (\E i \in Ids : task[i] # "absent") =>
        /\ ~plan.selfCritique =>
              \A i \in Ids : \A j \in Of(i).needs :
                  Of(i).role = "critique" => Of(i).who # Of(j).who
        /\ plan.cost # 0 =>
              /\ \A i \in Ids : Of(i).kind = "direct" /\ Of(i).cost # 0
              /\ SumFunction([k \in DOMAIN plan.stages |->
                                 plan.stages[k].cost]) <= plan.cost

(* Evidence of an ended task is what the broker has for good, and a        *)
(* success reported is one.                                                *)
EvidenceIsObserved ==
    \A k \in DOMAIN outcomes :
        outcomes[k].state \in TerminalState =>
            task[outcomes[k].id] = outcomes[k].state

(* A council is carried out as it was planned, and its report tells what   *)
(* became of it.                                                           *)
CouncilHolds ==
    /\ EveryStageAccounted /\ OrderIsRespected
    /\ OnlySoundPlansRun /\ EvidenceIsObserved

(* A council returns though the processes of its stages may run on.        *)
CouncilReturns == <>(point = "done")

(* docs/history/phases/phase-6d.md:98 "topological waves; batches respect  *)
(* max_concurrency".  (Violated: a subprocess that outlives the grace      *)
(* period of collect() runs on beside the stages that follow.)             *)
ConcurrencyRespected ==
    Cardinality({i \in Ids : task[i] = "running" /\ process[i] = "alive"})
        <= plan.concurrency
=============================================================================
