---------------------------- MODULE MCWorkflows ----------------------------
(* A bounded debate or a council: two workflows over the broker that share *)
(* nothing, checked in one run.                                            *)
EXTENDS BoundedDebate

CONSTANTS Councils, StageId, MaxTicks

VARIABLES kind, cplan, point, waves, wave, batch, stage, clock, ctask,
          cprocess, outcomes, skipped, canswer

C == INSTANCE Council WITH
         Plans <- Councils, plan <- cplan, task <- ctask,
         process <- cprocess, answer <- canswer

ASSUME CouncilsAssumption ==
    /\ Councils \subseteq C!Plan
    /\ StageId \subseteq Nat \ {0} /\ MaxTicks \in Nat

council == <<cplan, point, waves, wave, batch, stage, clock, ctask, cprocess,
             outcomes, skipped, canswer>>
all == <<kind, vars, council>>

(* Of the other kind one plan is enough: it is never taken up.             *)
MCInit ==
    /\ kind \in {"debate", "council"} /\ Init /\ C!Init
    /\ IF kind = "debate" THEN cplan = CHOOSE p \in Councils : TRUE
       ELSE plan = CHOOSE p \in Plans : TRUE

MCNext ==
    \/ kind = "debate" /\ Next /\ UNCHANGED <<kind, council>>
    \/ kind = "council" /\ C!Next /\ UNCHANGED <<kind, vars>>

MCSpec ==
    /\ MCInit /\ [][MCNext]_all
    /\ WF_all(kind = "debate" /\ Works /\ UNCHANGED <<kind, council>>)
    /\ WF_all(kind = "debate" /\ Deadline /\ UNCHANGED <<kind, council>>)
    /\ WF_all(kind = "council" /\ C!Works /\ UNCHANGED <<kind, vars>>)
    /\ WF_all(kind = "council" /\ C!DirectEnds /\ UNCHANGED <<kind, vars>>)

(* Plans, tasks, cursors and reports keep their types.                     *)
WorkflowsTypeOK == TypeOK /\ C!TypeOK

(* Council: carried out as planned, and reported as it went.               *)
CouncilHolds == C!CouncilHolds

(* phase-6d.md:99 "batches respect `max_concurrency`".                     *)
ConcurrencyRespected == C!ConcurrencyRespected

(* run_bounded_debate_workflow and execute_council return, though their    *)
(* tasks may never end.                                                    *)
WorkflowReturns ==
    IF kind = "debate" THEN DebateReturns ELSE C!CouncilReturns

-----------------------------------------------------------------------------
P(i, r) == [id |-> i, responds |-> r]
D(openings, rebuttals, synthesis, path, dry) ==
    [openings |-> openings, rebuttals |-> rebuttals,
     synthesis |-> P(synthesis, None), path |-> path, dry |-> dry]

MCPlans ==
    {D(<<P("a", None), P("b", None)>>, <<P("c", "a")>>, "d", "inside", FALSE)}
    \cup {D(<<P("a", None)>>, <<>>, "b", p, d) : p \in Path, d \in BOOLEAN}
    \cup {D(<<P("a", None)>>, <<P("b", "c")>>, "c", "disabled", FALSE),
          D(<<P("a", None)>>, <<P("a", "a")>>, "c", "disabled", FALSE),
          D(<<>>, <<>>, "c", "disabled", FALSE)}

S(i, role, who, knd, needs, cost) ==
    [id |-> i, role |-> role, who |-> who, kind |-> knd, needs |-> needs,
     round |-> 1, cost |-> cost]

Counciled(stages, concurrency, cost, self) ==
    [stages |-> stages, rounds |-> 1, concurrency |-> concurrency, time |-> 1,
     cost |-> cost, selfCritique |-> self]

MCCouncils ==
    {Counciled(<<S(1, "plan", "x", "subprocess", {}, 0),
                 S(2, "plan", "y", "direct", {}, 0),
                 S(3, "critique", "z", k, {1}, 0)>>, n, 0, FALSE) :
        k \in {"mock", "subprocess"}, n \in 1..2}
    \cup {Counciled(<<S(1, "plan", "x", "mock", {2, 3}, 0),
                      S(2, "plan", "x", "mock", {4}, 0),
                      S(3, "plan", "x", "unsupported", {}, 0),
                      S(4, "plan", "x", "mock", needs, 0)>>, 2, 0, FALSE) :
             needs \in {{}, {1}}}
    \cup {Counciled(<<S(1, "plan", "x", "direct", {}, 1),
                      S(2, "critique", y, k, needs, c)>>, 1, 2, self) :
             y \in {"x", "y"}, k \in {"direct", "mock"}, c \in 0..2,
             needs \in {{1}, {3}}, self \in BOOLEAN}
    \cup {Counciled(<<>>, 1, 0, FALSE)}
=============================================================================
