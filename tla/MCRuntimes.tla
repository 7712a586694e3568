----------------------------- MODULE MCRuntimes -----------------------------
(* A behaviour of the durable runner, one of the direct API runtime, or    *)
(* one of what the broker makes of a runtime's end: parts that share       *)
(* nothing, checked in one run.                                            *)
EXTENDS ResultGates, MCResultCases

VARIABLES kind, manifest, temp, copy, sup, payload, exited, ran, pc, row,
          cut, answer, alone, thread, event, late, reply, result, resent,
          state, held, up, op

Runner == INSTANCE DurableRunner WITH status <- exited

Direct == INSTANCE DirectRequest WITH answer <- reply

runner == <<manifest, temp, copy, sup, payload, exited, ran, pc, row, cut,
            answer>>
direct == <<alone, thread, event, late, reply, result, resent, state, held,
            up, op>>
all == <<vars, kind, runner, direct>>

(* The parts that do not move keep one initial state.                      *)
Case == CHOOSE c \in MCCases : TRUE
MCInit ==
    /\ kind \in {"durable", "direct", "gates"}
    /\ Runner!Init /\ Direct!Init /\ Init
    /\ kind # "gates" => request = Case.request /\ output = Case.output
    /\ kind = "gates" => alone

MCNext ==
    \/ kind = "durable" /\ Runner!Next /\ UNCHANGED <<kind, vars, direct>>
    \/ kind = "direct" /\ Direct!Next /\ UNCHANGED <<kind, vars, runner>>
    \/ kind = "gates" /\ Next /\ UNCHANGED <<kind, runner, direct>>

MCSpec ==
    /\ MCInit /\ [][MCNext]_all
    /\ WF_all(kind = "durable" /\ Runner!Supervises
                               /\ UNCHANGED <<kind, vars, direct>>)
    /\ WF_all(kind = "direct" /\ Direct!Works /\ UNCHANGED <<kind, vars, runner>>)
    /\ WF_all(kind = "direct" /\ Direct!Operates
                              /\ UNCHANGED <<kind, vars, runner>>)
    /\ WF_all(kind = "direct" /\ Direct!DeadlinePasses
                              /\ UNCHANGED <<kind, vars, runner>>)

(* Launch manifests, processes, callers and requests keep their types.     *)
RuntimesTypeOK == Runner!TypeOK /\ Direct!TypeOK /\ TypeOK

(* DurableRunner: the manifest claims no end that did not happen.          *)
ManifestIsTrue == Runner!ManifestIsTrue

(* DurableRunner: what callers are told of a launch is so.                 *)
AnswersAreTrue == Runner!AnswersAreTrue

(* DurableRunner: the manifest moves on as BrokerLifecycle takes it to     *)
(* (RuntimeLaunches), and an end in it is not replaced by another one.     *)
ManifestMovesOn == Runner!ImplementsLaunches /\ Runner!FinalStays

(* DirectRequest: a request is settled as it ended, by whoever holds it.   *)
RequestIsSettled == Direct!RequestIsSettled

(* The end of a launched command gets into the manifest; the retry loop of *)
(* a direct request ends, and with it the join in collect().               *)
RuntimesEnd ==
    Runner!EndIsRecorded /\ (kind = "direct" => Direct!RequestEnds)
=============================================================================
