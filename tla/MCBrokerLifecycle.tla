------------------------- MODULE MCBrokerLifecycle -------------------------
(* Instances of BrokerLifecycle for TLC.                                   *)
EXTENDS OperatorControl, TLC

R(runtime, isolated) ==
    [runtime |-> runtime, isolated |-> isolated, source |-> "src"]

AllRequests     == {R(r, i) : r \in Runtime, i \in BOOLEAN}
WriterRequests  == {R("durable", TRUE), R("cursor", TRUE)}
LegacyRequests  == {R(r, i) : r \in Runtime \ {"durable"}, i \in BOOLEAN}
DurableRequests == {R("durable", TRUE)}

TaskSymmetry == Permutations(Task)
=============================================================================
