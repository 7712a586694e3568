-------------------------- MODULE MCRecoveryLease --------------------------
(* The instances of RecoveryLease for TLC.                                 *)
EXTENDS RecoveryLease

CONSTANTS First, Lost   \* two of the brokers

(* Lost is gone.  Either First is up and one more may start, or Lost was   *)
(* the one that launched everything and two may start, and leases do not   *)
(* lapse.                                                                  *)
MCInit ==
    /\ Init
    /\ \A b \in Broker : phase[b] = "gone" <=> b = Lost
    /\ file.id \in {First, Lost}
    /\ file.id = Lost => ~lapses

MCSpec == MCInit /\ [][Next]_vars /\ Fairness
=============================================================================
