-------------------------- MODULE OperatorControl --------------------------
(***************************************************************************)
(* What `control` tells an operator about a task of BrokerLifecycle and    *)
(* lets pass: operator_control.py reads the store, the handles and the     *)
(* launch of a task, and answers with a posture and with the actions it    *)
(* permits; an action it permits is then handed to the broker.             *)
(***************************************************************************)
EXTENDS BrokerLifecycle

Open(t) == state[t] \notin TerminalState \cup {"absent"}

(* A durable launch row, and no handle of it in this broker.               *)
DurableUnadopted(t) == DurableRow(t) /\ mem[t] \notin {"process", "adopted"}

(* REFUSED, the posture of a recovery_required task whose last proof was   *)
(* refused, permits what RECOVERY_REQUIRED permits.                        *)
Posture(t) ==
    CASE state[t] \in TerminalState -> "terminal"
      [] Open(t) /\ mem[t] = "adopted" -> "safely_adopted"
      [] Open(t) /\ mem[t] = "none"
           /\ (state[t] = "recovery_required" \/ DurableUnadopted(t))
           -> "recovery_required"
      [] Open(t) /\ mem[t] \in {"direct", "process"}
           -> IF state[t] = "recovery_required" THEN "recovery_required"
              ELSE "observed"
      [] OTHER -> "observed"

(* The legacy cancel after a restart: a living process group of a launch   *)
(* that is not durable.                                                    *)
(* Fault: it asks for a handle.                                            *)
LegacyCancelHeld(t) ==
    ~DurableUnadopted(t) /\ GroupStatus(t) = "alive" /\ mem[t] # "none"
LegacyCancel(t) == ~DurableUnadopted(t) /\ GroupStatus(t) = "alive"

(* An adopted launch is offered for cancel unless it was over when it was  *)
(* adopted; one that has ended since may still be, which changes nothing   *)
(* here and is left out.                                                   *)
CancelPermitted(t) ==
    CASE Posture(t) = "terminal"          -> FALSE
      [] Posture(t) = "safely_adopted"    -> manifest[t] # "final"
      [] Posture(t) = "recovery_required" ->
             state[t] = "recovery_required" /\ LegacyCancel(t)
      [] Posture(t) = "observed"          -> Open(t)

CollectPermitted(t) ==
    \/ Posture(t) = "terminal"
    \/ Posture(t) = "safely_adopted"
         /\ manifest[t] \notin {"launching", "running"}

(* cancel() of an open task: the state table is asked before anything is   *)
(* stopped, except of a launch known by its row alone that is already      *)
(* being cancelled.                                                        *)
CancelAccepted(t) ==
    \/ state[t] = "queued"
    \/ CanGo(state[t], "cancelling")
    \/ state[t] = "cancelling" /\ mem[t] = "none"

(* reconcile() would adopt it, so that control finds it safely adopted.    *)
AdoptionOpen(t) ==
    Reconcilable(t) /\ DurableRow(t) /\ mem[t] # "adopted" /\ Adoptable(t)

-----------------------------------------------------------------------------

(* A collect that control permits is not one adopted_collect refuses: that *)
(* refusal comes after the task was moved to collecting and its handle     *)
(* dropped, and leaves a living payload nobody can cancel any more.        *)
PermittedCollectEnds ==
    \A t \in Task :
        Free /\ mem[t] = "adopted" /\ CollectPermitted(t) => ~VerifiedLive(t)

(* A living process of a recorded launch stays within an operator's reach, *)
(* whatever was begun on the task and cut off by a broker loss: control    *)
(* permits its cancel and cancel() accepts it, or reconcile() can adopt    *)
(* it.  (Two ends of the road are known: a collection that was refused or  *)
(* cut off, and a cancel cut off before its signal, whose launch is then   *)
(* adopted: PermittedCancelIsAccepted.)                                    *)
LivingIsInReach ==
    \A t \in Task :
        /\ Free /\ Open(t) /\ Subprocess(t) /\ launch[t] /\ proc[t] = "alive"
        /\ ProcStartIdentity
        /\ state[t] # "collecting"
        /\ ~(state[t] = "cancelling" /\ mem[t] = "adopted")
        => \/ CancelPermitted(t) /\ CancelAccepted(t)
           \/ AdoptionOpen(t)

(* Control neither permits a collect that strands a living process nor     *)
(* leaves one beyond the reach of every operation.                         *)
ControlHolds == PermittedCollectEnds /\ LivingIsInReach

(* "cancellation available for non-terminal task", "owned process group    *)
(* cancel via adopted durable handle": a cancel that control permits is    *)
(* one cancel() accepts.                                                   *)
PermittedCancelIsAccepted ==
    \A t \in Task : Free /\ CancelPermitted(t) => CancelAccepted(t)

=============================================================================
