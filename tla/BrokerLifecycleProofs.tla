----------------------- MODULE BrokerLifecycleProofs -----------------------
(***************************************************************************)
(* Proofs about BrokerLifecycle, for any number of tasks, any requests,    *)
(* any number of losses of the broker process and any platform: TypeOK is  *)
(* inductive; WriterInv is inductive relative to it; OutcomeInv is         *)
(* inductive relative to both.  The invariants proper follow from them,    *)
(* and IsolationInv with them shows that BrokerLifecycle implements        *)
(* IsolatedWriters, LaunchInv that it implements RuntimeLaunches, and      *)
(* ControlInv that `control` tells an operator what is so.                 *)
(* What is proved beyond TypeOK assumes that complete() is used for mock   *)
(* tasks only, as cli.md says.                                             *)
(***************************************************************************)
EXTENDS OperatorControl, TLAPS

MockOnly == Completable \subseteq {"mock"}

-----------------------------------------------------------------------------
(* Types.                                                                  *)

(* The empty store of a new home is well-typed.                            *)
LEMMA TypeInit == Init => TypeOK
BY NoTaskAssumption, BoundAssumption DEF Init, TypeOK, Idle, NoRequest

(* Every step of every operation keeps the store, the world and the        *)
(* operation in progress well-typed.                                       *)
LEMMA TypeStep == TypeOK /\ [Next]_vars => TypeOK'
<1> SUFFICES ASSUME TypeOK, [Next]_vars PROVE TypeOK'
  OBVIOUS
<1> USE NoTaskAssumption, BoundAssumption
    DEF TypeOK, store, world, broker, Free, At, Begin, Goto, Proceed, Move,
        Finalize, Operation, Idle, Point, Goal, How, TaskState, TerminalState,
        SuccessState
<1>1. ASSUME NEW t \in Task, Create(t) PROVE TypeOK'
  BY <1>1 DEF Create
<1>2. ASSUME NEW t \in Task, StartRejected(t) PROVE TypeOK'
  BY <1>2 DEF StartRejected, CanGo
<1>3. ASSUME NEW t \in Task, StartPrepare(t) PROVE TypeOK'
  BY <1>3 DEF StartPrepare, CanGo
<1>4. ASSUME NEW t \in Task, Complete(t) PROVE TypeOK'
  BY <1>4 DEF Complete
<1>5. ASSUME NEW t \in Task, CollectHandle(t) PROVE TypeOK'
  BY <1>5 DEF CollectHandle
<1>6. ASSUME NEW t \in Task, CollectAdopted(t) PROVE TypeOK'
  BY <1>6 DEF CollectAdopted
<1>7. ASSUME NEW t \in Task, CollectMock(t) PROVE TypeOK'
  BY <1>7 DEF CollectMock
<1>8. ASSUME NEW t \in Task, TimeoutHandle(t) PROVE TypeOK'
  BY <1>8 DEF TimeoutHandle, Pending
<1>9. ASSUME NEW t \in Task, TimeoutNothing(t) PROVE TypeOK'
  BY <1>9 DEF TimeoutNothing, Pending
<1>10. ASSUME NEW t \in Task, TimeoutByGroup(t) PROVE TypeOK'
  BY <1>10 DEF TimeoutByGroup, Pending
<1>11. ASSUME NEW t \in Task, CancelQueued(t) PROVE TypeOK'
  BY <1>11 DEF CancelQueued
<1>12. ASSUME NEW t \in Task, CancelHandle(t) PROVE TypeOK'
  BY <1>12 DEF CancelHandle, Pending
<1>13. ASSUME NEW t \in Task, CancelNothing(t) PROVE TypeOK'
  BY <1>13 DEF CancelNothing, Pending
<1>14. ASSUME NEW t \in Task, CancelWithoutHandle(t) PROVE TypeOK'
  BY <1>14 DEF CancelWithoutHandle, Pending
<1>15. ASSUME NEW t \in Task, ReconcileRefused(t) PROVE TypeOK'
  BY <1>15 DEF ReconcileRefused, Reconcilable, RequireRecovery
<1>16. ASSUME NEW t \in Task, ReconcileAdopts(t) PROVE TypeOK'
  BY <1>16 DEF ReconcileAdopts, Reconcilable
<1>17. ASSUME NEW t \in Task, ReconcileDirect(t) PROVE TypeOK'
  BY <1>17 DEF ReconcileDirect, Reconcilable
<1>18. ASSUME NEW t \in Task, ReconcileCursor(t) PROVE TypeOK'
  <2>1. CASE Finalize(t, "uncollected")
             /\ UNCHANGED <<store, world, up, mem, restarts>>
    BY <1>18, <2>1 DEF ReconcileCursor, Reconcilable
  <2>2. CASE RequireRecovery(t)
    BY <1>18, <2>2 DEF ReconcileCursor, Reconcilable, RequireRecovery
  <2>3. QED
    BY <1>18, <2>1, <2>2 DEF ReconcileCursor
<1>19. ASSUME NEW t \in Task, ReconcileByGroup(t) PROVE TypeOK'
  <2>1. CASE GroupStatus(t) = "alive"
    BY <1>19, <2>1 DEF ReconcileByGroup, Reconcilable, RequireRecovery
  <2>2. CASE GroupStatus(t) # "alive"
    BY <1>19, <2>2 DEF ReconcileByGroup, Reconcilable
  <2>3. QED
    BY <2>1, <2>2
<1>20. ASSUME NEW t \in Task, CommitProof(t) PROVE TypeOK'
  BY <1>20 DEF CommitProof
<1>21. ASSUME NEW t \in Task, RuntimeEnds(t) PROVE TypeOK'
  BY <1>21 DEF RuntimeEnds, Ends
<1>22. ASSUME NEW t \in Task, HelpersEnd(t) PROVE TypeOK'
  BY <1>22 DEF HelpersEnd
<1>23. ASSUME NEW t \in Task,
              SupervisorFinalizes(t) \/ SupervisorGone(t)
       PROVE  TypeOK'
  <2>1. CASE SupervisorFinalizes(t)
    BY <2>1 DEF SupervisorFinalizes
  <2>2. CASE SupervisorGone(t)
    BY <2>2 DEF SupervisorGone
  <2>3. QED
    BY <1>23, <2>1, <2>2
<1>24. ASSUME NEW t \in Task, RecoveryLeaseExpires(t) PROVE TypeOK'
  BY <1>24 DEF RecoveryLeaseExpires
<1>25. CASE Enqueue
  BY <1>25 DEF Enqueue
<1>26. CASE AcquireLease
  BY <1>26 DEF AcquireLease
<1>27. CASE LeaseRefused
  BY <1>27 DEF LeaseRefused
<1>28. CASE CaptureHeadRaises
  BY <1>28 DEF CaptureHeadRaises
<1>29. CASE CreateWorktree
  BY <1>29 DEF CreateWorktree
<1>30. CASE CreateWorktreeFails
  BY <1>30 DEF CreateWorktreeFails
<1>31. CASE SpawnMock
  BY <1>31 DEF SpawnMock
<1>32. CASE SpawnDirect
  BY <1>32 DEF SpawnDirect
<1>33. CASE SpawnCursor
  BY <1>33 DEF SpawnCursor
<1>34. CASE SpawnDurable
  BY <1>34 DEF SpawnDurable
<1>35. CASE LaunchProven
  BY <1>35 DEF LaunchProven
<1>36. CASE SpawnRaises
  BY <1>36 DEF SpawnRaises
<1>37. CASE LaunchTimesOut
  BY <1>37 DEF LaunchTimesOut
<1>38. CASE RecordLaunch
  BY <1>38 DEF RecordLaunch
<1>39. CASE Gather
  BY <1>39 DEF Gather
<1>40. CASE GatherRefused
  BY <1>40 DEF GatherRefused
<1>41. CASE Persist
  BY <1>41 DEF Persist, Candidate, Gated
<1>42. CASE KillDirect
  BY <1>42 DEF KillDirect, Confirmed, Unconfirmed, Ends
<1>43. CASE KillGroup
  BY <1>43 DEF KillGroup, Confirmed, Unconfirmed
<1>44. CASE KillDurable
  <2>1. op \in Operation
    BY <1>44 DEF KillDurable
  <2>2. op' \in Operation
    BY <1>44, <2>1 DEF KillDurable, Confirmed, Unconfirmed
  <2>3. /\ proc' \in [Task -> {"none", "alive", "lingering", "dead"}]
        /\ exit' \in [Task -> {"none", "ok", "bad"}]
    BY <1>44, <2>1 DEF KillDurable, Ends
  <2>4. manifest' \in [Task -> {"none", "launching", "running", "final"}]
    BY <1>44, <2>1 DEF KillDurable
  <2>5. sup' \in [Task -> BOOLEAN]
    <3>1. sup' = sup \/ sup' = [sup EXCEPT ![op.task] = FALSE]
      BY <1>44 DEF KillDurable
    <3>2. CASE sup' = sup
      BY <3>2
    <3>3. CASE sup' = [sup EXCEPT ![op.task] = FALSE]
      BY <3>3
    <3>4. QED
      BY <3>1, <3>2, <3>3
  <2>6. UNCHANGED <<store, worktree, up, mem, restarts>>
    BY <1>44 DEF KillDurable
  <2>7. QED
    BY <2>2, <2>3, <2>4, <2>5, <2>6
<1>45. CASE KillAdopted
  BY <1>45 DEF KillAdopted, Confirmed, Unconfirmed, Ends
<1>46. CASE ReleaseTree
  <2>1. CASE lease[op.task] = "active"
    <3>1. op' \in Operation
      BY <1>46, <2>1 DEF ReleaseTree
    <3>2. worktree' \in [Task -> BOOLEAN]
      <4>1. CASE worktree' = [worktree EXCEPT ![op.task] = FALSE]
        BY <4>1
      <4>2. CASE worktree' = worktree
        BY <4>2
      <4>3. QED
        BY <1>46, <2>1, <4>1, <4>2 DEF ReleaseTree
    <3>3. QED
      BY <1>46, <3>1, <3>2 DEF ReleaseTree
  <2>2. CASE lease[op.task] # "active"
    BY <1>46, <2>2 DEF ReleaseTree
  <2>3. QED
    BY <2>1, <2>2
<1>47. CASE ReleaseRow
  BY <1>47 DEF ReleaseRow
<1>48. CASE Transit
  BY <1>48 DEF Transit, CanGo
<1>49. CASE TransitCancelling
  BY <1>49 DEF TransitCancelling
<1>50. CASE Crash
  <2>1. up' = FALSE /\ op' = Idle
    BY <1>50 DEF Crash, BrokerGone
  <2>2. restarts < MaxRestarts /\ restarts' = restarts + 1
    BY <1>50 DEF Crash, BrokerGone
  <2>3. restarts' \in 0..MaxRestarts
    BY <2>2
  <2>4. /\ mem' \in [Task -> {"none", "direct", "process", "adopted"}]
        /\ proc' \in [Task -> {"none", "alive", "lingering", "dead"}]
        /\ exit' \in [Task -> {"none", "ok", "bad"}]
    BY <1>50 DEF Crash, BrokerGone
  <2>5. sup' \in [Task -> BOOLEAN]
    <3>1. CASE sup' = sup
      BY <3>1
    <3>2. CASE sup' = [t \in Task |-> FALSE]
      BY <3>2
    <3>3. QED
      BY <1>50, <3>1, <3>2 DEF Crash
  <2>6. rlease' \in [Task -> {"none", "current", "prior"}]
    BY <1>50 DEF Crash
  <2>7. QED
    BY <1>50, <2>1, <2>3, <2>4, <2>5, <2>6 DEF Crash
<1>51. CASE Close
  <2>1. up' = FALSE /\ op' = Idle
    BY <1>51 DEF Close, BrokerGone
  <2>2. restarts < MaxRestarts /\ restarts' = restarts + 1
    BY <1>51 DEF Close, BrokerGone
  <2>3. restarts' \in 0..MaxRestarts
    BY <2>2
  <2>4. /\ mem' \in [Task -> {"none", "direct", "process", "adopted"}]
        /\ proc' \in [Task -> {"none", "alive", "lingering", "dead"}]
        /\ exit' \in [Task -> {"none", "ok", "bad"}]
    BY <1>51 DEF Close, BrokerGone
  <2>5. sup' \in [Task -> BOOLEAN]
    BY <1>51 DEF Close
  <2>6. rlease' \in [Task -> {"none", "current", "prior"}]
    BY <1>51 DEF Close
  <2>7. QED
    BY <1>51, <2>1, <2>3, <2>4, <2>5, <2>6 DEF Close
<1>52. CASE Restart
  BY <1>52 DEF Restart
<1>53. CASE UNCHANGED vars
  BY <1>53 DEF vars
<1>54. QED
  BY <1>1, <1>2, <1>3, <1>4, <1>5, <1>6, <1>7, <1>8, <1>9, <1>10, <1>11,
     <1>12, <1>13, <1>14, <1>15, <1>16, <1>17, <1>18, <1>19, <1>20, <1>21,
     <1>22, <1>23, <1>24, <1>25, <1>26, <1>27, <1>28, <1>29, <1>30, <1>31,
     <1>32, <1>33, <1>34, <1>35, <1>36, <1>37, <1>38, <1>39, <1>40, <1>41,
     <1>42, <1>43, <1>44, <1>45, <1>46, <1>47, <1>48, <1>49, <1>50, <1>51,
     <1>52, <1>53
     DEF Next, Client, Reconcile, Continue, Outside

(* In every behaviour, with any crashes, the rows, the directories and the *)
(* operation in progress have the values models.py and store.py allow; in  *)
(* particular an illegal target is never written as a state.               *)
THEOREM TypeCorrect == Spec => []TypeOK
<1>1. Init => TypeOK
  BY TypeInit
<1>2. TypeOK /\ [Next]_vars => TypeOK'
  BY TypeStep
<1>3. QED
  BY <1>1, <1>2, PTL DEF Spec

-----------------------------------------------------------------------------
(* The workspace of a living writer.                                       *)

(* Before any task exists nothing is allocated, launched or released.      *)
LEMMA WriterInit == Init => WriterInv
BY DEF Init, Idle, WriterInv, UnstartedIsFresh, AllocatedBeforeLaunch,
       LaunchedIsSubprocess, ManifestIsEvidence, GatheredHasEnded,
       ReleasedHasEnded, OneLeasePerSource, LiveWriterKeepsWorkspace, Writer,
       Unlaunched, Unstarted, Subprocess

(* What stopping a durable launch, by either handle, does to the store and *)
(* the world: it goes on to a release only over a leader that has ended.   *)
LEMMA KillLaunchShape ==
    ASSUME TypeOK, ManifestIsEvidence, KillDurable \/ KillAdopted
    PROVE  /\ op.task \in Task /\ op.at = "kill" /\ op'.task = op.task
           /\ \/ op'.at = "transit"
              \/ op'.at = "release_tree" /\ proc'[op.task] # "alive"
           /\ UNCHANGED <<state, req, lease, launch, worktree>>
           /\ \A u \in Task :
                 /\ proc[u] # "alive" => proc'[u] = proc[u]
                 /\ mem'[u] = mem[u] \/ mem'[u] = "none"
                 /\ \/ manifest'[u] = manifest[u]
                    \/ /\ u = op.task
                       /\ manifest'[u] = "final" /\ proc'[u] # "alive"
<1>1. op \in Operation /\ op.at = "kill" /\ op.task \in Task
  BY NoTaskAssumption
     DEF TypeOK, KillDurable, KillAdopted, At, Operation, Idle
<1>2. op'.task = op.task /\ op'.at \in {"transit", "release_tree"}
  <2>1. Confirmed \/ Unconfirmed
    BY DEF KillDurable, KillAdopted
  <2>2. QED
    BY <2>1 DEF Confirmed, Unconfirmed, Goto, Proceed, Begin
<1>3. op'.at = "release_tree" => proc'[op.task] # "alive"
  BY <1>1 DEF KillDurable, KillAdopted, Confirmed, Unconfirmed, Goto, Proceed,
              Begin, Ends, TypeOK, ManifestIsEvidence
<1>4. UNCHANGED <<state, req, lease, launch, worktree>>
  BY DEF KillDurable, KillAdopted, store
<1>5. \A u \in Task : proc[u] # "alive" => proc'[u] = proc[u]
  BY <1>1 DEF KillDurable, KillAdopted, Ends, TypeOK
<1>6. \A u \in Task : mem'[u] = mem[u] \/ mem'[u] = "none"
  BY <1>1 DEF KillDurable, KillAdopted, TypeOK
<1>7. \A u \in Task : \/ manifest'[u] = manifest[u]
                      \/ /\ u = op.task
                         /\ manifest'[u] = "final" /\ proc'[u] # "alive"
  BY <1>1 DEF KillDurable, KillAdopted, Ends, TypeOK
<1>8. QED
  BY <1>1, <1>2, <1>3, <1>4, <1>5, <1>6, <1>7

LEMMA KillLaunchWriter ==
    ASSUME TypeOK, WriterInv, KillDurable \/ KillAdopted
    PROVE  WriterInv'
<1>1. UNCHANGED <<state, req, lease, launch, worktree>>
  BY KillLaunchShape DEF WriterInv
<1>2. /\ op.task \in Task /\ op.at = "kill" /\ op'.task = op.task
      /\ \/ op'.at = "transit"
         \/ op'.at = "release_tree" /\ proc'[op.task] # "alive"
  BY KillLaunchShape DEF WriterInv
<1>3. \A u \in Task :
         /\ proc[u] # "alive" => proc'[u] = proc[u]
         /\ mem'[u] = mem[u] \/ mem'[u] = "none"
         /\ \/ manifest'[u] = manifest[u]
            \/ /\ u = op.task
               /\ manifest'[u] = "final" /\ proc'[u] # "alive"
  BY KillLaunchShape DEF WriterInv
<1>4. UnstartedIsFresh'
  <2>1. state[op.task] \notin Unstarted
    BY <1>2 DEF WriterInv, UnstartedIsFresh
  <2>2. QED
    BY <1>1, <1>2, <1>3, <2>1 DEF WriterInv, UnstartedIsFresh, Unlaunched
<1>5. AllocatedBeforeLaunch'
  BY <1>2 DEF AllocatedBeforeLaunch
<1>6. LaunchedIsSubprocess' /\ GatheredHasEnded'
  BY <1>1, <1>2 DEF WriterInv, LaunchedIsSubprocess, GatheredHasEnded,
                    Subprocess
<1>7. ManifestIsEvidence'
  BY <1>2, <1>3 DEF WriterInv, ManifestIsEvidence
<1>8. ReleasedHasEnded' /\ OneLeasePerSource'
  BY <1>1, <1>2 DEF WriterInv, ReleasedHasEnded, OneLeasePerSource, Writer
<1>9. LiveWriterKeepsWorkspace'
  BY <1>1, <1>3 DEF WriterInv, LiveWriterKeepsWorkspace
<1>10. QED
  BY <1>4, <1>5, <1>6, <1>7, <1>8, <1>9 DEF WriterInv

(* Every step keeps what the points of the operations rely on.             *)
LEMMA WriterStep ==
    ASSUME MockOnly
    PROVE  TypeOK /\ WriterInv /\ [Next]_vars => WriterInv'
<1> SUFFICES ASSUME TypeOK, WriterInv, [Next]_vars PROVE WriterInv'
  OBVIOUS
<1> USE NoTaskAssumption
    DEF MockOnly, TypeOK, store, world, broker, Free, At, Begin, Goto,
        Proceed, Move, Finalize, Operation, Idle, Point, Goal, How, TaskState,
        TerminalState, SuccessState, WriterInv, UnstartedIsFresh,
        AllocatedBeforeLaunch, LaunchedIsSubprocess, ManifestIsEvidence,
        GatheredHasEnded, ReleasedHasEnded, OneLeasePerSource,
        LiveWriterKeepsWorkspace, Writer, Unlaunched, Unstarted, Subprocess
<1>1. ASSUME NEW t \in Task, Create(t) PROVE WriterInv'
  BY <1>1 DEF Create
<1>2. ASSUME NEW t \in Task, StartRejected(t) PROVE WriterInv'
  BY <1>2 DEF StartRejected, CanGo
<1>3. ASSUME NEW t \in Task, StartPrepare(t) PROVE WriterInv'
  BY <1>3 DEF StartPrepare, CanGo
<1>4. ASSUME NEW t \in Task, Complete(t) PROVE WriterInv'
  <2>1. req[t].runtime = "mock"
    BY <1>4 DEF Complete
  <2>2. QED
    BY <1>4, <2>1 DEF Complete
<1>5. ASSUME NEW t \in Task, CollectHandle(t) PROVE WriterInv'
  BY <1>5 DEF CollectHandle, CanGo, HandleFinished
<1>6. ASSUME NEW t \in Task, CollectAdopted(t) PROVE WriterInv'
  BY <1>6 DEF CollectAdopted, CanGo
<1>7. ASSUME NEW t \in Task, CollectMock(t) PROVE WriterInv'
  BY <1>7 DEF CollectMock
<1>8. ASSUME NEW t \in Task, TimeoutHandle(t) PROVE WriterInv'
  BY <1>8 DEF TimeoutHandle, Pending
<1>9. ASSUME NEW t \in Task, TimeoutNothing(t) PROVE WriterInv'
  BY <1>9 DEF TimeoutNothing, Pending, Subprocess, GroupStatus, GroupAlive
<1>10. ASSUME NEW t \in Task, TimeoutByGroup(t) PROVE WriterInv'
  BY <1>10 DEF TimeoutByGroup, Pending, Subprocess, GroupStatus, GroupAlive
<1>11. ASSUME NEW t \in Task, CancelQueued(t) PROVE WriterInv'
  BY <1>11 DEF CancelQueued
<1>12. ASSUME NEW t \in Task, CancelHandle(t) PROVE WriterInv'
  BY <1>12 DEF CancelHandle, Pending, CanGo
<1>13. ASSUME NEW t \in Task, CancelNothing(t) PROVE WriterInv'
  BY <1>13 DEF CancelNothing, Pending, Subprocess
<1>14. ASSUME NEW t \in Task, CancelWithoutHandle(t) PROVE WriterInv'
  BY <1>14 DEF CancelWithoutHandle, Pending, Subprocess, GroupAlive, CanGo
<1>15. ASSUME NEW t \in Task, ReconcileRefused(t) PROVE WriterInv'
  BY <1>15 DEF ReconcileRefused, Reconcilable, RequireRecovery, DurableRow,
               Adoptable
<1>16. ASSUME NEW t \in Task, ReconcileAdopts(t) PROVE WriterInv'
  BY <1>16 DEF ReconcileAdopts, Reconcilable, Adoptable, VerifiedLive,
               DurableRow
<1>17. ASSUME NEW t \in Task, ReconcileDirect(t) PROVE WriterInv'
  BY <1>17 DEF ReconcileDirect, Reconcilable
<1>18. ASSUME NEW t \in Task, ReconcileCursor(t) PROVE WriterInv'
  <2>1. CASE proc[t] # "alive" /\ Finalize(t, "uncollected")
             /\ UNCHANGED <<store, world, up, mem, restarts>>
    BY <1>18, <2>1 DEF ReconcileCursor, Reconcilable
  <2>2. CASE RequireRecovery(t)
    BY <1>18, <2>2 DEF ReconcileCursor, Reconcilable, RequireRecovery
  <2>3. QED
    BY <1>18, <2>1, <2>2 DEF ReconcileCursor
<1>19. ASSUME NEW t \in Task, ReconcileByGroup(t) PROVE WriterInv'
  <2>1. CASE GroupStatus(t) = "alive"
    BY <1>19, <2>1 DEF ReconcileByGroup, Reconcilable, RequireRecovery
  <2>2. CASE GroupStatus(t) # "alive"
    <3>1. ~launch[t] \/ proc[t] # "alive"
      BY <2>2 DEF GroupStatus, GroupAlive
    <3>2. QED
      BY <1>19, <2>2, <3>1 DEF ReconcileByGroup, Reconcilable
  <2>3. QED
    BY <2>1, <2>2
<1>20. ASSUME NEW t \in Task, CommitProof(t) PROVE WriterInv'
  BY <1>20 DEF CommitProof
<1>21. ASSUME NEW t \in Task, RuntimeEnds(t) PROVE WriterInv'
  BY <1>21 DEF RuntimeEnds, Ends
<1>22. ASSUME NEW t \in Task, HelpersEnd(t) PROVE WriterInv'
  BY <1>22 DEF HelpersEnd
<1>23. ASSUME NEW t \in Task,
              SupervisorFinalizes(t) \/ SupervisorGone(t)
       PROVE  WriterInv'
  BY <1>23 DEF SupervisorFinalizes, SupervisorGone
<1>24. ASSUME NEW t \in Task, RecoveryLeaseExpires(t) PROVE WriterInv'
  BY <1>24 DEF RecoveryLeaseExpires
<1>25. CASE Enqueue
  BY <1>25 DEF Enqueue
<1>26. CASE AcquireLease
  BY <1>26 DEF AcquireLease, SourceLeased
<1>27. CASE LeaseRefused
  BY <1>27 DEF LeaseRefused
<1>28. CASE CaptureHeadRaises
  BY <1>28 DEF CaptureHeadRaises
<1>29. CASE CreateWorktree
  BY <1>29 DEF CreateWorktree
<1>30. CASE CreateWorktreeFails
  BY <1>30 DEF CreateWorktreeFails
<1>31. CASE SpawnMock
  BY <1>31 DEF SpawnMock
<1>32. CASE SpawnDirect
  BY <1>32 DEF SpawnDirect
<1>33. CASE SpawnCursor
  BY <1>33 DEF SpawnCursor
<1>34. CASE SpawnDurable
  BY <1>34 DEF SpawnDurable
<1>35. CASE LaunchProven
  BY <1>35 DEF LaunchProven
<1>36. CASE SpawnRaises
  BY <1>36 DEF SpawnRaises
<1>37. CASE LaunchTimesOut
  BY <1>37 DEF LaunchTimesOut
<1>38. CASE RecordLaunch
  BY <1>38 DEF RecordLaunch
<1>39. CASE Gather
  BY <1>39 DEF Gather, VerifiedLive
<1>40. CASE GatherRefused
  BY <1>40 DEF GatherRefused, VerifiedLive
<1>41. CASE Persist
  BY <1>41 DEF Persist, Candidate, Gated
<1>42. CASE KillDirect
  BY <1>42 DEF KillDirect, Confirmed, Unconfirmed, Ends
<1>43. CASE KillGroup
  <2>1. CASE proc' = [proc EXCEPT ![op.task] = "dead"] /\ Confirmed
    BY <1>43, <2>1 DEF KillGroup, Confirmed
  <2>2. CASE UNCHANGED <<proc, exit>> /\ Unconfirmed
    BY <1>43, <2>2 DEF KillGroup, Unconfirmed
  <2>3. QED
    BY <1>43, <2>1, <2>2 DEF KillGroup
<1>44. CASE KillDurable
  BY <1>44, KillLaunchWriter
<1>45. CASE KillAdopted
  BY <1>45, KillLaunchWriter
<1>46. CASE ReleaseTree
  <2>1. op \in Operation /\ op.task \in Task /\ op.at = "release_tree"
    BY <1>46 DEF ReleaseTree
  <2>2. /\ op'.task = op.task
        /\ op'.at \in {"release_row", "transit"}
        /\ op'.at = "release_row" => lease[op.task] = "active"
    BY <1>46, <2>1 DEF ReleaseTree
  <2>3. /\ worktree' \in [Task -> BOOLEAN]
        /\ \A t \in Task \ {op.task} : worktree'[t] = worktree[t]
        /\ ~worktree[op.task] => ~worktree'[op.task]
    <3>1. CASE worktree' = [worktree EXCEPT ![op.task] = FALSE]
      BY <2>1, <3>1
    <3>2. CASE worktree' = worktree
      BY <3>2
    <3>3. QED
      BY <1>46, <3>1, <3>2 DEF ReleaseTree
  <2>4. UNCHANGED <<store, proc, exit, manifest, sup, up, mem, restarts>>
    BY <1>46 DEF ReleaseTree
  <2>5. ~Writer(op.task)
    BY <2>1
  <2>6. UnstartedIsFresh'
    BY <2>1, <2>2, <2>3, <2>4
  <2>7. AllocatedBeforeLaunch'
    BY <2>2, <2>3, <2>4
  <2>8. LaunchedIsSubprocess' /\ ManifestIsEvidence' /\ GatheredHasEnded'
    BY <2>2, <2>4
  <2>9. ReleasedHasEnded' /\ OneLeasePerSource'
    BY <2>2, <2>4, <2>5
  <2>10. LiveWriterKeepsWorkspace'
    BY <2>3, <2>4, <2>5
  <2>11. QED
    BY <2>6, <2>7, <2>8, <2>9, <2>10
<1>47. CASE ReleaseRow
  <2>1. op.task \in Task /\ op.at = "release_row"
    BY <1>47 DEF ReleaseRow
  <2>2. UnstartedIsFresh' /\ AllocatedBeforeLaunch'
    BY <1>47, <2>1 DEF ReleaseRow
  <2>3. /\ LaunchedIsSubprocess' /\ ManifestIsEvidence'
        /\ GatheredHasEnded' /\ ReleasedHasEnded'
    BY <1>47, <2>1 DEF ReleaseRow
  <2>4. OneLeasePerSource'
    BY <1>47, <2>1 DEF ReleaseRow
  <2>5. LiveWriterKeepsWorkspace'
    BY <1>47, <2>1 DEF ReleaseRow
  <2>6. QED
    BY <2>2, <2>3, <2>4, <2>5
<1>48. CASE Transit
  BY <1>48 DEF Transit, CanGo
<1>49. CASE TransitCancelling
  BY <1>49 DEF TransitCancelling, CanGo
<1>50. CASE Crash
  BY <1>50 DEF Crash, BrokerGone
<1>51. CASE Close
  BY <1>51 DEF Close, BrokerGone
<1>52. CASE Restart
  BY <1>52 DEF Restart
<1>53. CASE UNCHANGED vars
  BY <1>53 DEF vars
<1>54. QED
  BY <1>1, <1>2, <1>3, <1>4, <1>5, <1>6, <1>7, <1>8, <1>9, <1>10, <1>11,
     <1>12, <1>13, <1>14, <1>15, <1>16, <1>17, <1>18, <1>19, <1>20, <1>21,
     <1>22, <1>23, <1>24, <1>25, <1>26, <1>27, <1>28, <1>29, <1>30, <1>31,
     <1>32, <1>33, <1>34, <1>35, <1>36, <1>37, <1>38, <1>39, <1>40, <1>41,
     <1>42, <1>43, <1>44, <1>45, <1>46, <1>47, <1>48, <1>49, <1>50, <1>51,
     <1>52, <1>53
     DEF Next, Client, Reconcile, Continue, Outside

(* The inductive invariant holds in every behaviour.                       *)
THEOREM WriterInvariant ==
    ASSUME MockOnly
    PROVE  Spec => [](TypeOK /\ WriterInv)
<1>1. Init => TypeOK /\ WriterInv
  BY TypeInit, WriterInit
<1>2. TypeOK /\ WriterInv /\ [Next]_vars => (TypeOK /\ WriterInv)'
  BY TypeStep, WriterStep
<1>3. QED
  BY <1>1, <1>2, PTL DEF Spec

(* No collect, cancel, timeout or reconcile takes the worktree or the      *)
(* lease away from a recorded launch whose leader is alive.                *)
THEOREM LiveWriterSafe ==
    ASSUME MockOnly
    PROVE  Spec => []LiveWriterKeepsWorkspace
<1>1. WriterInv => LiveWriterKeepsWorkspace
  BY DEF WriterInv
<1>2. QED
  BY <1>1, WriterInvariant, PTL

(* Two recorded launches of isolated tasks on one source are never alive   *)
(* together: each would hold the source's one active lease.                *)
THEOREM OneWriterSafe ==
    ASSUME MockOnly
    PROVE  Spec => []OneWriterPerSource
<1>1. WriterInv => OneWriterPerSource
  BY DEF WriterInv, OneWriterPerSource, OneLeasePerSource,
         LiveWriterKeepsWorkspace
<1>2. QED
  BY <1>1, WriterInvariant, PTL

-----------------------------------------------------------------------------
(* What a recorded outcome stands for.                                     *)

(* Before any task exists no outcome is recorded.                          *)
LEMMA OutcomeInit == Init => OutcomeInv
BY DEF Init, Idle, TerminalState, SuccessState, OutcomeInv, OutcomeIsLast,
       OutcomeIsBacked, TreeBeforeRow, SuccessIsObserved,
       ClaimedStopIsStopped, SettledTaskFreesSource, NoOrphanWorktree,
       SuccessBacked, StopBacked, Ending, Subprocess

(* Every step keeps the outcome an operation carries backed by what it has *)
(* made sure of, and a recorded outcome backed afterwards.                 *)
LEMMA OutcomeStep ==
    ASSUME MockOnly
    PROVE  TypeOK /\ WriterInv /\ OutcomeInv /\ [Next]_vars => OutcomeInv'
<1> SUFFICES ASSUME TypeOK, WriterInv, OutcomeInv, [Next]_vars
             PROVE  OutcomeInv'
  OBVIOUS
<1> USE NoTaskAssumption
    DEF MockOnly, TypeOK, store, world, broker, Free, At, Begin, Goto,
        Proceed, Move, Finalize, Operation, Idle, Point, Goal, How, TaskState,
        TerminalState, SuccessState, OutcomeInv, OutcomeIsLast,
        OutcomeIsBacked, TreeBeforeRow, SuccessIsObserved,
        ClaimedStopIsStopped, SettledTaskFreesSource, NoOrphanWorktree,
        SuccessBacked, StopBacked, Ending, WriterInv, UnstartedIsFresh,
        AllocatedBeforeLaunch, ManifestIsEvidence, GatheredHasEnded,
        Unlaunched, Unstarted, Subprocess
<1>1. ASSUME NEW t \in Task, Create(t) PROVE OutcomeInv'
  BY <1>1 DEF Create
<1>2. ASSUME NEW t \in Task, StartRejected(t) PROVE OutcomeInv'
  BY <1>2 DEF StartRejected, CanGo
<1>3. ASSUME NEW t \in Task, StartPrepare(t) PROVE OutcomeInv'
  BY <1>3 DEF StartPrepare, CanGo
<1>4. ASSUME NEW t \in Task, Complete(t) PROVE OutcomeInv'
  BY <1>4 DEF Complete, CanGo
<1>5. ASSUME NEW t \in Task, CollectHandle(t) PROVE OutcomeInv'
  BY <1>5 DEF CollectHandle, CanGo, HandleFinished
<1>6. ASSUME NEW t \in Task, CollectAdopted(t) PROVE OutcomeInv'
  BY <1>6 DEF CollectAdopted, CanGo
<1>7. ASSUME NEW t \in Task, CollectMock(t) PROVE OutcomeInv'
  BY <1>7 DEF CollectMock
<1>8. ASSUME NEW t \in Task, TimeoutHandle(t) PROVE OutcomeInv'
  BY <1>8 DEF TimeoutHandle, Pending
<1>9. ASSUME NEW t \in Task, TimeoutNothing(t) PROVE OutcomeInv'
  BY <1>9 DEF TimeoutNothing, Pending, Subprocess, GroupStatus, GroupAlive
<1>10. ASSUME NEW t \in Task, TimeoutByGroup(t) PROVE OutcomeInv'
  BY <1>10 DEF TimeoutByGroup, Pending, Subprocess, GroupStatus, GroupAlive
<1>11. ASSUME NEW t \in Task, CancelQueued(t) PROVE OutcomeInv'
  BY <1>11 DEF CancelQueued
<1>12. ASSUME NEW t \in Task, CancelHandle(t) PROVE OutcomeInv'
  BY <1>12 DEF CancelHandle, Pending, CanGo
<1>13. ASSUME NEW t \in Task, CancelNothing(t) PROVE OutcomeInv'
  BY <1>13 DEF CancelNothing, Pending, Subprocess
<1>14. ASSUME NEW t \in Task, CancelWithoutHandle(t) PROVE OutcomeInv'
  BY <1>14 DEF CancelWithoutHandle, Pending, Subprocess, GroupAlive, CanGo
<1>15. ASSUME NEW t \in Task, ReconcileRefused(t) PROVE OutcomeInv'
  BY <1>15 DEF ReconcileRefused, Reconcilable, RequireRecovery, DurableRow,
               Adoptable
<1>16. ASSUME NEW t \in Task, ReconcileAdopts(t) PROVE OutcomeInv'
  BY <1>16 DEF ReconcileAdopts, Reconcilable, Adoptable, VerifiedLive,
               DurableRow
<1>17. ASSUME NEW t \in Task, ReconcileDirect(t) PROVE OutcomeInv'
  BY <1>17 DEF ReconcileDirect, Reconcilable
<1>18. ASSUME NEW t \in Task, ReconcileCursor(t) PROVE OutcomeInv'
  <2>1. CASE proc[t] # "alive" /\ Finalize(t, "uncollected")
             /\ UNCHANGED <<store, world, up, mem, restarts>>
    BY <1>18, <2>1 DEF ReconcileCursor, Reconcilable
  <2>2. CASE RequireRecovery(t)
    BY <1>18, <2>2 DEF ReconcileCursor, Reconcilable, RequireRecovery
  <2>3. QED
    BY <1>18, <2>1, <2>2 DEF ReconcileCursor
<1>19. ASSUME NEW t \in Task, ReconcileByGroup(t) PROVE OutcomeInv'
  <2>1. CASE GroupStatus(t) = "alive"
    BY <1>19, <2>1 DEF ReconcileByGroup, Reconcilable, RequireRecovery
  <2>2. CASE GroupStatus(t) # "alive"
    <3>1. ~launch[t] \/ proc[t] # "alive"
      BY <2>2 DEF GroupStatus, GroupAlive
    <3>2. QED
      BY <1>19, <2>2, <3>1 DEF ReconcileByGroup, Reconcilable
  <2>3. QED
    BY <2>1, <2>2
<1>20. ASSUME NEW t \in Task, CommitProof(t) PROVE OutcomeInv'
  BY <1>20 DEF CommitProof
<1>21. ASSUME NEW t \in Task, RuntimeEnds(t) PROVE OutcomeInv'
  BY <1>21 DEF RuntimeEnds, Ends
<1>22. ASSUME NEW t \in Task, HelpersEnd(t) PROVE OutcomeInv'
  BY <1>22 DEF HelpersEnd
<1>23. ASSUME NEW t \in Task,
              SupervisorFinalizes(t) \/ SupervisorGone(t)
       PROVE  OutcomeInv'
  BY <1>23 DEF SupervisorFinalizes, SupervisorGone
<1>24. ASSUME NEW t \in Task, RecoveryLeaseExpires(t) PROVE OutcomeInv'
  BY <1>24 DEF RecoveryLeaseExpires
<1>25. CASE Enqueue
  BY <1>25 DEF Enqueue
<1>26. CASE AcquireLease
  BY <1>26 DEF AcquireLease, SourceLeased
<1>27. CASE LeaseRefused
  BY <1>27 DEF LeaseRefused
<1>28. CASE CaptureHeadRaises
  BY <1>28 DEF CaptureHeadRaises
<1>29. CASE CreateWorktree
  BY <1>29 DEF CreateWorktree
<1>30. CASE CreateWorktreeFails
  BY <1>30 DEF CreateWorktreeFails
<1>31. CASE SpawnMock
  BY <1>31 DEF SpawnMock
<1>32. CASE SpawnDirect
  BY <1>32 DEF SpawnDirect
<1>33. CASE SpawnCursor
  BY <1>33 DEF SpawnCursor
<1>34. CASE SpawnDurable
  BY <1>34 DEF SpawnDurable
<1>35. CASE LaunchProven
  BY <1>35 DEF LaunchProven
<1>36. CASE SpawnRaises
  BY <1>36 DEF SpawnRaises
<1>37. CASE LaunchTimesOut
  BY <1>37 DEF LaunchTimesOut
<1>38. CASE RecordLaunch
  BY <1>38 DEF RecordLaunch
<1>39. CASE Gather
  BY <1>39 DEF Gather, VerifiedLive
<1>40. CASE GatherRefused
  BY <1>40 DEF GatherRefused, VerifiedLive
<1>41. CASE Persist
  <2>1. op \in Operation
    BY <1>41 DEF Persist
  <2>2. PICK c \in Candidate(op.task) : \E final \in Gated(c) :
           /\ result' = [result EXCEPT ![op.task] = c]
           /\ Proceed("release_tree", final)
    BY <1>41 DEF Persist
  <2>3. PICK final \in Gated(c) :
           /\ result' = [result EXCEPT ![op.task] = c]
           /\ Proceed("release_tree", final)
    BY <2>2
  <2>4. op.task \in Task /\ final \in SuccessState \cup {"failed"}
    BY <2>1, <2>3 DEF Candidate, Gated
  <2>5. final \in SuccessState => SuccessBacked(op.task)'
    <3> SUFFICES ASSUME final \in SuccessState
                 PROVE  SuccessBacked(op.task)'
      OBVIOUS
    <3>1. c \in SuccessState
      BY <2>3 DEF Gated
    <3>2. req[op.task].runtime \notin Completable => exit[op.task] = "ok"
      BY <2>3, <3>1, <1>41 DEF Candidate, Persist
    <3>3. req[op.task].runtime \notin Completable => proc[op.task] # "alive"
      BY <1>41 DEF Persist
    <3>4. QED
      BY <1>41, <2>1, <2>3, <2>4, <3>1, <3>2, <3>3 DEF Persist
  <2>6. QED
    BY <1>41, <2>1, <2>3, <2>4, <2>5 DEF Persist
<1>42. CASE KillDirect
  BY <1>42 DEF KillDirect, Confirmed, Unconfirmed, Ends
<1>43. CASE KillGroup
  BY <1>43 DEF KillGroup, Confirmed, Unconfirmed
<1>44. CASE KillDurable
  BY <1>44 DEF KillDurable, Confirmed, Unconfirmed, Ends, VerifiedLive
<1>45. CASE KillAdopted
  BY <1>45 DEF KillAdopted, Confirmed, Unconfirmed, Ends, VerifiedLive
<1>46. CASE ReleaseTree
  BY <1>46 DEF ReleaseTree
<1>47. CASE ReleaseRow
  BY <1>47 DEF ReleaseRow
<1>48. CASE Transit
  BY <1>48 DEF Transit, CanGo
<1>49. CASE TransitCancelling
  BY <1>49 DEF TransitCancelling, CanGo
<1>50. CASE Crash
  BY <1>50 DEF Crash, BrokerGone
<1>51. CASE Close
  BY <1>51 DEF Close, BrokerGone
<1>52. CASE Restart
  BY <1>52 DEF Restart
<1>53. CASE UNCHANGED vars
  BY <1>53 DEF vars
<1>54. QED
  BY <1>1, <1>2, <1>3, <1>4, <1>5, <1>6, <1>7, <1>8, <1>9, <1>10, <1>11,
     <1>12, <1>13, <1>14, <1>15, <1>16, <1>17, <1>18, <1>19, <1>20, <1>21,
     <1>22, <1>23, <1>24, <1>25, <1>26, <1>27, <1>28, <1>29, <1>30, <1>31,
     <1>32, <1>33, <1>34, <1>35, <1>36, <1>37, <1>38, <1>39, <1>40, <1>41,
     <1>42, <1>43, <1>44, <1>45, <1>46, <1>47, <1>48, <1>49, <1>50, <1>51,
     <1>52, <1>53
     DEF Next, Client, Reconcile, Continue, Outside

(* The inductive invariant holds in every behaviour.                       *)
LEMMA OutcomeInvariant ==
    ASSUME MockOnly
    PROVE  Spec => []OutcomeInv
<1>1. Init => OutcomeInv
  BY OutcomeInit
<1>2. TypeOK /\ WriterInv /\ OutcomeInv /\ [Next]_vars => OutcomeInv'
  BY OutcomeStep
<1>3. QED
  BY <1>1, <1>2, WriterInvariant, PTL DEF Spec

(* Recovery never fabricates a success: a recorded one has a successful    *)
(* result and a runtime that ended with status 0.                          *)
THEOREM SuccessSafe ==
    ASSUME MockOnly
    PROVE  Spec => []SuccessIsObserved
<1>1. OutcomeInv => SuccessIsObserved
  BY DEF OutcomeInv
<1>2. QED
  BY <1>1, OutcomeInvariant, PTL

(* A recorded launch of a cancelled or timed out task has no living        *)
(* leader.                                                                 *)
THEOREM StopSafe ==
    ASSUME MockOnly
    PROVE  Spec => []ClaimedStopIsStopped
<1>1. OutcomeInv => ClaimedStopIsStopped
  BY DEF OutcomeInv
<1>2. QED
  BY <1>1, OutcomeInvariant, PTL

(* Only a failed task goes on blocking its source.                         *)
THEOREM SettledSafe ==
    ASSUME MockOnly
    PROVE  Spec => []SettledTaskFreesSource
<1>1. OutcomeInv => SettledTaskFreesSource
  BY DEF OutcomeInv
<1>2. QED
  BY <1>1, OutcomeInvariant, PTL

(* Where directories can be removed, every worktree on disk has an active  *)
(* lease row, wherever a crash falls.                                      *)
THEOREM WorktreeSafe ==
    ASSUME MockOnly, ~RemovalFails
    PROVE  Spec => []NoOrphanWorktree
<1>1. OutcomeInv => NoOrphanWorktree
  BY DEF OutcomeInv, TreeBeforeRow
<1>2. QED
  BY <1>1, OutcomeInvariant, PTL

-----------------------------------------------------------------------------
(* BrokerLifecycle implements IsolatedWriters: four kinds of steps move a  *)
(* task (the lease is acquired, the launch recorded, the lease released,   *)
(* the leader of a writer ends), and everything else, losses of the broker *)
(* included, is a stutter.                                                 *)

(* Only isolated tasks come to acquire a lease and have one, and a release *)
(* of the row comes after the worktree of an active lease.                 *)
IsolationInv ==
    /\ \A t \in Task : lease[t] # "none" => req[t].isolated
    /\ op.at = "acquire" => req[op.task].isolated
    /\ op.at = "release_row" => lease[op.task] = "active"

(* The operations as far as they neither request, lease, launch nor kill.  *)
LEMMA ClientQuiet ==
    ASSUME NEW t \in Task, Client(t) \/ Reconcile(t), ~Create(t)
    PROVE  UNCHANGED <<req, lease, launch, proc>>
BY DEF Client, Reconcile, world, store, broker, RequireRecovery,
       StartRejected, StartPrepare, Complete, CollectHandle,
       CollectAdopted, CollectMock, TimeoutHandle, TimeoutNothing,
       TimeoutByGroup, CancelQueued, CancelHandle, CancelNothing,
       CancelWithoutHandle, ReconcileRefused, ReconcileAdopts,
       ReconcileDirect, ReconcileCursor, ReconcileByGroup

Ender == KillDirect \/ KillGroup \/ KillDurable \/ KillAdopted
Spawner == SpawnDirect \/ SpawnCursor \/ SpawnDurable

LEMMA ContinueQuiet ==
    ASSUME Continue, ~AcquireLease, ~RecordLaunch, ~ReleaseRow, ~Spawner,
           ~Ender
    PROVE  UNCHANGED <<req, lease, launch, proc>>
BY DEF Ender, Spawner, Continue, world, store, Enqueue, LeaseRefused,
       CaptureHeadRaises, CreateWorktree, CreateWorktreeFails,
       SpawnMock, LaunchProven, SpawnRaises, LaunchTimesOut,
       Gather, GatherRefused, Persist, ReleaseTree, Transit,
       TransitCancelling

(* The invariant of the allocation, one case per operation that gets to    *)
(* "acquire" or "release_row" or changes what it speaks of there.          *)
LEMMA IsolationStep ==
    TypeOK /\ WriterInv /\ IsolationInv /\ [Next]_vars => IsolationInv'
<1> SUFFICES ASSUME TypeOK, WriterInv, IsolationInv, [Next]_vars
             PROVE  IsolationInv'
  OBVIOUS
<1> USE NoTaskAssumption
    DEF TypeOK, IsolationInv, store, world, broker, Free, At, Begin, Goto,
        Proceed, Move, Finalize, Operation, Idle
<1>1. ASSUME NEW t \in Task, Client(t) PROVE IsolationInv'
  <2>1. CASE Create(t)
    BY <2>1 DEF Create, WriterInv, UnstartedIsFresh, Unstarted
  <2>2. CASE StartPrepare(t)
    BY <2>2 DEF StartPrepare
  <2>3. CASE op' = op /\ UNCHANGED <<req, lease>>
    BY <2>3
  <2>4. CASE /\ op'.at \notin {"acquire", "release_row"}
             /\ UNCHANGED <<req, lease>>
    BY <2>4
  <2>5. QED
    BY <1>1, <2>1, <2>2, <2>3, <2>4
       DEF Client, Pending, StartRejected, Complete, CollectHandle,
           CollectAdopted, CollectMock, TimeoutHandle, TimeoutNothing,
           TimeoutByGroup, CancelQueued, CancelHandle, CancelNothing,
           CancelWithoutHandle
<1>2. ASSUME NEW t \in Task, Reconcile(t) PROVE IsolationInv'
  BY <1>2 DEF Reconcile, Reconcilable, RequireRecovery, ReconcileRefused,
              ReconcileAdopts, ReconcileDirect, ReconcileCursor,
              ReconcileByGroup
<1>3. CASE Enqueue \/ AcquireLease \/ LeaseRefused \/ CaptureHeadRaises
           \/ CreateWorktree
  BY <1>3 DEF Enqueue, AcquireLease, LeaseRefused, CaptureHeadRaises,
              CreateWorktree
<1>4. CASE CreateWorktreeFails
  BY <1>4 DEF CreateWorktreeFails, WriterInv, AllocatedBeforeLaunch
<1>5. CASE SpawnMock \/ Spawner \/ LaunchProven \/ SpawnRaises
           \/ LaunchTimesOut \/ RecordLaunch
  BY <1>5 DEF Spawner, SpawnMock, SpawnDirect, SpawnCursor, SpawnDurable,
              LaunchProven, SpawnRaises, LaunchTimesOut, RecordLaunch
<1>6. CASE Gather \/ GatherRefused \/ Persist
  BY <1>6 DEF Gather, GatherRefused, Persist
<1>7. CASE Ender
  BY <1>7 DEF Ender, KillDirect, KillGroup, KillDurable, KillAdopted,
              Confirmed, Unconfirmed
<1>8. CASE ReleaseTree \/ ReleaseRow \/ Transit \/ TransitCancelling
  BY <1>8 DEF ReleaseTree, ReleaseRow, Transit, TransitCancelling
<1>9. ASSUME NEW t \in Task, Outside(t) PROVE IsolationInv'
  BY <1>9 DEF Outside, CommitProof, RuntimeEnds, HelpersEnd,
              SupervisorFinalizes, SupervisorGone, RecoveryLeaseExpires
<1>10. CASE Crash \/ Close \/ Restart
  BY <1>10 DEF Crash, Close, Restart, BrokerGone
<1>11. CASE UNCHANGED vars
  BY <1>11 DEF vars
<1>12. QED
  BY <1>1, <1>2, <1>3, <1>4, <1>5, <1>6, <1>7, <1>8, <1>9, <1>10, <1>11
     DEF Next, Continue, Spawner, Ender

(* The allocation's invariant holds in every behaviour.                    *)
LEMMA IsolationInvariant ==
    ASSUME MockOnly
    PROVE  Spec => []IsolationInv
<1>1. Init => IsolationInv
  BY DEF Init, Idle, IsolationInv
<1>2. QED
  BY <1>1, IsolationStep, WriterInvariant, PTL DEF Spec

-----------------------------------------------------------------------------
(* The kinds of steps, by what they do to the task as IsolatedWriters sees *)
(* it.                                                                     *)

Same(t) == PhaseOf(t)' = PhaseOf(t) /\ SourceOf(t)' = SourceOf(t)

(* A task whose row, lease and launch are untouched changes its phase only *)
(* when it is a writer whose leader ends.                                  *)
LEMMA EndOfLeader ==
    ASSUME TypeOK, LiveWriterKeepsWorkspace, UNCHANGED <<req, lease, launch>>,
           NEW t \in Task, proc'[t] # "alive" \/ proc'[t] = proc[t]
    PROVE  \/ Same(t)
           \/ /\ PhaseOf(t) = "writing" /\ PhaseOf(t)' = "stopped"
              /\ SourceOf(t)' = SourceOf(t)
<1>1. SourceOf(t)' = SourceOf(t)
  BY DEF SourceOf
<1>2. CASE Writer(t) = Writer(t)'
  BY <1>1, <1>2 DEF Same, PhaseOf, TypeOK
<1>3. CASE Writer(t) /\ ~Writer(t)'
  <2>1. lease[t] = "active" /\ launch[t]
    BY <1>3 DEF LiveWriterKeepsWorkspace, Writer
  <2>2. QED
    BY <1>1, <1>3, <2>1 DEF PhaseOf
<1>4. CASE ~Writer(t) /\ Writer(t)'
  BY <1>4 DEF Writer, TypeOK
<1>5. QED
  BY <1>2, <1>3, <1>4 DEF Writer, TypeOK

(* A step that moves one task, seen through the mapping.                   *)
LEMMA OneMoves ==
    ASSUME NEW t \in Task, \A u \in Task : u # t => Same(u),
           NEW p, PhaseOf(t)' = p, NEW s, SourceOf(t)' = s
    PROVE  /\ [u \in Task |-> PhaseOf(u)]'
                 = [[u \in Task |-> PhaseOf(u)] EXCEPT ![t] = p]
           /\ [u \in Task |-> SourceOf(u)]'
                 = [[u \in Task |-> SourceOf(u)] EXCEPT ![t] = s]
           /\ SourceOf(t) = s => UNCHANGED [u \in Task |-> SourceOf(u)]
BY DEF Same

(* A step that moves no task is a stutter.                                 *)
LEMMA NoneMoves ==
    ASSUME \A u \in Task : Same(u)
    PROVE  UNCHANGED <<[u \in Task |-> PhaseOf(u)],
                       [u \in Task |-> SourceOf(u)]>>
BY DEF Same

(* A task inside has the active lease of the source it asked for.          *)
LEMMA AloneInSource ==
    ASSUME TypeOK, LiveWriterKeepsWorkspace, NEW u \in Task,
           PhaseOf(u) \in {"holding", "writing", "stopped"}
    PROVE  lease[u] = "active" /\ SourceOf(u) = req[u].source
<1>1. lease[u] = "active"
  BY DEF PhaseOf, Writer, LiveWriterKeepsWorkspace, TypeOK
<1>2. QED
  BY <1>1 DEF SourceOf

(* Acquiring the lease is taking the source: the unique index admits it    *)
(* only when no task inside has that source.                               *)
LEMMA AcquireTakes ==
    ASSUME TypeOK, WriterInv, IsolationInv, AcquireLease
    PROVE  Isolation!Next
<1> PICK t, s : t = op.task /\ s = req[t].source
  OBVIOUS
<1>1. /\ t \in Task /\ req[t].isolated /\ lease[t] = "none" /\ ~launch[t]
      /\ lease' = [lease EXCEPT ![t] = "active"]
      /\ UNCHANGED <<req, launch, proc>>
  BY NoTaskAssumption
     DEF AcquireLease, At, TypeOK, Operation, Idle, WriterInv,
         AllocatedBeforeLaunch, Unlaunched, IsolationInv, world
<1>2. s \in Source
  BY <1>1 DEF TypeOK, Source, NoRequest
<1>3. /\ PhaseOf(t) = "outside" /\ PhaseOf(t)' = "holding"
      /\ SourceOf(t)' = s
  <2>1. PhaseOf(t) = "outside"
    BY <1>1 DEF PhaseOf, Writer
  <2>2. lease'[t] = "active" /\ launch'[t] = FALSE /\ req'[t] = req[t]
    BY <1>1 DEF TypeOK
  <2>3. PhaseOf(t)' = "holding"
    BY <2>2 DEF PhaseOf, Writer
  <2>4. SourceOf(t)' = s
    BY <2>2 DEF SourceOf
  <2>5. QED
    BY <2>1, <2>3, <2>4
<1>4. \A u \in Task : u # t => Same(u)
  BY <1>1 DEF Same, PhaseOf, SourceOf, Writer, TypeOK
<1>5. \A u \in Task :
          PhaseOf(u) \in {"holding", "writing", "stopped"} => SourceOf(u) # s
  BY AloneInSource DEF WriterInv, AcquireLease, SourceLeased
<1>6. Isolation!Take(t, s)
  <2>1. /\ [u \in Task |-> PhaseOf(u)]'
              = [[u \in Task |-> PhaseOf(u)] EXCEPT ![t] = "holding"]
        /\ [u \in Task |-> SourceOf(u)]'
              = [[u \in Task |-> SourceOf(u)] EXCEPT ![t] = s]
    BY <1>1, <1>3, <1>4, OneMoves
  <2>2. [u \in Task |-> PhaseOf(u)][t] = "outside"
    BY <1>1, <1>3
  <2>3. QED
    BY <1>5, <2>1, <2>2
       DEF Isolation!Take, Isolation!Inside, Isolation!Goes
<1>7. QED
  BY <1>1, <1>2, <1>6 DEF Isolation!Next

(* A task that keeps its source and goes on to a later phase writes,       *)
(* stops or leaves.                                                        *)
LEMMA MovesOn ==
    ASSUME NEW t \in Task, \A u \in Task : u # t => Same(u),
           SourceOf(t)' = SourceOf(t),
           \/ PhaseOf(t) = "holding" /\ PhaseOf(t)' = "writing"
           \/ /\ PhaseOf(t) \in {"holding", "writing"}
              /\ PhaseOf(t)' = "stopped"
           \/ /\ PhaseOf(t) \in {"holding", "stopped"}
              /\ PhaseOf(t)' = "left"
    PROVE  Isolation!Next
<1>1. /\ [u \in Task |-> PhaseOf(u)]'
            = [[u \in Task |-> PhaseOf(u)] EXCEPT ![t] = PhaseOf(t)']
      /\ UNCHANGED [u \in Task |-> SourceOf(u)]
  BY DEF Same
<1>2. [u \in Task |-> PhaseOf(u)][t] = PhaseOf(t)
  OBVIOUS
<1>3. Isolation!Write(t) \/ Isolation!Stop(t) \/ Isolation!Leave(t)
  BY <1>1, <1>2
     DEF Isolation!Write, Isolation!Stop, Isolation!Leave, Isolation!Goes
<1>4. QED
  BY <1>3 DEF Isolation!Next

-----------------------------------------------------------------------------
(* The steps of the broker and of the world.                               *)

Stutters == UNCHANGED <<[u \in Task |-> PhaseOf(u)],
                        [u \in Task |-> SourceOf(u)]>>

(* The end of one runtime's leader stops a writer or shows nothing.        *)
LEMMA EndImplements ==
    ASSUME TypeOK, WriterInv, UNCHANGED <<req, lease, launch>>,
           NEW t \in Task, proc'[t] # "alive" \/ proc'[t] = proc[t],
           \A u \in Task : u # t => proc'[u] = proc[u]
    PROVE  Isolation!Next \/ Stutters
<1>1. \A u \in Task : u # t => Same(u)
  BY DEF Same, PhaseOf, SourceOf, Writer
<1>2. CASE Same(t)
  BY <1>1, <1>2, NoneMoves DEF Stutters
<1>3. CASE /\ PhaseOf(t) = "writing" /\ PhaseOf(t)' = "stopped"
           /\ SourceOf(t)' = SourceOf(t)
  BY <1>1, <1>3, MovesOn
<1>4. QED
  BY <1>2, <1>3, EndOfLeader DEF WriterInv

(* A new task is outside.                                                  *)
LEMMA CreateImplements ==
    ASSUME TypeOK, WriterInv, NEW t \in Task, Create(t)
    PROVE  Stutters
<1>1. /\ lease[t] = "none" /\ ~launch[t] /\ UNCHANGED <<lease, launch, proc>>
      /\ \A u \in Task : u # t => req'[u] = req[u]
  BY DEF Create, WriterInv, UnstartedIsFresh, Unstarted, Unlaunched, TypeOK,
         world
<1>2. \A u \in Task : Same(u)
  BY <1>1 DEF Same, PhaseOf, SourceOf, Writer
<1>3. QED
  BY <1>2, NoneMoves DEF Stutters

(* A launch is seen when it is recorded: its task writes, unless the       *)
(* runtime is gone by then.                                                *)
LEMMA RecordImplements ==
    ASSUME TypeOK, WriterInv, IsolationInv, RecordLaunch
    PROVE  Isolation!Next \/ Stutters
<1> PICK t : t = op.task
  OBVIOUS
<1>1. /\ t \in Task /\ ~launch[t] /\ launch' = [launch EXCEPT ![t] = TRUE]
      /\ req[t].isolated => lease[t] = "active"
      /\ UNCHANGED <<req, lease, proc>>
  BY NoTaskAssumption
     DEF RecordLaunch, At, TypeOK, Operation, Idle, WriterInv,
         AllocatedBeforeLaunch, world
<1>2. \A u \in Task : u # t => Same(u)
  BY <1>1 DEF Same, PhaseOf, SourceOf, Writer, TypeOK
<1>3. SourceOf(t)' = SourceOf(t)
  BY <1>1 DEF SourceOf
<1>4. launch'[t] = TRUE
  BY <1>1 DEF TypeOK
<1>5. CASE req[t].isolated
  <2>1. PhaseOf(t) = "holding"
    BY <1>1, <1>5 DEF PhaseOf, Writer
  <2>2. PhaseOf(t)' \in {"writing", "stopped"}
    BY <1>1, <1>4, <1>5 DEF PhaseOf, Writer
  <2>3. QED
    BY <1>1, <1>2, <1>3, <2>1, <2>2, MovesOn
<1>6. CASE ~req[t].isolated
  <2>1. lease[t] = "none"
    BY <1>1, <1>6 DEF IsolationInv
  <2>2. Same(t)
    BY <1>1, <1>3, <1>6, <2>1 DEF Same, PhaseOf, Writer
  <2>3. QED
    BY <1>2, <2>2, NoneMoves DEF Stutters
<1>7. QED
  BY <1>5, <1>6

(* The lease row is released by a task that does not write.                *)
LEMMA ReleaseLeaves ==
    ASSUME TypeOK, WriterInv, IsolationInv, ReleaseRow
    PROVE  Isolation!Next
<1> PICK t : t = op.task
  OBVIOUS
<1>1. /\ t \in Task /\ lease[t] = "active" /\ ~Writer(t)
      /\ lease' = [lease EXCEPT ![t] = "released"]
      /\ UNCHANGED <<req, launch, proc>>
  BY NoTaskAssumption
     DEF ReleaseRow, At, TypeOK, Operation, Idle, WriterInv,
         ReleasedHasEnded, IsolationInv, world
<1>2. \A u \in Task : u # t => Same(u)
  BY <1>1 DEF Same, PhaseOf, SourceOf, Writer, TypeOK
<1>3. lease'[t] = "released"
  BY <1>1 DEF TypeOK
<1>4. SourceOf(t)' = SourceOf(t)
  BY <1>1, <1>3 DEF SourceOf
<1>5. PhaseOf(t) \in {"holding", "stopped"}
  BY <1>1 DEF PhaseOf
<1>6. PhaseOf(t)' = "left"
  BY <1>1, <1>3 DEF PhaseOf, Writer
<1>7. QED
  BY <1>1, <1>2, <1>4, <1>5, <1>6, MovesOn

(* What is spawned is not seen before its launch is recorded.              *)
LEMMA SpawnStutters ==
    ASSUME TypeOK, WriterInv, Spawner
    PROVE  Stutters
<1>1. /\ ~launch[op.task] /\ UNCHANGED <<req, lease, launch>>
      /\ \A u \in Task : u # op.task => proc'[u] = proc[u]
  BY DEF Spawner, SpawnDirect, SpawnCursor, SpawnDurable, At, store,
         TypeOK, WriterInv, AllocatedBeforeLaunch
<1>2. \A u \in Task : Same(u)
  BY <1>1 DEF Same, PhaseOf, SourceOf, Writer
<1>3. QED
  BY <1>2, NoneMoves DEF Stutters

(* Stopping a runtime ends at most its leader.                             *)
LEMMA EnderImplements ==
    ASSUME TypeOK, WriterInv, Ender
    PROVE  Isolation!Next \/ Stutters
<1> PICK t : t = op.task
  OBVIOUS
<1>1. t \in Task
  BY NoTaskAssumption
     DEF Ender, KillDirect, KillGroup, KillDurable, KillAdopted, At, TypeOK,
         Operation, Idle
<1>2. UNCHANGED <<req, lease, launch>>
  BY DEF Ender, KillDirect, KillGroup, KillDurable, KillAdopted, store
<1>3. \/ UNCHANGED proc
      \/ \E p \in {"dead", "lingering"} : proc' = [proc EXCEPT ![t] = p]
  BY DEF Ender, KillDirect, KillGroup, KillDurable, KillAdopted, Ends
<1>4. /\ proc'[t] # "alive" \/ proc'[t] = proc[t]
      /\ \A u \in Task : u # t => proc'[u] = proc[u]
  BY <1>1, <1>3 DEF TypeOK
<1>5. QED
  BY <1>1, <1>2, <1>4, EndImplements

(* Runtimes end by themselves; proofs, manifests and recovery leases are   *)
(* not seen.                                                               *)
LEMMA OutsideImplements ==
    ASSUME TypeOK, WriterInv, NEW t \in Task, Outside(t)
    PROVE  Isolation!Next \/ Stutters
<1>1. UNCHANGED <<req, lease, launch>>
  BY DEF Outside, CommitProof, RuntimeEnds, HelpersEnd, SupervisorFinalizes,
         SupervisorGone, RecoveryLeaseExpires, store
<1>2. \/ UNCHANGED proc
      \/ \E p \in {"dead", "lingering"} : proc' = [proc EXCEPT ![t] = p]
  BY DEF Outside, CommitProof, RuntimeEnds, HelpersEnd, SupervisorFinalizes,
         SupervisorGone, RecoveryLeaseExpires, world, Ends
<1>3. /\ proc'[t] # "alive" \/ proc'[t] = proc[t]
      /\ \A u \in Task : u # t => proc'[u] = proc[u]
  BY <1>2 DEF TypeOK
<1>4. QED
  BY <1>1, <1>3, EndImplements

(* A loss of the broker ends its request threads, and no isolated task is  *)
(* one.                                                                    *)
LEMMA LossStutters ==
    ASSUME TypeOK, WriterInv, Crash \/ Close
    PROVE  Stutters
<1>1. UNCHANGED <<req, lease, launch>>
  BY DEF Crash, Close
<1>2. \A u \in Task : req[u].runtime # "direct" => proc'[u] = proc[u]
  BY DEF Crash, Close, BrokerGone
<1>3. \A u \in Task : launch[u] /\ req[u].isolated => proc'[u] = proc[u]
  BY <1>2 DEF WriterInv, LaunchedIsSubprocess, Subprocess
<1>4. \A u \in Task : Same(u)
  BY <1>1, <1>3 DEF Same, PhaseOf, SourceOf, Writer
<1>5. QED
  BY <1>4, NoneMoves DEF Stutters

(* What changes nothing of the mapping is a stutter.                       *)
LEMMA QuietStutters ==
    ASSUME UNCHANGED <<req, lease, launch, proc>>
    PROVE  Stutters
<1>1. \A u \in Task : Same(u)
  BY DEF Same, PhaseOf, SourceOf, Writer
<1>2. QED
  BY <1>1, NoneMoves DEF Stutters

(* Every step of BrokerLifecycle is a step of IsolatedWriters or a         *)
(* stutter of it.                                                          *)
LEMMA StepImplements ==
    ASSUME TypeOK, WriterInv, IsolationInv, [Next]_vars
    PROVE  Isolation!Next \/ Stutters
<1>1. ASSUME NEW t \in Task, Client(t) \/ Reconcile(t)
      PROVE  Stutters
  BY <1>1, ClientQuiet, CreateImplements, QuietStutters
<1>2. CASE Continue
  BY <1>2, ContinueQuiet, QuietStutters, AcquireTakes, RecordImplements,
     ReleaseLeaves, SpawnStutters, EnderImplements
<1>3. ASSUME NEW t \in Task, Outside(t)
      PROVE  Isolation!Next \/ Stutters
  BY <1>3, OutsideImplements
<1>4. CASE Crash \/ Close
  BY <1>4, LossStutters
<1>5. CASE Restart \/ UNCHANGED vars
  <2>1. UNCHANGED <<req, lease, launch, proc>>
    BY <1>5 DEF Restart, vars, store, world
  <2>2. QED
    BY <2>1, QuietStutters
<1>6. QED
  BY <1>1, <1>2, <1>3, <1>4, <1>5 DEF Next

(* Before any task exists all are outside.                                 *)
LEMMA InitImplements == Init => Isolation!Init
BY DEF Init, PhaseOf, SourceOf, Writer, NoRequest, Isolation!Init

(* Whatever operations, crashes and recoveries do to a task, it goes       *)
(* through its source as IsolatedWriters says: alone, launched once, and   *)
(* out only when its writer has ended.                                     *)
THEOREM ImplementsSafe ==
    ASSUME MockOnly
    PROVE  Spec => ImplementsIsolation
<1>1. TypeOK /\ WriterInv /\ IsolationInv /\ [Next]_vars
        => [Isolation!Next]_<<[t \in Task |-> PhaseOf(t)],
                              [t \in Task |-> SourceOf(t)]>>
  BY StepImplements DEF Stutters
<1>2. Spec => /\ Isolation!Init
              /\ [][Isolation!Next]_<<[t \in Task |-> PhaseOf(t)],
                                      [t \in Task |-> SourceOf(t)]>>
  BY <1>1, InitImplements, WriterInvariant, IsolationInvariant, PTL DEF Spec
<1>3. QED
  BY <1>2, PTL DEF ImplementsIsolation, Isolation!Spec

-----------------------------------------------------------------------------
(* Launches, as RuntimeLaunches has them.                                  *)

(* Whatever a broker holds or is about to stop has been launched, whatever *)
(* tells of a launch has a launch to tell of, and an end has an exit.      *)
LaunchInv ==
    /\ \A t \in Task : proc[t] \in {"lingering", "dead"} <=> exit[t] # "none"
    /\ \A t \in Task : mem[t] = "process" => proc[t] # "none"
    /\ \A t \in Task : manifest[t] # "none" \/ sup[t] => proc[t] # "none"
    /\ op.at = "kill" /\ op.how \in {"pgid", "process"} => proc[op.task] # "none"

(* Every step keeps it.                                                    *)
LEMMA LaunchInvStep ==
    ASSUME TypeOK, WriterInv, LaunchInv, [Next]_vars
    PROVE  LaunchInv'
<1> USE NoTaskAssumption
    DEF TypeOK, store, world, broker, Free, At, Begin, Goto, Proceed, Move,
        Finalize, Operation, Idle, LaunchInv
<1>1. ASSUME NEW t \in Task, Client(t) PROVE LaunchInv'
  <2>1. CASE Create(t) \/ StartRejected(t) \/ StartPrepare(t) \/ Complete(t)
    BY <2>1 DEF Create, StartRejected, StartPrepare, Complete
  <2>2. CASE CollectHandle(t) \/ CollectAdopted(t) \/ CollectMock(t)
    BY <2>2 DEF CollectHandle, CollectAdopted, CollectMock
  <2>3. CASE TimeoutHandle(t) \/ TimeoutNothing(t)
    BY <2>3 DEF TimeoutHandle, TimeoutNothing
  <2>4. CASE TimeoutByGroup(t)
    BY <2>4 DEF TimeoutByGroup, GroupStatus, GroupAlive
  <2>5. CASE CancelQueued(t) \/ CancelHandle(t) \/ CancelNothing(t)
    BY <2>5 DEF CancelQueued, CancelHandle, CancelNothing
  <2>6. CASE CancelWithoutHandle(t)
    BY <2>6 DEF CancelWithoutHandle, GroupAlive
  <2>7. QED
    BY <1>1, <2>1, <2>2, <2>3, <2>4, <2>5, <2>6 DEF Client
<1>2. ASSUME NEW t \in Task, Reconcile(t) PROVE LaunchInv'
  BY <1>2 DEF Reconcile, RequireRecovery, ReconcileRefused, ReconcileAdopts,
              ReconcileDirect, ReconcileCursor, ReconcileByGroup
<1>3. CASE Enqueue \/ AcquireLease \/ LeaseRefused \/ CaptureHeadRaises
           \/ CreateWorktree \/ CreateWorktreeFails
  BY <1>3 DEF Enqueue, AcquireLease, LeaseRefused, CaptureHeadRaises,
              CreateWorktree, CreateWorktreeFails
<1>4. CASE Spawner
  BY <1>4 DEF Spawner, SpawnDirect, SpawnCursor, SpawnDurable, WriterInv,
              AllocatedBeforeLaunch, Unlaunched
<1>5. CASE SpawnMock \/ LaunchProven \/ SpawnRaises \/ LaunchTimesOut
           \/ RecordLaunch
  BY <1>5 DEF SpawnMock, LaunchProven, SpawnRaises, LaunchTimesOut,
              RecordLaunch
<1>6. CASE Gather \/ GatherRefused \/ Persist
  BY <1>6 DEF Gather, GatherRefused, Persist
<1>7. CASE KillDirect \/ KillGroup
  BY <1>7 DEF KillDirect, KillGroup, Ends, Confirmed, Unconfirmed, GroupAlive
<1>8. CASE KillDurable
  BY <1>8 DEF KillDurable, Ends, Confirmed, Unconfirmed, VerifiedLive
<1>9. CASE KillAdopted
  BY <1>9 DEF KillAdopted, Ends, Confirmed, Unconfirmed
<1>10. CASE ReleaseTree \/ ReleaseRow \/ Transit \/ TransitCancelling
  BY <1>10 DEF ReleaseTree, ReleaseRow, Transit, TransitCancelling
<1>11. ASSUME NEW t \in Task, Outside(t) PROVE LaunchInv'
  BY <1>11 DEF Outside, CommitProof, RuntimeEnds, Ends, HelpersEnd,
               SupervisorFinalizes, SupervisorGone, RecoveryLeaseExpires
<1>12. CASE Crash \/ Close \/ Restart
  BY <1>12 DEF Crash, Close, Restart, BrokerGone
<1>13. CASE UNCHANGED vars
  BY <1>13 DEF vars
<1>14. QED
  BY <1>1, <1>2, <1>3, <1>4, <1>5, <1>6, <1>7, <1>8, <1>9, <1>10, <1>11,
     <1>12, <1>13 DEF Next, Continue, Spawner

(* What is true of the launch of every task in a step.                     *)
Passed(t) ==
    /\ \/ LeaderOf(t)' = LeaderOf(t) /\ exit'[t] = exit[t]
       \/ /\ LeaderOf(t) = "alive" /\ LeaderOf(t)' = "ended"
          /\ exit'[t] \in {"ok", "bad"}
    /\ sup'[t] = sup[t] \/ sup'[t] = FALSE
    /\ manifest'[t] = manifest[t]

LEMMA PassedPasses ==
    ASSUME NEW t \in Task, Passed(t)
    PROVE  Launches!Passes(t)
BY DEF Passed, Launches!Passes, Launches!Ends, Launches!Stays

(* A step that touches no runtime and no manifest is not seen.             *)
LEMMA QuietPasses ==
    ASSUME UNCHANGED <<proc, exit, manifest, sup>>
    PROVE  \A t \in Task : Launches!Passes(t)
BY PassedPasses DEF Passed, LeaderOf

(* A step that leaves the leader of a task that is none, or has ended,     *)
(* where it is, and ends one that is alive with an exit.                   *)
LEMMA EndPasses ==
    ASSUME TypeOK, LaunchInv, LaunchInv', TypeOK', NEW t \in Task,
           \/ proc'[t] = proc[t]
           \/ proc[t] # "none" /\ proc'[t] \in {"lingering", "dead"},
           proc[t] # "alive" => exit'[t] = exit[t],
           proc'[t] = proc[t] => exit'[t] = exit[t],
           sup'[t] = sup[t] \/ sup'[t] = FALSE,
           manifest'[t] = manifest[t]
    PROVE  Launches!Passes(t)
<1>1. proc[t] \in {"none", "alive", "lingering", "dead"}
  BY DEF TypeOK
<1>2. CASE LeaderOf(t)' = LeaderOf(t)
  <2>1. exit'[t] = exit[t]
    BY <1>1, <1>2 DEF LeaderOf
  <2>2. QED
    BY <1>2, <2>1, PassedPasses DEF Passed
<1>3. CASE LeaderOf(t)' # LeaderOf(t)
  <2>1. proc[t] = "alive" /\ proc'[t] \in {"lingering", "dead"}
    BY <1>1, <1>3 DEF LeaderOf
  <2>2. exit'[t] \in {"ok", "bad"}
    BY <2>1 DEF LaunchInv, TypeOK
  <2>3. QED
    BY <2>1, <2>2, PassedPasses DEF Passed, LeaderOf
<1>4. QED
  BY <1>2, <1>3

(* The operations themselves, until they start or stop something, touch    *)
(* no runtime.                                                             *)
LEMMA WorldRests ==
    ASSUME \/ \E t \in Task : Client(t) \/ Reconcile(t)
           \/ Continue /\ ~Spawner /\ ~Ender
    PROVE  UNCHANGED <<proc, exit, manifest, sup>>
<1>1. ASSUME NEW t \in Task, Client(t)
      PROVE  UNCHANGED <<proc, exit, manifest, sup>>
  BY <1>1 DEF Client, world, Create, StartRejected, StartPrepare, Complete,
              CollectHandle, CollectAdopted, CollectMock, TimeoutHandle,
              TimeoutNothing, TimeoutByGroup, CancelQueued, CancelHandle,
              CancelNothing, CancelWithoutHandle
<1>2. ASSUME NEW t \in Task, Reconcile(t)
      PROVE  UNCHANGED <<proc, exit, manifest, sup>>
  BY <1>2 DEF Reconcile, RequireRecovery, ReconcileRefused, ReconcileAdopts,
              ReconcileDirect, ReconcileCursor, ReconcileByGroup, world
<1>3. CASE Continue /\ ~Spawner /\ ~Ender
  BY <1>3 DEF Continue, Spawner, Ender, world, Enqueue, AcquireLease,
              LeaseRefused, CaptureHeadRaises, CreateWorktree,
              CreateWorktreeFails, SpawnMock, LaunchProven, SpawnRaises,
              LaunchTimesOut, RecordLaunch, Gather, GatherRefused, Persist,
              ReleaseTree, ReleaseRow, Transit, TransitCancelling
<1>4. QED
  BY <1>1, <1>2, <1>3

(* A launch: nothing was launched for the task before.                     *)
LEMMA SpawnSpawns ==
    ASSUME TypeOK, WriterInv, LaunchInv, Spawner, NEW t \in Task
    PROVE  Launches!Spawns(t) \/ Launches!Passes(t)
<1>1. /\ op.task \in Task /\ proc[op.task] = "none"
      /\ proc' = [proc EXCEPT ![op.task] = "alive"] /\ UNCHANGED exit
      /\ \/ /\ manifest' = [manifest EXCEPT ![op.task] = "launching"]
            /\ sup' = [sup EXCEPT ![op.task] = TRUE]
         \/ UNCHANGED <<manifest, sup>>
  BY NoTaskAssumption
     DEF Spawner, SpawnDirect, SpawnCursor, SpawnDurable, At, TypeOK,
         Operation, Idle, WriterInv, AllocatedBeforeLaunch, Unlaunched
<1>2. CASE t = op.task
  <2>1. LeaderOf(t) = "none" /\ LeaderOf(t)' = "alive" /\ exit'[t] = exit[t]
    BY <1>1, <1>2 DEF LeaderOf, TypeOK
  <2>2. \/ manifest'[t] = "launching" /\ sup'[t] = TRUE
        \/ manifest'[t] = manifest[t] /\ sup'[t] = sup[t]
    BY <1>1, <1>2 DEF TypeOK
  <2>3. QED
    BY <2>1, <2>2 DEF Launches!Spawns
<1>3. CASE t # op.task
  <2>1. Passed(t)
    BY <1>1, <1>3 DEF Passed, LeaderOf, TypeOK
  <2>2. QED
    BY <2>1, PassedPasses
<1>4. QED
  BY <1>2, <1>3

(* Of a proven launch the supervisor writes the end, now or before now.    *)
LEMMA FinalIsWritten ==
    ASSUME TypeOK, LaunchInv, LaunchInv', TypeOK', NEW t \in Task,
           sup[t], manifest[t] = "running",
           \A u \in Task : sup'[u] = IF u = t THEN FALSE ELSE sup[u],
           \A u \in Task :
               manifest'[u] = IF u = t THEN "final" ELSE manifest[u],
           \A u \in Task : u # t => proc'[u] = proc[u] /\ exit'[u] = exit[u],
           \/ proc[t] # "alive" /\ proc'[t] = proc[t] /\ exit'[t] = exit[t]
           \/ proc[t] = "alive" /\ proc'[t] \in {"lingering", "dead"},
           NEW u \in Task
    PROVE  Launches!Finalizes(u) \/ Launches!Passes(u)
<1>1. CASE u = t
  <2>1. LeaderOf(t)' = "ended"
    BY DEF LeaderOf, TypeOK, LaunchInv
  <2>2. \/ LeaderOf(t) = "alive" /\ exit'[t] \in {"ok", "bad"}
        \/ LeaderOf(t) = "ended" /\ exit'[t] = exit[t]
    BY DEF LeaderOf, TypeOK, LaunchInv
  <2>3. QED
    BY <1>1, <2>1, <2>2
       DEF Launches!Finalizes, Launches!Ends, Launches!Stays
<1>2. CASE u # t
  <2>1. Passed(u)
    BY <1>2 DEF Passed, LeaderOf
  <2>2. QED
    BY <2>1, PassedPasses
<1>3. QED
  BY <1>1, <1>2

(* Stopping a runtime ends at most its leader, and loses or is answered by *)
(* its supervisor.                                                         *)
LEMMA EnderEnds ==
    ASSUME TypeOK, TypeOK', LaunchInv, LaunchInv', Ender, NEW u \in Task
    PROVE  Launches!Finalizes(u) \/ Launches!Passes(u)
<1> PICK t : t = op.task
  OBVIOUS
<1>1. t \in Task
  BY NoTaskAssumption
     DEF Ender, KillDirect, KillGroup, KillDurable, KillAdopted, At, TypeOK,
         Operation, Idle
<1>2. CASE /\ KillDurable /\ sup[t] /\ VerifiedLive(t)
           /\ Ends(t, {"dead", "lingering"})
           /\ manifest' = [manifest EXCEPT ![t] = "final"]
           /\ sup' = [sup EXCEPT ![t] = FALSE]
  <2>1. /\ proc[t] = "alive" /\ manifest[t] = "running"
        /\ \E p \in {"dead", "lingering"} : proc' = [proc EXCEPT ![t] = p]
        /\ \E e \in {"ok", "bad"} : exit' = [exit EXCEPT ![t] = e]
    BY <1>2 DEF VerifiedLive, Ends
  <2>2. /\ \A v \in Task : v # t => proc'[v] = proc[v] /\ exit'[v] = exit[v]
        /\ proc'[t] \in {"lingering", "dead"}
    BY <1>1, <2>1 DEF TypeOK
  <2>3. /\ \A v \in Task : sup'[v] = IF v = t THEN FALSE ELSE sup[v]
        /\ \A v \in Task :
              manifest'[v] = IF v = t THEN "final" ELSE manifest[v]
    BY <1>2 DEF TypeOK
  <2>4. QED
    BY <1>1, <1>2, <2>1, <2>2, <2>3, FinalIsWritten
<1>3. CASE /\ UNCHANGED manifest
           /\ UNCHANGED sup \/ sup' = [sup EXCEPT ![t] = FALSE]
           /\ \/ UNCHANGED <<proc, exit>>
              \/ Ends(t, {"dead", "lingering"}) \/ Ends(t, {"dead"})
              \/ /\ KillGroup
                 /\ proc' = [proc EXCEPT ![t] = "dead"]
                 /\ exit' = [exit EXCEPT ![t] = IF @ = "none" THEN "bad"
                                                ELSE @]
  <2>1. /\ manifest'[u] = manifest[u]
        /\ sup'[u] = sup[u] \/ sup'[u] = FALSE
    BY <1>1, <1>3 DEF TypeOK
  <2>2. CASE UNCHANGED <<proc, exit>>
    BY <2>1, <2>2, EndPasses
  <2>3. CASE Ends(t, {"dead", "lingering"}) \/ Ends(t, {"dead"})
    <3>1. /\ \/ proc'[u] = proc[u] /\ exit'[u] = exit[u]
             \/ proc[u] = "alive" /\ proc'[u] \in {"lingering", "dead"}
      BY <1>1, <2>3 DEF Ends, TypeOK
    <3>2. QED
      BY <2>1, <3>1, EndPasses
  <2>4. CASE /\ KillGroup
             /\ proc' = [proc EXCEPT ![t] = "dead"]
             /\ exit' = [exit EXCEPT ![t] = IF @ = "none" THEN "bad" ELSE @]
    <3>1. proc[t] # "none"
      BY <2>4 DEF KillGroup, At, LaunchInv
    <3>2. CASE u = t
      <4>1. /\ proc'[u] = "dead" /\ proc[u] # "none"
            /\ proc[u] # "alive" => exit'[u] = exit[u]
        BY <1>1, <2>4, <3>1, <3>2 DEF TypeOK, LaunchInv
      <4>2. proc'[u] = proc[u] => exit'[u] = exit[u]
        BY <4>1
      <4>3. QED
        BY <2>1, <4>1, <4>2, EndPasses
    <3>3. CASE u # t
      <4>1. proc'[u] = proc[u] /\ exit'[u] = exit[u]
        BY <2>4, <3>3 DEF TypeOK
      <4>2. QED
        BY <2>1, <4>1, EndPasses
    <3>4. QED
      BY <3>2, <3>3
  <2>5. QED
    BY <1>3, <2>2, <2>3, <2>4
<1>4. CASE KillDirect
  <2>1. UNCHANGED <<manifest, sup>>
    BY <1>4 DEF KillDirect
  <2>2. Ends(t, {"dead"}) \/ UNCHANGED <<proc, exit>>
    BY <1>4 DEF KillDirect
  <2>3. QED
    BY <1>3, <2>1, <2>2
<1>5. CASE KillGroup
  BY <1>3, <1>5 DEF KillGroup
<1>6. CASE KillDurable
  BY <1>2, <1>3, <1>6 DEF KillDurable
<1>7. CASE KillAdopted
  BY <1>3, <1>7 DEF KillAdopted
<1>8. QED
  BY <1>4, <1>5, <1>6, <1>7 DEF Ender

(* By themselves, runtimes prove themselves and end, helpers too; their    *)
(* supervisors write that, or are lost.                                    *)
LEMMA OutsidePasses ==
    ASSUME TypeOK, TypeOK', LaunchInv, LaunchInv', NEW t \in Task, Outside(t),
           NEW u \in Task
    PROVE  \/ Launches!Proves(u) \/ Launches!Finalizes(u)
           \/ Launches!Passes(u)
<1>1. CASE CommitProof(t)
  <2>1. /\ proc[t] = "alive" /\ manifest[t] = "launching"
        /\ manifest' = [manifest EXCEPT ![t] = "running"]
        /\ UNCHANGED <<proc, exit, sup>>
    BY <1>1 DEF CommitProof
  <2>2. CASE u = t
    BY <2>1, <2>2 DEF TypeOK, LeaderOf, Launches!Proves, Launches!Stays
  <2>3. CASE u # t
    <3>1. Passed(u)
      BY <2>1, <2>3 DEF Passed, LeaderOf, TypeOK
    <3>2. QED
      BY <3>1, PassedPasses
  <2>4. QED
    BY <2>2, <2>3
<1>2. CASE RuntimeEnds(t)
  <2>1. /\ \/ proc'[u] = proc[u] /\ exit'[u] = exit[u]
           \/ proc[u] = "alive" /\ proc'[u] \in {"lingering", "dead"}
        /\ manifest'[u] = manifest[u] /\ sup'[u] = sup[u]
    BY <1>2 DEF RuntimeEnds, Ends, TypeOK
  <2>2. QED
    BY <2>1, EndPasses
<1>3. CASE HelpersEnd(t)
  <2>1. /\ \/ proc'[u] = proc[u]
           \/ proc[u] = "lingering" /\ proc'[u] = "dead"
        /\ exit'[u] = exit[u]
        /\ manifest'[u] = manifest[u] /\ sup'[u] = sup[u]
    BY <1>3 DEF HelpersEnd, TypeOK
  <2>2. QED
    BY <2>1, EndPasses
<1>4. CASE SupervisorFinalizes(t)
  <2>1. /\ sup[t] /\ manifest[t] = "running" /\ proc[t] # "alive"
        /\ \A v \in Task : proc'[v] = proc[v] /\ exit'[v] = exit[v]
        /\ \A v \in Task : sup'[v] = IF v = t THEN FALSE ELSE sup[v]
        /\ \A v \in Task :
              manifest'[v] = IF v = t THEN "final" ELSE manifest[v]
    BY <1>4 DEF SupervisorFinalizes, TypeOK
  <2>2. QED
    BY <2>1, FinalIsWritten
<1>5. CASE SupervisorGone(t)
  <2>1. /\ proc'[u] = proc[u] /\ exit'[u] = exit[u]
        /\ manifest'[u] = manifest[u]
        /\ sup'[u] = sup[u] \/ sup'[u] = FALSE
    BY <1>5 DEF SupervisorGone, TypeOK
  <2>2. QED
    BY <2>1, EndPasses
<1>6. CASE RecoveryLeaseExpires(t)
  BY <1>6, QuietPasses DEF RecoveryLeaseExpires, world
<1>7. QED
  BY <1>1, <1>2, <1>3, <1>4, <1>5, <1>6 DEF Outside

(* A loss of the broker ends its request threads, and perhaps all          *)
(* supervisors.                                                            *)
LEMMA LossPasses ==
    ASSUME TypeOK, TypeOK', LaunchInv, LaunchInv', Crash \/ Close,
           NEW u \in Task
    PROVE  Launches!Passes(u)
<1>1. /\ \/ proc'[u] = proc[u] /\ exit'[u] = exit[u]
         \/ proc[u] = "alive" /\ proc'[u] = "dead"
      /\ manifest'[u] = manifest[u]
  BY DEF Crash, Close, BrokerGone
<1>2. sup'[u] = sup[u] \/ sup'[u] = FALSE
  BY DEF Crash, Close
<1>3. QED
  BY <1>1, <1>2, EndPasses

(* Every step of BrokerLifecycle is a step of RuntimeLaunches, mostly of   *)
(* one task's launch; what it leaves alone passes.                         *)
LEMMA LaunchesStep ==
    ASSUME TypeOK, TypeOK', WriterInv, LaunchInv, LaunchInv', [Next]_vars
    PROVE  Launches!Next
<1> SUFFICES ASSUME NEW u \in Task
             PROVE  \/ Launches!Spawns(u) \/ Launches!Proves(u)
                    \/ Launches!Finalizes(u) \/ Launches!Passes(u)
  BY DEF Launches!Next
<1>1. CASE \/ \E t \in Task : Client(t) \/ Reconcile(t)
           \/ Continue /\ ~Spawner /\ ~Ender
  <2>1. UNCHANGED <<proc, exit, manifest, sup>>
    BY <1>1, WorldRests
  <2>2. QED
    BY <2>1, QuietPasses
<1>2. CASE Spawner
  BY <1>2, SpawnSpawns
<1>3. CASE Ender
  BY <1>3, EnderEnds
<1>4. ASSUME NEW t \in Task, Outside(t)
      PROVE  \/ Launches!Proves(u) \/ Launches!Finalizes(u)
             \/ Launches!Passes(u)
  BY <1>4, OutsidePasses
<1>5. CASE Crash \/ Close
  BY <1>5, LossPasses
<1>6. CASE Restart \/ UNCHANGED vars
  <2>1. UNCHANGED <<proc, exit, manifest, sup>>
    BY <1>6 DEF Restart, vars, world
  <2>2. QED
    BY <2>1, QuietPasses
<1>7. QED
  BY <1>1, <1>2, <1>3, <1>4, <1>5, <1>6 DEF Next

(* Before any task exists nothing is launched.                             *)
LEMMA InitLaunches == Init => LaunchInv /\ Launches!Init
BY DEF Init, LaunchInv, LeaderOf, Idle, Launches!Init

LEMMA LaunchInvariant ==
    ASSUME MockOnly
    PROVE  Spec => []LaunchInv
<1>1. TypeOK /\ WriterInv /\ LaunchInv /\ [Next]_vars => LaunchInv'
  BY LaunchInvStep
<1>2. QED
  BY <1>1, InitLaunches, TypeCorrect, WriterInvariant, PTL DEF Spec

(* start(), the stops and the recovery of every operation: a runtime is    *)
(* started once for a task, ends once with one exit, and what its manifest *)
(* tells of it comes in order and after the fact, whatever is cut, stopped *)
(* or taken up again.                                                      *)
THEOREM LaunchesSafe ==
    ASSUME MockOnly
    PROVE  Spec => ImplementsLaunches
<1> DEFINE launches == <<[t \in Task |-> LeaderOf(t)], exit, manifest, sup>>
<1>1. ASSUME TypeOK, WriterInv, LaunchInv, TypeOK', LaunchInv', [Next]_vars
      PROVE  [Launches!Next]_launches
  <2>1. Launches!Next
    BY <1>1, LaunchesStep
  <2>2. QED
    BY <2>1
<1>2. Spec => Launches!Init /\ [][Launches!Next]_launches
  BY <1>1, InitLaunches, TypeCorrect, WriterInvariant, LaunchInvariant, PTL
     DEF Spec
<1>3. QED
  BY <1>2, PTL DEF ImplementsLaunches, Launches!Spec

-----------------------------------------------------------------------------
(* What `control` tells an operator.  ControlInv says what a handle, a     *)
(* recorded launch and the end of an operation tell of each other; it is   *)
(* inductive relative to the invariants above, whose assumption on         *)
(* complete() it shares.                                                   *)

(* A handle is one the task's runtime gives; an adopted one is of a        *)
(* recorded durable launch.                                                *)
HandleFits ==
    \A t \in Task :
        /\ mem[t] = "direct" => req[t].runtime = "direct"
        /\ mem[t] = "process" => Subprocess(t)
        /\ mem[t] = "adopted" => DurableRow(t)

(* A durable launch is recorded once its proof is there.                   *)
LaunchIsProven ==
    /\ op.at = "record" /\ req[op.task].runtime = "durable"
          => manifest[op.task] \in {"running", "final"}
    /\ \A t \in Task : DurableRow(t) => manifest[t] \in {"running", "final"}

(* Whoever records "cancelling" has let go of the launcher's own handle.   *)
CancellingLetsGo ==
    /\ \A t \in Task : state[t] = "cancelling" => mem[t] \in {"none", "adopted"}
    /\ op.to # "cancelling"
    /\ op.how = "via_cancelling" => op.at \in Ending /\ mem[op.task] = "none"

(* An operation that ends in a failure, or without a result, has no        *)
(* adopted handle left: only a task whose payload has ended is terminal    *)
(* and adopted.                                                            *)
FailureLetsGo ==
    /\ op.at \in {"gather", "persist"} => mem[op.task] # "adopted"
    /\ op.at = "kill" => /\ op.to \in {"cancelled", "timed_out"}
                         /\ op.orelse = "failed" /\ op.how # "adopted"
                               => mem[op.task] # "adopted"
    /\ op.at \in Ending /\ op.to \in {"failed", "uncollected"}
          => mem[op.task] # "adopted"
    /\ \A t \in Task : mem[t] = "adopted" /\ state[t] \in TerminalState
                          => proc[t] # "alive"

ControlInv ==
    /\ HandleFits
    /\ LaunchIsProven
    /\ CancellingLetsGo
    /\ FailureLetsGo

-----------------------------------------------------------------------------

(* Nothing is held or recorded before any task exists.                     *)
LEMMA ControlInit == Init => ControlInv
BY DEF Init, Idle, ControlInv, HandleFits, LaunchIsProven, CancellingLetsGo,
       FailureLetsGo, DurableRow, Ending, TerminalState

Kill == KillDirect \/ KillGroup \/ KillDurable \/ KillAdopted

(* A kill ends in a confirmed stop or in the state kept for an unconfirmed *)
(* one; it takes the adopted handle it was begun with along.               *)
LEMMA KillKeeps ==
    ASSUME TypeOK, OutcomeIsLast, ControlInv, Kill
    PROVE  ControlInv'
<1> DEFINE t == op.task
<1>1. op \in Operation /\ op.at = "kill" /\ t \in Task
  BY NoTaskAssumption
     DEF TypeOK, Kill, KillDirect, KillGroup, KillDurable, KillAdopted, At,
         Operation, Idle
<1>2. /\ op'.task = t /\ op'.how = op.how
      /\ \/ op'.at = "release_tree" /\ op'.to = op.to
         \/ op'.at = "transit" /\ op'.to = op.orelse
  <2>1. Confirmed \/ Unconfirmed
    BY DEF Kill, KillDirect, KillGroup, KillDurable, KillAdopted
  <2>2. QED
    BY <2>1 DEF Confirmed, Unconfirmed, Goto, Proceed, Begin
<1>3. UNCHANGED <<state, req, launch>>
  BY DEF Kill, KillDirect, KillGroup, KillDurable, KillAdopted, store
<1>4. \A u \in Task : proc[u] # "alive" => proc'[u] # "alive"
  BY <1>1 DEF TypeOK, Kill, KillDirect, KillGroup, KillDurable, KillAdopted,
              Ends
<1>5. \A u \in Task : manifest'[u] = manifest[u] \/ manifest'[u] = "final"
  BY <1>1 DEF TypeOK, Kill, KillDirect, KillGroup, KillDurable, KillAdopted
<1>6. /\ \A u \in Task : mem'[u] = mem[u] \/ mem'[u] = "none"
      /\ op.how = "adopted" => mem'[t] = "none"
  BY <1>1 DEF TypeOK, Kill, KillDirect, KillGroup, KillDurable, KillAdopted
<1>7. HandleFits' /\ LaunchIsProven'
  BY <1>1, <1>2, <1>3, <1>5, <1>6
     DEF ControlInv, HandleFits, LaunchIsProven, DurableRow, Subprocess
<1>8. /\ op.to \in {"cancelled", "timed_out"}
      /\ op.orelse \in {"failed", "recovery_required"}
      /\ op.orelse = "failed" /\ op.how # "adopted" => mem[t] # "adopted"
      /\ op.how # "via_cancelling"
  BY <1>1 DEF ControlInv, FailureLetsGo, CancellingLetsGo, OutcomeIsLast,
              Ending
<1>9. CancellingLetsGo'
  BY <1>1, <1>2, <1>3, <1>6, <1>8 DEF ControlInv, CancellingLetsGo
<1>10. FailureLetsGo'
  BY <1>1, <1>2, <1>3, <1>4, <1>6, <1>8 DEF ControlInv, FailureLetsGo
<1>11. QED
  BY <1>7, <1>9, <1>10 DEF ControlInv

(* Every step keeps handles, recorded launches and the operation in        *)
(* progress in agreement.                                                  *)
LEMMA ControlStep ==
    ASSUME MockOnly
    PROVE  TypeOK /\ WriterInv /\ OutcomeInv /\ ControlInv /\ [Next]_vars
              => ControlInv'
<1> SUFFICES ASSUME TypeOK, WriterInv, OutcomeInv, ControlInv, [Next]_vars
             PROVE  ControlInv'
  OBVIOUS
<1>0. /\ UnstartedIsFresh /\ AllocatedBeforeLaunch /\ ManifestIsEvidence
      /\ OutcomeIsLast /\ OutcomeIsBacked
  BY DEF WriterInv, OutcomeInv
<1> USE NoTaskAssumption, <1>0
    DEF TypeOK, store, world, broker, Free, At, Begin, Goto, Proceed, Move,
        Finalize, Operation, Idle, Point, Goal, How, TaskState,
        TerminalState, SuccessState, ControlInv, HandleFits, LaunchIsProven,
        CancellingLetsGo, FailureLetsGo, Ending, DurableRow, Subprocess,
        UnstartedIsFresh, AllocatedBeforeLaunch, Unlaunched, Unstarted
<1>1. ASSUME NEW t \in Task, Create(t) PROVE ControlInv'
  BY <1>1 DEF Create
<1>2. ASSUME NEW t \in Task, StartRejected(t) PROVE ControlInv'
  BY <1>2 DEF StartRejected, CanGo
<1>3. ASSUME NEW t \in Task, StartPrepare(t) PROVE ControlInv'
  BY <1>3 DEF StartPrepare, CanGo
<1>4. ASSUME NEW t \in Task, Complete(t) PROVE ControlInv'
  BY <1>4 DEF Complete, CanGo, MockOnly
<1>5. ASSUME NEW t \in Task, CollectHandle(t) PROVE ControlInv'
  BY <1>5 DEF CollectHandle, CanGo, HandleFinished
<1>6. ASSUME NEW t \in Task, CollectAdopted(t) PROVE ControlInv'
  BY <1>6 DEF CollectAdopted, CanGo
<1>7. ASSUME NEW t \in Task, CollectMock(t) PROVE ControlInv'
  BY <1>7 DEF CollectMock
<1>8. ASSUME NEW t \in Task, TimeoutHandle(t) PROVE ControlInv'
  BY <1>8 DEF TimeoutHandle, Pending
<1>9. ASSUME NEW t \in Task, TimeoutNothing(t) PROVE ControlInv'
  BY <1>9 DEF TimeoutNothing, Pending
<1>10. ASSUME NEW t \in Task, TimeoutByGroup(t) PROVE ControlInv'
  BY <1>10 DEF TimeoutByGroup, Pending
<1>11. ASSUME NEW t \in Task, CancelQueued(t) PROVE ControlInv'
  BY <1>11 DEF CancelQueued
<1>12. ASSUME NEW t \in Task, CancelHandle(t) PROVE ControlInv'
  BY <1>12 DEF CancelHandle, Pending, CanGo
<1>13. ASSUME NEW t \in Task, CancelNothing(t) PROVE ControlInv'
  BY <1>13 DEF CancelNothing, Pending
<1>14. ASSUME NEW t \in Task, CancelWithoutHandle(t) PROVE ControlInv'
  BY <1>14 DEF CancelWithoutHandle, Pending, CanGo
<1>15. ASSUME NEW t \in Task, ReconcileRefused(t) PROVE ControlInv'
  BY <1>15 DEF ReconcileRefused, Reconcilable, RequireRecovery
<1>16. ASSUME NEW t \in Task, ReconcileAdopts(t) PROVE ControlInv'
  BY <1>16 DEF ReconcileAdopts, Reconcilable
<1>17. ASSUME NEW t \in Task, ReconcileDirect(t) PROVE ControlInv'
  BY <1>17 DEF ReconcileDirect, Reconcilable
<1>18. ASSUME NEW t \in Task, ReconcileCursor(t) PROVE ControlInv'
  <2>1. mem[t] # "adopted" /\ UNCHANGED <<req, launch, manifest, proc, mem>>
    BY <1>18 DEF ReconcileCursor, Reconcilable, RequireRecovery, CursorRow
  <2>2. CASE Finalize(t, "uncollected")
             /\ UNCHANGED <<store, world, up, mem, restarts>>
    BY <2>1, <2>2
  <2>3. CASE RequireRecovery(t)
    BY <2>1, <2>3 DEF RequireRecovery
  <2>4. QED
    BY <1>18, <2>2, <2>3 DEF ReconcileCursor
<1>19. ASSUME NEW t \in Task, ReconcileByGroup(t) PROVE ControlInv'
  <2>1. mem[t] # "adopted" /\ ~DurableRow(t)
    BY <1>19 DEF ReconcileByGroup
  <2>2. CASE GroupStatus(t) = "alive"
    BY <1>19, <2>1, <2>2 DEF ReconcileByGroup, Reconcilable, RequireRecovery
  <2>3. CASE GroupStatus(t) # "alive"
    <3>1. /\ Finalize(t, "cancelled") \/ Finalize(t, "failed")
          /\ UNCHANGED <<store, world, mem>>
      BY <1>19, <2>3 DEF ReconcileByGroup
    <3>2. QED
      BY <2>1, <3>1
  <2>4. QED
    BY <2>2, <2>3
<1>20. ASSUME NEW t \in Task, CommitProof(t) PROVE ControlInv'
  BY <1>20 DEF CommitProof
<1>21. ASSUME NEW t \in Task, RuntimeEnds(t) PROVE ControlInv'
  BY <1>21 DEF RuntimeEnds, Ends
<1>22. ASSUME NEW t \in Task, HelpersEnd(t) PROVE ControlInv'
  BY <1>22 DEF HelpersEnd
<1>23. ASSUME NEW t \in Task,
              SupervisorFinalizes(t) \/ SupervisorGone(t)
       PROVE  ControlInv'
  BY <1>23 DEF SupervisorFinalizes, SupervisorGone
<1>24. ASSUME NEW t \in Task, RecoveryLeaseExpires(t) PROVE ControlInv'
  BY <1>24 DEF RecoveryLeaseExpires
<1>25. CASE Enqueue
  BY <1>25 DEF Enqueue
<1>26. CASE AcquireLease
  BY <1>26 DEF AcquireLease
<1>27. CASE LeaseRefused
  BY <1>27 DEF LeaseRefused
<1>28. CASE CaptureHeadRaises
  BY <1>28 DEF CaptureHeadRaises
<1>29. CASE CreateWorktree
  BY <1>29 DEF CreateWorktree
<1>30. CASE CreateWorktreeFails
  BY <1>30 DEF CreateWorktreeFails
<1>31. CASE SpawnMock
  BY <1>31 DEF SpawnMock
<1>32. CASE SpawnDirect
  BY <1>32 DEF SpawnDirect
<1>33. CASE SpawnCursor
  BY <1>33 DEF SpawnCursor
<1>34. CASE SpawnDurable
  BY <1>34 DEF SpawnDurable
<1>35. CASE LaunchProven
  BY <1>35 DEF LaunchProven
<1>36. CASE SpawnRaises
  BY <1>36 DEF SpawnRaises
<1>37. CASE LaunchTimesOut
  BY <1>37 DEF LaunchTimesOut
<1>38. CASE RecordLaunch
  BY <1>38 DEF RecordLaunch
<1>39. CASE Gather
  BY <1>39 DEF Gather
<1>40. CASE GatherRefused
  BY <1>40 DEF GatherRefused
<1>41. CASE Persist
  BY <1>41 DEF Persist, Candidate, Gated
<1>42. CASE Kill
  BY <1>42, KillKeeps
<1>43. CASE ReleaseTree
  BY <1>43 DEF ReleaseTree
<1>44. CASE ReleaseRow
  BY <1>44 DEF ReleaseRow
<1>45. CASE Transit
  BY <1>45 DEF Transit, CanGo, OutcomeIsBacked, SuccessBacked, StopBacked,
              MockOnly
<1>46. CASE TransitCancelling
  BY <1>46 DEF TransitCancelling, CanGo
<1>47. CASE Crash
  BY <1>47 DEF Crash, BrokerGone
<1>48. CASE Close
  BY <1>48 DEF Close, BrokerGone
<1>49. CASE Restart
  BY <1>49 DEF Restart
<1>50. CASE UNCHANGED vars
  BY <1>50 DEF vars
<1>51. QED
  BY <1>1, <1>2, <1>3, <1>4, <1>5, <1>6, <1>7, <1>8, <1>9, <1>10, <1>11,
     <1>12, <1>13, <1>14, <1>15, <1>16, <1>17, <1>18, <1>19, <1>20,
     <1>21, <1>22, <1>23, <1>24, <1>25, <1>26, <1>27, <1>28, <1>29,
     <1>30, <1>31, <1>32, <1>33, <1>34, <1>35, <1>36, <1>37, <1>38,
     <1>39, <1>40, <1>41, <1>42, <1>43, <1>44, <1>45, <1>46, <1>47,
     <1>48, <1>49, <1>50
     DEF Next, Client, Reconcile, Continue, Outside, Kill

(* The agreement holds in every behaviour.                                 *)
LEMMA ControlInvariant ==
    ASSUME MockOnly
    PROVE  Spec => []ControlInv
<1>1. Init => ControlInv
  BY ControlInit
<1>2. TypeOK /\ WriterInv /\ OutcomeInv /\ ControlInv /\ [Next]_vars
         => ControlInv'
  BY ControlStep
<1>3. QED
  BY <1>1, <1>2, TypeCorrect, WriterInvariant, OutcomeInvariant, PTL DEF Spec

-----------------------------------------------------------------------------

(* An adopted launch that control lets collect is over.                    *)
LEMMA CollectEnds ==
    ASSUME TypeOK, ControlInv
    PROVE  PermittedCollectEnds
<1> SUFFICES ASSUME NEW t \in Task, mem[t] = "adopted", CollectPermitted(t)
             PROVE  ~VerifiedLive(t)
  BY DEF PermittedCollectEnds
<1>1. CASE state[t] \in TerminalState
  BY <1>1 DEF ControlInv, FailureLetsGo, VerifiedLive
<1>2. CASE state[t] \notin TerminalState
  <2>1. Posture(t) # "terminal"
    BY <1>2 DEF Posture
  <2>2. QED
    BY <2>1 DEF CollectPermitted, VerifiedLive
<1>3. QED
  BY <1>1, <1>2

(* Whatever handle the broker has of a living launch, one of the two ways  *)
(* to it is open.                                                          *)
LEMMA LivingReached ==
    ASSUME TypeOK, WriterInv, ControlInv
    PROVE  LivingIsInReach
<1> SUFFICES ASSUME NEW t \in Task, Free, Open(t), Subprocess(t), launch[t],
                    proc[t] = "alive", ProcStartIdentity,
                    state[t] # "collecting",
                    ~(state[t] = "cancelling" /\ mem[t] = "adopted")
             PROVE  \/ CancelPermitted(t) /\ CancelAccepted(t)
                    \/ AdoptionOpen(t)
  BY DEF LivingIsInReach
<1>1. state[t] \in {"preparing", "running", "cancelling", "recovery_required"}
  BY DEF Open, TypeOK, TaskState, TerminalState, SuccessState, WriterInv,
         UnstartedIsFresh, Unlaunched, Unstarted
<1>2. DurableRow(t) => manifest[t] = "running"
  BY DEF ControlInv, LaunchIsProven, WriterInv, ManifestIsEvidence
<1>3. /\ mem[t] = "none" \/ mem[t] = "process" \/ mem[t] = "adopted"
      /\ mem[t] = "adopted" => DurableRow(t)
      /\ state[t] = "cancelling" => mem[t] = "none"
  BY DEF TypeOK, ControlInv, HandleFits, CancellingLetsGo, Subprocess
<1>4. GroupStatus(t) = "alive"
  BY DEF GroupStatus, GroupAlive
<1>5. CancelAccepted(t)
  BY <1>1, <1>3 DEF CancelAccepted, CanGo
<1>6. CASE DurableRow(t) /\ mem[t] = "none"
  BY <1>1, <1>2, <1>6
     DEF AdoptionOpen, Reconcilable, Adoptable, VerifiedLive
<1>7. CASE mem[t] = "adopted"
  <2>1. Posture(t) = "safely_adopted"
    BY <1>7 DEF Posture, Open
  <2>2. CancelPermitted(t)
    BY <1>2, <1>3, <1>7, <2>1 DEF CancelPermitted
  <2>3. QED
    BY <1>5, <2>2
<1>8. CASE ~DurableUnadopted(t) /\ mem[t] \in {"none", "process"}
  <2>1. Posture(t) = IF state[t] = "recovery_required"
                     THEN "recovery_required" ELSE "observed"
    BY <1>8 DEF Posture, Open
  <2>2. CancelPermitted(t)
    BY <1>4, <1>8, <2>1 DEF CancelPermitted, LegacyCancel
  <2>3. QED
    BY <1>5, <2>2
<1>9. QED
  BY <1>3, <1>6, <1>7, <1>8 DEF DurableUnadopted

(* Control permits no collect that strands a living process, and leaves no *)
(* living process of a recorded launch beyond the reach of its operations. *)
THEOREM ControlSafe ==
    ASSUME MockOnly
    PROVE  Spec => []ControlHolds
<1>1. TypeOK /\ WriterInv /\ ControlInv => ControlHolds
  BY CollectEnds, LivingReached DEF ControlHolds
<1>2. QED
  BY <1>1, TypeCorrect, WriterInvariant, ControlInvariant, PTL
=============================================================================
