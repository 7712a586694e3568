---------------------------- MODULE DurableRunner ----------------------------
(***************************************************************************)
(* One durable launch as its processes see it: the broker that launches    *)
(* it, the supervisor, the payload the supervisor forks, another broker    *)
(* that adopts it, and the launch manifest they share.  BrokerLifecycle    *)
(* takes the manifest's writes for atomic and its readers for one step;    *)
(* here a write is the temporary file, the replacement and the sweep of    *)
(* leftovers, and a cancel or a collect is the reads it is made of.        *)
(***************************************************************************)
EXTENDS Naturals

VARIABLES
    manifest,  \* manifest.json: lifecycle_state and the exit status
    temp,      \* the writers with a temporary manifest in the directory
    copy,      \* what a writer is about to put, or what a collector has read
    sup,       \* the supervisor process
    payload,   \* the process it forked
    status,    \* how that process ended
    ran,       \* it got as far as the command
    pc,        \* what a caller is doing
    row,       \* the launch has its row in runtime_launches
    cut,       \* the launcher cancels because its wait() timed out
    answer     \* what a caller's last operation told it

files     == <<manifest, temp, copy>>
processes == <<sup, payload, status, ran>>
callers   == <<pc, row, cut, answer>>
vars      == <<files, processes, callers>>

Caller == {"launcher", "adopter"}
Writer == {"child", "supervisor"} \cup Caller

Final    == {"exited", "cancelled", "timed_out"}
Manifest == [at : {"none", "launching", "running"} \cup Final,
             exit : {"none", "ok", "bad", "signal"}]

Unborn == {"none"}
Young  == {"forked", "temp", "sweep"}      \* before the command
Alive  == Young \cup {"running"}
Ended  == {"zombie", "reaped"}

TypeOK ==
    /\ manifest \in Manifest
    /\ temp \subseteq Writer
    /\ copy \in [Writer -> Manifest]
    /\ sup \in {"none", "forking", "waiting", "reaped", "temp", "sweep",
                "returned", "killed"}
    /\ payload \in Unborn \cup Alive \cup Ended
    /\ status \in {"none", "ok", "bad", "signal"}
    /\ ran \in BOOLEAN
    /\ pc \in [Caller -> {"off", "spawn", "polling", "record", "held", "wait",
                  "load", "inspect", "term", "grace", "supervisor", "reload",
                  "rewrite", "sweep", "look", "gather", "done", "gone"}]
    /\ row \in BOOLEAN /\ cut \in BOOLEAN
    /\ answer \in [Caller -> {"none", "stopped", "unconfirmed", "returned",
                              "timed_out", "raised", "refused", "ok", "bad"}]

NoManifest == [at |-> "none", exit |-> "none"]

Init ==
    /\ manifest = NoManifest /\ temp = {}
    /\ copy = [w \in Writer |-> NoManifest]
    /\ sup = "none" /\ payload = "none" /\ status = "none" /\ ran = FALSE
    /\ pc = [c \in Caller |-> "off"] /\ row = FALSE /\ cut = FALSE
    /\ answer = [c \in Caller |-> "none"]

Goes(c, to) == pc' = [pc EXCEPT ![c] = to]
Answers(c, a) == answer' = [answer EXCEPT ![c] = a] /\ Goes(c, "done")

-----------------------------------------------------------------------------
(* _atomic_write_json: temporary file, replacement, sweep.  The sweep      *)
(* unlinks every temporary manifest it finds, whoever wrote it.            *)

Drafts(w, m) ==
    /\ temp' = temp \cup {w}
    /\ copy' = [copy EXCEPT ![w] = m]
    /\ UNCHANGED manifest

Replaces(w) ==
    /\ w \in temp
    /\ manifest' = copy[w]
    /\ temp' = temp \ {w}
    /\ UNCHANGED copy

Sweeps == temp' = {} /\ UNCHANGED <<manifest, copy>>

-----------------------------------------------------------------------------
(* launch() and wait_for_durable_running().                                *)

Launch ==
    /\ pc["launcher"] = "off"
    /\ manifest' = [manifest EXCEPT !.at = "launching"]
    /\ Goes("launcher", "spawn")
    /\ UNCHANGED <<temp, copy, processes, row, cut, answer>>

SpawnSupervisor ==
    /\ pc["launcher"] = "spawn"
    /\ sup' = "forking"
    /\ Goes("launcher", "polling")
    /\ UNCHANGED <<files, payload, status, ran, row, cut, answer>>

Proven == manifest.at \in {"running"} \cup Final

SeesProof ==
    /\ pc["launcher"] = "polling" /\ Proven
    /\ Goes("launcher", "record")
    /\ UNCHANGED <<files, processes, row, cut, answer>>

(* store.record_launch, in start().                                        *)
RecordLaunch ==
    /\ pc["launcher"] = "record"
    /\ row' = TRUE
    /\ Goes("launcher", "held")
    /\ UNCHANGED <<files, processes, cut, answer>>

(* The deadline, or a supervisor that exited without a proof.              *)
GivesUp ==
    /\ pc["launcher"] = "polling"
    /\ Answers("launcher", "raised")
    /\ UNCHANGED <<files, processes, row, cut>>

-----------------------------------------------------------------------------
(* _supervise_main.                                                        *)

Fork ==
    /\ sup = "forking"
    /\ sup' = "waiting" /\ payload' = "forked"
    /\ UNCHANGED <<files, status, ran, callers>>

(* The child, on its way to the command: it proves itself first.           *)
ChildDrafts ==
    /\ payload = "forked" /\ payload' = "temp"
    /\ Drafts("child", [manifest EXCEPT !.at = "running"])
    /\ UNCHANGED <<sup, status, ran, callers>>

ChildReplaces ==
    /\ payload = "temp" /\ payload' = "sweep"
    /\ Replaces("child")
    /\ UNCHANGED <<sup, status, ran, callers>>

(* Fault: the command is not held back until the proof is in place.        *)
ChildExecsFirst ==
    /\ payload \in {"temp", "sweep"}
    /\ payload' = "running" /\ ran' = TRUE
    /\ Sweeps
    /\ UNCHANGED <<sup, status, callers>>

ChildExecs ==
    /\ payload = "sweep"
    /\ payload' = "running" /\ ran' = TRUE
    /\ Sweeps
    /\ UNCHANGED <<sup, status, callers>>

(* No identity to prove, a temporary file that is gone, exec refused.      *)
ChildFails ==
    /\ payload \in Young
    /\ payload' = "zombie" /\ status' = "bad"
    /\ UNCHANGED <<files, sup, ran, callers>>

PayloadEnds ==
    /\ payload = "running" /\ payload' = "zombie"
    /\ status' \in {"ok", "bad", "signal"}
    /\ UNCHANGED <<files, sup, ran, callers>>

WaitPid ==
    /\ sup = "waiting" /\ payload = "zombie"
    /\ sup' = "reaped" /\ payload' = "reaped"
    /\ UNCHANGED <<files, status, ran, callers>>

FinalManifest ==
    [at   |-> IF status = "signal" THEN "cancelled" ELSE "exited",
     exit |-> status]

(* Fault: a launch whose proof is committed is left alone too.             *)
FinalizesNothing ==
    /\ sup = "reaped" /\ sup' = "returned"
    /\ UNCHANGED <<files, payload, status, ran, callers>>

(* A launch that never proved itself is left as it is.                     *)
Finalizes ==
    /\ sup = "reaped"
    /\ \/ /\ manifest.at = "launching"
          /\ sup' = "returned" /\ UNCHANGED files
       \/ /\ manifest.at # "launching"
          /\ sup' = "temp" /\ Drafts("supervisor", FinalManifest)
    /\ UNCHANGED <<payload, status, ran, callers>>

(* os.replace raises when its file is gone.                                *)
SupervisorReplaces ==
    /\ sup = "temp"
    /\ \/ Replaces("supervisor") /\ sup' = "sweep"
       \/ "supervisor" \notin temp /\ sup' = "returned" /\ UNCHANGED files
    /\ UNCHANGED <<payload, status, ran, callers>>

SupervisorReturns ==
    /\ sup = "sweep" /\ sup' = "returned"
    /\ Sweeps
    /\ UNCHANGED <<payload, status, ran, callers>>

(* The supervisor runs in the broker's process group.                      *)
SupervisorKilled ==
    /\ sup \notin {"none", "returned", "killed"}
    /\ sup' = "killed"
    /\ UNCHANGED <<files, payload, status, ran, callers>>

InitReaps ==
    /\ sup \in {"returned", "killed"} /\ payload = "zombie"
    /\ payload' = "reaped"
    /\ UNCHANGED <<files, sup, status, ran, callers>>

-----------------------------------------------------------------------------
(* What a reader of the manifest can verify.  A zombie still answers to    *)
(* its pid, group and start time.                                          *)

Verified == payload \in Alive \cup {"zombie"}
Matches  == manifest.at = "running" /\ Verified

(* adopt_durable_handle, after evaluate_durable_reconciliation: reconcile  *)
(* goes by the launch row, and without one knows of nothing to adopt.      *)
Adopt ==
    /\ pc["adopter"] = "off" /\ row
    /\ Matches \/ manifest.at \in Final
    /\ Goes("adopter", "held")
    /\ UNCHANGED <<files, processes, row, cut, answer>>

Idle(c) == pc[c] = "held"

(* What cancel() goes by: the launcher the process, the adopter inspection.*)
Live(c) == IF c = "launcher" THEN Verified ELSE Matches

Cancel(c) ==
    /\ Idle(c)
    /\ Goes(c, "load")
    /\ UNCHANGED <<files, processes, row, cut, answer>>

Load(c) ==
    /\ pc[c] = "load"
    /\ \/ /\ manifest.at \in Final
          /\ IF c = "launcher" THEN Goes(c, "reload") /\ UNCHANGED answer
                               ELSE Answers(c, "stopped")
       \/ /\ manifest.at \notin Final
          /\ Goes(c, "inspect")
          /\ UNCHANGED answer
    /\ UNCHANGED <<files, processes, row, cut>>

Inspect(c) ==
    /\ pc[c] = "inspect"
    /\ IF Live(c) THEN Goes(c, "term") /\ UNCHANGED answer
       ELSE IF c = "launcher" THEN Goes(c, "reload") /\ UNCHANGED answer
       ELSE Answers(c, "unconfirmed")
    /\ UNCHANGED <<files, processes, row, cut>>

(* SIGTERM: what the payload makes of it is PayloadEnds, if anything.  The *)
(* adopter takes a group that is no more for stopped.                      *)
Terminate(c) ==
    /\ pc[c] = "term"
    /\ IF Verified THEN Goes(c, "grace") /\ UNCHANGED answer
       ELSE IF c = "launcher" THEN Goes(c, "reload") /\ UNCHANGED answer
       ELSE Answers(c, "stopped")
    /\ UNCHANGED <<files, processes, row, cut>>

(* SIGKILL ends what is left of the payload, or finds it unkillable.       *)
Killed ==
    \/ /\ payload \in Alive
       /\ payload' = "zombie" /\ status' = "signal"
    \/ UNCHANGED <<payload, status>>

GraceOver(c) ==
    /\ pc[c] = "grace"
    /\ IF Live(c) THEN Killed ELSE UNCHANGED <<payload, status>>
    /\ Goes(c, IF c = "launcher" THEN "supervisor" ELSE "look")
    /\ UNCHANGED <<files, sup, ran, row, cut, answer>>

(* The launcher waits for its supervisor, and kills it in the end.         *)
SupervisorAnswers ==
    /\ pc["launcher"] = "supervisor"
    /\ sup' = IF sup = "returned" THEN sup ELSE "killed"
    /\ Goes("launcher", "reload")
    /\ UNCHANGED <<files, payload, status, ran, row, cut, answer>>

SupervisorWaited ==
    /\ pc["launcher"] = "wait"
    /\ sup \in {"returned", "killed"}
    /\ Answers("launcher", "returned")
    /\ UNCHANGED <<files, processes, row, cut>>

(* Fault: a cancel that could not finish the manifest is taken for one.    *)
ReloadRewritesAny ==
    /\ pc["launcher"] = "reload" /\ cut
    /\ Drafts("launcher", [manifest EXCEPT !.at = "timed_out"])
    /\ Goes("launcher", "rewrite")
    /\ UNCHANGED <<processes, row, cut, answer>>

Reload ==
    /\ pc["launcher"] = "reload"
    /\ IF cut /\ manifest.at = "cancelled"
       THEN /\ Drafts("launcher", [manifest EXCEPT !.at = "timed_out"])
            /\ Goes("launcher", "rewrite") /\ UNCHANGED answer
       ELSE /\ Answers("launcher", IF cut THEN "returned"
                                   ELSE IF manifest.at \in Final
                                   THEN "stopped" ELSE "unconfirmed")
            /\ UNCHANGED files
    /\ UNCHANGED <<processes, row, cut>>

RewriteReplaces ==
    /\ pc["launcher"] = "rewrite"
    /\ \/ /\ Replaces("launcher")
          /\ Goes("launcher", "sweep") /\ UNCHANGED answer
       \/ /\ "launcher" \notin temp /\ Sweeps
          /\ Answers("launcher", "raised")
    /\ UNCHANGED <<processes, row, cut>>

RewriteSweeps ==
    /\ pc["launcher"] = "sweep"
    /\ Sweeps
    /\ Answers("launcher", "timed_out")
    /\ UNCHANGED <<processes, row, cut>>

(* wait(): until the supervisor returns, or a cancel at the timeout.       *)
Wait ==
    /\ Idle("launcher")
    /\ Goes("launcher", "wait")
    /\ UNCHANGED <<files, processes, row, cut, answer>>

WaitTimesOut ==
    /\ pc["launcher"] = "wait"
    /\ sup \notin {"returned", "killed"}
    /\ cut' = TRUE
    /\ Goes("launcher", "load")
    /\ UNCHANGED <<files, processes, row, answer>>

(* Fault: the signal is taken for its effect.                              *)
LookTrusts ==
    /\ pc["adopter"] = "look"
    /\ Answers("adopter", "stopped")
    /\ UNCHANGED <<files, processes, row, cut>>

Look ==
    /\ pc["adopter"] = "look"
    /\ Answers("adopter", IF Matches THEN "unconfirmed" ELSE "stopped")
    /\ UNCHANGED <<files, processes, row, cut>>

-----------------------------------------------------------------------------
(* Collecting.                                                             *)

(* Fault: the exit status is passed on as it is.                           *)
ToldRaw(m) == m.exit

Told(m) == IF m.exit = "ok" THEN "ok" ELSE "bad"

(* collect_durable_cli_launch.                                             *)
Collect ==
    /\ Idle("launcher") /\ manifest.at \in Final
    /\ Answers("launcher", Told(manifest))
    /\ UNCHANGED <<files, processes, row, cut>>

(* adopted_collect: the record is read, then the process is looked at.     *)
AdoptedCollect ==
    /\ Idle("adopter")
    /\ copy' = [copy EXCEPT !["adopter"] = manifest]
    /\ Goes("adopter", "gather")
    /\ UNCHANGED <<manifest, temp, processes, row, cut, answer>>

Gather ==
    /\ pc["adopter"] = "gather"
    /\ IF copy["adopter"].at = "running" /\ Matches
       THEN /\ answer' = [answer EXCEPT !["adopter"] = "refused"]
            /\ Goes("adopter", "off")
       ELSE Answers("adopter", Told(copy["adopter"]))
    /\ UNCHANGED <<files, processes, row, cut>>

Crash(c) ==
    /\ pc[c] \notin {"off", "done", "gone"}
    /\ Goes(c, "gone")
    /\ UNCHANGED <<files, processes, row, cut, answer>>

-----------------------------------------------------------------------------
Supervises ==
    \/ Fork \/ WaitPid \/ Finalizes \/ SupervisorReplaces
    \/ SupervisorReturns

Child == ChildDrafts \/ ChildReplaces \/ ChildExecs

Next ==
    \/ Launch \/ SpawnSupervisor \/ SeesProof \/ RecordLaunch \/ GivesUp
    \/ Supervises \/ SupervisorKilled
    \/ Child \/ ChildFails \/ PayloadEnds \/ InitReaps
    \/ Adopt \/ AdoptedCollect \/ Gather \/ Look
    \/ \E c \in Caller : \/ Cancel(c) \/ Load(c) \/ Inspect(c)
                         \/ Terminate(c) \/ GraceOver(c) \/ Crash(c)
    \/ Collect \/ Wait \/ SupervisorWaited \/ WaitTimesOut
    \/ SupervisorAnswers \/ Reload \/ RewriteReplaces \/ RewriteSweeps

Spec == Init /\ [][Next]_vars

(* The supervisor goes on until it has written the end or is killed.       *)
FairSpec == Spec /\ WF_vars(Supervises)

-----------------------------------------------------------------------------
(* Properties.                                                             *)

(* durable_runner.py:428, "payload exited before running proof was         *)
(* committed": a manifest that says launching belongs to a command that    *)
(* was never run, whatever process was lost on the way.                    *)
RunsOnlyProven == ran => manifest.at \in {"running"} \cup Final

(* A final manifest tells the truth: the payload is gone, and ended so.    *)
FinalIsTrue ==
    /\ manifest.at = "exited" => /\ payload = "reaped"
                                 /\ manifest.exit = status
    /\ manifest.at \in {"cancelled", "timed_out"} =>
          payload = "reaped" /\ status = "signal"

(* The manifest is to be believed: what it says has happened, and what it  *)
(* has not got to yet has not.                                             *)
ManifestIsTrue == RunsOnlyProven /\ FinalIsTrue

(* No late writer, supervisor, child or wait(), takes a final manifest     *)
(* back; wait() alone refines cancelled into timed_out.                    *)
FinalStays ==
    [][manifest.at \in Final =>
          \/ manifest' = manifest
          \/ /\ manifest.at = "cancelled"
             /\ manifest' = [manifest EXCEPT !.at = "timed_out"]]_vars

(* The launch as BrokerLifecycle has it.  A zombie still counts as alive,  *)
(* as it does for whoever looks at it, and a supervisor that is lost       *)
(* before it has forked leaves a leader that has ended.                    *)
Leader ==
    IF sup = "none" THEN "none"
    ELSE IF Verified \/ (payload = "none" /\ sup = "forking") THEN "alive"
    ELSE "ended"

Recorded ==
    IF sup = "none" THEN "none"
    ELSE IF manifest.at \in Final THEN "final" ELSE manifest.at

Launches == INSTANCE RuntimeLaunches
    WITH Launch <- {"this"},
         leader <- [l \in {"this"} |-> Leader],
         exit <- [l \in {"this"} |-> IF Leader # "ended" THEN "none"
                                     ELSE IF status = "ok" THEN "ok" ELSE "bad"],
         manifest <- [l \in {"this"} |-> Recorded],
         supervised <- [l \in {"this"} |->
                           sup \in {"forking", "waiting", "reaped", "temp"}]

(* The steps a manifest is written in, the supervisor, its child and their *)
(* callers, any of them lost anywhere, come to what BrokerLifecycle takes  *)
(* for single steps.                                                       *)
ImplementsLaunches == Launches!Spec

(* A cancel that reports the group terminated, in either broker, leaves no *)
(* running payload, however the other broker and the supervisor interfere. *)
StoppedIsStopped ==
    \A c \in Caller : answer[c] = "stopped" => payload \notin Alive

(* A collected success ended with status 0, and the manifest says so.      *)
CollectedSuccessIsReal ==
    \A c \in Caller : answer[c] = "ok" => status = "ok" /\ payload = "reaped"

(* What any caller is told of a stop or of a success is so.                *)
AnswersAreTrue == StoppedIsStopped /\ CollectedSuccessIsReal

(* phase-7c-rfc.md:60 and :71, collect of an adopted launch is "supported  *)
(* after adoption when terminal", "only if terminal": a launch that ended  *)
(* well is not collected as one that failed because its final manifest was *)
(* still on its way.                                                       *)
CollectedFailureIsReal ==
    \A c \in Caller : answer[c] = "bad" => status # "ok"

(* While its supervisor lives, the end of a command that ran gets into the *)
(* manifest.                                                               *)
EndIsRecorded ==
    ran /\ payload \in Ended
        ~> manifest.at \in Final \/ sup = "killed"
=============================================================================
