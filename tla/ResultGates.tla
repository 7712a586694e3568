---------------------------- MODULE ResultGates ----------------------------
(***************************************************************************)
(* From what a runtime left behind to the state its task ends in: complete,*)
(* collect and its adopted form, the verification gate, the capability     *)
(* gate, the artifacts that say why, and the end of the task; cut at every *)
(* durable write, with a broker lost between any two of them and `verify`  *)
(* run by another process meanwhile.  One task, whose runtime is over      *)
(* before anything here happens to it.                                     *)
(***************************************************************************)
EXTENDS ReportContracts, TaskStates

CONSTANTS
    Cases,        \* what tasks ask for, with what their runtimes leave
    MaxLosses,    \* bound: how often the broker is lost
    MaxVerifies   \* bound: how often somebody runs verify

(* commands: verify_commands are declared.  kind: the runtime.             *)
RequestType ==
    [policy : Policy, schema : Schema, required : SUBSET {"workspace.read",
        "repository.remote.read"}, commands : BOOLEAN, isolated : BOOLEAN,
     kind : Kind]

OutputType ==
    [exit : {"zero", "nonzero"}, error : {"none"} \cup ErrorSign,
     text : {"blank", "none", "prose", "broken", "report"}, report : Report,
     denials : [tools : SUBSET Tool, malformed : BOOLEAN]]

(* A case is a request with something a runtime of its kind can leave.     *)
ASSUME CasesAssumption ==
    \A c \in Cases : /\ c \in [request : RequestType, output : OutputType]
                     /\ Fits(c.output, c.request.kind)

ASSUME BoundsAssumption == MaxLosses \in Nat /\ MaxVerifies \in Nat

VARIABLES
    request,   \* the task's row and the artifacts written by create()
    output,    \* stdout, stderr and exit status of the runtime
    status,    \* the state of the task
    wlease,    \* its workspace lease: "none", "active", "released"
    evidence,  \* verification.json: "none", or who wrote it and what it says
    gatefile,  \* the outcome in verification_gate.json, or "none"
    resultfile,\* the state in result.json, or "none"
    envelope,  \* normalized_result.json, or NoEnvelope
    hold,      \* the broker's handle: "none", "launched", "adopted"
    step,      \* where its operation is, "idle" when there is none
    local,     \* what the operation has worked out so far
    checker,   \* another process's verify: "none", "running"
    losses, verifies

durable == <<status, wlease, evidence, gatefile, resultfile, envelope>>
vars    == <<request, output, durable, hold, step, local, checker, losses,
             verifies>>

NoEnvelope == [state |-> "none", parsed |-> "none", contract |-> "none",
               verdict |-> "none", verified |-> "none", outcome |-> "none"]
NoLocal    == [candidate |-> "none", final |-> "none", outcome |-> "none",
               adopted |-> FALSE, persists |-> TRUE]

Outcome == {"none", "not_configured", "blocked_no_commands_declared",
            "blocked_verification_error", "passed", "failed",
            "blocked_unsatisfied_capability"}
Evidence == {"none", "gate passed", "gate failed", "verify passed",
             "verify failed"}

LocalType ==
    [candidate : {"none", "failed"} \cup SuccessState,
     final : {"none", "failed", "uncollected"} \cup SuccessState,
     outcome : Outcome, adopted : BOOLEAN, persists : BOOLEAN]

EnvelopeType ==
    [state : {"none", "failed"} \cup SuccessState,
     parsed : {"none", "ok", "partial", "fallback", "failed"},
     contract : {"none", "unavailable", "not_requested", "satisfied",
                 "unsatisfied_fallback", "unsatisfied_malformed"},
     verdict : {"none", "no_requirements", "unsatisfied", "unknown",
                "satisfied"},
     verified : Evidence, outcome : Outcome]

TypeOK ==
    /\ [request |-> request, output |-> output] \in Cases
    /\ status \in {"running"} \cup {"collecting", "recovery_required"}
                   \cup TerminalState
    /\ wlease \in {"none", "active", "released"}
    /\ evidence \in Evidence /\ gatefile \in Outcome
    /\ resultfile \in {"none", "failed"} \cup SuccessState
    /\ envelope \in EnvelopeType
    /\ hold \in {"none", "launched", "adopted"}
    /\ step \in {"idle", "gate", "contract", "gatefile", "result", "envelope",
                 "release", "transit"}
    /\ local \in LocalType
    /\ checker \in {"none", "running"}
    /\ losses \in 0..MaxLosses /\ verifies \in 0..MaxVerifies

Init ==
    /\ \E c \in Cases : request = c.request /\ output = c.output
    /\ status = "running"
    /\ wlease = IF request.isolated THEN "active" ELSE "none"
    /\ evidence = "none" /\ gatefile = "none" /\ resultfile = "none"
    /\ envelope = NoEnvelope
    /\ hold = IF request.kind = "mock" THEN "none" ELSE "launched"
    /\ step = "idle" /\ local = NoLocal
    /\ checker = "none" /\ losses = 0 /\ verifies = 0

Success(s) == s \in SuccessState
Durable == request.kind \in {"claude_code", "cursor", "codex", "opencode"}
Legacy  == request.kind = "legacy"

(* adopted_collect() takes the last line of stdout as it is: an object of  *)
(* the CLI, without a field of any report.                                 *)
Raw == [fields |-> {}, evidence |-> <<>>, findings |-> <<>>, status |-> "odd"]

-----------------------------------------------------------------------------
(* The beginning of the operations.                                        *)

Collects(candidate, adopted) ==
    /\ step = "idle"
    /\ CanGo(status, "collecting")
    /\ status' = "collecting"
    /\ hold' = "none"
    /\ step' = "gate"
    /\ local' = [NoLocal EXCEPT !.candidate = candidate, !.adopted = adopted]
    /\ UNCHANGED <<request, output, wlease, evidence, gatefile, resultfile,
                   envelope, checker, losses, verifies>>

(* complete() of a mock task: a success, whatever the summary says.        *)
Complete ==
    /\ request.kind = "mock" /\ output.text # "blank"
    /\ Collects("succeeded", FALSE)

(* A summary that says nothing: validate_result() raises, after collecting *)
(* has been recorded.                                                      *)
CompleteRaises ==
    /\ request.kind = "mock" /\ output.text = "blank"
    /\ step = "idle" /\ CanGo(status, "collecting")
    /\ status' = "collecting"
    /\ UNCHANGED <<request, output, wlease, evidence, gatefile, resultfile,
                   envelope, hold, step, local, checker, losses, verifies>>

(* parse_result() of the adapters: what a CLI may say of its own failure   *)
(* and where each of them looks for it.  One exit code stands for both.    *)
ClaudeFails   == output.exit = "nonzero" \/ output.error = "is_error"
CursorFails   == output.exit = "nonzero" \/ output.error \in {"is_error", "subtype"}
CodexFails    == output.exit = "nonzero" \/ output.error = "turn.failed"
OpenCodeFails == output.exit = "nonzero"

Fails ==
    CASE request.kind = "claude_code"         -> ClaudeFails
      [] request.kind \in {"cursor", "legacy"} -> CursorFails
      [] request.kind = "codex"               -> CodexFails
      [] OTHER                                -> OpenCodeFails

Parsed ==
    IF Fails THEN "failed"
    ELSE IF output.text = "none" THEN "succeeded_with_warnings" ELSE "succeeded"

CollectLaunched == hold = "launched" /\ Collects(Parsed, FALSE)

(* A runtime that left no text, error or denial may have an empty stdout.  *)
MayBeEmpty ==
    /\ output.text = "none" /\ output.error = "none"
    /\ output.denials.tools = {} /\ ~output.denials.malformed

(* _collect_adopted_durable(): no adapter is asked; any stdout is a        *)
(* summary.                                                                *)
AdoptedEnds ==
    IF output.exit = "nonzero" THEN {"failed"}
    ELSE {"succeeded"} \cup {s \in {"succeeded_with_warnings"} : MayBeEmpty}

CollectAdopted ==
    /\ hold = "adopted"
    /\ \E candidate \in AdoptedEnds : Collects(candidate, TRUE)

(* collect() of a mock task: an error of the caller, with its evidence.    *)
CollectMock ==
    /\ request.kind = "mock" /\ step = "idle" /\ hold = "none"
    /\ status \notin TerminalState
    /\ step' = "gate"
    /\ local' = [NoLocal EXCEPT !.candidate = "failed", !.persists = FALSE]
    /\ UNCHANGED <<request, output, durable, hold, checker, losses, verifies>>

-----------------------------------------------------------------------------
(* The gates.                                                              *)

At(s) == step = s
Goes(s) == step' = s

(* verify(): refused where the workspace is not the task's any more; the   *)
(* commands pass, fail or cannot be run.                                   *)
CanVerify ==
    /\ status # "recovery_required"
    /\ request.isolated => wlease = "active"

(* _apply_verification_gate(), from the outcome.                           *)
Judged(c, outcome) ==
    CASE outcome = "passed" \/ ~Success(c)                     -> c
      [] outcome # "passed" /\ Success(c)
           /\ request.policy = "required"                      -> "failed"
      [] outcome = "failed" /\ Success(c)
           /\ request.policy = "advisory"      -> "succeeded_with_warnings"
      [] OTHER                                                 -> c

Gated(outcome) ==
    local' = [local EXCEPT !.final = Judged(local.candidate, outcome),
                           !.outcome = outcome]

(* Without commands nothing is run, and "required" cannot be met.          *)
GateWithoutCommands ==
    /\ At("gate") /\ ~request.commands
    /\ Gated(IF request.policy = "required" /\ Success(local.candidate)
             THEN "blocked_no_commands_declared" ELSE "not_configured")
    /\ Goes(IF local.persists THEN "contract" ELSE "gatefile")
    /\ UNCHANGED <<request, output, durable, hold, checker, losses, verifies>>

GateRuns ==
    /\ At("gate") /\ request.commands /\ CanVerify
    /\ \E passed \in BOOLEAN :
          /\ evidence' = IF passed THEN "gate passed" ELSE "gate failed"
          /\ Gated(IF passed THEN "passed" ELSE "failed")
    /\ Goes(IF local.persists THEN "contract" ELSE "gatefile")
    /\ UNCHANGED <<request, output, status, wlease, gatefile, resultfile,
                   envelope, hold, checker, losses, verifies>>

(* verify() raises: the workspace is gone, a command cannot be started.    *)
GateRaises ==
    /\ At("gate") /\ request.commands
    /\ Gated("blocked_verification_error")
    /\ Goes(IF local.persists THEN "contract" ELSE "gatefile")
    /\ UNCHANGED <<request, output, durable, hold, checker, losses, verifies>>

(* The denials are in what the adapter parsed; an adopted launch has none. *)
Collected ==
    IF local.adopted THEN [tools |-> {}, malformed |-> FALSE]
    ELSE output.denials
Judgement == Verdict(request.required, request.kind, Collected)

(* _apply_capability_contract_gate(): under "required" only.               *)
Blocks ==
    /\ request.policy = "required" /\ Success(local.final)
    /\ Judgement = "unsatisfied"

ContractGate ==
    /\ At("contract")
    /\ local' = IF Blocks
                THEN [local EXCEPT !.final = "failed",
                          !.outcome = "blocked_unsatisfied_capability"]
                ELSE local
    /\ Goes("gatefile")
    /\ UNCHANGED <<request, output, durable, hold, checker, losses, verifies>>

-----------------------------------------------------------------------------
(* The artifacts and the end.                                              *)

(* Nothing is written where nothing was asked for.                         *)
WorthWriting == request.commands \/ request.policy = "required"

WriteGate ==
    /\ At("gatefile")
    /\ gatefile' = IF WorthWriting THEN local.outcome ELSE gatefile
    /\ Goes(IF local.persists THEN "result" ELSE "release")
    /\ UNCHANGED <<request, output, status, wlease, evidence, resultfile,
                   envelope, hold, local, checker, losses, verifies>>

WriteResult ==
    /\ At("result")
    /\ resultfile' = local.candidate
    /\ Goes("envelope")
    /\ UNCHANGED <<request, output, status, wlease, evidence, gatefile,
                   envelope, hold, local, checker, losses, verifies>>

(* What the envelope's parser is given: a summary is never missing, since  *)
(* result.json's own text stands in.  Of an adopted launch it is the    *)
(* last line of the runtime's own JSON, or the end of it if that is long.  *)
Texts == IF local.adopted /\ local.candidate = "succeeded_with_warnings"
         THEN {"prose"}
         ELSE IF local.adopted THEN {"report", "prose"}
         ELSE IF output.text = "none" THEN {"prose"} ELSE {output.text}

(* build_normalized_envelope(): verification.json as it is by now.         *)
EnvelopeFor(state, text) ==
    LET parsed == ParseStatus(request.schema, text,
                              IF local.adopted THEN Raw ELSE output.report)
    IN  [state    |-> state,
         parsed   |-> parsed,
         contract |-> ContractStatus(request.schema, parsed, Success(state)),
         verdict  |-> Judgement,
         verified |-> evidence,
         outcome  |-> local.outcome]

(* Fault: the state the runtime was taken to have, not the gated one.      *)
EnvelopeOfCandidate(text) == EnvelopeFor(local.candidate, text)
Envelope(text) == EnvelopeFor(local.final, text)

WriteEnvelope ==
    /\ At("envelope")
    /\ \E text \in Texts : envelope' = Envelope(text)
    /\ Goes("release")
    /\ UNCHANGED <<request, output, status, wlease, evidence, gatefile,
                   resultfile, hold, local, checker, losses, verifies>>

(* _finalize_workspace().                                                  *)
Release ==
    /\ At("release")
    /\ wlease' = IF wlease = "active" THEN "released" ELSE wlease
    /\ Goes("transit")
    /\ UNCHANGED <<request, output, status, evidence, gatefile, resultfile,
                   envelope, hold, local, checker, losses, verifies>>

Transit ==
    /\ At("transit")
    /\ status' = IF CanGo(status, local.final) THEN local.final ELSE status
    /\ step' = "idle" /\ local' = NoLocal
    /\ UNCHANGED <<request, output, wlease, evidence, gatefile, resultfile,
                   envelope, hold, checker, losses, verifies>>

-----------------------------------------------------------------------------
(* Loss of the broker, and what the next one makes of the task.            *)

Loss ==
    /\ losses < MaxLosses
    /\ losses' = losses + 1
    /\ hold' = "none" /\ step' = "idle" /\ local' = NoLocal
    /\ UNCHANGED <<request, output, durable, checker, verifies>>

Unheld == step = "idle" /\ hold = "none" /\ status \notin TerminalState

(* reconcile() of a durable launch that is over: adopted, in whatever      *)
(* state the task was.                                                     *)
Adopt ==
    /\ Unheld /\ Durable
    /\ hold' = "adopted"
    /\ status' = IF CanGo(status, "running") THEN "running" ELSE status
    /\ UNCHANGED <<request, output, wlease, evidence, gatefile, resultfile,
                   envelope, step, local, checker, losses, verifies>>

(* The proof is refused, or another broker's recovery lease holds.         *)
Refuse ==
    /\ Unheld /\ Durable
    /\ CanGo(status, "recovery_required")
    /\ status' = "recovery_required"
    /\ UNCHANGED <<request, output, wlease, evidence, gatefile, resultfile,
                   envelope, hold, step, local, checker, losses, verifies>>

(* A direct request, a legacy process: nothing to collect any more.        *)
GiveUp ==
    /\ Unheld /\ (Legacy \/ request.kind = "direct")
    /\ step' = "release"
    /\ local' = [NoLocal EXCEPT
                    !.final = IF Legacy THEN "uncollected" ELSE "failed"]
    /\ UNCHANGED <<request, output, durable, hold, checker, losses, verifies>>

(* `verify` by another process: it looks at the task, runs the commands,   *)
(* and writes its evidence over what is there.                             *)
VerifyBegins ==
    /\ checker = "none" /\ verifies < MaxVerifies
    /\ CanVerify
    /\ checker' = "running" /\ verifies' = verifies + 1
    /\ UNCHANGED <<request, output, durable, hold, step, local, losses>>

VerifyEnds ==
    /\ checker = "running"
    /\ checker' = "none"
    /\ \/ evidence' \in {"verify passed", "verify failed"}
       \/ UNCHANGED evidence
    /\ UNCHANGED <<request, output, status, wlease, gatefile, resultfile,
                   envelope, hold, step, local, losses, verifies>>

Next ==
    \/ Complete \/ CompleteRaises \/ CollectLaunched \/ CollectAdopted
    \/ CollectMock
    \/ GateWithoutCommands \/ GateRuns \/ GateRaises \/ ContractGate
    \/ WriteGate \/ WriteResult \/ WriteEnvelope \/ Release \/ Transit
    \/ Loss \/ Adopt \/ Refuse \/ GiveUp \/ VerifyBegins \/ VerifyEnds

Spec == Init /\ [][Next]_vars

-----------------------------------------------------------------------------

(* verification_policy "required": a task that ends well had commands, and *)
(* they passed after its runtime was over; and where its adapter tells     *)
(* denials, none took a required capability from it (an adopted launch has *)
(* no adapter to ask).                                                     *)
RequiredIsMet ==
    Success(status) /\ request.policy = "required" =>
        /\ request.commands /\ gatefile = "passed"
        /\ losses = 0 /\ Mapped(request.kind, "workspace.read")
             /\ "workspace.read" \in request.required
             => "Read" \notin output.denials.tools

(* A failed runtime is not rescued by verification, by anybody's verify or *)
(* by another collection (an error in an adopted result: ErrorIsFailure).  *)
FailureIsNotRescued ==
    Success(status) /\ request.kind # "mock" =>
        /\ output.exit = "zero"
        /\ losses = 0 => output.error = "none"

(* A success comes last: its result and an envelope of the same state are  *)
(* on disk, whatever was lost on the way.                                  *)
SuccessIsDocumented ==
    Success(status) => /\ resultfile \in SuccessState
                       /\ envelope.state = status
                       /\ wlease # "active"

(* A success that a gate turned into a failure leaves the reason in its    *)
(* envelope, and in verification_gate.json unless a loss and a second      *)
(* collection came between.                                                *)
BlockIsExplained ==
    status = "failed" /\ envelope.state = "failed"
        /\ resultfile \in SuccessState =>
        /\ envelope.outcome \in
               {"failed", "blocked_no_commands_declared",
                "blocked_verification_error",
                "blocked_unsatisfied_capability"}
        /\ losses = 0 => gatefile = envelope.outcome

(* "satisfied": the text was a report of the requested schema, and in a    *)
(* verified investigation every reference names exactly one piece of       *)
(* evidence, none of it in the broker's name.  (Of a launch its own broker *)
(* collected; the JSON of an adopted one passes for an evidence report.)   *)
SatisfiedIsSound ==
    envelope.contract = "satisfied" /\ losses = 0 =>
        /\ Success(envelope.state) /\ output.text = "report"
        /\ RequiredFields(request.schema) \subseteq
               output.report.fields \cup {"summary"}
        /\ request.schema = VerifiedReport =>
             \A f \in ToSet(output.report.findings) :
               \A i \in ToSet(f.refs) :
                 LET named == {n \in DOMAIN output.report.evidence :
                                 NormalizeEvidenceId(
                                     output.report.evidence[n].id)
                                 = NormalizeEvidenceId(i)}
                 IN  /\ Cardinality(named) = 1
                     /\ \A n \in named :
                           output.report.evidence[n].provenance
                               \notin BrokerProvenance

(* Neither gate can be got round: what verification refuses, and a runtime *)
(* that exited with an error, does not end well whatever is lost; nor do,  *)
(* in a broker that loses nothing, denials and a failure the CLI reports.  *)
GatesHold == RequiredIsMet /\ FailureIsNotRescued

(* What successes, and successes that a gate blocked, leave behind tells   *)
(* that end; a contract called satisfied was met (if nothing was lost).    *)
(* Of the other ends nothing is said: EnvelopeAgrees.                      *)
EndIsDocumented == SuccessIsDocumented /\ BlockIsExplained /\ SatisfiedIsSound

-----------------------------------------------------------------------------
(* What the code does not keep.                                            *)

(* phase-6a.md: "the task failed (is_error or a non-zero process exit)".   *)
ErrorIsFailure ==
    Success(status) /\ request.kind # "mock" => output.error = "none"

(* The envelope of a task that ended says how it ended.                    *)
EnvelopeAgrees ==
    status \in TerminalState /\ envelope.state # "none"
        => envelope.state = status

(* A gate that passed shows the evidence it ran.                           *)
EvidenceIsTheGates ==
    envelope.outcome = "passed" => envelope.verified = "gate passed"

=============================================================================
