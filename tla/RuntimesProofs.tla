--------------------------- MODULE RuntimesProofs ---------------------------
(***************************************************************************)
(* What a runtime leaves behind is what the broker records.                *)
(*                                                                         *)
(* The gates can not be got round, and the documents of a task tell its    *)
(* end, for every request, every output a runtime of its kind can leave,   *)
(* reports of any length among them, and any number of losses and of       *)
(* verifies: the invariant says what each point of an operation has made   *)
(* sure of.  The launch manifest is to be believed, whichever process is   *)
(* lost: the invariant follows the proof and the end of a command from the *)
(* process to the manifest and from there to its readers, and the steps    *)
(* all of them take come to those of RuntimeLaunches.  And a direct        *)
(* request is settled as it ended.                                         *)
(***************************************************************************)
EXTENDS MCRuntimes, FiniteSetTheorems, TLAPS

-----------------------------------------------------------------------------
(* The inductive invariant.                                                *)

Busy     == step # "idle"
Judging  == step \in {"gate", "contract", "gatefile", "result", "envelope"}
Closing  == step \in {"release", "transit"}
Ended    == status \in TerminalState

(* An operation is on a task that has not ended and has no handle left;    *)
(* what it has is a candidate, or a task it gives up.                      *)
OperationInv ==
    /\ ~Busy => local = NoLocal
    /\ Busy => hold = "none" /\ ~Ended
    /\ Judging => local.candidate # "none"
    /\ step \in {"contract", "result", "envelope"} => local.persists
    /\ local.candidate # "none" /\ local.persists => status = "collecting"
    /\ ~local.persists => request.kind = "mock" /\ local.candidate = "failed"
    /\ Busy /\ step # "gate" /\ local.candidate # "none" =>
          local.final \in {"failed"} \cup SuccessState
    /\ Busy /\ local.candidate = "none" =>
          /\ Closing /\ ~Durable /\ request.kind # "mock" /\ losses # 0
          /\ local.final \in {"failed", "uncollected"}
    /\ Success(local.final) => Success(local.candidate)

(* Without a loss there is one collection, by the broker that launched.    *)
LossInv ==
    /\ hold = "launched" => losses = 0
    /\ losses = 0 => hold # "adopted" /\ ~local.adopted
    /\ losses = 0 /\ ~Busy /\ ~Ended =>
          hold = "launched" \/ request.kind = "mock"
    /\ Ended => hold = "none"
    /\ ~Durable => status # "recovery_required"

(* A candidate that is a success is what the runtime left.                 *)
CandidateInv ==
    Success(local.candidate) /\ request.kind # "mock" =>
        output.exit = "zero" /\ (losses = 0 => output.error = "none")

(* Why a success may be recorded as a failure.                             *)
Reasons == {"failed", "blocked_no_commands_declared",
            "blocked_verification_error", "blocked_unsatisfied_capability"}

(* What the gates that are passed have decided.                            *)
GateInv ==
    /\ Busy /\ step # "gate" /\ Success(local.final)
            /\ request.policy = "required" =>
          request.commands /\ local.outcome = "passed"
    /\ Busy /\ step \notin {"gate", "contract"} /\ Success(local.final)
            /\ request.policy = "required" => Judgement # "unsatisfied"
    /\ Busy /\ step # "gate" /\ local.final = "failed"
            /\ Success(local.candidate) =>
          request.policy = "required" /\ local.outcome \in Reasons

Explained ==
    envelope.state = "failed" /\ resultfile \in SuccessState =>
        /\ envelope.outcome \in Reasons
        /\ losses = 0 => gatefile = envelope.outcome

(* Which documents are this operation's, and which are not there yet.      *)
DocumentInv ==
    /\ step \in {"result", "envelope", "release", "transit"}
            /\ local.candidate # "none" /\ local.persists
            /\ request.policy = "required" => gatefile = local.outcome
    /\ step \in {"envelope", "release", "transit"}
            /\ local.candidate # "none" /\ local.persists =>
          resultfile = local.candidate
    /\ Closing /\ local.candidate # "none" /\ local.persists =>
          envelope.state = local.final /\ envelope.outcome = local.outcome
    /\ step = "transit" => wlease # "active"
    /\ losses = 0 /\ ~Ended /\ ~Closing => envelope.state = "none"
    /\ ~Durable /\ Judging /\ local.persists => envelope.state = "none"
    /\ ~Durable /\ status = "running" => envelope.state = "none"
    /\ ~Durable \/ Closing \/ Ended => Explained

IInv ==
    /\ TypeOK
    /\ OperationInv /\ LossInv /\ CandidateInv /\ GateInv /\ DocumentInv
    /\ GatesHold /\ EndIsDocumented

-----------------------------------------------------------------------------
(* Lemmas about the operators.                                             *)

LEMMA Typed ==
    ASSUME TypeOK
    PROVE  /\ request \in RequestType /\ output \in OutputType
           /\ Fits(output, request.kind)
  BY CasesAssumption DEF TypeOK

(* The gate changes a verdict for the worse only, and under "required"     *)
(* anything but a pass makes it a failure.                                 *)
LEMMA JudgedFacts ==
    ASSUME NEW c \in {"failed"} \cup SuccessState, NEW o \in Outcome
    PROVE  /\ Judged(c, o) \in {"failed"} \cup SuccessState
           /\ Success(Judged(c, o)) => Success(c)
           /\ Success(Judged(c, o)) /\ request.policy = "required"
                 => o = "passed"
           /\ Judged(c, o) = "failed" /\ Success(c)
                 => request.policy = "required" /\ o # "passed"
<1>1. CASE o = "passed" \/ ~Success(c)
  BY <1>1 DEF Judged, Success, SuccessState
<1>2. CASE /\ ~(o = "passed" \/ ~Success(c))
           /\ request.policy = "required"
  BY <1>2 DEF Judged, Success, SuccessState
<1>3. CASE /\ ~(o = "passed" \/ ~Success(c))
           /\ request.policy # "required"
           /\ o = "failed" /\ request.policy = "advisory"
  BY <1>3 DEF Judged, Success, SuccessState
<1>4. CASE /\ ~(o = "passed" \/ ~Success(c))
           /\ request.policy # "required"
           /\ ~(o = "failed" /\ request.policy = "advisory")
  BY <1>4 DEF Judged, Success, SuccessState
<1>5. QED
  BY <1>1, <1>2, <1>3, <1>4

(* No adapter takes an output that carries a sign of failure for a success.*)
LEMMA ParsedFacts ==
    ASSUME TypeOK
    PROVE  /\ Parsed \in {"failed"} \cup SuccessState
           /\ Success(Parsed) => output.exit = "zero" /\ output.error = "none"
<1>1. request.kind \in Kind /\ output.error \in {"none"} \cup ErrorSign
      /\ output.exit \in {"zero", "nonzero"} /\ Fits(output, request.kind)
  BY Typed DEF RequestType, OutputType
<1>2. ~Fails => output.exit = "zero" /\ output.error = "none"
  <2>1. CASE request.kind = "claude_code"
    BY <1>1, <2>1 DEF Fails, ClaudeFails, Fits, ErrorSign
  <2>2. CASE request.kind \in {"cursor", "legacy"}
    BY <1>1, <2>2 DEF Fails, CursorFails, Fits, ErrorSign
  <2>3. CASE request.kind = "codex"
    BY <1>1, <2>3 DEF Fails, CodexFails, Fits, ErrorSign
  <2>4. CASE request.kind \in {"mock", "direct", "opencode"}
    BY <1>1, <2>4 DEF Fails, OpenCodeFails, Fits, ErrorSign
  <2>5. QED
    BY <1>1, <2>1, <2>2, <2>3, <2>4 DEF Kind
<1>3. QED
  BY <1>2 DEF Parsed, Success, SuccessState

(* What the envelope says of capabilities; a runtime whose denials name a  *)
(* required one is not let pass.                                           *)
LEMMA VerdictFacts ==
    ASSUME NEW required, NEW runtime, NEW d
    PROVE  /\ Verdict(required, runtime, d) \in
                 {"no_requirements", "unsatisfied", "unknown", "satisfied"}
           /\ /\ Verdict(required, runtime, d) # "unsatisfied"
              /\ Mapped(runtime, "workspace.read") /\ "workspace.read" \in required
              => "Read" \notin d.tools
<1> DEFINE den == Denials(runtime, d)
           U == \E c \in required : Unsatisfied(c, runtime, den)
           V == Verdict(required, runtime, d)
<1>1. V = IF required = {} THEN "no_requirements"
          ELSE IF U THEN "unsatisfied"
          ELSE IF \E c \in required : Unknown(c, runtime, den)
               THEN "unknown" ELSE "satisfied"
  <2>1. required = {} => ~U
    OBVIOUS
  <2>2. QED
    BY <2>1 DEF Verdict
<1>2. ASSUME Mapped(runtime, "workspace.read"), "workspace.read" \in required,
             "Read" \in d.tools
      PROVE  required # {} /\ U
  <2>1. den.tools \cap PrimaryTools # {}
    BY <1>2 DEF Mapped, Denials, PrimaryTools
  <2>2. QED
    BY <1>2, <2>1 DEF Unsatisfied
<1>3. QED
  BY <1>1, <1>2

(* Only a report passes for one: of the schema asked for, with its fields, *)
(* and valid where the schema is strict.                                   *)
LEMMA ParseFacts ==
    ASSUME NEW schema, NEW r,
           NEW text \in {"blank", "prose", "broken", "report"}
    PROVE  /\ ParseStatus(schema, text, r) \in
                 {"ok", "partial", "fallback", "failed"}
           /\ ParseStatus(schema, text, r) = "ok" /\ schema # "plain-summary" =>
                 /\ text = "report"
                 /\ \A f \in RequiredFields(schema) : FieldPresent(f, schema, r)
                 /\ schema = VerifiedReport => ValidateVerified(r)
<1>1. CASE text = "blank"
  BY <1>1 DEF ParseStatus
<1>2. CASE text \in {"prose", "broken"}
  BY <1>2 DEF ParseStatus
<1>3. CASE text = "report"
  BY <1>3 DEF ParseStatus
<1>4. QED
  BY <1>1, <1>2, <1>3

LEMMA ContractFacts ==
    ASSUME NEW schema, NEW parsed, NEW s
    PROVE  /\ ContractStatus(schema, parsed, Success(s)) \in
                 {"unavailable", "not_requested", "satisfied",
                  "unsatisfied_fallback", "unsatisfied_malformed"}
           /\ ContractStatus(schema, parsed, Success(s)) = "satisfied" =>
                 Success(s) /\ schema # "plain-summary" /\ parsed = "ok"
<1>1. CASE ~Success(s)
  BY <1>1 DEF ContractStatus
<1>2. CASE Success(s) /\ schema = "plain-summary"
  BY <1>2 DEF ContractStatus
<1>3. CASE Success(s) /\ schema # "plain-summary"
  <2> DEFINE C == CASE parsed = "ok" -> "satisfied"
                    [] parsed = "fallback" -> "unsatisfied_fallback"
                    [] OTHER -> "unsatisfied_malformed"
  <2>1. ContractStatus(schema, parsed, Success(s)) = C
    BY <1>3 DEF ContractStatus
  <2>2. /\ C \in {"satisfied", "unsatisfied_fallback", "unsatisfied_malformed"}
        /\ C = "satisfied" => parsed = "ok"
    OBVIOUS
  <2>3. QED
    BY <1>3, <2>1, <2>2
<1>4. QED
  BY <1>1, <1>2, <1>3

(* A valid investigation: every reference names one piece of evidence, and *)
(* no evidence is in the broker's name.                                    *)
Named(r, i) ==
    {n \in DOMAIN r.evidence :
        NormalizeEvidenceId(r.evidence[n].id) = NormalizeEvidenceId(i)}

LEMMA ReferencesNameOne ==
    ASSUME NEW r, EvidenceValid(r), RefsValid(r),
           NEW f \in ToSet(r.findings), NEW i \in ToSet(f.refs)
    PROVE  /\ Cardinality(Named(r, i)) = 1
           /\ \A n \in Named(r, i) :
                 r.evidence[n].provenance \notin BrokerProvenance
<1>1. NormalizeEvidenceId(i) \in EvidenceIds(r)
  BY DEF RefsValid
<1>2. PICK e \in ToSet(r.evidence) :
         NormalizeEvidenceId(i) = NormalizeEvidenceId(e.id)
  BY <1>1 DEF EvidenceIds
<1>3. PICK m \in DOMAIN r.evidence : r.evidence[m] = e
  BY <1>2 DEF ToSet
<1>4. Named(r, i) = {m}
  <2>1. m \in Named(r, i)
    BY <1>2, <1>3 DEF Named
  <2>2. ASSUME NEW n \in Named(r, i) PROVE n = m
    BY <2>2, <1>2, <1>3 DEF Named, EvidenceValid
  <2>3. QED
    BY <2>1, <2>2
<1>5. ASSUME NEW n \in DOMAIN r.evidence
      PROVE  r.evidence[n].provenance \notin BrokerProvenance
  <2>1. r.evidence[n] \in ToSet(r.evidence)
    BY DEF ToSet
  <2>2. r.evidence[n].provenance \in RuntimeProvenance
    BY <2>1 DEF EvidenceValid
  <2>3. QED
    BY <2>2 DEF RuntimeProvenance, BrokerProvenance
<1>6. QED
  BY <1>4, <1>5, FS_Singleton DEF Named

(* What SatisfiedIsSound says of the report.                               *)
ReportIsSound ==
    /\ output.text = "report"
    /\ RequiredFields(request.schema) \subseteq
           output.report.fields \cup {"summary"}
    /\ request.schema = VerifiedReport =>
         \A f \in ToSet(output.report.findings) :
           \A i \in ToSet(f.refs) :
             /\ Cardinality(Named(output.report, i)) = 1
             /\ \A n \in Named(output.report, i) :
                   output.report.evidence[n].provenance \notin BrokerProvenance

LEMMA SoundIsReport ==
    SatisfiedIsSound <=>
        (envelope.contract = "satisfied" /\ losses = 0 =>
            Success(envelope.state) /\ ReportIsSound)
  BY DEF SatisfiedIsSound, ReportIsSound, Named

LEMMA EnvelopeFacts ==
    ASSUME TypeOK, local.final \in {"failed"} \cup SuccessState,
           NEW text \in Texts
    PROVE  /\ Envelope(text) \in EnvelopeType
           /\ Envelope(text).state = local.final
           /\ Envelope(text).outcome = local.outcome
           /\ Envelope(text).contract = "satisfied" /\ ~local.adopted =>
                 Success(local.final) /\ ReportIsSound
<1> DEFINE r == IF local.adopted THEN Raw ELSE output.report
           parsed == ParseStatus(request.schema, text, r)
           contract == ContractStatus(request.schema, parsed,
                                      Success(local.final))
<1>1. Envelope(text) = [state |-> local.final, parsed |-> parsed,
                        contract |-> contract, verdict |-> Judgement,
                        verified |-> evidence, outcome |-> local.outcome]
  BY DEF Envelope, EnvelopeFor
<1>2. output.text \in {"blank", "none", "prose", "broken", "report"}
  BY Typed DEF OutputType
<1>3. text \in {"blank", "prose", "broken", "report"}
  BY <1>2 DEF Texts
<1>4. /\ parsed \in {"ok", "partial", "fallback", "failed"}
      /\ parsed = "ok" /\ request.schema # "plain-summary" =>
            /\ text = "report"
            /\ \A f \in RequiredFields(request.schema) :
                  FieldPresent(f, request.schema, r)
            /\ request.schema = VerifiedReport => ValidateVerified(r)
  BY <1>3, ParseFacts
<1>5. /\ contract \in {"unavailable", "not_requested", "satisfied",
                       "unsatisfied_fallback", "unsatisfied_malformed"}
      /\ contract = "satisfied" =>
            /\ Success(local.final)
            /\ request.schema # "plain-summary" /\ parsed = "ok"
  BY ContractFacts
<1>6. Judgement \in {"no_requirements", "unsatisfied", "unknown", "satisfied"}
  BY VerdictFacts DEF Judgement
<1>7. Envelope(text) \in EnvelopeType
  BY <1>1, <1>4, <1>5, <1>6 DEF TypeOK, LocalType, EnvelopeType
<1>8. ASSUME contract = "satisfied", ~local.adopted PROVE ReportIsSound
  <2>1. /\ r = output.report /\ text = "report"
        /\ \A f \in RequiredFields(request.schema) :
              FieldPresent(f, request.schema, r)
        /\ request.schema = VerifiedReport => ValidateVerified(r)
    BY <1>4, <1>5, <1>8
  <2>2. output.text = "report"
    BY <1>2, <1>8, <2>1 DEF Texts
  <2>3. ASSUME NEW f \in RequiredFields(request.schema), f # "summary"
        PROVE  f \in r.fields
    <3>1. FieldPresent(f, request.schema, r)
      BY <2>1
    <3>2. CASE f = "findings" /\ request.schema # VerifiedReport
      BY <2>3, <3>1, <3>2 DEF FieldPresent
    <3>3. CASE ~(f = "findings" /\ request.schema # VerifiedReport)
      BY <2>3, <3>1, <3>3 DEF FieldPresent
    <3>4. QED
      BY <3>2, <3>3
  <2>4. ASSUME request.schema = VerifiedReport,
               NEW f \in ToSet(r.findings), NEW i \in ToSet(f.refs)
        PROVE  /\ Cardinality(Named(r, i)) = 1
               /\ \A n \in Named(r, i) :
                     r.evidence[n].provenance \notin BrokerProvenance
    BY <2>1, <2>4, ReferencesNameOne DEF ValidateVerified
  <2> HIDE DEF r
  <2>5. QED
    BY <2>1, <2>2, <2>3, <2>4 DEF ReportIsSound
<1> HIDE DEF parsed, contract
<1>9. QED
  BY <1>1, <1>5, <1>7, <1>8

-----------------------------------------------------------------------------
(* The invariant holds initially, and each action preserves it.            *)

LEMMA InvInit == Init => IInv
<1> SUFFICES ASSUME Init PROVE IInv
  OBVIOUS
<1>1. TypeOK
  <2>1. [request |-> request, output |-> output] \in Cases
    <3>1. PICK c \in Cases : request = c.request /\ output = c.output
      BY DEF Init
    <3>2. c = [request |-> c.request, output |-> c.output]
      BY CasesAssumption
    <3>3. QED
      BY <3>1, <3>2
  <2>2. QED
    BY <2>1, BoundsAssumption
       DEF Init, TypeOK, NoLocal, LocalType, Outcome, NoEnvelope, EnvelopeType,
           Evidence, TerminalState
<1>2. /\ step = "idle" /\ local = NoLocal /\ losses = 0 /\ envelope = NoEnvelope
      /\ status = "running" /\ hold \in {"none", "launched"}
      /\ hold = "launched" \/ request.kind = "mock"
  BY DEF Init
<1>3. OperationInv
  BY <1>2 DEF OperationInv, Busy, Judging, Closing, Ended, NoLocal, Success,
              SuccessState, TerminalState
<1>4. LossInv /\ CandidateInv
  BY <1>2 DEF LossInv, CandidateInv, Busy, Ended, NoLocal, Success,
              SuccessState, TerminalState
<1>5. GateInv /\ DocumentInv
  BY <1>2 DEF GateInv, DocumentInv, Explained, Busy, Judging, Closing, Ended,
              NoLocal, NoEnvelope, Success, SuccessState, TerminalState
<1>6. GatesHold /\ EndIsDocumented
  BY <1>2 DEF GatesHold, RequiredIsMet, FailureIsNotRescued, EndIsDocumented,
              SuccessIsDocumented, BlockIsExplained, SatisfiedIsSound,
              NoEnvelope, Success, SuccessState
<1>7. QED
  BY <1>1, <1>3, <1>4, <1>5, <1>6 DEF IInv

(* A task that has not ended breaks nothing but by its envelope.           *)
LEMMA OpenIsFine ==
    ASSUME ~Ended', SatisfiedIsSound'
    PROVE  GatesHold' /\ EndIsDocumented'
  BY DEF Ended, GatesHold, RequiredIsMet, FailureIsNotRescued, EndIsDocumented,
         SuccessIsDocumented, BlockIsExplained, Success, SuccessState,
         TerminalState

LEMMA SoundStays ==
    ASSUME SatisfiedIsSound, UNCHANGED <<request, output, envelope>>,
           losses' = 0 => losses = 0
    PROVE  SatisfiedIsSound'
  BY DEF SatisfiedIsSound

LEMMA CollectsStep ==
    ASSUME IInv, NEW c \in {"failed"} \cup SuccessState, NEW a \in BOOLEAN,
           Collects(c, a),
           Success(c) /\ request.kind # "mock" =>
              output.exit = "zero" /\ (losses = 0 => output.error = "none"),
           losses = 0 => ~a
    PROVE  IInv'
<1> USE DEF Success, SuccessState
<1>1. /\ status = "running" /\ status' = "collecting"
      /\ step = "idle" /\ step' = "gate" /\ hold' = "none"
      /\ local' = [candidate |-> c, final |-> "none", outcome |-> "none",
                   adopted |-> a, persists |-> TRUE]
      /\ UNCHANGED <<request, output, wlease, evidence, gatefile, resultfile,
                     envelope, checker, losses, verifies>>
  BY DEF Collects, CanGo, IInv, TypeOK, NoLocal, TerminalState
<1>2. TypeOK'
  BY <1>1 DEF IInv, TypeOK, LocalType, Outcome
<1>3. OperationInv'
  BY <1>1 DEF IInv, OperationInv, Busy, Judging, Closing, Ended, TerminalState,
              Durable
<1>4. LossInv' /\ CandidateInv'
  BY <1>1 DEF IInv, LossInv, CandidateInv, Busy, Ended, TerminalState, Durable
<1>5. GateInv'
  BY <1>1 DEF GateInv, Busy
<1>6. DocumentInv'
  BY <1>1 DEF IInv, DocumentInv, Explained, Busy, Judging, Closing, Ended,
              TerminalState, Durable
<1>7. SatisfiedIsSound'
  BY <1>1, SoundStays DEF IInv, EndIsDocumented
<1>8. QED
  BY <1>1, <1>2, <1>3, <1>4, <1>5, <1>6, <1>7, OpenIsFine
     DEF IInv, Ended, TerminalState

LEMMA CompleteRaisesStep == ASSUME IInv, CompleteRaises PROVE IInv'
<1> USE DEF Success, SuccessState
<1>1. /\ status = "running" /\ status' = "collecting" /\ step = "idle"
      /\ request.kind = "mock"
      /\ UNCHANGED <<request, output, wlease, evidence, gatefile, resultfile,
                     envelope, hold, step, local, checker, losses, verifies>>
  BY DEF CompleteRaises, CanGo, IInv, TypeOK, TerminalState
<1>2. TypeOK'
  BY <1>1 DEF IInv, TypeOK
<1>3. OperationInv'
  BY <1>1 DEF IInv, OperationInv, Busy, Judging, Closing, Ended, TerminalState,
              Durable
<1>4. LossInv' /\ CandidateInv'
  BY <1>1 DEF IInv, LossInv, CandidateInv, Busy, Ended, TerminalState, Durable
<1>5. GateInv'
  BY <1>1 DEF GateInv, Busy
<1>6. DocumentInv'
  BY <1>1 DEF IInv, DocumentInv, Explained, Busy, Judging, Closing, Ended,
              TerminalState, Durable
<1>7. SatisfiedIsSound'
  BY <1>1, SoundStays DEF IInv, EndIsDocumented
<1>8. QED
  BY <1>1, <1>2, <1>3, <1>4, <1>5, <1>6, <1>7, OpenIsFine
     DEF IInv, Ended, TerminalState

LEMMA CollectMockStep == ASSUME IInv, CollectMock PROVE IInv'
<1> USE DEF Success, SuccessState
<1>1. /\ request.kind = "mock" /\ status \notin TerminalState
      /\ step = "idle" /\ step' = "gate" /\ hold = "none"
      /\ local' = [candidate |-> "failed", final |-> "none",
                   outcome |-> "none", adopted |-> FALSE, persists |-> FALSE]
      /\ UNCHANGED <<request, output, status, wlease, evidence, gatefile,
                     resultfile, envelope, hold, checker, losses, verifies>>
  BY DEF CollectMock, durable, NoLocal
<1>2. TypeOK'
  BY <1>1 DEF IInv, TypeOK, LocalType, Outcome
<1>3. OperationInv'
  BY <1>1 DEF IInv, OperationInv, Busy, Judging, Closing, Ended
<1>4. LossInv' /\ CandidateInv'
  BY <1>1 DEF IInv, LossInv, CandidateInv, Busy, Ended, Durable
<1>5. GateInv'
  BY <1>1 DEF GateInv, Busy
<1>6. DocumentInv'
  BY <1>1 DEF IInv, DocumentInv, Explained, Busy, Judging, Closing, Ended,
              Durable
<1>7. SatisfiedIsSound'
  BY <1>1, SoundStays DEF IInv, EndIsDocumented
<1>8. QED
  BY <1>1, <1>2, <1>3, <1>4, <1>5, <1>6, <1>7, OpenIsFine
     DEF IInv, Ended

(* All three ways through the verification gate: the outcome decides.      *)
LEMMA GatedStep ==
    ASSUME IInv, At("gate"), NEW o \in Outcome, Gated(o),
           step' = IF local.persists THEN "contract" ELSE "gatefile",
           o = "passed" => request.commands,
           request.policy = "required" /\ Success(local.candidate) =>
              o \in Reasons \cup {"passed"},
           evidence' \in Evidence,
           UNCHANGED <<request, output, status, wlease, gatefile, resultfile,
                       envelope, hold, checker, losses, verifies>>
    PROVE  IInv'
<1> DEFINE f == Judged(local.candidate, o)
<1>1. /\ step = "gate" /\ ~Ended /\ hold = "none"
      /\ local.candidate \in {"failed"} \cup SuccessState
      /\ local \in LocalType
  BY DEF IInv, TypeOK, OperationInv, Judging, Busy, At, LocalType
<1>2. /\ f \in {"failed"} \cup SuccessState
      /\ Success(f) => Success(local.candidate)
      /\ Success(f) /\ request.policy = "required" => o = "passed"
      /\ f = "failed" /\ Success(local.candidate)
            => request.policy = "required" /\ o # "passed"
  BY <1>1, JudgedFacts
<1> HIDE DEF f
<1>3. /\ local' = [local EXCEPT !.final = f, !.outcome = o]
      /\ local'.candidate = local.candidate /\ local'.final = f
      /\ local'.outcome = o /\ local'.adopted = local.adopted
      /\ local'.persists = local.persists
  BY <1>1 DEF Gated, LocalType, f
<1> USE DEF Success, SuccessState
<1>4. TypeOK'
  <2>1. local' \in LocalType
    BY <1>1, <1>2, <1>3 DEF LocalType
  <2>2. step' \in {"contract", "gatefile"}
    OBVIOUS
  <2>3. QED
    BY <2>1, <2>2 DEF IInv, TypeOK
<1>5. OperationInv'
  BY <1>1, <1>2, <1>3 DEF IInv, OperationInv, Busy, Judging, Closing, Ended
<1>6. LossInv' /\ CandidateInv'
  BY <1>1, <1>3 DEF IInv, LossInv, CandidateInv, Busy, Ended, Durable
<1>7. GateInv'
  BY <1>1, <1>2, <1>3 DEF IInv, GateInv, OperationInv, Busy, Judging
<1>8. DocumentInv'
  BY <1>1, <1>3 DEF IInv, DocumentInv, Explained, Busy, Judging, Closing,
                    Ended, Durable
<1>9. SatisfiedIsSound'
  BY SoundStays DEF IInv, EndIsDocumented
<1>10. QED
  BY <1>1, <1>4, <1>5, <1>6, <1>7, <1>8, <1>9, OpenIsFine DEF IInv, Ended

LEMMA ContractGateStep == ASSUME IInv, ContractGate PROVE IInv'
<1> USE DEF Success, SuccessState
<1>1. /\ step = "contract" /\ step' = "gatefile" /\ ~Ended
      /\ local \in LocalType /\ local.persists /\ local.candidate # "none"
      /\ UNCHANGED <<request, output, status, wlease, evidence, gatefile,
                     resultfile, envelope, hold, checker, losses, verifies>>
  BY DEF ContractGate, At, Goes, durable, IInv, OperationInv, Busy, Judging,
         TypeOK
<1>2. local' \in LocalType
  <2>1. CASE Blocks
    BY <1>1, <2>1 DEF ContractGate, LocalType, Outcome
  <2>2. CASE ~Blocks
    BY <1>1, <2>2 DEF ContractGate
  <2>3. QED
    BY <2>1, <2>2
<1>3. /\ local'.candidate = local.candidate /\ local'.persists = local.persists
      /\ local'.adopted = local.adopted
      /\ \/ /\ local'.final = local.final /\ local'.outcome = local.outcome
            /\ ~Blocks
         \/ /\ local'.final = "failed" /\ Blocks
            /\ local'.outcome = "blocked_unsatisfied_capability"
  BY <1>1 DEF ContractGate, LocalType
<1>4. Judgement' = Judgement
  BY <1>1, <1>3 DEF Judgement, Collected
<1>5. TypeOK'
  BY <1>1, <1>2 DEF IInv, TypeOK
<1>6. OperationInv'
  BY <1>1, <1>3 DEF IInv, OperationInv, Busy, Judging, Closing, Ended, Blocks
<1>7. LossInv' /\ CandidateInv'
  BY <1>1, <1>3 DEF IInv, LossInv, CandidateInv, Busy, Ended, Durable
<1>8. GateInv'
  BY <1>1, <1>3, <1>4 DEF IInv, GateInv, Busy, Blocks, Reasons
<1>9. DocumentInv'
  BY <1>1, <1>3 DEF IInv, DocumentInv, Explained, Judging, Closing, Ended,
                    Durable
<1>10. SatisfiedIsSound'
  BY <1>1, SoundStays DEF IInv, EndIsDocumented
<1>11. QED
  BY <1>1, <1>5, <1>6, <1>7, <1>8, <1>9, <1>10, OpenIsFine DEF IInv, Ended

(* verification_gate.json: what it says is this operation's, where it is   *)
(* written at all.                                                         *)
LEMMA WriteGateStep == ASSUME IInv, WriteGate PROVE IInv'
<1> USE DEF Success, SuccessState
<1>1. /\ step = "gatefile" /\ ~Ended /\ local \in LocalType
      /\ step' = IF local.persists THEN "result" ELSE "release"
      /\ local.candidate # "none"
      /\ UNCHANGED <<request, output, status, wlease, evidence, resultfile,
                     envelope, hold, local, checker, losses, verifies>>
  BY DEF WriteGate, At, Goes, IInv, OperationInv, Busy, Judging, TypeOK
<1>2. /\ request.policy = "required" => gatefile' = local.outcome
      /\ gatefile' \in {gatefile, local.outcome}
  BY DEF WriteGate, WorthWriting
<1>3. Judgement' = Judgement
  BY <1>1 DEF Judgement, Collected
<1>4. TypeOK'
  BY <1>1, <1>2 DEF IInv, TypeOK, LocalType
<1>5. OperationInv'
  BY <1>1 DEF IInv, OperationInv, Busy, Judging, Closing, Ended
<1>6. LossInv' /\ CandidateInv'
  BY <1>1 DEF IInv, LossInv, CandidateInv, Busy, Ended, Durable
<1>7. GateInv'
  BY <1>1, <1>3 DEF IInv, GateInv, Busy
<1>8. DocumentInv'
  BY <1>1, <1>2 DEF IInv, DocumentInv, OperationInv, Explained, Judging,
                    Closing, Ended, Durable
<1>9. SatisfiedIsSound'
  BY <1>1, SoundStays DEF IInv, EndIsDocumented
<1>10. QED
  BY <1>1, <1>4, <1>5, <1>6, <1>7, <1>8, <1>9, OpenIsFine DEF IInv, Ended

LEMMA WriteResultStep == ASSUME IInv, WriteResult PROVE IInv'
<1> USE DEF Success, SuccessState
<1>1. /\ step = "result" /\ step' = "envelope" /\ ~Ended /\ local \in LocalType
      /\ local.persists /\ local.candidate # "none"
      /\ resultfile' = local.candidate
      /\ UNCHANGED <<request, output, status, wlease, evidence, gatefile,
                     envelope, hold, local, checker, losses, verifies>>
  BY DEF WriteResult, At, Goes, IInv, OperationInv, Busy, Judging, TypeOK
<1>2. Judgement' = Judgement
  BY <1>1 DEF Judgement, Collected
<1>3. TypeOK'
  BY <1>1 DEF IInv, TypeOK, LocalType
<1>4. OperationInv'
  BY <1>1 DEF IInv, OperationInv, Busy, Judging, Closing, Ended
<1>5. LossInv' /\ CandidateInv'
  BY <1>1 DEF IInv, LossInv, CandidateInv, Busy, Ended, Durable
<1>6. GateInv'
  BY <1>1, <1>2 DEF IInv, GateInv, Busy
<1>7. DocumentInv'
  BY <1>1 DEF IInv, DocumentInv, Explained, Judging, Closing, Ended, Durable
<1>8. SatisfiedIsSound'
  BY <1>1, SoundStays DEF IInv, EndIsDocumented
<1>9. QED
  BY <1>1, <1>3, <1>4, <1>5, <1>6, <1>7, <1>8, OpenIsFine DEF IInv, Ended

(* The envelope: its contract is judged on the runtime's own report where  *)
(* the launching broker collects.                                          *)
LEMMA WriteEnvelopeStep == ASSUME IInv, WriteEnvelope PROVE IInv'
<1> USE DEF Success, SuccessState
<1>1. /\ step = "envelope" /\ step' = "release" /\ ~Ended
      /\ local \in LocalType /\ local.persists /\ local.candidate # "none"
      /\ local.final \in {"failed"} \cup SuccessState
      /\ UNCHANGED <<request, output, status, wlease, evidence, gatefile,
                     resultfile, hold, local, checker, losses, verifies>>
  BY DEF WriteEnvelope, At, Goes, IInv, OperationInv, Busy, Judging, TypeOK
<1>2. PICK text \in Texts : envelope' = Envelope(text)
  BY DEF WriteEnvelope
<1>3. /\ envelope' \in EnvelopeType
      /\ envelope'.state = local.final /\ envelope'.outcome = local.outcome
      /\ envelope'.contract = "satisfied" /\ ~local.adopted =>
            Success(local.final) /\ ReportIsSound
  BY <1>1, <1>2, EnvelopeFacts DEF IInv
<1>4. Judgement' = Judgement
  BY <1>1 DEF Judgement, Collected
<1>5. TypeOK'
  BY <1>1, <1>3 DEF IInv, TypeOK
<1>6. OperationInv'
  BY <1>1 DEF IInv, OperationInv, Busy, Judging, Closing, Ended
<1>7. LossInv' /\ CandidateInv'
  BY <1>1 DEF IInv, LossInv, CandidateInv, Busy, Ended, Durable
<1>8. GateInv'
  BY <1>1, <1>4 DEF IInv, GateInv, Busy
<1>9. Explained'
  BY <1>1, <1>3 DEF IInv, GateInv, DocumentInv, Explained, Busy
<1>10. DocumentInv'
  BY <1>1, <1>3, <1>9 DEF IInv, OperationInv, DocumentInv, Judging, Closing,
                          Ended, Durable
<1>11. SatisfiedIsSound'
  <2>1. envelope'.contract = "satisfied" /\ losses' = 0 =>
           Success(envelope'.state) /\ ReportIsSound
    BY <1>1, <1>3 DEF IInv, LossInv
  <2>2. QED
    BY <1>1, <2>1 DEF SatisfiedIsSound, ReportIsSound, Named
<1>12. QED
  BY <1>1, <1>5, <1>6, <1>7, <1>8, <1>10, <1>11, OpenIsFine DEF IInv, Ended

LEMMA ReleaseStep == ASSUME IInv, Release PROVE IInv'
<1> USE DEF Success, SuccessState
<1>1. /\ step = "release" /\ step' = "transit" /\ ~Ended
      /\ wlease' \in {"none", "active", "released"} /\ wlease' # "active"
      /\ UNCHANGED <<request, output, status, evidence, gatefile, resultfile,
                     envelope, hold, local, checker, losses, verifies>>
  BY DEF Release, At, Goes, IInv, OperationInv, Busy, TypeOK
<1>2. Judgement' = Judgement
  BY <1>1 DEF Judgement, Collected
<1>3. TypeOK'
  BY <1>1 DEF IInv, TypeOK
<1>4. OperationInv'
  BY <1>1 DEF IInv, OperationInv, Busy, Judging, Closing, Ended, Durable
<1>5. LossInv' /\ CandidateInv'
  BY <1>1 DEF IInv, LossInv, CandidateInv, Busy, Ended, Durable
<1>6. GateInv'
  BY <1>1, <1>2 DEF IInv, GateInv, Busy
<1>7. DocumentInv'
  BY <1>1 DEF IInv, DocumentInv, Explained, Judging, Closing, Ended, Durable
<1>8. SatisfiedIsSound'
  BY <1>1, SoundStays DEF IInv, EndIsDocumented
<1>9. QED
  BY <1>1, <1>3, <1>4, <1>5, <1>6, <1>7, <1>8, OpenIsFine DEF IInv, Ended

(* The end: what the operation made sure of is what the properties ask.    *)
LEMMA TransitStep == ASSUME IInv, Transit PROVE IInv'
<1> USE DEF Success, SuccessState
<1>1. /\ step = "transit" /\ step' = "idle" /\ local' = NoLocal /\ ~Ended
      /\ hold = "none" /\ local \in LocalType
      /\ UNCHANGED <<request, output, wlease, evidence, gatefile, resultfile,
                     envelope, hold, checker, losses, verifies>>
  BY DEF Transit, At, IInv, OperationInv, Busy, TypeOK
<1>2. \/ status' = status
      \/ status' = local.final /\ CanGo(status, local.final)
  BY DEF Transit
<1>3. /\ status' \in {"running", "collecting", "recovery_required"}
                        \cup TerminalState
      /\ ~Durable => status' # "recovery_required"
      /\ status' = "running" => status = "running"
  <2>1. CASE status' = status
    BY <1>1, <2>1 DEF IInv, TypeOK, LossInv
  <2>2. CASE status' = local.final
    BY <1>1, <2>2, <1>2 DEF IInv, TypeOK, LocalType, CanGo, TerminalState
  <2>3. QED
    BY <1>2, <2>1, <2>2
<1>4. losses = 0 => status' \in TerminalState
  <2> SUFFICES ASSUME losses = 0 PROVE status' \in TerminalState
    OBVIOUS
  <2>1. local.candidate # "none" /\ local.final \in {"failed"} \cup SuccessState
    BY <1>1 DEF IInv, OperationInv, Busy
  <2>2. CASE local.persists
    <3>1. status = "collecting"
      BY <2>1, <2>2 DEF IInv, OperationInv
    <3>2. QED
      BY <2>1, <3>1 DEF Transit, CanGo, TerminalState
  <2>3. CASE ~local.persists
    <3>1. local.final = "failed" /\ ~Durable
      BY <2>1, <2>3 DEF IInv, OperationInv, Durable
    <3>2. status \in {"running", "collecting"}
      BY <1>1, <3>1 DEF IInv, TypeOK, LossInv, Ended
    <3>3. QED
      BY <3>1, <3>2 DEF Transit, CanGo, TerminalState
  <2>4. QED
    BY <2>2, <2>3
<1>5. Success(status') => status' = local.final /\ Success(local.final)
  BY <1>1, <1>2 DEF Ended, TerminalState
<1>6. TypeOK'
  BY <1>1, <1>3 DEF IInv, TypeOK, LocalType, NoLocal, Outcome
<1>7. OperationInv'
  BY <1>1 DEF OperationInv, Busy, Judging, Closing, NoLocal
<1>8. LossInv' /\ CandidateInv'
  BY <1>1, <1>3, <1>4 DEF IInv, LossInv, CandidateInv, Busy, Ended, Durable,
                          NoLocal
<1>9. GateInv'
  BY <1>1 DEF GateInv, Busy
<1>10. Explained'
  BY <1>1 DEF IInv, DocumentInv, Explained, Closing
<1>11. DocumentInv'
  BY <1>1, <1>3, <1>4, <1>10 DEF IInv, DocumentInv, Judging, Closing,
                                Ended, Durable
<1>12. GatesHold'
  <2> SUFFICES ASSUME Success(local.final), status' = local.final
               PROVE  GatesHold'
    BY <1>5 DEF GatesHold, RequiredIsMet, FailureIsNotRescued
  <2>1. /\ Success(local.candidate) /\ local.candidate # "none"
        /\ local.persists
    BY <1>1 DEF IInv, OperationInv
  <2>2. FailureIsNotRescued'
    BY <1>1, <2>1 DEF IInv, CandidateInv, FailureIsNotRescued
  <2>3. ASSUME request.policy = "required"
        PROVE  /\ request.commands /\ gatefile = "passed"
               /\ losses = 0 /\ Mapped(request.kind, "workspace.read")
                    /\ "workspace.read" \in request.required
                  => "Read" \notin output.denials.tools
    <3>1. request.commands /\ local.outcome = "passed"
      BY <1>1, <2>3 DEF IInv, GateInv, Busy
    <3>2. gatefile = local.outcome
      BY <1>1, <2>1, <2>3 DEF IInv, DocumentInv
    <3>3. Judgement # "unsatisfied"
      BY <1>1, <2>3 DEF IInv, GateInv, Busy
    <3>4. losses = 0 => Collected = output.denials
      BY DEF IInv, LossInv, Collected
    <3>5. QED
      BY <3>1, <3>2, <3>3, <3>4, VerdictFacts DEF Judgement
  <2>4. RequiredIsMet'
    BY <1>1, <2>3 DEF RequiredIsMet
  <2>5. QED
    BY <2>2, <2>4 DEF GatesHold
<1>13. SuccessIsDocumented'
  <2> SUFFICES ASSUME Success(local.final), status' = local.final
               PROVE  SuccessIsDocumented'
    BY <1>5 DEF SuccessIsDocumented
  <2>1. /\ Success(local.candidate) /\ local.candidate # "none"
        /\ local.persists
    BY <1>1 DEF IInv, OperationInv
  <2>2. /\ resultfile = local.candidate /\ envelope.state = local.final
        /\ wlease # "active"
    BY <1>1, <2>1 DEF IInv, DocumentInv, Closing
  <2>3. QED
    BY <1>1, <2>1, <2>2 DEF SuccessIsDocumented
<1>14. BlockIsExplained'
  BY <1>10 DEF BlockIsExplained, Explained, Reasons
<1>15. SatisfiedIsSound'
  BY <1>1, SoundStays DEF IInv, EndIsDocumented
<1>16. QED
  BY <1>6, <1>7, <1>8, <1>9, <1>11, <1>12, <1>13, <1>14, <1>15
     DEF IInv, EndIsDocumented

(* A loss forgets the operation and leaves its documents.                  *)
LEMMA LossStep == ASSUME IInv, Loss PROVE IInv'
<1> USE DEF Success, SuccessState
<1>1. /\ losses \in Nat /\ losses' = losses + 1 /\ losses' \in 0..MaxLosses
      /\ hold' = "none" /\ step' = "idle" /\ local' = NoLocal
      /\ UNCHANGED <<request, output, status, wlease, evidence, gatefile,
                     resultfile, envelope, checker, verifies>>
  BY BoundsAssumption DEF Loss, durable, IInv, TypeOK
<1>2. TypeOK'
  BY <1>1 DEF IInv, TypeOK, LocalType, NoLocal, Outcome
<1>3. OperationInv'
  BY <1>1 DEF OperationInv, Busy, Judging, Closing, NoLocal
<1>4. LossInv' /\ CandidateInv'
  BY <1>1 DEF IInv, LossInv, CandidateInv, Busy, Ended, Durable, NoLocal
<1>5. GateInv'
  BY <1>1 DEF GateInv, Busy
<1>6. DocumentInv'
  BY <1>1 DEF IInv, DocumentInv, Explained, Judging, Closing, Ended, Durable
<1>7. SatisfiedIsSound'
  BY <1>1, SoundStays DEF IInv, EndIsDocumented
<1>8. GatesHold' /\ EndIsDocumented'
  BY <1>1, <1>7 DEF IInv, GatesHold, RequiredIsMet, FailureIsNotRescued,
        EndIsDocumented, SuccessIsDocumented, BlockIsExplained
<1>9. QED
  BY <1>2, <1>3, <1>4, <1>5, <1>6, <1>8 DEF IInv

LEMMA AdoptStep == ASSUME IInv, Adopt PROVE IInv'
<1> USE DEF Success, SuccessState
<1>1. /\ step = "idle" /\ hold = "none" /\ hold' = "adopted" /\ Durable
      /\ ~Ended /\ ~Ended' /\ losses # 0
      /\ status' \in {"running", status}
      /\ UNCHANGED <<request, output, wlease, evidence, gatefile, resultfile,
                     envelope, step, local, checker, losses, verifies>>
  BY DEF Adopt, Unheld, IInv, LossInv, Busy, Ended, TerminalState, Durable
<1>2. TypeOK'
  BY <1>1 DEF IInv, TypeOK
<1>3. OperationInv'
  BY <1>1 DEF IInv, OperationInv, Busy, Judging, Closing, NoLocal
<1>4. LossInv' /\ CandidateInv'
  BY <1>1 DEF IInv, LossInv, CandidateInv, Busy, Durable
<1>5. GateInv'
  BY <1>1 DEF GateInv, Busy
<1>6. DocumentInv'
  BY <1>1 DEF DocumentInv, Judging, Closing, Durable
<1>7. SatisfiedIsSound'
  BY <1>1, SoundStays DEF IInv, EndIsDocumented
<1>8. QED
  BY <1>1, <1>2, <1>3, <1>4, <1>5, <1>6, <1>7, OpenIsFine DEF IInv

LEMMA RefuseStep == ASSUME IInv, Refuse PROVE IInv'
<1> USE DEF Success, SuccessState
<1>1. /\ step = "idle" /\ hold = "none" /\ Durable
      /\ ~Ended /\ ~Ended' /\ losses # 0
      /\ status' = "recovery_required"
      /\ UNCHANGED <<request, output, wlease, evidence, gatefile, resultfile,
                     envelope, hold, step, local, checker, losses, verifies>>
  BY DEF Refuse, Unheld, IInv, LossInv, Busy, Ended, TerminalState, Durable
<1>2. TypeOK'
  BY <1>1 DEF IInv, TypeOK
<1>3. OperationInv'
  BY <1>1 DEF IInv, OperationInv, Busy, Judging, Closing, NoLocal
<1>4. LossInv' /\ CandidateInv'
  BY <1>1 DEF IInv, LossInv, CandidateInv, Busy, Durable
<1>5. GateInv'
  BY <1>1 DEF GateInv, Busy
<1>6. DocumentInv'
  BY <1>1 DEF DocumentInv, Judging, Closing, Durable
<1>7. SatisfiedIsSound'
  BY <1>1, SoundStays DEF IInv, EndIsDocumented
<1>8. QED
  BY <1>1, <1>2, <1>3, <1>4, <1>5, <1>6, <1>7, OpenIsFine DEF IInv

LEMMA GiveUpStep == ASSUME IInv, GiveUp PROVE IInv'
<1> USE DEF Success, SuccessState
<1>1. /\ step = "idle" /\ step' = "release" /\ hold = "none"
      /\ ~Durable /\ request.kind # "mock" /\ ~Ended /\ losses # 0
      /\ local'.final \in {"failed", "uncollected"}
      /\ local'.candidate = "none" /\ local'.persists /\ ~local'.adopted
      /\ local' \in LocalType
      /\ UNCHANGED <<request, output, status, wlease, evidence, gatefile,
                     resultfile, envelope, hold, checker, losses, verifies>>
  <2>1. /\ step = "idle" /\ hold = "none" /\ ~Ended
        /\ ~Durable /\ request.kind # "mock"
    BY DEF GiveUp, Unheld, Legacy, Durable, Ended
  <2>2. losses # 0
    BY <2>1 DEF IInv, LossInv, Busy
  <2>3. PICK f \in {"failed", "uncollected"} :
           local' = [NoLocal EXCEPT !.final = f]
    BY DEF GiveUp
  <2>4. QED
    BY <2>1, <2>2, <2>3 DEF GiveUp, durable, NoLocal, LocalType, Outcome
<1>2. TypeOK'
  BY <1>1 DEF IInv, TypeOK
<1>3. OperationInv'
  BY <1>1 DEF IInv, OperationInv, Busy, Judging, Closing, Ended, Durable
<1>4. LossInv' /\ CandidateInv'
  BY <1>1 DEF IInv, LossInv, CandidateInv, Busy, Ended, Durable
<1>5. GateInv'
  BY <1>1 DEF GateInv, Busy
<1>6. DocumentInv'
  BY <1>1 DEF IInv, DocumentInv, Explained, Judging, Closing, Ended, Durable
<1>7. SatisfiedIsSound'
  BY <1>1, SoundStays DEF IInv, EndIsDocumented
<1>8. QED
  BY <1>1, <1>2, <1>3, <1>4, <1>5, <1>6, <1>7, OpenIsFine DEF IInv, Ended

(* Anybody's verify touches its evidence and nothing the others rest on.   *)
LEMMA VerifyStep == ASSUME IInv, VerifyBegins \/ VerifyEnds PROVE IInv'
<1> USE DEF Success, SuccessState
<1>1. /\ evidence' \in Evidence /\ checker' \in {"none", "running"}
      /\ verifies' \in 0..MaxVerifies
      /\ UNCHANGED <<request, output, status, wlease, gatefile, resultfile,
                     envelope, hold, step, local, losses>>
  <2>1. verifies \in 0..MaxVerifies /\ evidence \in Evidence
    BY DEF IInv, TypeOK
  <2>2. CASE VerifyBegins
    BY <2>1, <2>2, BoundsAssumption DEF VerifyBegins, durable
  <2>3. CASE VerifyEnds
    BY <2>1, <2>3 DEF VerifyEnds, Evidence
  <2>4. QED
    BY <2>2, <2>3
<1>2. TypeOK'
  BY <1>1 DEF IInv, TypeOK
<1>3. OperationInv' /\ LossInv' /\ CandidateInv'
  BY <1>1 DEF IInv, OperationInv, LossInv, CandidateInv, Busy, Judging,
              Closing, Ended, Durable
<1>4. GateInv' /\ DocumentInv'
  BY <1>1 DEF IInv, GateInv, DocumentInv, Explained, Judgement, Collected,
              Busy, Judging, Closing, Ended, Durable
<1>5. GatesHold' /\ EndIsDocumented'
  BY <1>1 DEF IInv, GatesHold, RequiredIsMet, FailureIsNotRescued,
        EndIsDocumented, SuccessIsDocumented, BlockIsExplained, SatisfiedIsSound
<1>6. QED
  BY <1>2, <1>3, <1>4, <1>5 DEF IInv

LEMMA InvNext == IInv /\ [Next]_vars => IInv'
<1> SUFFICES ASSUME IInv, [Next]_vars PROVE IInv'
  OBVIOUS
<1>1. CASE Complete
  <2>1. Collects("succeeded", FALSE) /\ request.kind = "mock"
    BY <1>1 DEF Complete
  <2>2. QED
    BY <2>1, CollectsStep DEF SuccessState
<1>1a. CASE CompleteRaises
  BY <1>1a, CompleteRaisesStep
<1>2. CASE CollectLaunched
  <2>1. /\ Parsed \in {"failed"} \cup SuccessState
        /\ Success(Parsed) => output.exit = "zero" /\ output.error = "none"
    BY ParsedFacts DEF IInv
  <2>2. Collects(Parsed, FALSE)
    BY <1>2 DEF CollectLaunched
  <2> HIDE DEF Parsed
  <2>3. QED
    BY <2>1, <2>2, CollectsStep
<1>3. CASE CollectAdopted
  <2>1. PICK c \in AdoptedEnds : Collects(c, TRUE) /\ losses # 0
    BY <1>3 DEF CollectAdopted, IInv, LossInv
  <2>2. /\ c \in {"failed"} \cup SuccessState
        /\ Success(c) => output.exit = "zero"
    BY Typed DEF IInv, OutputType, AdoptedEnds, Success, SuccessState
  <2>3. QED
    BY <2>1, <2>2, CollectsStep
<1>4. CASE CollectMock
  BY <1>4, CollectMockStep
<1>5. CASE GateWithoutCommands
  <2> DEFINE o == IF request.policy = "required" /\ Success(local.candidate)
                  THEN "blocked_no_commands_declared" ELSE "not_configured"
  <2>1. o \in Outcome /\ o # "passed" /\ At("gate") /\ Gated(o)
    BY <1>5 DEF GateWithoutCommands, Outcome
  <2>2. request.policy = "required" /\ Success(local.candidate) => o \in Reasons
    BY DEF Reasons
  <2>3. /\ step' = IF local.persists THEN "contract" ELSE "gatefile"
        /\ UNCHANGED <<request, output, status, wlease, evidence, gatefile,
                       resultfile, envelope, hold, checker, losses, verifies>>
        /\ evidence \in Evidence
    BY <1>5 DEF GateWithoutCommands, Goes, durable, IInv, TypeOK
  <2> HIDE DEF o
  <2>4. QED
    BY <2>1, <2>2, <2>3, GatedStep
<1>6. CASE GateRuns
  <2>1. PICK passed \in BOOLEAN :
           /\ evidence' = IF passed THEN "gate passed" ELSE "gate failed"
           /\ Gated(IF passed THEN "passed" ELSE "failed")
    BY <1>6 DEF GateRuns
  <2> DEFINE o == IF passed THEN "passed" ELSE "failed"
  <2>2. /\ o \in Outcome /\ o \in Reasons \cup {"passed"}
        /\ evidence' \in Evidence /\ Gated(o)
    BY <2>1 DEF Outcome, Reasons, Evidence
  <2>3. /\ At("gate") /\ request.commands
        /\ step' = IF local.persists THEN "contract" ELSE "gatefile"
        /\ UNCHANGED <<request, output, status, wlease, gatefile, resultfile,
                       envelope, hold, checker, losses, verifies>>
    BY <1>6 DEF GateRuns, Goes
  <2> HIDE DEF o
  <2>4. QED
    BY <2>2, <2>3, GatedStep
<1>7. CASE GateRaises
  <2>1. /\ "blocked_verification_error" \in Outcome
        /\ "blocked_verification_error" \in Reasons
    BY DEF Outcome, Reasons
  <2>2. /\ At("gate") /\ Gated("blocked_verification_error")
        /\ step' = IF local.persists THEN "contract" ELSE "gatefile"
        /\ UNCHANGED <<request, output, status, wlease, evidence, gatefile,
                       resultfile, envelope, hold, checker, losses, verifies>>
        /\ evidence \in Evidence
    BY <1>7 DEF GateRaises, Goes, durable, IInv, TypeOK
  <2>3. QED
    BY <2>1, <2>2, GatedStep
<1>8. CASE ContractGate
  BY <1>8, ContractGateStep
<1>9. CASE WriteGate
  BY <1>9, WriteGateStep
<1>10. CASE WriteResult
  BY <1>10, WriteResultStep
<1>11. CASE WriteEnvelope
  BY <1>11, WriteEnvelopeStep
<1>12. CASE Release
  BY <1>12, ReleaseStep
<1>13. CASE Transit
  BY <1>13, TransitStep
<1>14. CASE Loss
  BY <1>14, LossStep
<1>15. CASE Adopt
  BY <1>15, AdoptStep
<1>16. CASE Refuse
  BY <1>16, RefuseStep
<1>17. CASE GiveUp
  BY <1>17, GiveUpStep
<1>18. CASE VerifyBegins \/ VerifyEnds
  BY <1>18, VerifyStep
<1>19. CASE UNCHANGED vars
  <2>1. UNCHANGED <<request, output, status, wlease, evidence, gatefile,
                    resultfile, envelope, hold, step, local, checker, losses,
                    verifies>>
    BY <1>19 DEF vars, durable
  <2>2. TypeOK' /\ OperationInv' /\ LossInv' /\ CandidateInv'
    BY <2>1 DEF IInv, TypeOK, OperationInv, LossInv, CandidateInv, Busy,
                Judging, Closing, Ended, Durable, Success
  <2>3. GateInv' /\ DocumentInv'
    BY <2>1 DEF IInv, GateInv, DocumentInv, Explained, Judgement, Collected,
                Busy, Judging, Closing, Ended, Durable, Success
  <2>4. GatesHold' /\ EndIsDocumented'
    BY <2>1 DEF IInv, GatesHold, RequiredIsMet, FailureIsNotRescued, Success,
          EndIsDocumented, SuccessIsDocumented, BlockIsExplained,
          SatisfiedIsSound
  <2>5. QED
    BY <2>2, <2>3, <2>4 DEF IInv
<1>20. QED
  BY <1>1, <1>2, <1>3, <1>4, <1>5, <1>6, <1>7, <1>8, <1>9, <1>10, <1>11,
     <1>12, <1>13, <1>14, <1>15, <1>16, <1>17, <1>18, <1>19, <1>1a DEF Next

LEMMA Invariant == Spec => []IInv
<1>1. QED
  BY InvInit, InvNext, PTL DEF Spec

-----------------------------------------------------------------------------
(* The results.                                                            *)

(* Every variable keeps its type, whatever the cases are.                  *)
THEOREM TypeCorrect == Spec => []TypeOK
<1>1. IInv => TypeOK
  BY DEF IInv
<1>2. QED
  BY <1>1, Invariant, PTL

(* _apply_verification_gate(), _apply_capability_contract_gate(): however  *)
(* often the broker is lost and whoever runs verify meanwhile, a task that *)
(* required verification ends well only behind a passed gate, and one whose*)
(* runtime exited with an error never does.  While nothing is lost, the    *)
(* same is so of denied capabilities and of failures the CLI reports.      *)
THEOREM GatesSafe == Spec => []GatesHold
<1>1. IInv => GatesHold
  BY DEF IInv
<1>2. QED
  BY <1>1, Invariant, PTL

(* _finalize_runtime_collection(): a task that ended well has a result and *)
(* an envelope that say so, and no lease; one that a gate blocked has the  *)
(* reason in its envelope (and in verification_gate.json if nothing was    *)
(* lost); a contract called satisfied was met, by a report of any length,  *)
(* if nothing was lost.  Other ends are not covered (EnvelopeAgrees).      *)
THEOREM DocumentsSafe == Spec => []EndIsDocumented
<1>1. IInv => EndIsDocumented
  BY DEF IInv
<1>2. QED
  BY <1>1, Invariant, PTL

-----------------------------------------------------------------------------
(* The durable runner.                                                     *)

Settled == manifest.at \in Runner!Final
Born    == payload # "none"

(* Before its supervisor has forked there is nothing to tell; the first    *)
(* step is the launcher's, and nobody adopts a launch that has not proved  *)
(* itself.                                                                 *)
BirthInv ==
    /\ pc["launcher"] \in {"off", "spawn"} => sup = "none"
    /\ sup \in {"none", "forking"} => ~Born
    /\ ~Born => /\ manifest.at \in {"none", "launching"}
                /\ exited = "none" /\ ~ran
    /\ pc["adopter"] # "off" => Born /\ manifest.at \notin {"none", "launching"}

(* A proof, once made, stays, and the command waits for it.                *)
ProofInv ==
    /\ payload \in {"sweep", "running"} => manifest.at = "running"
    /\ ran => manifest.at \notin {"none", "launching"}
    /\ payload = "temp" => copy["child"] = [at |-> "running", exit |-> "none"]

(* An exit status is written once the supervisor has reaped the payload,   *)
(* and is the one it ended with.                                           *)
EndInv ==
    /\ payload \in Runner!Ended <=> exited # "none"
    /\ ~Settled => manifest.exit = "none"
    /\ Settled => /\ manifest.exit = exited /\ payload = "reaped"
                  /\ sup \in {"sweep", "returned", "killed"}
                  /\ manifest.at # "exited" => exited = "signal"
    /\ sup \in {"reaped", "temp", "sweep"} => payload = "reaped"
    /\ sup = "temp" => copy["supervisor"] = Runner!FinalManifest
    /\ pc["launcher"] = "rewrite" =>
          /\ manifest.at = "cancelled"
          /\ copy["launcher"] = [at |-> "timed_out", exit |-> manifest.exit]

(* What has been read of the manifest, and what was told of it.            *)
ToldInv ==
    /\ copy["adopter"].exit # "none" =>
          copy["adopter"].exit = exited /\ payload = "reaped"
    /\ \A c \in Runner!Caller : answer[c] = "stopped" => payload \in Runner!Ended
    /\ \A c \in Runner!Caller : answer[c] = "ok" =>
          exited = "ok" /\ payload = "reaped"

RunnerInv ==
    Runner!TypeOK /\ BirthInv /\ ProofInv /\ EndInv /\ ToldInv

(* The steps of the durable runner.                                        *)

USE DEF RunnerInv, BirthInv, ProofInv, EndInv, ToldInv, Settled, Born,
        Runner!TypeOK, Runner!Manifest, Runner!Writer, Runner!Caller,
        Runner!Final, Runner!Alive, Runner!Young, Runner!Ended,
        Runner!Unborn, Runner!files, Runner!processes, Runner!callers

(* What its launch does.                                                   *)
LEMMA LaunchStep ==
    ASSUME RunnerInv,
           \/ Runner!Launch \/ Runner!SpawnSupervisor
           \/ Runner!SeesProof \/ Runner!RecordLaunch \/ Runner!GivesUp
    PROVE  RunnerInv'
<1>1. CASE Runner!Launch
  <2>1. Runner!TypeOK'
    BY <1>1 DEF Runner!Launch, Runner!Goes
  <2>2. BirthInv'
    BY <1>1 DEF Runner!Launch, Runner!Goes
  <2>3. ProofInv'
    BY <1>1 DEF Runner!Launch, Runner!Goes
  <2>4. EndInv'
    BY <1>1 DEF Runner!Launch, Runner!Goes, Runner!FinalManifest
  <2>5. ToldInv'
    BY <1>1 DEF Runner!Launch, Runner!Goes
  <2>6. QED
    BY <2>1, <2>2, <2>3, <2>4, <2>5
<1>2. CASE Runner!SpawnSupervisor
  <2>1. Runner!TypeOK'
    BY <1>2 DEF Runner!SpawnSupervisor, Runner!Goes
  <2>2. BirthInv'
    BY <1>2 DEF Runner!SpawnSupervisor, Runner!Goes
  <2>3. ProofInv'
    BY <1>2 DEF Runner!SpawnSupervisor, Runner!Goes
  <2>4. EndInv'
    BY <1>2 DEF Runner!SpawnSupervisor, Runner!Goes, Runner!FinalManifest
  <2>5. ToldInv'
    BY <1>2 DEF Runner!SpawnSupervisor, Runner!Goes
  <2>6. QED
    BY <2>1, <2>2, <2>3, <2>4, <2>5
<1>3. CASE Runner!SeesProof
  <2>1. Runner!TypeOK'
    BY <1>3 DEF Runner!SeesProof, Runner!Goes, Runner!Proven
  <2>2. BirthInv'
    BY <1>3 DEF Runner!SeesProof, Runner!Goes, Runner!Proven
  <2>3. ProofInv'
    BY <1>3 DEF Runner!SeesProof, Runner!Goes, Runner!Proven
  <2>4. EndInv'
    BY <1>3 DEF Runner!SeesProof, Runner!Goes, Runner!Proven,
       Runner!FinalManifest
  <2>5. ToldInv'
    BY <1>3 DEF Runner!SeesProof, Runner!Goes, Runner!Proven
  <2>6. QED
    BY <2>1, <2>2, <2>3, <2>4, <2>5
<1>4. CASE Runner!GivesUp
  <2>1. Runner!TypeOK'
    BY <1>4 DEF Runner!GivesUp, Runner!Answers, Runner!Goes
  <2>2. BirthInv'
    BY <1>4 DEF Runner!GivesUp, Runner!Answers, Runner!Goes
  <2>3. ProofInv'
    BY <1>4 DEF Runner!GivesUp, Runner!Answers, Runner!Goes
  <2>4. EndInv'
    BY <1>4 DEF Runner!GivesUp, Runner!Answers, Runner!Goes,
       Runner!FinalManifest
  <2>5. ToldInv'
    BY <1>4 DEF Runner!GivesUp, Runner!Answers, Runner!Goes
  <2>6. QED
    BY <2>1, <2>2, <2>3, <2>4, <2>5
<1>5. CASE Runner!RecordLaunch
  <2>1. Runner!TypeOK'
    BY <1>5 DEF Runner!RecordLaunch, Runner!Goes
  <2>2. BirthInv'
    BY <1>5 DEF Runner!RecordLaunch, Runner!Goes
  <2>3. ProofInv'
    BY <1>5 DEF Runner!RecordLaunch, Runner!Goes
  <2>4. EndInv'
    BY <1>5 DEF Runner!RecordLaunch, Runner!Goes, Runner!FinalManifest
  <2>5. ToldInv'
    BY <1>5 DEF Runner!RecordLaunch, Runner!Goes
  <2>6. QED
    BY <2>1, <2>2, <2>3, <2>4, <2>5
<1>6. QED
  BY <1>1, <1>2, <1>3, <1>4, <1>5

(* What its supervisor does.                                               *)
LEMMA SupervisorStep ==
    ASSUME RunnerInv,
           \/ Runner!Fork \/ Runner!WaitPid \/ Runner!Finalizes
           \/ Runner!SupervisorReplaces \/ Runner!SupervisorReturns
           \/ Runner!SupervisorKilled
    PROVE  RunnerInv'
<1>1. CASE Runner!Fork
  <2>1. Runner!TypeOK'
    BY <1>1 DEF Runner!Fork
  <2>2. BirthInv'
    BY <1>1 DEF Runner!Fork
  <2>3. ProofInv'
    BY <1>1 DEF Runner!Fork
  <2>4. EndInv'
    BY <1>1 DEF Runner!Fork, Runner!FinalManifest
  <2>5. ToldInv'
    BY <1>1 DEF Runner!Fork
  <2>6. QED
    BY <2>1, <2>2, <2>3, <2>4, <2>5
<1>2. CASE Runner!WaitPid
  <2>1. Runner!TypeOK'
    BY <1>2 DEF Runner!WaitPid
  <2>2. BirthInv'
    BY <1>2 DEF Runner!WaitPid
  <2>3. ProofInv'
    BY <1>2 DEF Runner!WaitPid
  <2>4. EndInv'
    BY <1>2 DEF Runner!WaitPid, Runner!FinalManifest
  <2>5. ToldInv'
    BY <1>2 DEF Runner!WaitPid
  <2>6. QED
    BY <2>1, <2>2, <2>3, <2>4, <2>5
<1>3. CASE Runner!Finalizes
  <2>1. Runner!TypeOK'
    <3>1. Runner!FinalManifest \in Runner!Manifest
      BY DEF Runner!FinalManifest
    <3>2. copy' \in [Runner!Writer -> Runner!Manifest]
      <4>1. copy \in [Runner!Writer -> Runner!Manifest]
        OBVIOUS
      <4> HIDE DEF RunnerInv, Runner!Manifest
      <4>2. QED
        BY <1>3, <3>1, <4>1 DEF Runner!Finalizes, Runner!Drafts
    <3>3. QED
      BY <1>3, <3>2 DEF Runner!Finalizes, Runner!Drafts
  <2>2. BirthInv'
    BY <1>3 DEF Runner!Finalizes, Runner!Drafts
  <2>3. ProofInv'
    BY <1>3 DEF Runner!Finalizes, Runner!Drafts
  <2>4. EndInv'
    BY <1>3 DEF Runner!Finalizes, Runner!Drafts, Runner!FinalManifest
  <2>5. ToldInv'
    BY <1>3 DEF Runner!Finalizes, Runner!Drafts, Runner!FinalManifest
  <2>6. QED
    BY <2>1, <2>2, <2>3, <2>4, <2>5
<1>4. CASE Runner!SupervisorReplaces
  <2>1. Runner!TypeOK'
    <3>1. \A w \in Runner!Writer : copy[w] \in Runner!Manifest
      OBVIOUS
    <3>2. manifest' \in Runner!Manifest
      <4> HIDE DEF Runner!Manifest, BirthInv, ProofInv, EndInv, ToldInv
      <4>1. QED
        BY <1>4, <3>1 DEF Runner!SupervisorReplaces, Runner!Replaces,
           Runner!Sweeps
    <3>3. QED
      BY <1>4, <3>2 DEF Runner!SupervisorReplaces, Runner!Replaces
  <2>2. BirthInv'
    BY <1>4 DEF Runner!SupervisorReplaces, Runner!Replaces,
       Runner!FinalManifest
  <2>3. ProofInv'
    BY <1>4 DEF Runner!SupervisorReplaces, Runner!Replaces,
       Runner!FinalManifest
  <2>4. EndInv'
    BY <1>4 DEF Runner!SupervisorReplaces, Runner!Replaces,
       Runner!FinalManifest
  <2>5. ToldInv'
    BY <1>4 DEF Runner!SupervisorReplaces, Runner!Replaces,
       Runner!FinalManifest
  <2>6. QED
    BY <2>1, <2>2, <2>3, <2>4, <2>5
<1>5. CASE Runner!SupervisorReturns
  <2>1. Runner!TypeOK'
    BY <1>5 DEF Runner!SupervisorReturns, Runner!Sweeps
  <2>2. BirthInv'
    BY <1>5 DEF Runner!SupervisorReturns, Runner!Sweeps
  <2>3. ProofInv'
    BY <1>5 DEF Runner!SupervisorReturns, Runner!Sweeps
  <2>4. EndInv'
    BY <1>5 DEF Runner!SupervisorReturns, Runner!Sweeps, Runner!FinalManifest
  <2>5. ToldInv'
    BY <1>5 DEF Runner!SupervisorReturns, Runner!Sweeps, Runner!FinalManifest
  <2>6. QED
    BY <2>1, <2>2, <2>3, <2>4, <2>5
<1>6. CASE Runner!SupervisorKilled
  <2>1. Runner!TypeOK'
    BY <1>6 DEF Runner!SupervisorKilled
  <2>2. BirthInv'
    BY <1>6 DEF Runner!SupervisorKilled
  <2>3. ProofInv'
    BY <1>6 DEF Runner!SupervisorKilled
  <2>4. EndInv'
    BY <1>6 DEF Runner!SupervisorKilled, Runner!FinalManifest
  <2>5. ToldInv'
    BY <1>6 DEF Runner!SupervisorKilled
  <2>6. QED
    BY <2>1, <2>2, <2>3, <2>4, <2>5
<1>7. QED
  BY <1>1, <1>2, <1>3, <1>4, <1>5, <1>6

(* What the process it forked does.                                        *)
LEMMA PayloadStep ==
    ASSUME RunnerInv,
           \/ Runner!ChildDrafts \/ Runner!ChildReplaces
           \/ Runner!ChildExecs \/ Runner!ChildFails
           \/ Runner!PayloadEnds \/ Runner!InitReaps
    PROVE  RunnerInv'
<1>1. CASE Runner!ChildDrafts
  <2>1. Runner!TypeOK'
    BY <1>1 DEF Runner!ChildDrafts, Runner!Drafts
  <2>2. BirthInv'
    BY <1>1 DEF Runner!ChildDrafts, Runner!Drafts
  <2>3. ProofInv'
    BY <1>1 DEF Runner!ChildDrafts, Runner!Drafts
  <2>4. EndInv'
    BY <1>1 DEF Runner!ChildDrafts, Runner!Drafts, Runner!FinalManifest
  <2>5. ToldInv'
    BY <1>1 DEF Runner!ChildDrafts, Runner!Drafts
  <2>6. QED
    BY <2>1, <2>2, <2>3, <2>4, <2>5
<1>2. CASE Runner!ChildReplaces
  <2>1. Runner!TypeOK'
    BY <1>2 DEF Runner!ChildReplaces, Runner!Replaces
  <2>2. BirthInv'
    BY <1>2 DEF Runner!ChildReplaces, Runner!Replaces
  <2>3. ProofInv'
    BY <1>2 DEF Runner!ChildReplaces, Runner!Replaces
  <2>4. EndInv'
    BY <1>2 DEF Runner!ChildReplaces, Runner!Replaces, Runner!FinalManifest
  <2>5. ToldInv'
    BY <1>2 DEF Runner!ChildReplaces, Runner!Replaces
  <2>6. QED
    BY <2>1, <2>2, <2>3, <2>4, <2>5
<1>3. CASE Runner!ChildExecs
  <2>1. Runner!TypeOK'
    BY <1>3 DEF Runner!ChildExecs, Runner!Sweeps
  <2>2. BirthInv'
    BY <1>3 DEF Runner!ChildExecs, Runner!Sweeps
  <2>3. ProofInv'
    BY <1>3 DEF Runner!ChildExecs, Runner!Sweeps
  <2>4. EndInv'
    BY <1>3 DEF Runner!ChildExecs, Runner!Sweeps, Runner!FinalManifest
  <2>5. ToldInv'
    BY <1>3 DEF Runner!ChildExecs, Runner!Sweeps
  <2>6. QED
    BY <2>1, <2>2, <2>3, <2>4, <2>5
<1>4. CASE Runner!ChildFails
  <2>1. Runner!TypeOK'
    BY <1>4 DEF Runner!ChildFails
  <2>2. BirthInv'
    BY <1>4 DEF Runner!ChildFails
  <2>3. ProofInv'
    BY <1>4 DEF Runner!ChildFails
  <2>4. EndInv'
    BY <1>4 DEF Runner!ChildFails, Runner!FinalManifest
  <2>5. ToldInv'
    BY <1>4 DEF Runner!ChildFails
  <2>6. QED
    BY <2>1, <2>2, <2>3, <2>4, <2>5
<1>5. CASE Runner!PayloadEnds
  <2>1. Runner!TypeOK'
    BY <1>5 DEF Runner!PayloadEnds
  <2>2. BirthInv'
    BY <1>5 DEF Runner!PayloadEnds
  <2>3. ProofInv'
    BY <1>5 DEF Runner!PayloadEnds
  <2>4. EndInv'
    BY <1>5 DEF Runner!PayloadEnds, Runner!FinalManifest
  <2>5. ToldInv'
    BY <1>5 DEF Runner!PayloadEnds
  <2>6. QED
    BY <2>1, <2>2, <2>3, <2>4, <2>5
<1>6. CASE Runner!InitReaps
  <2>1. Runner!TypeOK'
    BY <1>6 DEF Runner!InitReaps
  <2>2. BirthInv'
    BY <1>6 DEF Runner!InitReaps
  <2>3. ProofInv'
    BY <1>6 DEF Runner!InitReaps
  <2>4. EndInv'
    BY <1>6 DEF Runner!InitReaps, Runner!FinalManifest
  <2>5. ToldInv'
    BY <1>6 DEF Runner!InitReaps
  <2>6. QED
    BY <2>1, <2>2, <2>3, <2>4, <2>5
<1>7. QED
  BY <1>1, <1>2, <1>3, <1>4, <1>5, <1>6

(* What a cancel, by either caller, and its loss does.                     *)
LEMMA CallerStep ==
    ASSUME RunnerInv, NEW c \in Runner!Caller,
           \/ Runner!Cancel(c) \/ Runner!Load(c) \/ Runner!Inspect(c)
           \/ Runner!Terminate(c) \/ Runner!GraceOver(c)
           \/ Runner!Crash(c)
    PROVE  RunnerInv'
<1>1. CASE Runner!Cancel(c)
  <2>1. Runner!TypeOK'
    BY <1>1 DEF Runner!Cancel, Runner!Idle, Runner!Goes
  <2>2. BirthInv'
    BY <1>1 DEF Runner!Cancel, Runner!Idle, Runner!Goes
  <2>3. ProofInv'
    BY <1>1 DEF Runner!Cancel, Runner!Idle, Runner!Goes
  <2>4. EndInv'
    BY <1>1 DEF Runner!Cancel, Runner!Idle, Runner!Goes, Runner!FinalManifest
  <2>5. ToldInv'
    BY <1>1 DEF Runner!Cancel, Runner!Idle, Runner!Goes
  <2>6. QED
    BY <2>1, <2>2, <2>3, <2>4, <2>5
<1>2. CASE Runner!Load(c)
  <2>1. Runner!TypeOK'
    BY <1>2 DEF Runner!Load, Runner!Goes, Runner!Answers
  <2>2. BirthInv'
    BY <1>2 DEF Runner!Load, Runner!Goes, Runner!Answers
  <2>3. ProofInv'
    BY <1>2 DEF Runner!Load, Runner!Goes, Runner!Answers
  <2>4. EndInv'
    BY <1>2 DEF Runner!Load, Runner!Goes, Runner!Answers,
       Runner!FinalManifest
  <2>5. ToldInv'
    BY <1>2 DEF Runner!Load, Runner!Goes, Runner!Answers
  <2>6. QED
    BY <2>1, <2>2, <2>3, <2>4, <2>5
<1>3. CASE Runner!Inspect(c)
  <2>1. Runner!TypeOK'
    BY <1>3 DEF Runner!Inspect, Runner!Live, Runner!Matches, Runner!Verified,
       Runner!Goes, Runner!Answers
  <2>2. BirthInv'
    BY <1>3 DEF Runner!Inspect, Runner!Live, Runner!Matches, Runner!Verified,
       Runner!Goes, Runner!Answers
  <2>3. ProofInv'
    BY <1>3 DEF Runner!Inspect, Runner!Live, Runner!Matches, Runner!Verified,
       Runner!Goes, Runner!Answers
  <2>4. EndInv'
    BY <1>3 DEF Runner!Inspect, Runner!Live, Runner!Matches, Runner!Verified,
       Runner!Goes, Runner!Answers, Runner!FinalManifest
  <2>5. ToldInv'
    BY <1>3 DEF Runner!Inspect, Runner!Live, Runner!Matches, Runner!Verified,
       Runner!Goes, Runner!Answers
  <2>6. QED
    BY <2>1, <2>2, <2>3, <2>4, <2>5
<1>4. CASE Runner!Terminate(c)
  <2>1. Runner!TypeOK'
    BY <1>4 DEF Runner!Terminate, Runner!Verified, Runner!Goes,
       Runner!Answers
  <2>2. BirthInv'
    BY <1>4 DEF Runner!Terminate, Runner!Verified, Runner!Goes,
       Runner!Answers
  <2>3. ProofInv'
    BY <1>4 DEF Runner!Terminate, Runner!Verified, Runner!Goes,
       Runner!Answers
  <2>4. EndInv'
    BY <1>4 DEF Runner!Terminate, Runner!Verified, Runner!Goes,
       Runner!Answers, Runner!FinalManifest
  <2>5. ToldInv'
    BY <1>4 DEF Runner!Terminate, Runner!Verified, Runner!Goes,
       Runner!Answers
  <2>6. QED
    BY <2>1, <2>2, <2>3, <2>4, <2>5
<1>5. CASE Runner!GraceOver(c)
  <2>1. Runner!TypeOK'
    BY <1>5 DEF Runner!GraceOver, Runner!Live, Runner!Matches,
       Runner!Verified, Runner!Killed, Runner!Goes
  <2>2. BirthInv'
    BY <1>5 DEF Runner!GraceOver, Runner!Live, Runner!Matches,
       Runner!Verified, Runner!Killed, Runner!Goes
  <2>3. ProofInv'
    BY <1>5 DEF Runner!GraceOver, Runner!Live, Runner!Matches,
       Runner!Verified, Runner!Killed, Runner!Goes
  <2>4. EndInv'
    BY <1>5 DEF Runner!GraceOver, Runner!Live, Runner!Matches,
       Runner!Verified, Runner!Killed, Runner!Goes, Runner!FinalManifest
  <2>5. ToldInv'
    BY <1>5 DEF Runner!GraceOver, Runner!Live, Runner!Matches,
       Runner!Verified, Runner!Killed, Runner!Goes
  <2>6. QED
    BY <2>1, <2>2, <2>3, <2>4, <2>5
<1>6. CASE Runner!Crash(c)
  <2>1. Runner!TypeOK'
    BY <1>6 DEF Runner!Crash, Runner!Goes
  <2>2. BirthInv'
    BY <1>6 DEF Runner!Crash, Runner!Goes
  <2>3. ProofInv'
    BY <1>6 DEF Runner!Crash, Runner!Goes
  <2>4. EndInv'
    BY <1>6 DEF Runner!Crash, Runner!Goes, Runner!FinalManifest
  <2>5. ToldInv'
    BY <1>6 DEF Runner!Crash, Runner!Goes
  <2>6. QED
    BY <2>1, <2>2, <2>3, <2>4, <2>5
<1>7. QED
  BY <1>1, <1>2, <1>3, <1>4, <1>5, <1>6

(* What the launcher that waits, collects or cancels does.                 *)
LEMMA LauncherStep ==
    ASSUME RunnerInv,
           \/ Runner!Collect \/ Runner!Wait \/ Runner!SupervisorWaited
           \/ Runner!WaitTimesOut \/ Runner!SupervisorAnswers
           \/ Runner!Reload \/ Runner!RewriteReplaces
           \/ Runner!RewriteSweeps
    PROVE  RunnerInv'
<1>1. CASE Runner!Collect
  <2>1. Runner!TypeOK'
    BY <1>1 DEF Runner!Collect, Runner!Idle, Runner!Answers, Runner!Goes,
       Runner!Told
  <2>2. BirthInv'
    BY <1>1 DEF Runner!Collect, Runner!Idle, Runner!Answers, Runner!Goes,
       Runner!Told
  <2>3. ProofInv'
    BY <1>1 DEF Runner!Collect, Runner!Idle, Runner!Answers, Runner!Goes,
       Runner!Told
  <2>4. EndInv'
    BY <1>1 DEF Runner!Collect, Runner!Idle, Runner!Answers, Runner!Goes,
       Runner!Told, Runner!FinalManifest
  <2>5. ToldInv'
    BY <1>1 DEF Runner!Collect, Runner!Idle, Runner!Answers, Runner!Goes,
       Runner!Told
  <2>6. QED
    BY <2>1, <2>2, <2>3, <2>4, <2>5
<1>2. CASE Runner!Wait
  <2>1. Runner!TypeOK'
    BY <1>2 DEF Runner!Wait, Runner!Idle, Runner!Goes
  <2>2. BirthInv'
    BY <1>2 DEF Runner!Wait, Runner!Idle, Runner!Goes
  <2>3. ProofInv'
    BY <1>2 DEF Runner!Wait, Runner!Idle, Runner!Goes
  <2>4. EndInv'
    BY <1>2 DEF Runner!Wait, Runner!Idle, Runner!Goes, Runner!FinalManifest
  <2>5. ToldInv'
    BY <1>2 DEF Runner!Wait, Runner!Idle, Runner!Goes
  <2>6. QED
    BY <2>1, <2>2, <2>3, <2>4, <2>5
<1>3. CASE Runner!SupervisorWaited
  <2>1. Runner!TypeOK'
    BY <1>3 DEF Runner!SupervisorWaited, Runner!Answers, Runner!Goes
  <2>2. BirthInv'
    BY <1>3 DEF Runner!SupervisorWaited, Runner!Answers, Runner!Goes
  <2>3. ProofInv'
    BY <1>3 DEF Runner!SupervisorWaited, Runner!Answers, Runner!Goes
  <2>4. EndInv'
    BY <1>3 DEF Runner!SupervisorWaited, Runner!Answers, Runner!Goes,
       Runner!FinalManifest
  <2>5. ToldInv'
    BY <1>3 DEF Runner!SupervisorWaited, Runner!Answers, Runner!Goes
  <2>6. QED
    BY <2>1, <2>2, <2>3, <2>4, <2>5
<1>4. CASE Runner!WaitTimesOut
  <2>1. Runner!TypeOK'
    BY <1>4 DEF Runner!WaitTimesOut, Runner!Goes
  <2>2. BirthInv'
    BY <1>4 DEF Runner!WaitTimesOut, Runner!Goes
  <2>3. ProofInv'
    BY <1>4 DEF Runner!WaitTimesOut, Runner!Goes
  <2>4. EndInv'
    BY <1>4 DEF Runner!WaitTimesOut, Runner!Goes, Runner!FinalManifest
  <2>5. ToldInv'
    BY <1>4 DEF Runner!WaitTimesOut, Runner!Goes
  <2>6. QED
    BY <2>1, <2>2, <2>3, <2>4, <2>5
<1>5. CASE Runner!SupervisorAnswers
  <2>1. Runner!TypeOK'
    BY <1>5 DEF Runner!SupervisorAnswers, Runner!Goes
  <2>2. BirthInv'
    BY <1>5 DEF Runner!SupervisorAnswers, Runner!Goes
  <2>3. ProofInv'
    BY <1>5 DEF Runner!SupervisorAnswers, Runner!Goes
  <2>4. EndInv'
    BY <1>5 DEF Runner!SupervisorAnswers, Runner!Goes, Runner!FinalManifest
  <2>5. ToldInv'
    BY <1>5 DEF Runner!SupervisorAnswers, Runner!Goes
  <2>6. QED
    BY <2>1, <2>2, <2>3, <2>4, <2>5
<1>6. CASE Runner!Reload
  <2>1. Runner!TypeOK'
    BY <1>6 DEF Runner!Reload, Runner!Drafts, Runner!Goes, Runner!Answers
  <2>2. BirthInv'
    BY <1>6 DEF Runner!Reload, Runner!Drafts, Runner!Goes, Runner!Answers
  <2>3. ProofInv'
    BY <1>6 DEF Runner!Reload, Runner!Drafts, Runner!Goes, Runner!Answers
  <2>4. EndInv'
    BY <1>6 DEF Runner!Reload, Runner!Drafts, Runner!Goes, Runner!Answers,
       Runner!FinalManifest
  <2>5. ToldInv'
    BY <1>6 DEF Runner!Reload, Runner!Drafts, Runner!Goes, Runner!Answers
  <2>6. QED
    BY <2>1, <2>2, <2>3, <2>4, <2>5
<1>7. CASE Runner!RewriteReplaces
  <2>1. Runner!TypeOK'
    <3>1. \A w \in Runner!Writer : copy[w] \in Runner!Manifest
      OBVIOUS
    <3>2. manifest' \in Runner!Manifest
      <4> HIDE DEF Runner!Manifest, BirthInv, ProofInv, EndInv, ToldInv
      <4>1. QED
        BY <1>7, <3>1 DEF Runner!RewriteReplaces, Runner!Replaces,
           Runner!Sweeps
    <3>3. /\ pc' = [pc EXCEPT !["launcher"] = pc'["launcher"]]
          /\ pc'["launcher"] \in {"sweep", "done"}
          /\ answer' \in {answer, [answer EXCEPT !["launcher"] = "raised"]}
          /\ temp' \subseteq temp /\ copy' = copy
      BY <1>7 DEF Runner!RewriteReplaces, Runner!Replaces, Runner!Goes,
         Runner!Sweeps, Runner!Answers
    <3>4. UNCHANGED <<Runner!processes, row, cut>>
      BY <1>7 DEF Runner!RewriteReplaces
    <3> HIDE DEF Runner!Manifest, BirthInv, ProofInv, EndInv, ToldInv
    <3>5. QED
      BY <3>2, <3>3, <3>4
  <2>2. BirthInv'
    BY <1>7 DEF Runner!RewriteReplaces, Runner!Replaces, Runner!Goes,
       Runner!Sweeps, Runner!Answers
  <2>3. ProofInv'
    BY <1>7 DEF Runner!RewriteReplaces, Runner!Replaces, Runner!Goes,
       Runner!Sweeps, Runner!Answers
  <2>4. EndInv'
    BY <1>7 DEF Runner!RewriteReplaces, Runner!Replaces, Runner!Goes,
       Runner!Sweeps, Runner!Answers, Runner!FinalManifest
  <2>5. ToldInv'
    BY <1>7 DEF Runner!RewriteReplaces, Runner!Replaces, Runner!Goes,
       Runner!Sweeps, Runner!Answers
  <2>6. QED
    BY <2>1, <2>2, <2>3, <2>4, <2>5
<1>8. CASE Runner!RewriteSweeps
  <2>1. Runner!TypeOK'
    BY <1>8 DEF Runner!RewriteSweeps, Runner!Sweeps, Runner!Answers,
       Runner!Goes
  <2>2. BirthInv'
    BY <1>8 DEF Runner!RewriteSweeps, Runner!Sweeps, Runner!Answers,
       Runner!Goes
  <2>3. ProofInv'
    BY <1>8 DEF Runner!RewriteSweeps, Runner!Sweeps, Runner!Answers,
       Runner!Goes
  <2>4. EndInv'
    BY <1>8 DEF Runner!RewriteSweeps, Runner!Sweeps, Runner!Answers,
       Runner!Goes, Runner!FinalManifest
  <2>5. ToldInv'
    BY <1>8 DEF Runner!RewriteSweeps, Runner!Sweeps, Runner!Answers,
       Runner!Goes
  <2>6. QED
    BY <2>1, <2>2, <2>3, <2>4, <2>5
<1>9. QED
  BY <1>1, <1>2, <1>3, <1>4, <1>5, <1>6, <1>7, <1>8

(* What the broker that adopts the launch does.                            *)
LEMMA AdopterStep ==
    ASSUME RunnerInv,
           \/ Runner!Adopt \/ Runner!AdoptedCollect \/ Runner!Gather
           \/ Runner!Look
    PROVE  RunnerInv'
<1>1. CASE Runner!Adopt
  <2>1. Runner!TypeOK'
    BY <1>1 DEF Runner!Adopt, Runner!Goes, Runner!Matches, Runner!Verified
  <2>2. BirthInv'
    BY <1>1 DEF Runner!Adopt, Runner!Goes, Runner!Matches, Runner!Verified
  <2>3. ProofInv'
    BY <1>1 DEF Runner!Adopt, Runner!Goes, Runner!Matches, Runner!Verified
  <2>4. EndInv'
    BY <1>1 DEF Runner!Adopt, Runner!Goes, Runner!Matches, Runner!Verified,
       Runner!FinalManifest
  <2>5. ToldInv'
    BY <1>1 DEF Runner!Adopt, Runner!Goes, Runner!Matches, Runner!Verified
  <2>6. QED
    BY <2>1, <2>2, <2>3, <2>4, <2>5
<1>2. CASE Runner!AdoptedCollect
  <2>1. Runner!TypeOK'
    BY <1>2 DEF Runner!AdoptedCollect, Runner!Idle, Runner!Goes
  <2>2. BirthInv'
    BY <1>2 DEF Runner!AdoptedCollect, Runner!Idle, Runner!Goes
  <2>3. ProofInv'
    BY <1>2 DEF Runner!AdoptedCollect, Runner!Idle, Runner!Goes
  <2>4. EndInv'
    BY <1>2 DEF Runner!AdoptedCollect, Runner!Idle, Runner!Goes,
       Runner!FinalManifest
  <2>5. ToldInv'
    BY <1>2 DEF Runner!AdoptedCollect, Runner!Idle, Runner!Goes
  <2>6. QED
    BY <2>1, <2>2, <2>3, <2>4, <2>5
<1>3. CASE Runner!Gather
  <2>1. Runner!TypeOK'
    BY <1>3 DEF Runner!Gather, Runner!Matches, Runner!Verified, Runner!Goes,
       Runner!Answers, Runner!Told
  <2>2. BirthInv'
    BY <1>3 DEF Runner!Gather, Runner!Matches, Runner!Verified, Runner!Goes,
       Runner!Answers, Runner!Told
  <2>3. ProofInv'
    BY <1>3 DEF Runner!Gather, Runner!Matches, Runner!Verified, Runner!Goes,
       Runner!Answers, Runner!Told
  <2>4. EndInv'
    BY <1>3 DEF Runner!Gather, Runner!Matches, Runner!Verified, Runner!Goes,
       Runner!Answers, Runner!Told, Runner!FinalManifest
  <2>5. ToldInv'
    BY <1>3 DEF Runner!Gather, Runner!Matches, Runner!Verified, Runner!Goes,
       Runner!Answers, Runner!Told
  <2>6. QED
    BY <2>1, <2>2, <2>3, <2>4, <2>5
<1>4. CASE Runner!Look
  <2>1. Runner!TypeOK'
    BY <1>4 DEF Runner!Look, Runner!Answers, Runner!Goes, Runner!Matches,
       Runner!Verified
  <2>2. BirthInv'
    BY <1>4 DEF Runner!Look, Runner!Answers, Runner!Goes, Runner!Matches,
       Runner!Verified
  <2>3. ProofInv'
    BY <1>4 DEF Runner!Look, Runner!Answers, Runner!Goes, Runner!Matches,
       Runner!Verified
  <2>4. EndInv'
    BY <1>4 DEF Runner!Look, Runner!Answers, Runner!Goes, Runner!Matches,
       Runner!Verified, Runner!FinalManifest
  <2>5. ToldInv'
    BY <1>4 DEF Runner!Look, Runner!Answers, Runner!Goes, Runner!Matches,
       Runner!Verified
  <2>6. QED
    BY <2>1, <2>2, <2>3, <2>4, <2>5
<1>5. QED
  BY <1>1, <1>2, <1>3, <1>4

LEMMA RunnerInit == Runner!Init => RunnerInv
<1> SUFFICES ASSUME Runner!Init
             PROVE  RunnerInv
  OBVIOUS
<1>1. Runner!TypeOK
  BY DEF Runner!Init, Runner!NoManifest
<1>2. BirthInv /\ ProofInv
  BY DEF Runner!Init, Runner!NoManifest
<1>3. EndInv
  BY DEF Runner!Init, Runner!NoManifest
<1>4. ToldInv
  BY DEF Runner!Init, Runner!NoManifest
<1>5. QED
  BY <1>1, <1>2, <1>3, <1>4

LEMMA RunnerStep == RunnerInv /\ [Runner!Next]_(Runner!vars) => RunnerInv'
<1> SUFFICES ASSUME RunnerInv, [Runner!Next]_(Runner!vars)
             PROVE  RunnerInv'
  OBVIOUS
<1>1. CASE UNCHANGED Runner!vars
  BY <1>1 DEF Runner!vars, Runner!FinalManifest
<1>2. CASE Runner!Next
  <2> HIDE DEF RunnerInv
  <2>1. QED
    BY <1>2, LaunchStep, SupervisorStep, PayloadStep, CallerStep,
       LauncherStep, AdopterStep
       DEF Runner!Next, Runner!Supervises, Runner!Child
<1>3. QED
  BY <1>1, <1>2

(* The manifest tells the truth, and callers are told it.                  *)
LEMMA RunnerSafety == RunnerInv => Runner!ManifestIsTrue /\ Runner!AnswersAreTrue
BY DEF Runner!ManifestIsTrue, Runner!RunsOnlyProven, Runner!FinalIsTrue,
       Runner!AnswersAreTrue, Runner!StoppedIsStopped,
       Runner!CollectedSuccessIsReal

(* Who may replace a final manifest, and by what.                          *)
LEMMA RunnerKeepsFinal ==
    ASSUME RunnerInv, [Runner!Next]_(Runner!vars), Settled
    PROVE  \/ manifest' = manifest
           \/ /\ manifest.at = "cancelled"
              /\ manifest' = [manifest EXCEPT !.at = "timed_out"]
<1>1. CASE Runner!Launch \/ Runner!ChildReplaces \/ Runner!SupervisorReplaces
  BY <1>1 DEF Runner!Launch, Runner!ChildReplaces, Runner!SupervisorReplaces,
     Runner!Replaces
<1>2. CASE Runner!RewriteReplaces
  BY <1>2 DEF Runner!RewriteReplaces, Runner!Replaces, Runner!Sweeps
<1>3. CASE UNCHANGED manifest
  BY <1>3
<1>4. QED
  BY <1>1, <1>2, <1>3 DEF Runner!Next, Runner!vars, Runner!Supervises,
     Runner!Child, Runner!SpawnSupervisor, Runner!SeesProof,
     Runner!RecordLaunch, Runner!GivesUp, Runner!SupervisorKilled, Runner!ChildFails, Runner!PayloadEnds,
     Runner!InitReaps, Runner!Adopt, Runner!AdoptedCollect, Runner!Gather,
     Runner!Look, Runner!Cancel, Runner!Load, Runner!Inspect,
     Runner!Terminate, Runner!GraceOver, Runner!Crash, Runner!Collect,
     Runner!Wait, Runner!SupervisorWaited, Runner!WaitTimesOut,
     Runner!SupervisorAnswers, Runner!Reload, Runner!RewriteSweeps,
     Runner!Fork, Runner!WaitPid, Runner!Finalizes, Runner!SupervisorReturns,
     Runner!ChildDrafts, Runner!ChildExecs, Runner!Drafts, Runner!Sweeps

(* The launch as RuntimeLaunches has it: there is a manifest from launch() *)
(* on, a supervisor once it is spawned, and what it is about to put is     *)
(* the end of a proven launch.                                             *)
LaunchedInv ==
    /\ manifest.at = "none" <=> pc["launcher"] = "off"
    /\ sup = "none" => pc["launcher"] \in {"off", "spawn", "gone"}
    /\ sup = "temp" => manifest.at # "launching"

LEMMA LaunchedInit == Runner!Init => LaunchedInv
BY DEF LaunchedInv, Runner!Init, Runner!NoManifest

LEMMA LaunchedStep ==
    ASSUME RunnerInv, LaunchedInv, [Runner!Next]_(Runner!vars)
    PROVE  LaunchedInv'
<1> USE DEF LaunchedInv, Runner!Goes, Runner!Answers
<1>1. CASE \/ Runner!Launch \/ Runner!SpawnSupervisor \/ Runner!SeesProof
           \/ Runner!RecordLaunch \/ Runner!GivesUp
  BY <1>1 DEF Runner!Launch, Runner!SpawnSupervisor, Runner!SeesProof,
     Runner!RecordLaunch, Runner!GivesUp
<1>2. CASE \/ Runner!ChildReplaces \/ Runner!SupervisorReplaces
           \/ Runner!RewriteReplaces
  BY <1>2 DEF Runner!ChildReplaces, Runner!SupervisorReplaces,
     Runner!RewriteReplaces, Runner!Replaces, Runner!Sweeps,
     Runner!FinalManifest
<1>3. CASE \/ Runner!Fork \/ Runner!WaitPid \/ Runner!Finalizes
           \/ Runner!SupervisorReturns \/ Runner!SupervisorKilled
           \/ Runner!ChildDrafts \/ Runner!ChildExecs \/ Runner!ChildFails
           \/ Runner!PayloadEnds \/ Runner!InitReaps
  BY <1>3 DEF Runner!Fork, Runner!WaitPid, Runner!Finalizes,
     Runner!SupervisorReturns, Runner!SupervisorKilled, Runner!ChildDrafts,
     Runner!ChildExecs, Runner!ChildFails, Runner!PayloadEnds,
     Runner!InitReaps, Runner!Drafts, Runner!Sweeps
<1>4. CASE \/ Runner!Adopt \/ Runner!AdoptedCollect \/ Runner!Gather
           \/ Runner!Look
  BY <1>4 DEF Runner!Adopt, Runner!AdoptedCollect, Runner!Gather, Runner!Look
<1>5. ASSUME NEW c \in Runner!Caller,
             \/ Runner!Cancel(c) \/ Runner!Load(c) \/ Runner!Inspect(c)
             \/ Runner!Terminate(c) \/ Runner!GraceOver(c) \/ Runner!Crash(c)
      PROVE  LaunchedInv'
  BY <1>5 DEF Runner!Cancel, Runner!Idle, Runner!Load, Runner!Inspect,
     Runner!Terminate, Runner!GraceOver, Runner!Crash
<1>6. CASE \/ Runner!Collect \/ Runner!Wait \/ Runner!SupervisorWaited
           \/ Runner!WaitTimesOut \/ Runner!SupervisorAnswers
           \/ Runner!Reload \/ Runner!RewriteSweeps
  BY <1>6 DEF Runner!Collect, Runner!Idle, Runner!Wait,
     Runner!SupervisorWaited, Runner!WaitTimesOut, Runner!SupervisorAnswers,
     Runner!Reload, Runner!RewriteSweeps, Runner!Drafts, Runner!Sweeps
<1>7. CASE UNCHANGED Runner!vars
  BY <1>7 DEF Runner!vars
<1>8. QED
  BY <1>1, <1>2, <1>3, <1>4, <1>5, <1>6, <1>7
     DEF Runner!Next, Runner!Supervises, Runner!Child

(* What RuntimeLaunches sees of the launch besides Leader and Recorded.    *)
LeaderExit ==
    IF Runner!Leader # "ended" THEN "none"
    ELSE IF exited = "ok" THEN "ok" ELSE "bad"

Supervised == sup \in {"forking", "waiting", "reaped", "temp"}

Passed ==
    /\ \/ Runner!Leader' = Runner!Leader /\ LeaderExit' = LeaderExit
       \/ Runner!Leader = "alive" /\ Runner!Leader' = "ended"
    /\ Supervised' = Supervised \/ ~Supervised'
    /\ Runner!Recorded' = Runner!Recorded

LEMMA PassedPasses ==
    ASSUME Passed
    PROVE  Runner!Launches!Next
<1> DEFINE Supervises == [l \in {"this"} |-> Supervised]
           Records == [l \in {"this"} |-> Runner!Recorded]
<1>1. \/ Runner!Launches!Ends("this") \/ Runner!Launches!Stays("this")
  BY DEF Passed, LeaderExit, Runner!Leader, Runner!Verified,
     Runner!Launches!Ends, Runner!Launches!Stays
<1>2. Supervises'["this"] = Supervises["this"] \/ Supervises'["this"] = FALSE
  <2>1. Supervised' = Supervised \/ Supervised' = FALSE
    BY DEF Passed, Supervised
  <2>2. Supervises["this"] = Supervised /\ Supervises'["this"] = Supervised'
    BY Zenon
  <2>3. QED
    BY <2>1, <2>2, Zenon
<1>3. Records'["this"] = Records["this"]
  BY DEF Passed
<1>4. Runner!Launches!Passes("this")
  BY <1>1, <1>2, <1>3, Zenon DEF Supervised, Runner!Launches!Passes
<1>5. QED
  BY <1>4 DEF Runner!Launches!Next

(* A step that touches neither the manifest nor a process is not seen.     *)
LEMMA QuietPasses ==
    ASSUME UNCHANGED <<manifest, sup, payload, exited>>
    PROVE  Passed
BY DEF Passed, LeaderExit, Supervised, Runner!Leader, Runner!Verified,
       Runner!Recorded

(* launch(): the manifest tells of a launch once there is a supervisor.    *)
LEMMA SpawnIsSeen ==
    ASSUME RunnerInv, LaunchedInv, Runner!Launch \/ Runner!SpawnSupervisor
    PROVE  Runner!Launches!Next
<1>1. CASE Runner!Launch
  <2>1. Passed
    BY <1>1 DEF LaunchedInv, Passed, LeaderExit, Supervised, Runner!Leader,
       Runner!Verified, Runner!Recorded, Runner!Launch
  <2>2. QED
    BY <2>1, PassedPasses
<1>2. CASE Runner!SpawnSupervisor
  <2>1. /\ Runner!Leader = "none" /\ Runner!Leader' = "alive"
        /\ Runner!Recorded' = "launching"
        /\ LeaderExit' = LeaderExit /\ Supervised'
    BY <1>2 DEF LaunchedInv, LeaderExit, Supervised, Runner!Leader,
       Runner!Verified, Runner!Recorded, Runner!SpawnSupervisor, Runner!Goes
  <2>2. Supervised' = TRUE
    BY <2>1 DEF Supervised
  <2>3. QED
    BY <2>1, <2>2 DEF LeaderExit, Supervised, Runner!Launches!Next,
       Runner!Launches!Spawns
<1>3. QED
  BY <1>1, <1>2

(* The command and its proof.                                              *)
LEMMA PayloadIsSeen ==
    ASSUME RunnerInv, LaunchedInv,
           \/ Runner!ChildDrafts \/ Runner!ChildReplaces \/ Runner!ChildExecs
           \/ Runner!ChildFails \/ Runner!PayloadEnds \/ Runner!InitReaps
           \/ \E c \in Runner!Caller : Runner!GraceOver(c)
    PROVE  Runner!Launches!Next
<1>1. CASE \/ Runner!ChildDrafts \/ Runner!ChildExecs \/ Runner!ChildFails
           \/ Runner!PayloadEnds \/ Runner!InitReaps
  <2>1. Passed
    BY <1>1 DEF Passed, LeaderExit, Supervised, Runner!Leader,
       Runner!Verified, Runner!Recorded, Runner!ChildDrafts,
       Runner!ChildExecs, Runner!ChildFails, Runner!PayloadEnds,
       Runner!InitReaps, Runner!Drafts, Runner!Sweeps
  <2>2. QED
    BY <2>1, PassedPasses
<1>2. ASSUME NEW c \in Runner!Caller, Runner!GraceOver(c)
      PROVE  Runner!Launches!Next
  <2>1. Passed
    BY <1>2 DEF Passed, LeaderExit, Supervised, Runner!Leader,
       Runner!Verified, Runner!Recorded, Runner!GraceOver, Runner!Killed
  <2>2. QED
    BY <2>1, PassedPasses
<1>3. CASE Runner!ChildReplaces
  <2>1. /\ Runner!Leader = "alive" /\ Runner!Leader' = "alive"
        /\ Runner!Recorded \in {"launching", "running"}
        /\ Runner!Recorded' = "running"
        /\ LeaderExit' = LeaderExit /\ UNCHANGED sup
    BY <1>3 DEF LaunchedInv, LeaderExit, Runner!Leader, Runner!Verified,
       Runner!Recorded, Runner!ChildReplaces, Runner!Replaces
  <2>2. CASE Runner!Recorded = "running"
    <3>1. Passed
      BY <2>1, <2>2 DEF Passed, Supervised
    <3>2. QED
      BY <3>1, PassedPasses
  <2>3. CASE Runner!Recorded = "launching"
    BY <2>1, <2>3 DEF LeaderExit, Runner!Launches!Next,
       Runner!Launches!Proves, Runner!Launches!Stays
  <2>4. QED
    BY <2>1, <2>2, <2>3
<1>4. QED
  BY <1>1, <1>2, <1>3

(* The supervisor, and what the launcher makes of it.                      *)
LEMMA SupervisorIsSeen ==
    ASSUME RunnerInv, LaunchedInv,
           \/ Runner!Supervises \/ Runner!SupervisorKilled
           \/ Runner!SupervisorAnswers \/ Runner!RewriteReplaces
    PROVE  Runner!Launches!Next
<1>1. ASSUME \/ Runner!Fork \/ Runner!WaitPid \/ Runner!Finalizes
             \/ Runner!SupervisorReturns \/ Runner!SupervisorKilled
             \/ Runner!SupervisorAnswers
      PROVE  Passed
  <2> USE DEF LaunchedInv, Passed, LeaderExit, Supervised, Runner!Leader,
              Runner!Verified, Runner!Recorded
  <2>1. CASE Runner!Fork
    BY <2>1 DEF Runner!Fork
  <2>2. CASE Runner!WaitPid
    BY <2>2 DEF Runner!WaitPid
  <2>3. CASE Runner!Finalizes
    BY <2>3 DEF Runner!Finalizes, Runner!Drafts
  <2>4. CASE Runner!SupervisorReturns
    BY <2>4 DEF Runner!SupervisorReturns, Runner!Sweeps
  <2>5. CASE Runner!SupervisorKilled
    BY <2>5 DEF Runner!SupervisorKilled
  <2>6. CASE Runner!SupervisorAnswers
    BY <2>6 DEF Runner!SupervisorAnswers
  <2>7. QED
    BY <1>1, <2>1, <2>2, <2>3, <2>4, <2>5, <2>6
<1>2. ASSUME Runner!RewriteReplaces PROVE Passed
  BY <1>2 DEF Passed, LeaderExit, Supervised, Runner!Leader,
     Runner!Verified, Runner!Recorded, Runner!RewriteReplaces,
     Runner!Replaces, Runner!Sweeps
<1>3. CASE Runner!SupervisorReplaces
  <2>1. CASE UNCHANGED Runner!files
    <3>1. Passed
      BY <1>3, <2>1 DEF Passed, LeaderExit, Supervised, Runner!Leader,
         Runner!Verified, Runner!Recorded, Runner!SupervisorReplaces
    <3>2. QED
      BY <3>1, PassedPasses
  <2>2. CASE Runner!Replaces("supervisor") /\ sup' = "sweep"
    <3>1. /\ Runner!Leader = "ended" /\ Runner!Leader' = "ended"
          /\ Runner!Recorded = "running" /\ Runner!Recorded' = "final"
          /\ LeaderExit' = LeaderExit
      BY <1>3, <2>2 DEF LaunchedInv, LeaderExit, Runner!Leader,
         Runner!Verified, Runner!Recorded, Runner!SupervisorReplaces,
         Runner!Replaces, Runner!FinalManifest
    <3>2. Supervised = TRUE /\ Supervised' = FALSE
      BY <1>3, <2>2 DEF Supervised, Runner!SupervisorReplaces
    <3>3. QED
      BY <3>1, <3>2 DEF LeaderExit, Supervised, Runner!Launches!Next,
         Runner!Launches!Finalizes, Runner!Launches!Stays
  <2>3. QED
    BY <1>3, <2>1, <2>2 DEF Runner!SupervisorReplaces
<1>4. QED
  BY <1>1, <1>2, <1>3, PassedPasses DEF Runner!Supervises

(* Every step of DurableRunner is a step of RuntimeLaunches or a stutter.  *)
LEMMA RunnerLaunches ==
    ASSUME RunnerInv, LaunchedInv, [Runner!Next]_(Runner!vars)
    PROVE  Runner!Launches!Next
<1> HIDE DEF RunnerInv
<1>1. CASE Runner!Launch \/ Runner!SpawnSupervisor
  BY <1>1, SpawnIsSeen
<1>2. CASE \/ Runner!ChildDrafts \/ Runner!ChildReplaces \/ Runner!ChildExecs
           \/ Runner!ChildFails \/ Runner!PayloadEnds \/ Runner!InitReaps
           \/ \E c \in Runner!Caller : Runner!GraceOver(c)
  BY <1>2, PayloadIsSeen
<1>3. CASE \/ Runner!Supervises \/ Runner!SupervisorKilled
           \/ Runner!SupervisorAnswers \/ Runner!RewriteReplaces
  BY <1>3, SupervisorIsSeen
<1>4. CASE \/ Runner!SeesProof \/ Runner!RecordLaunch \/ Runner!GivesUp
           \/ Runner!Adopt \/ Runner!AdoptedCollect \/ Runner!Gather
           \/ Runner!Look \/ Runner!Collect \/ Runner!Wait
           \/ Runner!SupervisorWaited \/ Runner!WaitTimesOut
           \/ Runner!Reload \/ Runner!RewriteSweeps
  <2>1. UNCHANGED <<manifest, sup, payload, exited>>
    BY <1>4 DEF Runner!SeesProof, Runner!RecordLaunch, Runner!GivesUp,
       Runner!Adopt,
       Runner!AdoptedCollect, Runner!Gather, Runner!Look, Runner!Collect,
       Runner!Wait, Runner!SupervisorWaited, Runner!WaitTimesOut,
       Runner!Reload, Runner!RewriteSweeps, Runner!Drafts, Runner!Sweeps
  <2>2. QED
    BY <2>1, QuietPasses, PassedPasses
<1>5. ASSUME NEW c \in Runner!Caller,
             \/ Runner!Cancel(c) \/ Runner!Load(c) \/ Runner!Inspect(c)
             \/ Runner!Terminate(c) \/ Runner!Crash(c)
      PROVE  Runner!Launches!Next
  <2>1. UNCHANGED <<manifest, sup, payload, exited>>
    BY <1>5 DEF Runner!Cancel, Runner!Load, Runner!Inspect,
       Runner!Terminate, Runner!Crash
  <2>2. QED
    BY <2>1, QuietPasses, PassedPasses
<1>6. CASE UNCHANGED Runner!vars
  <2>1. UNCHANGED <<manifest, sup, payload, exited>>
    BY <1>6 DEF Runner!vars
  <2>2. QED
    BY <2>1, QuietPasses, PassedPasses
<1>7. QED
  BY <1>1, <1>2, <1>3, <1>4, <1>5, <1>6 DEF Runner!Next, Runner!Child

(* Before launch() there is nothing.                                       *)
LEMMA RunnerLaunchesInit == Runner!Init => Runner!Launches!Init
<1> SUFFICES ASSUME Runner!Init
             PROVE  Runner!Launches!Init
  OBVIOUS
<1>1. /\ sup = "none" /\ Runner!Leader = "none" /\ Runner!Recorded = "none"
      /\ Supervised = FALSE
  BY DEF Runner!Init, Runner!Leader, Runner!Recorded, Supervised
<1>2. [l \in {"this"} |-> Supervised] = [l \in {"this"} |-> FALSE]
  BY <1>1, Zenon
<1>3. QED
  BY <1>1, <1>2 DEF Supervised, Runner!Launches!Init

HIDE DEF RunnerInv, BirthInv, ProofInv, EndInv, ToldInv, Settled, Born,
         Runner!TypeOK, Runner!Manifest, Runner!Writer, Runner!Caller,
         Runner!Final, Runner!Alive, Runner!Young, Runner!Ended,
         Runner!Unborn, Runner!files, Runner!processes, Runner!callers

-----------------------------------------------------------------------------
(* The direct request.                                                     *)

(* The thread looks at the event before it sends: the attempt that had     *)
(* begun when the event was set is the last one.  A result is its last act.*)
ThreadInv ==
    /\ ~event \/ thread \in {"top", "sending"} => resent = 0
    /\ resent <= 1
    /\ result # "none" => thread = "ended"
    /\ result = "success" => reply = "summary"

(* An operation has taken the handle before it judges the request, and     *)
(* what it is about to record is so.                                       *)
HandleInv ==
    /\ held => up /\ op = Direct!Idle
    /\ op.at \in {"abort", "grace"} => op.to \in {"cancelled", "timed_out"}
    /\ op.at = "record" /\ op.to \in {"cancelled", "timed_out"} =>
          thread = "ended"
    /\ op.at = "record" /\ op.to \in Direct!SuccessState => result = "success"

DirectInv ==
    /\ Direct!TypeOK /\ ThreadInv /\ HandleInv
    /\ Direct!StoppedIsOver /\ Direct!SuccessIsAnswered
    /\ Direct!HeldIsUnsettled

(* The steps of the direct request.                                        *)

USE DEF DirectInv, ThreadInv, HandleInv, Direct!StoppedIsOver,
        Direct!SuccessIsAnswered, Direct!HeldIsUnsettled, Direct!Active,
        Direct!Idle, Direct!Answer, Direct!Result, Direct!request,
        Direct!broker, Direct!TaskState, Direct!TerminalState,
        Direct!SuccessState

(* Requests keep their type: what an operation of a broker makes of one.   *)
RequestOps ==
    [at : {"join", "abort", "grace", "record"}, to : Direct!TaskState]
        \cup {Direct!Idle, [at |-> "join", to |-> "none"]}

LEMMA OperationTyped ==
    ASSUME Direct!TypeOK, state' \in Direct!TaskState, held' \in BOOLEAN,
           up' \in BOOLEAN, op' = op \/ op' \in RequestOps,
           thread' \in {thread, "ended", "lost"},
           event' \in BOOLEAN, UNCHANGED <<alone, late, reply, result, resent>>
    PROVE  Direct!TypeOK'
<1>1. op' \in RequestOps
  BY DEF Direct!TypeOK, RequestOps
<1>2. /\ alone' \in BOOLEAN /\ event' \in BOOLEAN /\ late' \in BOOLEAN
      /\ held' \in BOOLEAN /\ up' \in BOOLEAN
  BY DEF Direct!TypeOK
<1>3. /\ thread' \in {"top", "sending", "answered", "written", "ended", "lost"}
      /\ reply' \in Direct!Answer \cup {"none"}
      /\ result' \in Direct!Result \cup {"none"}
      /\ resent' \in 0..2 /\ state' \in Direct!TaskState
  BY DEF Direct!TypeOK
<1>4. QED
  BY <1>1, <1>2, <1>3, Zenon DEF Direct!TypeOK, RequestOps

(* The request thread, and its clock.                                      *)
LEMMA RequestStep ==
    ASSUME DirectInv,
           \/ Direct!Top \/ Direct!Send \/ Direct!DeadlinePasses
           \/ Direct!WriteResponse \/ Direct!Conclude
    PROVE  DirectInv'
<1>1. CASE Direct!Top
  <2>1. Direct!TypeOK'
    BY <1>1 DEF Direct!Top, Direct!Answers, Direct!Ends, Direct!TypeOK
  <2>2. ThreadInv'
    BY <1>1 DEF Direct!Top, Direct!Answers, Direct!Ends
  <2>3. HandleInv'
    BY <1>1 DEF Direct!Top, Direct!Answers, Direct!Ends
  <2>4. Direct!StoppedIsOver'
    BY <1>1 DEF Direct!Top, Direct!Answers, Direct!Ends
  <2>5. Direct!SuccessIsAnswered'
    BY <1>1 DEF Direct!Top, Direct!Answers, Direct!Ends
  <2>6. Direct!HeldIsUnsettled'
    BY <1>1 DEF Direct!Top, Direct!Answers, Direct!Ends
  <2>7. QED
    BY <2>1, <2>2, <2>3, <2>4, <2>5, <2>6
<1>2. CASE Direct!Send
  <2>1. Direct!TypeOK'
    <3>1. resent \in 0..2 /\ resent' \in 0..2
      BY <1>2 DEF Direct!Send, Direct!Resent, Direct!TypeOK
    <3>2. /\ thread' \in {"top", "answered", "ended"}
          /\ reply' \in Direct!Answer \cup {"none"}
          /\ result' \in Direct!Result \cup {"none"} /\ late' \in BOOLEAN
      BY <1>2 DEF Direct!Send, Direct!Answered, Direct!Undelivered,
         Direct!FailsForGood, Direct!TakesTooLong, Direct!Answers,
         Direct!Ends, Direct!TypeOK
    <3>3. UNCHANGED <<alone, event, state, held, up, op>>
      BY <1>2 DEF Direct!Send
    <3>4. QED
      BY <3>1, <3>2, <3>3 DEF Direct!TypeOK
  <2>2. ThreadInv'
    BY <1>2 DEF Direct!Send, Direct!Resent, Direct!Answered,
       Direct!Undelivered, Direct!FailsForGood, Direct!TakesTooLong,
       Direct!Answers, Direct!Ends
  <2>3. HandleInv'
    BY <1>2 DEF Direct!Send, Direct!Resent, Direct!Answered,
       Direct!Undelivered, Direct!FailsForGood, Direct!TakesTooLong,
       Direct!Answers, Direct!Ends
  <2>4. Direct!StoppedIsOver'
    BY <1>2 DEF Direct!Send, Direct!Resent, Direct!Answered,
       Direct!Undelivered, Direct!FailsForGood, Direct!TakesTooLong,
       Direct!Answers, Direct!Ends
  <2>5. Direct!SuccessIsAnswered'
    BY <1>2 DEF Direct!Send, Direct!Resent, Direct!Answered,
       Direct!Undelivered, Direct!FailsForGood, Direct!TakesTooLong,
       Direct!Answers, Direct!Ends
  <2>6. Direct!HeldIsUnsettled'
    BY <1>2 DEF Direct!Send, Direct!Resent, Direct!Answered,
       Direct!Undelivered, Direct!FailsForGood, Direct!TakesTooLong,
       Direct!Answers, Direct!Ends
  <2>7. QED
    BY <2>1, <2>2, <2>3, <2>4, <2>5, <2>6
<1>3. CASE Direct!DeadlinePasses
  <2>1. Direct!TypeOK'
    BY <1>3 DEF Direct!DeadlinePasses, Direct!TypeOK
  <2>2. ThreadInv'
    BY <1>3 DEF Direct!DeadlinePasses
  <2>3. HandleInv'
    BY <1>3 DEF Direct!DeadlinePasses
  <2>4. Direct!StoppedIsOver'
    BY <1>3 DEF Direct!DeadlinePasses
  <2>5. Direct!SuccessIsAnswered'
    BY <1>3 DEF Direct!DeadlinePasses
  <2>6. Direct!HeldIsUnsettled'
    BY <1>3 DEF Direct!DeadlinePasses
  <2>7. QED
    BY <2>1, <2>2, <2>3, <2>4, <2>5, <2>6
<1>4. CASE Direct!WriteResponse
  <2>1. Direct!TypeOK'
    BY <1>4 DEF Direct!WriteResponse, Direct!Ends, Direct!TypeOK
  <2>2. ThreadInv'
    BY <1>4 DEF Direct!WriteResponse, Direct!Ends
  <2>3. HandleInv'
    BY <1>4 DEF Direct!WriteResponse, Direct!Ends
  <2>4. Direct!StoppedIsOver'
    BY <1>4 DEF Direct!WriteResponse, Direct!Ends
  <2>5. Direct!SuccessIsAnswered'
    BY <1>4 DEF Direct!WriteResponse, Direct!Ends
  <2>6. Direct!HeldIsUnsettled'
    BY <1>4 DEF Direct!WriteResponse, Direct!Ends
  <2>7. QED
    BY <2>1, <2>2, <2>3, <2>4, <2>5, <2>6
<1>5. CASE Direct!Conclude
  <2>1. Direct!TypeOK'
    BY <1>5 DEF Direct!Conclude, Direct!Ends, Direct!TypeOK
  <2>2. ThreadInv'
    BY <1>5 DEF Direct!Conclude, Direct!Ends
  <2>3. HandleInv'
    BY <1>5 DEF Direct!Conclude, Direct!Ends
  <2>4. Direct!StoppedIsOver'
    BY <1>5 DEF Direct!Conclude, Direct!Ends
  <2>5. Direct!SuccessIsAnswered'
    BY <1>5 DEF Direct!Conclude, Direct!Ends
  <2>6. Direct!HeldIsUnsettled'
    BY <1>5 DEF Direct!Conclude, Direct!Ends
  <2>7. QED
    BY <2>1, <2>2, <2>3, <2>4, <2>5, <2>6
<1>6. QED
  BY <1>1, <1>2, <1>3, <1>4, <1>5

(* The broker that holds the request.                                      *)
LEMMA HolderStep ==
    ASSUME DirectInv,
           \/ Direct!Collect \/ Direct!Join \/ Direct!Record
           \/ Direct!Cancel \/ Direct!Timeout \/ Direct!Abort
           \/ Direct!Grace
    PROVE  DirectInv'
<1>1. CASE Direct!Collect
  <2>1. Direct!TypeOK'
    <3>1. /\ state' \in Direct!TaskState /\ held' \in BOOLEAN
          /\ UNCHANGED <<up, thread>>
      BY <1>1 DEF Direct!Collect, Direct!TypeOK
    <3>2. op' = op \/ op' \in RequestOps
      BY <1>1 DEF Direct!Collect, Direct!TypeOK, RequestOps
    <3>3. QED
      BY <1>1, <3>1, <3>2, OperationTyped DEF Direct!Collect, Direct!TypeOK
  <2>2. ThreadInv'
    BY <1>1 DEF Direct!Collect, Direct!Ready
  <2>3. HandleInv'
    BY <1>1 DEF Direct!Collect, Direct!Ready
  <2>4. Direct!StoppedIsOver'
    BY <1>1 DEF Direct!Collect, Direct!Ready
  <2>5. Direct!SuccessIsAnswered'
    BY <1>1 DEF Direct!Collect, Direct!Ready
  <2>6. Direct!HeldIsUnsettled'
    BY <1>1 DEF Direct!Collect, Direct!Ready
  <2>7. QED
    BY <2>1, <2>2, <2>3, <2>4, <2>5, <2>6
<1>2. CASE Direct!Join
  <2>1. Direct!TypeOK'
    <3>1. /\ state' \in Direct!TaskState /\ held' \in BOOLEAN
          /\ UNCHANGED <<up, thread>>
      BY <1>2 DEF Direct!Join, Direct!TypeOK
    <3>2. op' \in RequestOps
      BY <1>2 DEF Direct!Join, Direct!TypeOK, RequestOps
    <3>3. QED
      BY <1>2, <3>1, <3>2, OperationTyped DEF Direct!Join, Direct!TypeOK
  <2>2. ThreadInv'
    BY <1>2 DEF Direct!Join, Direct!At, Direct!TypeOK
  <2>3. HandleInv'
    BY <1>2 DEF Direct!Join, Direct!At, Direct!TypeOK
  <2>4. Direct!StoppedIsOver'
    BY <1>2 DEF Direct!Join, Direct!At, Direct!TypeOK
  <2>5. Direct!SuccessIsAnswered'
    BY <1>2 DEF Direct!Join, Direct!At, Direct!TypeOK
  <2>6. Direct!HeldIsUnsettled'
    BY <1>2 DEF Direct!Join, Direct!At, Direct!TypeOK
  <2>7. QED
    BY <2>1, <2>2, <2>3, <2>4, <2>5, <2>6
<1>3. CASE Direct!Record
  <2>1. Direct!TypeOK'
    <3>1. op.to \in Direct!TaskState
      BY <1>3 DEF Direct!Record, Direct!At, Direct!TypeOK
    <3>2. state' \in Direct!TaskState /\ op' \in RequestOps
      BY <1>3, <3>1 DEF Direct!Record, Direct!Records, Direct!TypeOK, RequestOps
    <3>3. QED
      BY <1>3, <3>2, OperationTyped DEF Direct!Record, Direct!TypeOK
  <2>2. ThreadInv'
    BY <1>3 DEF Direct!Record, Direct!At, Direct!Records, Direct!TypeOK
  <2>3. HandleInv'
    BY <1>3 DEF Direct!Record, Direct!At, Direct!Records, Direct!TypeOK
  <2>4. Direct!StoppedIsOver'
    BY <1>3 DEF Direct!Record, Direct!At, Direct!Records, Direct!TypeOK
  <2>5. Direct!SuccessIsAnswered'
    BY <1>3 DEF Direct!Record, Direct!At, Direct!Records, Direct!TypeOK
  <2>6. Direct!HeldIsUnsettled'
    BY <1>3 DEF Direct!Record, Direct!At, Direct!Records, Direct!TypeOK
  <2>7. QED
    BY <2>1, <2>2, <2>3, <2>4, <2>5, <2>6
<1>4. CASE Direct!Cancel
  <2>0. \/ /\ state' = "cancelling" /\ held' = FALSE
           /\ op' = [at |-> "abort", to |-> "cancelled"]
        \/ UNCHANGED <<state, held, op>>
    BY <1>4 DEF Direct!Cancel
  <2>1. Direct!TypeOK'
    <3>1. state' \in Direct!TaskState /\ held' \in BOOLEAN
      BY <2>0 DEF Direct!TypeOK
    <3>2. [at |-> "abort", to |-> "cancelled"] \in RequestOps
      BY DEF RequestOps
    <3>3. op' = op \/ op' \in RequestOps
      BY <2>0, <3>2
    <3>4. QED
      BY <1>4, <3>1, <3>3, OperationTyped DEF Direct!Cancel, Direct!TypeOK
  <2>2. ThreadInv'
    BY <1>4 DEF Direct!Cancel, Direct!Ready
  <2>3. HandleInv'
    <3>1. UNCHANGED <<thread, result, up>>
      BY <1>4 DEF Direct!Cancel
    <3>2. QED
      BY <2>0, <3>1
  <2>4. Direct!StoppedIsOver'
    BY <1>4 DEF Direct!Cancel, Direct!Ready
  <2>5. Direct!SuccessIsAnswered'
    BY <1>4 DEF Direct!Cancel, Direct!Ready
  <2>6. Direct!HeldIsUnsettled'
    BY <1>4 DEF Direct!Cancel, Direct!Ready
  <2>7. QED
    BY <2>1, <2>2, <2>3, <2>4, <2>5, <2>6
<1>5. CASE Direct!Timeout
  <2>1. Direct!TypeOK'
    <3>1. /\ state' \in Direct!TaskState /\ held' \in BOOLEAN
          /\ UNCHANGED <<up, thread>>
      BY <1>5 DEF Direct!Timeout, Direct!TypeOK
    <3>2. op' \in RequestOps
      BY <1>5 DEF Direct!Timeout, Direct!TypeOK, RequestOps
    <3>3. QED
      BY <1>5, <3>1, <3>2, OperationTyped DEF Direct!Timeout, Direct!TypeOK
  <2>2. ThreadInv'
    BY <1>5 DEF Direct!Timeout, Direct!Ready
  <2>3. HandleInv'
    BY <1>5 DEF Direct!Timeout, Direct!Ready
  <2>4. Direct!StoppedIsOver'
    BY <1>5 DEF Direct!Timeout, Direct!Ready
  <2>5. Direct!SuccessIsAnswered'
    BY <1>5 DEF Direct!Timeout, Direct!Ready
  <2>6. Direct!HeldIsUnsettled'
    BY <1>5 DEF Direct!Timeout, Direct!Ready
  <2>7. QED
    BY <2>1, <2>2, <2>3, <2>4, <2>5, <2>6
<1>6. CASE Direct!Abort
  <2>1. Direct!TypeOK'
    <3>1. op' \in RequestOps
      BY <1>6 DEF Direct!Abort, Direct!At, Direct!TypeOK, RequestOps
    <3>2. /\ event' \in BOOLEAN
          /\ UNCHANGED <<alone, thread, late, reply, result, resent, state,
                         held, up>>
      BY <1>6 DEF Direct!Abort
    <3>3. QED
      BY <3>1, <3>2, OperationTyped DEF Direct!TypeOK
  <2>2. ThreadInv'
    BY <1>6 DEF Direct!Abort, Direct!At
  <2>3. HandleInv'
    BY <1>6 DEF Direct!Abort, Direct!At
  <2>4. Direct!StoppedIsOver'
    BY <1>6 DEF Direct!Abort, Direct!At
  <2>5. Direct!SuccessIsAnswered'
    BY <1>6 DEF Direct!Abort, Direct!At
  <2>6. Direct!HeldIsUnsettled'
    BY <1>6 DEF Direct!Abort, Direct!At
  <2>7. QED
    BY <2>1, <2>2, <2>3, <2>4, <2>5, <2>6
<1>7. CASE Direct!Grace
  <2>1. Direct!TypeOK'
    <3>1. op.to \in Direct!TaskState
      BY <1>7 DEF Direct!Grace, Direct!At, Direct!TypeOK
    <3>2. op' \in RequestOps
      BY <1>7, <3>1 DEF Direct!Grace, RequestOps
    <3>3. QED
      BY <1>7, <3>2, OperationTyped DEF Direct!Grace, Direct!TypeOK
  <2>2. ThreadInv'
    BY <1>7 DEF Direct!Grace, Direct!At, Direct!TypeOK
  <2>3. HandleInv'
    BY <1>7 DEF Direct!Grace, Direct!At, Direct!TypeOK
  <2>4. Direct!StoppedIsOver'
    BY <1>7 DEF Direct!Grace, Direct!At, Direct!TypeOK
  <2>5. Direct!SuccessIsAnswered'
    BY <1>7 DEF Direct!Grace, Direct!At, Direct!TypeOK
  <2>6. Direct!HeldIsUnsettled'
    BY <1>7 DEF Direct!Grace, Direct!At, Direct!TypeOK
  <2>7. QED
    BY <2>1, <2>2, <2>3, <2>4, <2>5, <2>6
<1>8. QED
  BY <1>1, <1>2, <1>3, <1>4, <1>5, <1>6, <1>7

(* A broker that does not, and a crash.                                    *)
LEMMA StrangerStep ==
    ASSUME DirectInv,
           \/ Direct!Reconcile \/ Direct!Crash
    PROVE  DirectInv'
<1>1. CASE Direct!Reconcile
  <2>1. Direct!TypeOK'
    <3>1. state' \in Direct!TaskState /\ op' = op
      BY <1>1 DEF Direct!Reconcile
    <3>2. QED
      BY <1>1, <3>1, OperationTyped DEF Direct!Reconcile, Direct!TypeOK
  <2>2. ThreadInv'
    BY <1>1 DEF Direct!Reconcile, Direct!Reconcilable
  <2>3. HandleInv'
    BY <1>1 DEF Direct!Reconcile, Direct!Reconcilable
  <2>4. Direct!StoppedIsOver'
    BY <1>1 DEF Direct!Reconcile, Direct!Reconcilable
  <2>5. Direct!SuccessIsAnswered'
    BY <1>1 DEF Direct!Reconcile, Direct!Reconcilable
  <2>6. Direct!HeldIsUnsettled'
    BY <1>1 DEF Direct!Reconcile, Direct!Reconcilable
  <2>7. QED
    BY <2>1, <2>2, <2>3, <2>4, <2>5, <2>6
<1>2. CASE Direct!Crash
  <2>1. Direct!TypeOK'
    <3>1. op' \in RequestOps
      BY <1>2 DEF Direct!Crash, RequestOps
    <3>2. /\ held' \in BOOLEAN /\ up' \in BOOLEAN
          /\ thread' \in {thread, "lost"}
      BY <1>2 DEF Direct!Crash
    <3>3. QED
      BY <1>2, <3>1, <3>2, OperationTyped DEF Direct!Crash, Direct!TypeOK
  <2>2. ThreadInv'
    BY <1>2 DEF Direct!Crash
  <2>3. HandleInv'
    BY <1>2 DEF Direct!Crash
  <2>4. Direct!StoppedIsOver'
    BY <1>2 DEF Direct!Crash
  <2>5. Direct!SuccessIsAnswered'
    BY <1>2 DEF Direct!Crash
  <2>6. Direct!HeldIsUnsettled'
    BY <1>2 DEF Direct!Crash
  <2>7. QED
    BY <2>1, <2>2, <2>3, <2>4, <2>5, <2>6
<1>3. QED
  BY <1>1, <1>2

LEMMA DirectInit == Direct!Init => DirectInv
<1> SUFFICES ASSUME Direct!Init
             PROVE  DirectInv
  OBVIOUS
<1>1. Direct!TypeOK
  <2>1. /\ alone \in BOOLEAN /\ thread = "top" /\ event = FALSE
        /\ late = FALSE /\ reply = "none" /\ result = "none" /\ resent = 0
    BY DEF Direct!Init
  <2>2. state = "running" /\ held = TRUE /\ up = TRUE /\ op = Direct!Idle
    BY DEF Direct!Init
  <2>3. op \in [at : {"join", "abort", "grace", "record"},
                to : Direct!TaskState]
               \cup {Direct!Idle, [at |-> "join", to |-> "none"]}
    <3> HIDE DEF Direct!Idle
    <3>1. QED
      BY <2>2
  <2>4. /\ thread \in {"top", "sending", "answered", "written", "ended",
                      "lost"}
        /\ reply \in Direct!Answer \cup {"none"}
        /\ result \in Direct!Result \cup {"none"}
        /\ resent \in 0..2 /\ state \in Direct!TaskState
    BY <2>1, <2>2
  <2>5. /\ event \in BOOLEAN /\ late \in BOOLEAN
        /\ held \in BOOLEAN /\ up \in BOOLEAN
    BY <2>1, <2>2, Zenon
  <2>6. QED
    BY <2>1, <2>3, <2>4, <2>5, Zenon DEF Direct!TypeOK
<1>2. ThreadInv /\ HandleInv
  BY DEF Direct!Init
<1>3. /\ Direct!StoppedIsOver /\ Direct!SuccessIsAnswered
      /\ Direct!HeldIsUnsettled
  BY DEF Direct!Init
<1>4. QED
  BY <1>1, <1>2, <1>3

LEMMA DirectStep == DirectInv /\ [Direct!Next]_(Direct!vars) => DirectInv'
<1> SUFFICES ASSUME DirectInv, [Direct!Next]_(Direct!vars)
             PROVE  DirectInv'
  OBVIOUS
<1>1. CASE UNCHANGED Direct!vars
  BY <1>1 DEF Direct!vars, Direct!TypeOK
<1>2. CASE Direct!Next
  <2> HIDE DEF DirectInv
  <2>1. QED
    BY <1>2, RequestStep, HolderStep, StrangerStep
       DEF Direct!Next, Direct!Works, Direct!Operates
<1>3. QED
  BY <1>1, <1>2

LEMMA DirectSafety == DirectInv => Direct!RequestIsSettled
BY DEF Direct!RequestIsSettled, Direct!StopEndsRetries

HIDE DEF DirectInv, ThreadInv, HandleInv, Direct!StoppedIsOver,
         Direct!SuccessIsAnswered, Direct!HeldIsUnsettled, Direct!Active,
         Direct!Idle, Direct!Answer, Direct!Result, Direct!request,
         Direct!broker, Direct!TaskState, Direct!TerminalState,
         Direct!SuccessState

-----------------------------------------------------------------------------
(* The three parts of MCRuntimes.  Each takes steps of its own and leaves  *)
(* the others alone, so that what holds of a part holds of the whole.      *)

LEMMA RunnerPart == MCSpec => Runner!Spec
<1>1. MCInit => Runner!Init
  BY DEF MCInit
<1>2. [MCNext]_all => [Runner!Next]_(Runner!vars)
  BY DEF MCNext, all, runner, Runner!vars, Runner!files, Runner!processes,
     Runner!callers
<1>3. QED
  BY <1>1, <1>2, PTL DEF MCSpec, Runner!Spec

LEMMA DirectPart == MCSpec => Direct!Spec
<1>1. MCInit => Direct!Init
  BY DEF MCInit
<1>2. [MCNext]_all => [Direct!Next]_(Direct!vars)
  BY DEF MCNext, all, direct, Direct!vars, Direct!request, Direct!broker
<1>3. QED
  BY <1>1, <1>2, PTL DEF MCSpec, Direct!Spec

LEMMA GatesPart == MCSpec => Spec
<1>1. MCInit => Init
  BY DEF MCInit
<1>2. [MCNext]_all => [Next]_vars
  BY DEF MCNext, all
<1>3. QED
  BY <1>1, <1>2, PTL DEF MCSpec, Spec

LEMMA RunnerInvariant == Runner!Spec => []RunnerInv
<1>1. QED
  BY RunnerInit, RunnerStep, PTL DEF Runner!Spec

LEMMA DirectInvariant == Direct!Spec => []DirectInv
<1>1. QED
  BY DirectInit, DirectStep, PTL DEF Direct!Spec

(* Every variable of the three parts keeps its type.                       *)
THEOREM RuntimesTyped == MCSpec => []RuntimesTypeOK
<1>1. RunnerInv => Runner!TypeOK
  BY DEF RunnerInv
<1>2. DirectInv => Direct!TypeOK
  BY DEF DirectInv
<1>3. Runner!TypeOK /\ Direct!TypeOK /\ TypeOK => RuntimesTypeOK
  BY DEF RuntimesTypeOK
<1>4. QED
  BY <1>1, <1>2, <1>3, RunnerPart, DirectPart, GatesPart, RunnerInvariant,
     DirectInvariant, TypeCorrect, PTL

(* _supervise_main(): a command runs only behind its committed proof, and a*)
(* final manifest says how the payload ended, and that it did, whoever of  *)
(* supervisor, child, launcher and adopter is lost or killed on the way.   *)
THEOREM ManifestTrue == MCSpec => []ManifestIsTrue
<1>1. RunnerInv => ManifestIsTrue
  BY RunnerSafety DEF ManifestIsTrue
<1>2. QED
  BY <1>1, RunnerPart, RunnerInvariant, PTL

(* cancel(), collect() of the launching and of the adopting broker: a stop *)
(* or a success they report has happened.                                  *)
THEOREM AnswersTrue == MCSpec => []AnswersAreTrue
<1>1. RunnerInv => AnswersAreTrue
  BY RunnerSafety DEF AnswersAreTrue
<1>2. QED
  BY <1>1, RunnerPart, RunnerInvariant, PTL

(* Nothing takes a final manifest back.                                    *)
LEMMA FinalKept == Runner!Spec => Runner!FinalStays
<1> DEFINE Keeps == manifest.at \in Runner!Final =>
                       \/ manifest' = manifest
                       \/ /\ manifest.at = "cancelled"
                          /\ manifest' = [manifest EXCEPT !.at = "timed_out"]
<1>1. RunnerInv /\ [Runner!Next]_(Runner!vars) => [Keeps]_(Runner!vars)
  BY RunnerKeepsFinal DEF Settled
<1>2. QED
  BY <1>1, RunnerInvariant, PTL DEF Runner!FinalStays, Runner!Spec

LEMMA LaunchesKept == Runner!Spec => Runner!ImplementsLaunches
<1>1. RunnerInv /\ LaunchedInv /\ [Runner!Next]_(Runner!vars) => LaunchedInv'
  BY LaunchedStep
<1>2. Runner!Spec => []LaunchedInv
  BY <1>1, LaunchedInit, RunnerInvariant, PTL DEF Runner!Spec
<1>3. RunnerInv /\ LaunchedInv /\ [Runner!Next]_(Runner!vars)
        => Runner!Launches!Next
  BY RunnerLaunches
<1>4. Runner!Spec => Runner!Launches!Spec
  BY <1>2, <1>3, RunnerLaunchesInit, RunnerInvariant, PTL
     DEF Runner!Spec, Runner!Launches!Spec
<1>5. QED
  BY <1>4 DEF Runner!ImplementsLaunches

(* _supervise_main(), the child it forks, _atomic_write_json() of late     *)
(* writers and the stops of two brokers, any of them lost anywhere: what   *)
(* the manifest tells comes in the order BrokerLifecycle relies on, the    *)
(* end after the payload's, and an end is not taken back, but for the      *)
(* cancellation that wait() turns into a timeout.                          *)
THEOREM ManifestMoves == MCSpec => ManifestMovesOn
<1>1. QED
  BY RunnerPart, FinalKept, LaunchesKept, PTL DEF ManifestMovesOn

(* DirectApiRuntime and its broker: a request recorded as stopped is over, *)
(* one recorded as a success was answered, an abort is followed by one more*)
(* attempt at most, and what a broker alone holds nobody settles.          *)
THEOREM RequestSettled == MCSpec => []RequestIsSettled
<1>1. DirectInv => RequestIsSettled
  BY DirectSafety DEF RequestIsSettled
<1>2. QED
  BY <1>1, DirectPart, DirectInvariant, PTL
=============================================================================
