-------------------------- MODULE ReportContracts --------------------------
(***************************************************************************)
(* What the broker makes of the text a runtime ends with: the structured   *)
(* report it may hold (result_normalization.py), the validators of the two *)
(* strict schemas (verified_investigation_report.py, review_report.py) and *)
(* the verdict on required capabilities (capability_contract_result.py).   *)
(* All of them are functions of their arguments.                           *)
(***************************************************************************)
EXTENDS Naturals, Sequences, FiniteSets, SequencesExt

(* verification_policy and result_schema of a request.                     *)
Policy == {"none", "advisory", "required"}

VerifiedReport == "verified-investigation-report"
ReviewReport   == "review-report"

Schema == {"plain-summary", "evidence-report", "review-findings",
           "implementation-report", VerifiedReport, ReviewReport}

(* Evidence ids as runtimes write them: "A" is "a" in another case, "#" is *)
(* not an identifier.                                                      *)
RawId == {"a", "A", "b", "#"}
NoId  == "none"

(* Ids that differ in their case only are one id.                          *)
NormalizeEvidenceId(i) ==
    CASE i = "#" -> NoId [] i = "A" -> "a" [] OTHER -> i

(* What runtime output may call its own evidence; the rest of              *)
(* PROVENANCE_VALUES is the broker's.                                      *)
RuntimeProvenance == {"orchestrator_supplied", "runtime_reported",
                      "unresolved"}
BrokerProvenance  == {"broker_observed", "broker_verified"}

(* A JSON object found in the text.  fields are the arrays and values that *)
(* are there with the right type; an item is sound when every check on its *)
(* own strings and numbers passes (claim, confidence, severity, source).   *)
Field == {"summary", "findings", "evidence", "unverified_claims",
          "blocked_capabilities", "review_status", "review_findings",
          "reviewed_artifacts", "full_reexecution_performed"}

Report ==
    [fields : SUBSET Field,
     evidence : Seq([id : RawId, sound : BOOLEAN,
                     provenance : RuntimeProvenance \cup BrokerProvenance]),
     findings : Seq([sound : BOOLEAN, refs : Seq(RawId)]),
     status : {"passed", "needs_changes", "blocked", "odd"}]

RequiredFields(schema) ==
    CASE schema = VerifiedReport -> {"summary", "findings", "evidence",
                               "unverified_claims", "blocked_capabilities"}
      [] schema = ReviewReport -> {"summary", "review_status", "review_findings",
                             "reviewed_artifacts",
                             "full_reexecution_performed"}
      [] schema = "review-findings" -> {"summary", "findings"}
      [] OTHER -> {"summary"}

(* The summary is the text itself where the object has none; findings of   *)
(* review-findings must not be empty.                                      *)
FieldPresent(f, schema, r) ==
    CASE f = "summary" -> TRUE
      [] f = "findings" /\ schema # VerifiedReport ->
             "findings" \in r.fields /\ r.findings # <<>>
      [] OTHER -> f \in r.fields

EvidenceIds(r) == {NormalizeEvidenceId(e.id) : e \in ToSet(r.evidence)}

(* normalized_evidence: one entry per id.                                  *)
EvidenceValid(r) ==
    /\ \A e \in ToSet(r.evidence) :
          /\ NormalizeEvidenceId(e.id) # NoId
          /\ e.provenance \in RuntimeProvenance
          /\ e.sound
    /\ \A i, j \in DOMAIN r.evidence :
          NormalizeEvidenceId(r.evidence[i].id)
              = NormalizeEvidenceId(r.evidence[j].id) => i = j

RefsValid(r) ==
    \A f \in ToSet(r.findings) :
        /\ f.sound /\ f.refs # <<>>
        /\ \A i \in ToSet(f.refs) :
              /\ NormalizeEvidenceId(i) # NoId
              /\ NormalizeEvidenceId(i) \in EvidenceIds(r)

ValidateVerified(r) == "summary" \in r.fields /\ EvidenceValid(r) /\ RefsValid(r)

(* review_findings and reviewed_artifacts: findings with a severity and    *)
(* sanitized references, neither of them linked to anything.               *)
ValidateReview(r) ==
    /\ "summary" \in r.fields
    /\ r.status \in {"passed", "needs_changes", "blocked"}
    /\ \A f \in ToSet(r.findings) : f.sound
    /\ \A a \in ToSet(r.evidence) : a.sound

(* text: "blank", "prose", "broken" (looks like JSON, is none), "report".  *)
ParseStatus(schema, text, r) ==
    CASE text = "blank" -> IF schema = "plain-summary" THEN "partial"
                                                       ELSE "failed"
      [] text \in {"prose", "broken"} ->
             IF schema = "plain-summary" THEN "ok" ELSE "fallback"
      [] text = "report" ->
             IF /\ \A f \in RequiredFields(schema) : FieldPresent(f, schema, r)
                /\ schema = VerifiedReport => ValidateVerified(r)
                /\ schema = ReviewReport => ValidateReview(r)
             THEN "ok" ELSE "partial"

ContractStatus(schema, parsed, success) ==
    CASE ~success -> "unavailable"
      [] success /\ schema = "plain-summary" -> "not_requested"
      [] success /\ schema # "plain-summary" ->
             CASE parsed = "ok" -> "satisfied"
               [] parsed = "fallback" -> "unsatisfied_fallback"
               [] OTHER -> "unsatisfied_malformed"

-----------------------------------------------------------------------------
(* Required capabilities after the run.  denials: the tools named by the   *)
(* permission denials the adapter reported, and whether some entry did not *)
(* name one.                                                               *)

Tool == {"Read", "Grep"}

(* Runtimes; "legacy" is cursor launched without the durable runner.       *)
Kind == {"mock", "direct", "claude_code", "cursor", "codex", "opencode",
         "legacy"}

(* How a CLI says in its output that the task failed: is_error or a        *)
(* subtype of the result object, a turn.failed event.                      *)
ErrorSign == {"is_error", "subtype", "turn.failed"}

(* What a runtime of a kind can leave behind: only complete() is given a   *)
(* blank text, only claude_code reports denials, a direct request has no   *)
(* result object beside its exit code.                                     *)
Fits(o, kind) ==
    /\ o.text = "blank" => kind = "mock"
    /\ kind = "mock" => o.text # "none" /\ o.exit = "zero"
    /\ o.error = "is_error" => kind \in {"claude_code", "cursor", "legacy"}
    /\ o.error = "subtype" => kind \in {"cursor", "legacy"}
    /\ o.error = "turn.failed" => kind = "codex"
    /\ o.denials.tools # {} \/ o.denials.malformed => kind = "claude_code"

(* Only claude_code's denials name tools.                                  *)
Denials(adapter, denials) ==
    IF adapter = "claude_code" THEN denials
    ELSE [tools |-> {}, malformed |-> denials.tools # {} \/ denials.malformed]

(* _ADAPTER_CAPABILITY_TOOL_MAP: one pair is mapped; Grep is auxiliary.    *)
Mapped(adapter, c) == adapter = "claude_code" /\ c = "workspace.read"
PrimaryTools == {"Read"}

(* Fault: malformed entries are looked at before the ones that name tools. *)
UnsatisfiedUnlessMalformed(c, adapter, d) ==
    Mapped(adapter, c) /\ d.tools \cap PrimaryTools # {} /\ ~d.malformed
Unsatisfied(c, adapter, d) ==
    Mapped(adapter, c) /\ d.tools \cap PrimaryTools # {}

Unknown(c, adapter, d) ==
    ~Unsatisfied(c, adapter, d) /\ (~Mapped(adapter, c) \/ d.malformed)

(* evaluate_capability_contract().                                         *)
Verdict(required, adapter, denials) ==
    LET d == Denials(adapter, denials)
    IN  CASE required = {} -> "no_requirements"
          [] \E c \in required : Unsatisfied(c, adapter, d) -> "unsatisfied"
          [] OTHER -> IF \E c \in required : Unknown(c, adapter, d)
                      THEN "unknown" ELSE "satisfied"

=============================================================================
