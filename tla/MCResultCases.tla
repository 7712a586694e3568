-------------------------- MODULE MCResultCases --------------------------
(* Requests and what runtimes leave behind, for TLC.                       *)
EXTENDS ReportContracts

All == Field
NoReport == [fields |-> {}, evidence |-> <<>>, findings |-> <<>>,
             status |-> "odd"]

Item(id, provenance, sound) ==
    [id |-> id, provenance |-> provenance, sound |-> sound]
Finding(sound, refs) == [sound |-> sound, refs |-> refs]
Rep(e, f, s) ==
    [fields |-> All, evidence |-> e, findings |-> f, status |-> s]

Mine(id) == Item(id, "runtime_reported", TRUE)

(* Reports that are right, and reports wrong in one respect each.          *)
MCReports ==
    {Rep(e, f, "passed") :
        e \in {<<Mine("a")>>, <<Mine("a"), Mine("b")>>,
               <<Mine("a"), Mine("A")>>, <<Mine("#")>>,
               <<Item("a", "broker_verified", TRUE)>>,
               <<Item("a", "unresolved", FALSE)>>},
        f \in {<<Finding(TRUE, <<"A">>)>>, <<Finding(TRUE, <<"b", "a">>)>>,
               <<Finding(TRUE, <<>>)>>, <<Finding(FALSE, <<"a">>)>>, <<>>}}
    \cup {Rep(<<>>, <<>>, "odd"), [NoReport EXCEPT !.fields = {"summary"}],
          [Rep(<<>>, <<>>, "blocked") EXCEPT !.fields = All \ {"summary"}]}

NoDenials == [tools |-> {}, malformed |-> FALSE]
Plain == [exit |-> "zero", error |-> "none", text |-> "prose",
          report |-> NoReport, denials |-> NoDenials]

Req(policy, schema, required, commands, isolated, kind) ==
    [policy |-> policy, schema |-> schema, required |-> required,
     commands |-> commands, isolated |-> isolated, kind |-> kind]

Pairs(requests, outputs) ==
    {c \in [request : requests, output : outputs] :
        Fits(c.output, c.request.kind)}

(* Every ending against every policy; every report against the schemas.    *)
MCCases ==
    Pairs({Req(p, "plain-summary", r, c, i, k) :
              p \in Policy, c \in BOOLEAN, i \in BOOLEAN,
              r \in {{}, {"workspace.read"}}, k \in {"mock", "claude_code"}},
          [exit : {"zero", "nonzero"}, error : {"none", "is_error"}, text : {"prose"},
           report : {NoReport}, denials : {NoDenials}]
          \cup [exit : {"zero"}, error : {"none"}, text : {"none"},
                report : {NoReport},
                denials : [tools : SUBSET Tool, malformed : BOOLEAN]])
    \cup Pairs({Req("advisory", s, {}, FALSE, FALSE, k) :
                   s \in Schema, k \in {"mock", "direct", "cursor", "codex"}},
               {[Plain EXCEPT !.text = t, !.exit = e] :
                   t \in {"none", "blank", "broken"},
                   e \in {"zero", "nonzero"}})
    \cup Pairs({Req(p, "evidence-report", {}, TRUE, FALSE, k) :
                   p \in {"none", "required"},
                   k \in {"cursor", "codex", "opencode", "legacy"}},
               {[Plain EXCEPT !.error = e, !.exit = x] :
                   e \in {"none"} \cup ErrorSign, x \in {"zero", "nonzero"}})
    \cup Pairs({Req("none", s, {}, FALSE, FALSE, "claude_code") : s \in Schema},
               {[Plain EXCEPT !.text = "report", !.report = r] :
                   r \in MCReports})
=============================================================================
