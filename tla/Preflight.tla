----------------------------- MODULE Preflight -----------------------------
(***************************************************************************)
(* From what a caller asks for to the command a runtime is launched with:  *)
(* create() and the artifacts it leaves, the configuration every broker    *)
(* process has loaded, the checks and resolutions of start(), and the      *)
(* adapter's own.  One task and several broker processes; each may be lost *)
(* anywhere and come back with another configuration.  Workspaces and what *)
(* follows the launch are BrokerLifecycle's; cost policies, Admission's.   *)
(***************************************************************************)
EXTENDS ReportContracts, TaskStates

CONSTANTS
    Broker,     \* broker processes over one home
    Asks,       \* what a caller may ask for
    RawConfigs, \* configurations as the operator wrote them, by a name
    None,       \* nothing was given
    MaxStarts,  \* bound: how often start() is called
    MaxLosses   \* bound: how often a broker process is lost

Mode    == {"read_only", "isolated_worktree"}
Runtime == {"mock", "claude_code", "cursor", "codex", "opencode",
            "openai_compatible"}

(* Three profiles are known to claude_code, two of them built in.          *)
ReadOnlyTools == "local_workspace_read_only"
StandardTools == "local_workspace_standard"
RemoteTools   == "operator_approved_repository_read"
StaticTools   == {ReadOnlyTools, StandardTools, RemoteTools}

WorkspaceRead == "workspace.read"
RemoteRead    == "repository.remote.read"

LocalRead == {"Read", "Grep", "Glob"}
EditTools == {"Edit", "Write", "NotebookEdit"}

(* External tools an operator may write down: two exact MCP ids, a         *)
(* wildcard, a built-in tool.                                              *)
ExactTool == {"mcp a", "mcp b"}
RawTool   == ExactTool \cup {"mcp *", "Read"}

-----------------------------------------------------------------------------
(* Configuration, loaded when a broker comes up.                           *)

ToolEntry  == [name : {ReadOnlyTools, RemoteTools, "custom"}, sound : BOOLEAN,
               ids : Seq(RawTool)]
ModelEntry == [id : {"p", "q"}, runtime : Runtime, provider : BOOLEAN,
               model : {None, "m1", "m2"}, sound : BOOLEAN]

AgentEntry == [mode : Mode \cup {None}, timeout : (1..4) \cup {None},
               schema : Schema \cup {None}]

Profile(allowed, denied, modes, capabilities, external) ==
    [allowed |-> allowed, denied |-> denied, modes |-> modes,
     capabilities |-> capabilities, external |-> external]

(* Every tool a CLI has by itself, where no allowlist is given.            *)
NativeTools == LocalRead \cup EditTools \cup {"Bash"}

BuiltinTools ==
    [n \in {ReadOnlyTools, StandardTools} |->
        IF n = ReadOnlyTools
        THEN Profile(LocalRead, EditTools, {"read_only"}, {WorkspaceRead}, {})
        ELSE Profile(NativeTools, {}, {"isolated_worktree"}, {WorkspaceRead},
                     {})]

ToolIds(ids) ==
    /\ ids # <<>> /\ ToSet(ids) \subseteq ExactTool
    /\ \A i, j \in DOMAIN ids : ids[i] = ids[j] => i = j

ToolEntrySound(e) == e.sound /\ ToolIds(e.ids)

(* load_tool_access_profiles_config() as the broker uses it: one bad entry *)
(* and nothing is configured.  A configured profile takes the place of a   *)
(* built-in one of its name.                                               *)
ToolRegistry(entries) ==
    LET found == IF \A e \in entries : ToolEntrySound(e) THEN entries ELSE {}
        named(n) == CHOOSE e \in found : e.name = n
    IN  [n \in DOMAIN BuiltinTools \cup {e.name : e \in found} |->
            IF \E e \in found : e.name = n
            THEN Profile(LocalRead \cup ToSet(named(n).ids), EditTools,
                         {"read_only"}, {WorkspaceRead, RemoteRead},
                         ToSet(named(n).ids))
            ELSE BuiltinTools[n]]

(* A provider is named for the direct runtime and for no other.            *)
ModelEntrySound(e) ==
    e.sound /\ (e.provider <=> e.runtime = "openai_compatible")

ModelRegistry(entries) ==
    LET found == IF \A e \in entries : ModelEntrySound(e) THEN entries ELSE {}
    IN  [i \in {e.id : e \in found} |->
            LET e == CHOOSE x \in found : x.id = i
            IN  [runtime |-> e.runtime, model |-> e.model]]

(* One entry of the built-in agent profiles and the operator's; an unsound *)
(* one keeps the broker from coming up, so the agents of a raw             *)
(* configuration are sound.                                                *)
BuiltinAgents ==
    [n \in {"implementation-worker", "test-planner"} |->
        IF n = "test-planner"
        THEN [mode |-> "read_only", timeout |-> 2, schema |-> "plain-summary"]
        ELSE [mode |-> "isolated_worktree", timeout |-> 3,
              schema |-> "implementation-report"]]

Loaded(raw) ==
    [tools  |-> ToolRegistry(raw.tools),
     models |-> ModelRegistry(raw.models),
     agents |-> [n \in DOMAIN BuiltinAgents \cup DOMAIN raw.agents |->
                    IF n \in DOMAIN raw.agents THEN raw.agents[n]
                                               ELSE BuiltinAgents[n]],
     default |-> raw.default, provider |-> raw.provider]

Config == [n \in DOMAIN RawConfigs |-> Loaded(RawConfigs[n])]

-----------------------------------------------------------------------------
(* create().                                                               *)

Ask == [runtime : Runtime, given : SUBSET {"mode", "timeout", "schema"},
        mode : Mode, timeout : 1..4, schema : Schema \cup {None},
        agent : {None, "implementation-worker", "test-planner", "custom"},
        category : {None, "prose", "review", "investigation",
                    "implementation"},
        override : {None, "plan", "dontAsk", "default", "auto", "acceptEdits",
                    "bypassPermissions"},
        tool : {None, "custom"} \cup StaticTools,
        required : SUBSET {WorkspaceRead, RemoteRead},
        profile : {None, "p", "q"}, model : {None, "m1", "m2"},
        verify : BOOLEAN, prose : BOOLEAN]

ASSUME PreflightAssumption ==
    /\ Asks \subseteq Ask /\ MaxStarts \in Nat /\ MaxLosses \in Nat
    /\ \A n \in DOMAIN RawConfigs :
          /\ RawConfigs[n].tools \subseteq ToolEntry
          /\ RawConfigs[n].models \subseteq ModelEntry
          /\ \A x \in DOMAIN RawConfigs[n].agents :
                RawConfigs[n].agents[x] \in AgentEntry
          /\ RawConfigs[n].default \in {None, "m1", "m2"}
          /\ RawConfigs[n].provider \in {None, "m1", "m2"}

(* Nothing is no permission mode and no sandbox.                           *)
ASSUME NoneAssumption ==
    None \notin {"acceptEdits", "bypassPermissions", "disabled",
                 "workspace-write"}

MaxTimeout  == 3
AllowedModes(runtime) ==
    IF runtime = "openai_compatible" THEN {"read_only"} ELSE Mode

ResolveField(field, a, value, profile, default) ==
    IF field \in a.given THEN value
    ELSE IF profile # None THEN profile ELSE default

Resolved(a, c) ==
    IF a.agent = None
    THEN [mode |-> a.mode, timeout |-> a.timeout, schema |-> a.schema]
    ELSE LET p == c.agents[a.agent]
         IN  [mode    |-> ResolveField("mode", a, a.mode, p.mode, "read_only"),
              timeout |-> ResolveField("timeout", a, a.timeout, p.timeout, 2),
              schema  |-> ResolveField("schema", a, a.schema, p.schema, None)]

RefusesModel(runtime) == runtime \in {"mock", "opencode"}

ValidRequest(a, c) ==
    /\ a.agent = None \/ a.agent \in DOMAIN c.agents
    /\ Resolved(a, c).mode \in AllowedModes(a.runtime)
    /\ Resolved(a, c).timeout <= MaxTimeout
    /\ a.tool = None \/ a.tool \in StaticTools \cup DOMAIN c.tools
    /\ a.profile = None \/ a.profile \in DOMAIN c.models
    /\ a.runtime = "openai_compatible" => c.provider # None
    /\ a.model # None => ~RefusesModel(a.runtime)

VARIABLES
    ask,       \* what the caller asked for
    conf,      \* the name of the configuration a process has loaded
    status,    \* tasks.state, or "absent"
    row,       \* the other columns of tasks
    files,     \* the artifacts create() has written
    modelfile, \* model_profile_resolution.json
    toolfile,  \* tool_access_profile_resolution.json
    argv,      \* what the runtime was launched with, or NoLaunch
    step,      \* where every broker process is
    model,     \* the effective model its start() works with
    contended, \* history: start() recorded beside or after another one
    early,     \* history: start() was called before create() was done
    calls, losses

durable == <<status, row, files, modelfile, toolfile, argv>>
vars    == <<ask, conf, durable, step, model, contended, early, calls,
             losses>>

NoRow    == [mode |-> None, schema |-> None, effective |-> None]
NoLaunch == [conf |-> None]
NoModel  == [profile |-> None, binding |-> None]
Artifact == {"request", "resolution", "verify", "warning"}

CreationOrder ==
    <<"row", "request", "resolution", "verify", "warning", "queue">>
StartOrder ==
    <<"schema", "tool", "capabilities", "model", "modelprofile", "snapshot",
      "audit", "prepare", "command">>

Following(order, s) ==
    LET i == CHOOSE n \in DOMAIN order : order[n] = s
    IN  IF i < Len(order) THEN order[i + 1] ELSE "idle"

TypeOK ==
    /\ ask \in Asks /\ conf \in [Broker -> DOMAIN Config]
    /\ status \in {"absent", "created", "queued", "preparing", "running",
                   "rejected"}
    /\ row \in [mode : Mode \cup {None}, schema : Schema \cup {None},
               effective : {None, "m1", "m2"}]
    /\ files \subseteq Artifact
    /\ modelfile.profile \in {None, "p", "q"}
    /\ step \in [Broker -> {"idle"} \cup ToSet(CreationOrder)
                                    \cup ToSet(StartOrder)]
    /\ model \in [Broker -> {None, "m1", "m2"}]
    /\ contended \in BOOLEAN /\ early \in BOOLEAN
    /\ calls \in 0..MaxStarts /\ losses \in 0..MaxLosses

Init ==
    /\ ask \in Asks /\ conf \in [Broker -> DOMAIN Config]
    /\ status = "absent" /\ row = NoRow /\ files = {}
    /\ modelfile = NoModel /\ toolfile = None /\ argv = NoLaunch
    /\ step = [b \in Broker |-> "idle"] /\ model = [b \in Broker |-> None]
    /\ contended = FALSE /\ early = FALSE /\ calls = 0 /\ losses = 0

Loads(b) == Config[conf[b]]

At(b, s) == step[b] = s
Goes(b, s) == step' = [step EXCEPT ![b] = s]
Creates(b) == Goes(b, Following(CreationOrder, step[b]))
Proceeds(b) == Goes(b, Following(StartOrder, step[b]))

(* The request is valid by this process's configuration: the INSERT.       *)
InsertRow(b) ==
    /\ status = "absent" /\ \A x \in Broker : At(x, "idle")
    /\ ValidRequest(ask, Loads(b))
    /\ status' = "created"
    /\ row' = [mode |-> Resolved(ask, Loads(b)).mode,
               schema |-> Resolved(ask, Loads(b)).schema, effective |-> None]
    /\ Goes(b, Following(CreationOrder, "row"))
    /\ UNCHANGED <<ask, conf, files, modelfile, toolfile, argv, model,
                   contended, losses, early, calls>>

EffectiveSchema == IF row.schema = None THEN "plain-summary" ELSE row.schema

(* What there is to write of every artifact.                               *)
Wanted(f) ==
    CASE f = "request" -> TRUE
      [] f = "resolution" -> ask.agent # None
      [] f = "verify" -> ask.verify
      [] f = "warning" -> ask.prose /\ EffectiveSchema # "plain-summary"

WriteArtifact(b) ==
    /\ step[b] \in Artifact
    /\ files' = IF Wanted(step[b]) THEN files \cup {step[b]} ELSE files
    /\ Creates(b)
    /\ UNCHANGED <<ask, conf, status, row, modelfile, toolfile, argv, model,
                   contended, losses, early, calls>>

Enqueue(b) ==
    /\ At(b, "queue")
    /\ status' = IF CanGo(status, "queued") THEN "queued" ELSE status
    /\ Creates(b)
    /\ UNCHANGED <<ask, conf, row, files, modelfile, toolfile, argv, model,
                   contended, losses, early, calls>>

-----------------------------------------------------------------------------
(* Policies of claude_code.                                                *)

SchemaCategory(s) ==
    CASE s = "plain-summary" -> "prose"
      [] s = "review-findings" -> "review"
      [] s = "implementation-report" -> "implementation"
      [] s \in {"evidence-report", VerifiedReport} -> "investigation"
      [] OTHER -> None

AgentCategory(n) ==
    CASE n = "test-planner" -> "prose"
      [] n = "implementation-worker" -> "implementation"
      [] OTHER -> None

(* request.json says what the caller wanted, where it is there.            *)
Asked(field) == IF "request" \in files THEN ask[field] ELSE None
AskedRequired == IF "request" \in files THEN ask.required ELSE {}

Category ==
    IF Asked("category") # None THEN Asked("category")
    ELSE IF row.mode = "isolated_worktree" THEN "implementation"
    ELSE IF SchemaCategory(row.schema) # None THEN SchemaCategory(row.schema)
    ELSE IF AgentCategory(ask.agent) # None THEN AgentCategory(ask.agent)
    ELSE "unknown"

(* Fault: an override need only be a mode the CLI has.                     *)
OverridesAnything(mode) == {"plan", "dontAsk", "default", "auto",
                            "acceptEdits", "bypassPermissions"}
Overrides(mode) ==
    IF mode = "isolated_worktree" THEN {"acceptEdits"}
                                  ELSE {"plan", "dontAsk", "default", "auto"}

PermissionAllowed ==
    Asked("override") # None => Asked("override") \in Overrides(row.mode)

PermissionMode ==
    CASE Asked("override") # None -> Asked("override")
      [] Asked("override") = None /\ row.mode = "isolated_worktree"
             -> "acceptEdits"
      [] OTHER -> IF Category \in {"prose", "review"} THEN "dontAsk"
                                                     ELSE "plan"

(* evaluate_tool_access_profile_preflight(): what is asked for must be one *)
(* of the runtime's own, there, and meant for the mode.                    *)
ToolsUsable(c) ==
    LET t == Asked("tool")
    IN  t # None => /\ ask.runtime = "claude_code"
                    /\ t \in StaticTools \cap DOMAIN c.tools
                    /\ row.mode \in c.tools[t].modes

DefaultTools == IF row.mode = "read_only" THEN ReadOnlyTools ELSE StandardTools
ToolsName == IF Asked("tool") = None THEN DefaultTools ELSE Asked("tool")

Advertised(c) ==
    IF ask.runtime = "claude_code" /\ PermissionAllowed /\ ToolsUsable(c)
    THEN c.tools[ToolsName].capabilities ELSE {}

SupportedSchemas(runtime) ==
    IF runtime = "cursor" THEN {"plain-summary"} ELSE Schema

(* resolve_effective_model().                                              *)
EffectiveModel(c) ==
    CASE ask.runtime = "mock" -> None
      [] ask.runtime # "mock" /\ ask.model # None -> ask.model
      [] OTHER -> IF ask.runtime = "openai_compatible" THEN c.provider
                                                       ELSE c.default

ProfileMatches(c, m) ==
    LET p == Asked("profile")
    IN  p # None => /\ p \in DOMAIN c.models
                    /\ c.models[p].runtime = ask.runtime
                    /\ c.models[p].model \in {None, m}

-----------------------------------------------------------------------------
(* start().                                                                *)

Start(b) ==
    /\ At(b, "idle") /\ status # "absent"
    /\ Goes(b, "schema")
    /\ calls < MaxStarts /\ calls' = calls + 1
    /\ early' = (early \/ status = "created")
    /\ UNCHANGED <<ask, conf, durable, model, contended, losses>>

Checks == {"schema", "tool", "capabilities", "modelprofile"}

Refused(b) ==
    CASE At(b, "schema") ->
             EffectiveSchema \notin SupportedSchemas(ask.runtime)
      [] At(b, "tool")         -> ~ToolsUsable(Loads(b))
      [] At(b, "capabilities") ->
             ~(AskedRequired \subseteq Advertised(Loads(b)))
      [] At(b, "modelprofile") -> ~ProfileMatches(Loads(b), model[b])

Passes(b) ==
    /\ step[b] \in Checks /\ ~Refused(b)
    /\ Proceeds(b)
    /\ UNCHANGED <<ask, conf, durable, model, contended, losses, early, calls>>

(* The transition raises where the task cannot be rejected any more.       *)
Rejects(b) ==
    /\ step[b] \in Checks /\ Refused(b)
    /\ status' = IF CanGo(status, "rejected") THEN "rejected" ELSE status
    /\ Goes(b, "idle")
    /\ UNCHANGED <<ask, conf, row, files, modelfile, toolfile, argv, model,
                   contended, losses, early, calls>>

Launched  == argv # NoLaunch
Recording == {"modelprofile", "snapshot", "audit", "prepare", "command"}

(* A provider that is not configured any more: start() raises.             *)
ResolveModel(b) ==
    /\ At(b, "model")
    /\ IF ask.runtime = "openai_compatible" /\ Loads(b).provider = None
       THEN /\ Goes(b, "idle")
            /\ UNCHANGED <<row, model, contended>>
       ELSE /\ row' = [row EXCEPT !.effective = EffectiveModel(Loads(b))]
            /\ model' = [model EXCEPT ![b] = EffectiveModel(Loads(b))]
            /\ contended' = (contended \/ Launched \/ \E x \in Broker \ {b} :
                                  step[x] \in Recording)
            /\ Proceeds(b)
    /\ UNCHANGED <<ask, conf, status, files, modelfile, toolfile, argv, early,
                   calls, losses>>

ModelSnapshot(b) ==
    IF Asked("profile") = None THEN NoModel
    ELSE [profile |-> Asked("profile"),
          binding |-> Loads(b).models[Asked("profile")]]

(* Fault: a snapshot that is there is kept.                                *)
SnapshotOnce(b) == IF modelfile # NoModel THEN modelfile ELSE ModelSnapshot(b)
Snapshot(b) == ModelSnapshot(b)

RecordModelProfile(b) ==
    /\ At(b, "snapshot")
    /\ modelfile' = IF ProfileMatches(Loads(b), model[b]) THEN Snapshot(b)
                                                          ELSE modelfile
    /\ Proceeds(b)
    /\ UNCHANGED <<ask, conf, status, row, files, toolfile, argv, model,
                   contended, losses, early, calls>>

(* A runtime without tool profiles has nothing to record; nor is there     *)
(* anything where the request has become another since it was checked.     *)
RecordTools(b) ==
    /\ At(b, "audit")
    /\ toolfile' = IF ask.runtime = "claude_code" /\ ToolsUsable(Loads(b))
                   THEN [name |-> ToolsName,
                         count |-> Cardinality(
                                       Loads(b).tools[ToolsName].external)]
                   ELSE toolfile
    /\ Proceeds(b)
    /\ UNCHANGED <<ask, conf, status, row, files, modelfile, argv, model,
                   contended, losses, early, calls>>

(* The row is read again with the transition: model[b] is what is there by *)
(* now.                                                                    *)
Prepare(b) ==
    /\ At(b, "prepare")
    /\ IF CanGo(status, "preparing")
       THEN /\ status' = "preparing"
            /\ model' = [model EXCEPT ![b] = row.effective]
            /\ Proceeds(b)
       ELSE Goes(b, "idle") /\ UNCHANGED <<status, model>>
    /\ UNCHANGED <<ask, conf, row, files, modelfile, toolfile, argv, contended,
                   losses, early, calls>>

(* The adapter resolves by itself what the preflight has resolved.         *)
AdapterRefuses(b) ==
    /\ ask.runtime = "claude_code"
    /\ ~(PermissionAllowed /\ ToolsUsable(Loads(b)))

(* Cursor and Codex are held by a sandbox instead: SANDBOX_BY_EXECUTION_MODE. *)
CursorSandbox ==
    IF row.mode = "read_only" THEN "enabled, plan" ELSE "disabled"
CodexSandbox ==
    IF row.mode = "read_only" THEN "read-only" ELSE "workspace-write"
Sandbox ==
    CASE ask.runtime = "cursor" -> CursorSandbox
      [] ask.runtime = "codex"  -> CodexSandbox
      [] OTHER                  -> None

Command(b) ==
    [conf       |-> conf[b],
     model      |-> model[b],
     sandbox    |-> Sandbox,
     permission |-> IF ask.runtime = "claude_code" THEN PermissionMode
                                                   ELSE None,
     tools      |-> IF ask.runtime = "claude_code"
                    THEN Loads(b).tools[ToolsName].allowed
                             \ Loads(b).tools[ToolsName].denied
                    ELSE {},
     prefix     |-> "resolution" \in files,
     contract   |-> EffectiveSchema]

(* An adapter that refuses raises: the task is left in preparing.          *)
Launch(b) ==
    /\ At(b, "command")
    /\ IF AdapterRefuses(b) THEN UNCHANGED <<status, argv>>
       ELSE /\ argv' = Command(b)
            /\ status' = IF CanGo(status, "running") THEN "running" ELSE status
    /\ Goes(b, "idle")
    /\ UNCHANGED <<ask, conf, row, files, modelfile, toolfile, model,
                   contended, losses, early, calls>>

(* A process is lost; the next one reads the configuration again.          *)
Loss(b) ==
    /\ losses < MaxLosses /\ losses' = losses + 1
    /\ Goes(b, "idle")
    /\ model' = [model EXCEPT ![b] = None]
    /\ \E c \in DOMAIN Config : conf' = [conf EXCEPT ![b] = c]
    /\ UNCHANGED <<ask, durable, contended, early, calls>>

Next ==
    \E b \in Broker :
        \/ InsertRow(b) \/ WriteArtifact(b) \/ Enqueue(b)
        \/ Start(b) \/ Passes(b) \/ Rejects(b) \/ ResolveModel(b)
        \/ RecordModelProfile(b) \/ RecordTools(b) \/ Prepare(b)
        \/ Launch(b) \/ Loss(b)

Spec == Init /\ [][Next]_vars

-----------------------------------------------------------------------------
(* What is launched is what was asked for, wherever a broker was lost: the *)
(* fields the caller set, the agent profile's instructions, its commands,  *)
(* the permission mode, and every required capability within the tools.    *)
(* (Nobody started it while it was being created.)                         *)
LaunchMeetsRequest ==
    Launched /\ ~early =>
        /\ "mode" \in ask.given \/ ask.agent = None => row.mode = ask.mode
        /\ "schema" \in ask.given /\ ask.schema # None
               => argv.contract = ask.schema
        /\ ask.agent # None => argv.prefix
        /\ ask.verify => "verify" \in files
        /\ ask.model # None => argv.model = ask.model
        /\ ask.override # None /\ ask.runtime = "claude_code"
               => argv.permission = ask.override
        /\ ask.required # {} => LocalRead \subseteq argv.tools
        /\ RemoteRead \in ask.required => argv.tools \cap ExactTool # {}

(* A read-only launch can neither edit nor run commands, in whatever way   *)
(* the request, the profile and the configuration combine, and the tools   *)
(* of the operator in it are named one by one.                             *)
ReadOnlyCannotWrite ==
    Launched /\ row.mode = "read_only" =>
        /\ argv.permission \notin {"acceptEdits", "bypassPermissions"}
        /\ argv.tools \subseteq LocalRead \cup ExactTool
        /\ argv.sandbox \notin {"disabled", "workspace-write"}

(* The artifacts beside a launch describe it, whatever an earlier start()  *)
(* under another configuration left there: unless two of them overlapped,  *)
(* or one came after the launch.                                           *)
RecordsTellTheLaunch ==
    Launched /\ ~early /\ ~contended =>
        /\ ask.profile # None =>
             /\ modelfile = [profile |-> ask.profile,
                             binding |-> Config[argv.conf].models[ask.profile]]
             /\ modelfile.binding.model \in {None, argv.model}
        /\ ask.runtime = "claude_code" =>
             toolfile.count = Cardinality(argv.tools \cap ExactTool)
        /\ row.effective = argv.model

(* A task that states required capabilities is turned away before it is    *)
(* prepared: the adapter has no reason to refuse what the preflight passed.*)
RefusedEarly ==
    \A b \in Broker :
        At(b, "command") /\ ask.required # {} /\ ~early => ~AdapterRefuses(b)

(* From request to launch nothing is changed, passed over or left          *)
(* undescribed.                                                            *)
LaunchIsAsAsked == LaunchMeetsRequest /\ RecordsTellTheLaunch /\ RefusedEarly

-----------------------------------------------------------------------------
(* What the code does not keep.                                            *)

(* The artifacts beside a launch describe it.                              *)
RecordsAlwaysTell ==
    Launched => row.effective = argv.model

(* Tools of the operator come with the profile that names them.            *)
DefaultsDoNotExpand ==
    Launched /\ ask.tool = None => argv.tools \cap ExactTool = {}

(* Whoever starts a task, its required capabilities are checked.           *)
CapabilitiesAreChecked ==
    Launched /\ RemoteRead \in ask.required =>
        argv.tools \cap ExactTool # {}

(* No task is turned away after it was prepared.                           *)
NeverRefusedLate ==
    \A b \in Broker : At(b, "command") => ~AdapterRefuses(b)
=============================================================================
