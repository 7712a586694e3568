-------------------------- MODULE ConfigFilesProofs --------------------------
(***************************************************************************)
(* What is launched is what was asked for, and a read-only launch cannot   *)
(* write: for any requests, any configurations the loaders accept, any     *)
(* number of broker processes, starts and losses.  The invariant follows a *)
(* broker through create() and start(): what it has written, what it has   *)
(* checked under the configuration it still has, and what it has recorded  *)
(* while nobody else did.                                                  *)
(*                                                                         *)
(* And the files these configurations are read from are kept, by any       *)
(* number of commands beside any number of edits: the invariant follows a  *)
(* command from what it reads to what it renames over the file.            *)
(***************************************************************************)
EXTENDS MCConfigFiles, FiniteSetTheorems, TLAPS

-----------------------------------------------------------------------------
(* The registry of tool profiles, from any entries.                        *)

(* What is left of a profile's tools when the denied ones are gone.        *)
Usable(p) == p.allowed \ p.denied

LEMMA ToolNames ==
    /\ LocalRead \cap EditTools = {} /\ LocalRead \cap ExactTool = {}
    /\ NativeTools \cap ExactTool = {} /\ ExactTool \cap EditTools = {}
    /\ LocalRead \subseteq NativeTools
    /\ ReadOnlyTools # StandardTools /\ WorkspaceRead # RemoteRead
  BY DEF LocalRead, EditTools, ExactTool, NativeTools, ReadOnlyTools,
         StandardTools, WorkspaceRead, RemoteRead

LEMMA SoundEntry ==
    ASSUME NEW e \in ToolEntry, ToolEntrySound(e)
    PROVE  ToSet(e.ids) \subseteq ExactTool /\ ToSet(e.ids) # {}
<1>1. ToolIds(e.ids) /\ e.ids \in Seq(RawTool)
  BY DEF ToolEntrySound, ToolEntry
<1>2. e.ids # <<>> => 1 \in DOMAIN e.ids
  BY <1>1
<1>3. QED
  BY <1>1, <1>2 DEF ToolIds, ToSet

(* Every profile reads the workspace; one that may be used read-only has   *)
(* no more than that and the tools the operator named; only a profile with *)
(* some of these says that it reads remote repositories.                   *)
LEMMA RegistryFacts ==
    ASSUME NEW E \in SUBSET ToolEntry, NEW n \in DOMAIN ToolRegistry(E)
    PROVE  LET p == ToolRegistry(E)[n]
           IN  /\ LocalRead \subseteq Usable(p)
               /\ Usable(p) \cap ExactTool = p.external
               /\ "read_only" \in p.modes =>
                     Usable(p) \subseteq LocalRead \cup ExactTool
               /\ n = ReadOnlyTools => "read_only" \in p.modes
               /\ RemoteRead \in p.capabilities => p.external # {}
<1> DEFINE found == IF \A e \in E : ToolEntrySound(e) THEN E ELSE {}
           named == CHOOSE e \in found : e.name = n
           p == ToolRegistry(E)[n]
<1>1. n \in DOMAIN BuiltinTools \cup {e.name : e \in found}
  BY DEF ToolRegistry
<1>2. p = IF \E e \in found : e.name = n
          THEN Profile(LocalRead \cup ToSet(named.ids), EditTools,
                       {"read_only"}, {WorkspaceRead, RemoteRead},
                       ToSet(named.ids))
          ELSE BuiltinTools[n]
  BY <1>1 DEF ToolRegistry
<1>3. \A e \in found : e \in ToolEntry /\ ToolEntrySound(e)
  OBVIOUS
<1> HIDE DEF found, named, p
<1>4. CASE \E e \in found : e.name = n
  <2>1. named \in found
    BY <1>4 DEF named
  <2>2. ToSet(named.ids) \subseteq ExactTool /\ ToSet(named.ids) # {}
    BY <1>3, <2>1, SoundEntry
  <2>3. /\ p.allowed = LocalRead \cup ToSet(named.ids)
        /\ p.denied = EditTools /\ p.modes = {"read_only"}
        /\ p.external = ToSet(named.ids)
    BY <1>2, <1>4 DEF Profile
  <2>4. Usable(p) = LocalRead \cup ToSet(named.ids)
    BY <2>2, <2>3, ToolNames DEF Usable
  <2>5. QED
    BY <2>2, <2>3, <2>4, ToolNames DEF p
<1>5. CASE ~ \E e \in found : e.name = n
  <2>1. n \in {ReadOnlyTools, StandardTools} /\ p = BuiltinTools[n]
    BY <1>1, <1>2, <1>5 DEF BuiltinTools
  <2>2. CASE n = ReadOnlyTools
    <3>1. p = Profile(LocalRead, EditTools, {"read_only"}, {WorkspaceRead}, {})
      BY <2>1, <2>2 DEF BuiltinTools
    <3>2. Usable(p) = LocalRead
      BY <3>1, ToolNames DEF Usable, Profile
    <3>3. QED
      BY <3>1, <3>2, ToolNames DEF Profile, p
  <2>3. CASE n = StandardTools
    <3>1. p = Profile(NativeTools, {}, {"isolated_worktree"}, {WorkspaceRead},
                      {})
      BY <2>1, <2>3, ToolNames DEF BuiltinTools
    <3>2. Usable(p) = NativeTools
      BY <3>1 DEF Usable, Profile
    <3>3. /\ p.external = {} /\ RemoteRead \notin p.capabilities
          /\ "read_only" \notin p.modes
      BY <3>1, ToolNames DEF Profile
    <3>4. /\ LocalRead \subseteq Usable(p)
          /\ Usable(p) \cap ExactTool = p.external
      BY <3>2, <3>3, ToolNames
    <3>5. QED
      BY <3>3, <3>4, <2>3, ToolNames DEF p
  <2>4. QED
    BY <2>1, <2>2, <2>3
<1>6. QED
  BY <1>4, <1>5

LEMMA BuiltinNames ==
    ASSUME NEW E
    PROVE  {ReadOnlyTools, StandardTools} \subseteq DOMAIN ToolRegistry(E)
  BY DEF ToolRegistry, BuiltinTools

LEMMA ConfigFacts ==
    ASSUME NEW n \in DOMAIN Config
    PROVE  /\ n \in DOMAIN RawConfigs
           /\ \E E \in SUBSET ToolEntry : Config[n].tools = ToolRegistry(E)
           /\ Config[n].default \in {None, "m1", "m2"}
           /\ Config[n].provider \in {None, "m1", "m2"}
           /\ \A x \in DOMAIN Config[n].agents :
                 Config[n].agents[x] \in AgentEntry
<1>1. n \in DOMAIN RawConfigs /\ Config[n] = Loaded(RawConfigs[n])
  BY DEF Config
<1> DEFINE raw == RawConfigs[n]
<1>2. /\ raw.tools \subseteq ToolEntry
      /\ raw.default \in {None, "m1", "m2"}
      /\ raw.provider \in {None, "m1", "m2"}
      /\ \A x \in DOMAIN raw.agents : raw.agents[x] \in AgentEntry
  BY <1>1, PreflightAssumption
<1>3. \A x \in DOMAIN BuiltinAgents : BuiltinAgents[x] \in AgentEntry
  BY DEF BuiltinAgents, AgentEntry, Mode, Schema
<1> HIDE DEF raw
<1>4. /\ Config[n].tools = ToolRegistry(raw.tools)
      /\ Config[n].default = raw.default /\ Config[n].provider = raw.provider
      /\ Config[n].agents =
            [x \in DOMAIN BuiltinAgents \cup DOMAIN raw.agents |->
                IF x \in DOMAIN raw.agents THEN raw.agents[x]
                                           ELSE BuiltinAgents[x]]
  BY <1>1 DEF Loaded, raw
<1>5. QED
  BY <1>1, <1>2, <1>3, <1>4

-----------------------------------------------------------------------------
(* The order of the steps.                                                 *)

CreationStep == {"row", "request", "resolution", "verify", "warning", "queue"}
StartStep == {"schema", "tool", "capabilities", "model", "modelprofile",
              "snapshot", "audit", "prepare", "command"}

LEMMA Steps ==
    ToSet(CreationOrder) = CreationStep /\ ToSet(StartOrder) = StartStep
<1>1. ToSet(CreationOrder) = CreationStep
  BY DEF ToSet, CreationOrder, CreationStep
<1>2. ToSet(StartOrder) = StartStep
  BY DEF ToSet, StartOrder, StartStep
<1>3. QED
  BY <1>1, <1>2

LEMMA CreationFollows ==
    /\ Following(CreationOrder, "row") = "request"
    /\ Following(CreationOrder, "request") = "resolution"
    /\ Following(CreationOrder, "resolution") = "verify"
    /\ Following(CreationOrder, "verify") = "warning"
    /\ Following(CreationOrder, "warning") = "queue"
    /\ Following(CreationOrder, "queue") = "idle"
<1> DEFINE Place(s) == CHOOSE n \in DOMAIN CreationOrder : CreationOrder[n] = s
<1>1. /\ DOMAIN CreationOrder = 1..6 /\ Len(CreationOrder) = 6
      /\ CreationOrder[1] = "row" /\ CreationOrder[2] = "request"
      /\ CreationOrder[3] = "resolution" /\ CreationOrder[4] = "verify"
      /\ CreationOrder[5] = "warning" /\ CreationOrder[6] = "queue"
  BY DEF CreationOrder
<1>2. \A n \in 1..6 : n = 1 \/ n = 2 \/ n = 3 \/ n = 4 \/ n = 5 \/ n = 6
  OBVIOUS
<1>3. /\ Place("row") = 1 /\ Place("request") = 2 /\ Place("resolution") = 3
      /\ Place("verify") = 4 /\ Place("warning") = 5 /\ Place("queue") = 6
  BY <1>1, <1>2
<1>4. \A s : Following(CreationOrder, s) =
               IF Place(s) < 6 THEN CreationOrder[Place(s) + 1] ELSE "idle"
  BY <1>1 DEF Following
<1> HIDE DEF Place
<1>5. QED
  BY <1>1, <1>3, <1>4

LEMMA StartFollows ==
    /\ Following(StartOrder, "schema") = "tool"
    /\ Following(StartOrder, "tool") = "capabilities"
    /\ Following(StartOrder, "capabilities") = "model"
    /\ Following(StartOrder, "model") = "modelprofile"
    /\ Following(StartOrder, "modelprofile") = "snapshot"
    /\ Following(StartOrder, "snapshot") = "audit"
    /\ Following(StartOrder, "audit") = "prepare"
    /\ Following(StartOrder, "prepare") = "command"
<1> DEFINE Place(s) == CHOOSE n \in DOMAIN StartOrder : StartOrder[n] = s
<1>1. /\ DOMAIN StartOrder = 1..9 /\ Len(StartOrder) = 9
      /\ StartOrder[1] = "schema" /\ StartOrder[2] = "tool"
      /\ StartOrder[3] = "capabilities" /\ StartOrder[4] = "model"
      /\ StartOrder[5] = "modelprofile" /\ StartOrder[6] = "snapshot"
      /\ StartOrder[7] = "audit" /\ StartOrder[8] = "prepare"
      /\ StartOrder[9] = "command"
  BY DEF StartOrder
<1>2. \A n \in 1..9 : \/ n = 1 \/ n = 2 \/ n = 3 \/ n = 4 \/ n = 5 \/ n = 6
                      \/ n = 7 \/ n = 8 \/ n = 9
  OBVIOUS
<1>3. /\ Place("schema") = 1 /\ Place("tool") = 2 /\ Place("capabilities") = 3
      /\ Place("model") = 4 /\ Place("modelprofile") = 5
      /\ Place("snapshot") = 6 /\ Place("audit") = 7 /\ Place("prepare") = 8
  BY <1>1, <1>2
<1>4. \A s : Following(StartOrder, s) =
               IF Place(s) < 9 THEN StartOrder[Place(s) + 1] ELSE "idle"
  BY <1>1 DEF Following
<1> HIDE DEF Place
<1>5. QED
  BY <1>1, <1>3, <1>4

-----------------------------------------------------------------------------
(* The inductive invariant.                                                *)

Queued == status \notin {"absent", "created"}

(* There is a row before anything is done with it, and it holds what the   *)
(* caller set.                                                             *)
RowInv ==
    /\ \A b \in Broker : step[b] # "idle" => status # "absent"
    /\ Launched => status # "absent"
    /\ \A b \in Broker : step[b] # "row"
    /\ status # "absent" =>
          /\ "mode" \in ask.given \/ ask.agent = None => row.mode = ask.mode
          /\ "schema" \in ask.given \/ ask.agent = None
                => row.schema = ask.schema
          /\ ask.model # None => ask.runtime # "mock"

(* The artifacts whose absence a launch would be changed by.               *)
Has(f) ==
    CASE f = "request" -> "request" \in files
      [] f = "resolution" -> ask.agent # None => "resolution" \in files
      [] f = "verify" -> ask.verify => "verify" \in files

Complete == Has("request") /\ Has("resolution") /\ Has("verify")

(* create() queues a task whose artifacts are there, and unless somebody   *)
(* was early, start() finds it queued.                                     *)
CreationInv ==
    /\ \A b \in Broker :
          /\ step[b] \in {"resolution", "verify", "warning", "queue"}
                => Has("request")
          /\ step[b] \in {"verify", "warning", "queue"} => Has("resolution")
          /\ step[b] \in {"warning", "queue"} => Has("verify")
    /\ ~early /\ Queued => Complete
    /\ ~early => /\ \A b \in Broker : step[b] \in StartStep => Queued
                 /\ Launched => Queued

(* Past the check, required capabilities are among those of the tools this *)
(* process would launch with.                                              *)
CapabilityInv ==
    \A b \in Broker :
        ~early /\ step[b] \in {"model"} \cup Recording
        => ask.required \subseteq Advertised(Loads(b))

(* A model the caller named is the one every start() resolves.             *)
ModelInv ==
    \A b \in Broker :
        step[b] \in Recording /\ ask.model # None
        => row.effective = ask.model /\ model[b] = ask.model

(* What start() has recorded so far is what this process has loaded.       *)
Recorded(b) ==
    /\ step[b] \in {"snapshot", "audit", "prepare", "command"}
          => ProfileMatches(Loads(b), model[b])
    /\ step[b] \in {"audit", "prepare", "command"}
          => modelfile = ModelSnapshot(b)
    /\ /\ step[b] \in {"prepare", "command"}
       /\ ask.runtime = "claude_code" /\ ToolsUsable(Loads(b))
       => toolfile = [name |-> ToolsName,
                      count |-> Cardinality(
                                    Loads(b).tools[ToolsName].external)]

(* One start() records, before the launch, and its records are its own.    *)
RecordInv ==
    ~contended =>
        /\ \A b, c \in Broker :
              step[b] \in Recording /\ step[c] \in Recording => b = c
        /\ \A b \in Broker :
              step[b] \in Recording => ~Launched /\ row.effective = model[b]
        /\ ~early => \A b \in Broker : Recorded(b)

IInv ==
    /\ TypeOK
    /\ RowInv /\ CreationInv /\ CapabilityInv /\ ModelInv /\ RecordInv
    /\ ReadOnlyCannotWrite /\ LaunchMeetsRequest /\ RecordsTellTheLaunch

-----------------------------------------------------------------------------
(* What a step leaves as it was.                                           *)

LEMMA StepType ==
    ASSUME TypeOK
    PROVE  /\ \A b \in Broker :
                 step[b] \in {"idle"} \cup CreationStep \cup StartStep
           /\ \A b \in Broker, s \in {"idle"} \cup CreationStep \cup StartStep :
                 [step EXCEPT ![b] = s] \in
                    [Broker -> {"idle"} \cup ToSet(CreationOrder)
                                        \cup ToSet(StartOrder)]
<1>1. step \in [Broker -> {"idle"} \cup CreationStep \cup StartStep]
  BY Steps DEF TypeOK
<1>2. QED
  BY <1>1, Steps

(* What the checks and the adapter look at changes only before the request *)
(* artifact is there.                                                      *)
LEMMA Still ==
    ASSUME ask' = ask, row'.mode = row.mode, row'.schema = row.schema,
           "request" \in files' <=> "request" \in files
    PROVE  /\ \A f : (Asked(f))' = Asked(f)
           /\ \A c : (ToolsUsable(c))' = ToolsUsable(c)
           /\ ToolsName' = ToolsName
           /\ \A c : (Advertised(c))' = Advertised(c)
           /\ \A c, m : (ProfileMatches(c, m))' = ProfileMatches(c, m)
<1>1. \A f : (Asked(f))' = Asked(f)
  BY DEF Asked
<1>2. \A c : (ToolsUsable(c))' = ToolsUsable(c)
  BY <1>1 DEF ToolsUsable
<1>3. ToolsName' = ToolsName
  BY <1>1 DEF ToolsName, DefaultTools
<1>4. PermissionAllowed' = PermissionAllowed
  BY <1>1 DEF PermissionAllowed, Overrides
<1>5. \A c : (Advertised(c))' = Advertised(c)
  BY <1>2, <1>3, <1>4 DEF Advertised
<1>6. \A c, m : (ProfileMatches(c, m))' = ProfileMatches(c, m)
  BY <1>1 DEF ProfileMatches
<1>7. QED
  BY <1>1, <1>2, <1>3, <1>5, <1>6

LEMMA RecordedStays ==
    ASSUME NEW x \in Broker, Recorded(x),
           UNCHANGED <<ask, modelfile, toolfile>>,
           row'.mode = row.mode, row'.schema = row.schema,
           "request" \in files' <=> "request" \in files,
           step'[x] = step[x], conf'[x] = conf[x], model'[x] = model[x]
    PROVE  Recorded(x)'
<1>1. /\ (Loads(x))' = Loads(x)
      /\ (ProfileMatches(Loads(x), model[x]))'
            = ProfileMatches(Loads(x), model[x])
      /\ (ModelSnapshot(x))' = ModelSnapshot(x)
      /\ (ToolsUsable(Loads(x)))' = ToolsUsable(Loads(x))
      /\ ToolsName' = ToolsName
  BY Still DEF Loads, ModelSnapshot
<1>2. QED
  BY <1>1 DEF Recorded

LEMMA AdvertisedStays ==
    ASSUME NEW x \in Broker, ask' = ask, conf'[x] = conf[x],
           row'.mode = row.mode, row'.schema = row.schema,
           "request" \in files' <=> "request" \in files
    PROVE  (Advertised(Loads(x)))' = Advertised(Loads(x))
  BY Still DEF Loads

(* A launch stays what it was, as do its records while nobody else starts  *)
(* the task.                                                               *)
LEMMA LaunchStays ==
    ASSUME ReadOnlyCannotWrite, LaunchMeetsRequest, RecordsTellTheLaunch,
           UNCHANGED <<ask, argv>>, files \subseteq files', early => early',
           row'.mode = row.mode,
           Launched /\ ~early' /\ ~contended' =>
              UNCHANGED <<row, modelfile, toolfile, contended>>
    PROVE  ReadOnlyCannotWrite' /\ LaunchMeetsRequest' /\ RecordsTellTheLaunch'
<1>1. ReadOnlyCannotWrite'
  BY DEF ReadOnlyCannotWrite, Launched
<1>2. LaunchMeetsRequest'
  BY DEF LaunchMeetsRequest, Launched
<1>3. RecordsTellTheLaunch'
  BY DEF RecordsTellTheLaunch, Launched
<1>4. QED
  BY <1>1, <1>2, <1>3

(* A broker that has not come to where things are recorded, or has left    *)
(* it, leaves what the others have checked and recorded.                   *)
LEMMA OutsideStep ==
    ASSUME IInv, NEW b \in Broker,
           UNCHANGED <<ask, row, files, modelfile, toolfile, argv, contended>>,
           early => early', step'[b] \notin Recording,
           ~early' /\ step'[b] = "model"
              => ask.required \subseteq (Advertised(Loads(b)))',
           \A x \in Broker \ {b} : /\ step'[x] = step[x] /\ conf'[x] = conf[x]
                                  /\ model'[x] = model[x]
    PROVE  /\ CapabilityInv' /\ ModelInv' /\ RecordInv'
           /\ ReadOnlyCannotWrite' /\ LaunchMeetsRequest'
           /\ RecordsTellTheLaunch'
<1>1. CapabilityInv'
  <2> SUFFICES ASSUME NEW x \in Broker, ~early,
                      step'[x] \in {"model"} \cup Recording, x # b
               PROVE  ask.required \subseteq (Advertised(Loads(x)))'
    BY DEF CapabilityInv
  <2>1. x # b /\ step'[x] = step[x] /\ conf'[x] = conf[x]
    OBVIOUS
  <2>2. (Advertised(Loads(x)))' = Advertised(Loads(x))
    BY <2>1, AdvertisedStays
  <2>3. QED
    BY <2>1, <2>2 DEF IInv, CapabilityInv
<1>2. ModelInv'
  BY DEF IInv, ModelInv
<1>3. RecordInv'
  <2> SUFFICES ASSUME ~contended PROVE RecordInv'
    BY DEF RecordInv
  <2>1. /\ \A x, y \in Broker :
              step'[x] \in Recording /\ step'[y] \in Recording => x = y
        /\ \A x \in Broker : step'[x] \in Recording
              => ~Launched' /\ row'.effective = model'[x]
    BY DEF IInv, RecordInv, Launched
  <2>2. ASSUME ~early, NEW x \in Broker PROVE Recorded(x)'
    <3>1. CASE x = b
      BY <3>1 DEF Recorded, Recording
    <3>2. CASE x # b
      <4>1. Recorded(x)
        BY <2>2 DEF IInv, RecordInv
      <4>2. step'[x] = step[x] /\ conf'[x] = conf[x] /\ model'[x] = model[x]
        BY <3>2
      <4>3. QED
        BY <4>1, <4>2, RecordedStays
    <3>3. QED
      BY <3>1, <3>2
  <2>3. QED
    BY <2>1, <2>2 DEF RecordInv
<1>4. ReadOnlyCannotWrite' /\ LaunchMeetsRequest' /\ RecordsTellTheLaunch'
  BY LaunchStays DEF IInv
<1>5. QED
  BY <1>1, <1>2, <1>3, <1>4

-----------------------------------------------------------------------------
(* create().                                                               *)

LEMMA ResolvedType ==
    ASSUME NEW a \in Ask, NEW n \in DOMAIN Config, ValidRequest(a, Config[n])
    PROVE  /\ Resolved(a, Config[n]).mode \in Mode \cup {None}
           /\ Resolved(a, Config[n]).schema \in Schema \cup {None}
           /\ "mode" \in a.given \/ a.agent = None
                 => Resolved(a, Config[n]).mode = a.mode
           /\ "schema" \in a.given \/ a.agent = None
                 => Resolved(a, Config[n]).schema = a.schema
<1>1. CASE a.agent = None
  BY <1>1 DEF Resolved, Ask
<1>2. CASE a.agent # None
  <2> DEFINE p == Config[n].agents[a.agent]
  <2>1. p \in AgentEntry
    BY <1>2, ConfigFacts DEF ValidRequest
  <2> HIDE DEF p
  <2>2. /\ Resolved(a, Config[n]).mode
              = ResolveField("mode", a, a.mode, p.mode, "read_only")
        /\ Resolved(a, Config[n]).schema
              = ResolveField("schema", a, a.schema, p.schema, None)
    BY <1>2 DEF Resolved, p
  <2>3. a.mode \in Mode /\ a.schema \in Schema \cup {None}
    BY DEF Ask
  <2>4. QED
    BY <1>2, <2>1, <2>2, <2>3 DEF ResolveField, AgentEntry, Mode
<1>3. QED
  BY <1>1, <1>2

LEMMA InsertRowStep ==
    ASSUME IInv, NEW b \in Broker, InsertRow(b)
    PROVE  IInv'
<1>1. /\ status = "absent" /\ \A x \in Broker : step[x] = "idle"
      /\ status' = "created" /\ ValidRequest(ask, Loads(b))
      /\ row' = [mode |-> Resolved(ask, Loads(b)).mode,
                 schema |-> Resolved(ask, Loads(b)).schema, effective |-> None]
      /\ step' = [step EXCEPT ![b] = "request"]
      /\ UNCHANGED <<ask, conf, files, modelfile, toolfile, argv, model,
                     contended, losses, early, calls>>
  BY CreationFollows DEF InsertRow, At, Goes
<1>2. ask \in Ask /\ conf[b] \in DOMAIN Config
  BY PreflightAssumption DEF IInv, TypeOK
<1>3. /\ row'.mode \in Mode \cup {None} /\ row'.schema \in Schema \cup {None}
      /\ "mode" \in ask.given \/ ask.agent = None => row'.mode = ask.mode
      /\ "schema" \in ask.given \/ ask.agent = None
            => row'.schema = ask.schema
  BY <1>1, <1>2, ResolvedType DEF Loads
<1>4. step' \in [Broker -> {"idle"} \cup ToSet(CreationOrder)
                                    \cup ToSet(StartOrder)]
  BY <1>1, StepType DEF IInv, CreationStep
<1>5. TypeOK'
  BY <1>1, <1>3, <1>4 DEF IInv, TypeOK
<1>6. \A x \in Broker : step'[x] \in {"idle", "request"}
  BY <1>1 DEF IInv, TypeOK
<1>7. ~Launched /\ ~Launched'
  BY <1>1 DEF IInv, RowInv, Launched
<1>8. RowInv'
  BY <1>1, <1>3, <1>6, <1>7 DEF RowInv, ValidRequest, RefusesModel
<1>9. CreationInv'
  BY <1>1, <1>6, <1>7 DEF CreationInv, Queued, StartStep
<1>10. CapabilityInv' /\ ModelInv' /\ RecordInv'
  BY <1>6 DEF CapabilityInv, ModelInv, RecordInv, Recorded, Recording
<1>11. ReadOnlyCannotWrite' /\ LaunchMeetsRequest' /\ RecordsTellTheLaunch'
  BY <1>7 DEF ReadOnlyCannotWrite, LaunchMeetsRequest, RecordsTellTheLaunch
<1>12. QED
  BY <1>5, <1>8, <1>9, <1>10, <1>11 DEF IInv

LEMMA WriteArtifactStep ==
    ASSUME IInv, NEW b \in Broker, WriteArtifact(b)
    PROVE  IInv'
<1> DEFINE next == Following(CreationOrder, step[b])
<1>1. /\ step[b] \in {"request", "resolution", "verify", "warning"}
      /\ files' = IF Wanted(step[b]) THEN files \cup {step[b]} ELSE files
      /\ step' = [step EXCEPT ![b] = next]
      /\ UNCHANGED <<ask, conf, status, row, modelfile, toolfile, argv, model,
                     contended, losses, early, calls>>
  BY DEF WriteArtifact, Artifact, Creates, Goes
<1>2. /\ step[b] = "request" => next = "resolution"
      /\ step[b] = "resolution" => next = "verify"
      /\ step[b] = "verify" => next = "warning"
      /\ step[b] = "warning" => next = "queue"
  BY CreationFollows
<1> HIDE DEF next
<1>3. files \subseteq files' /\ files' \subseteq Artifact
  BY <1>1 DEF IInv, TypeOK, Artifact
<1>4. next \in {"resolution", "verify", "warning", "queue"}
  BY <1>1, <1>2
<1>5. step' \in [Broker -> {"idle"} \cup ToSet(CreationOrder)
                                    \cup ToSet(StartOrder)]
  BY <1>1, <1>4, StepType DEF IInv, CreationStep
<1>6. TypeOK'
  BY <1>1, <1>3, <1>5 DEF IInv, TypeOK
<1>7. /\ step'[b] = next
      /\ \A x \in Broker : x # b => step'[x] = step[x]
  BY <1>1 DEF IInv, TypeOK
<1>8. RowInv'
  BY <1>1, <1>4, <1>7 DEF IInv, RowInv, Launched
<1>9. /\ step[b] = "request" => Has("request")'
      /\ step[b] = "resolution" => Has("resolution")'
      /\ step[b] = "verify" => Has("verify")'
      /\ Has("request") => Has("request")'
      /\ Has("resolution") => Has("resolution")'
      /\ Has("verify") => Has("verify")'
  BY <1>1, <1>3 DEF Has, Wanted
<1>10. CreationInv'
  <2>1. \A x \in Broker :
          /\ step'[x] \in {"resolution", "verify", "warning", "queue"}
                => Has("request")'
          /\ step'[x] \in {"verify", "warning", "queue"} => Has("resolution")'
          /\ step'[x] \in {"warning", "queue"} => Has("verify")'
    <3> SUFFICES ASSUME NEW x \in Broker
                 PROVE  /\ step'[x] \in {"resolution", "verify", "warning",
                                         "queue"} => Has("request")'
                        /\ step'[x] \in {"verify", "warning", "queue"}
                              => Has("resolution")'
                        /\ step'[x] \in {"warning", "queue"} => Has("verify")'
      OBVIOUS
    <3>1. CASE x = b
      BY <3>1, <1>1, <1>2, <1>7, <1>9 DEF IInv, CreationInv
    <3>2. CASE x # b
      BY <3>2, <1>7, <1>9 DEF IInv, CreationInv
    <3>3. QED
      BY <3>1, <3>2
  <2>2. ~early' /\ Queued' => Complete'
    BY <1>1, <1>9 DEF IInv, CreationInv, Queued, Complete
  <2>3. ~early' => /\ \A x \in Broker : step'[x] \in StartStep => Queued'
                   /\ Launched' => Queued'
    BY <1>1, <1>4, <1>7 DEF IInv, CreationInv, Queued, Launched, StartStep
  <2>4. QED
    BY <2>1, <2>2, <2>3 DEF CreationInv
<1>11. next \notin {"model"} \cup Recording
  BY <1>4 DEF Recording
<1>12. ASSUME NEW x \in Broker, ~early, step'[x] \in {"model"} \cup Recording
       PROVE  "request" \in files
  <2>1. step[x] \in StartStep
    BY <1>7, <1>11, <1>12 DEF StartStep, Recording
  <2>2. QED
    BY <1>12, <2>1 DEF IInv, CreationInv, Complete, Has
<1>13. CapabilityInv'
  <2> SUFFICES ASSUME NEW x \in Broker, ~early,
                      step'[x] \in {"model"} \cup Recording
               PROVE  ask.required \subseteq (Advertised(Loads(x)))'
    BY <1>1 DEF CapabilityInv
  <2>1. "request" \in files' <=> "request" \in files
    BY <1>3, <1>12
  <2>2. (Advertised(Loads(x)))' = Advertised(Loads(x))
    BY <1>1, <2>1, AdvertisedStays
  <2>3. QED
    BY <1>7, <1>11, <2>2 DEF IInv, CapabilityInv
<1>14. ModelInv'
  BY <1>1, <1>7, <1>11 DEF IInv, ModelInv
<1>15. RecordInv'
  <2> SUFFICES ASSUME ~contended PROVE RecordInv'
    BY <1>1 DEF RecordInv
  <2>1. /\ \A x, y \in Broker :
              step'[x] \in Recording /\ step'[y] \in Recording => x = y
        /\ \A x \in Broker : step'[x] \in Recording
              => ~Launched' /\ row'.effective = model'[x]
    BY <1>1, <1>7, <1>11 DEF IInv, RecordInv, Launched
  <2>2. ASSUME ~early, NEW x \in Broker PROVE Recorded(x)'
    <3>1. CASE step'[x] \in Recording
      <4>1. "request" \in files' <=> "request" \in files
        BY <1>3, <1>12, <2>2, <3>1
      <4>2. step'[x] = step[x]
        BY <1>7, <1>11, <3>1
      <4>3. Recorded(x)
        BY <2>2 DEF IInv, RecordInv
      <4>4. QED
        BY <1>1, <4>1, <4>2, <4>3, RecordedStays
    <3>2. CASE step'[x] \notin Recording
      BY <3>2 DEF Recorded, Recording
    <3>3. QED
      BY <3>1, <3>2
  <2>3. QED
    BY <1>1, <2>1, <2>2 DEF RecordInv
<1>16. ReadOnlyCannotWrite' /\ LaunchMeetsRequest' /\ RecordsTellTheLaunch'
  BY <1>1, <1>3, LaunchStays DEF IInv
<1>17. QED
  BY <1>6, <1>8, <1>10, <1>13, <1>14, <1>15, <1>16 DEF IInv

LEMMA EnqueueStep ==
    ASSUME IInv, NEW b \in Broker, Enqueue(b)
    PROVE  IInv'
<1>1. /\ step[b] = "queue" /\ step' = [step EXCEPT ![b] = "idle"]
      /\ status # "absent" /\ status' \in {status, "queued"}
      /\ UNCHANGED <<ask, conf, row, files, modelfile, toolfile, argv, model,
                     contended, losses, early, calls>>
  BY CreationFollows DEF Enqueue, At, Creates, Goes, IInv, RowInv
<1>2. step' \in [Broker -> {"idle"} \cup ToSet(CreationOrder)
                                    \cup ToSet(StartOrder)]
  BY <1>1, StepType DEF IInv
<1>3. TypeOK'
  BY <1>1, <1>2 DEF IInv, TypeOK
<1>4. step'[b] = "idle" /\ \A x \in Broker : x # b => step'[x] = step[x]
  BY <1>1 DEF IInv, TypeOK
<1>5. RowInv'
  BY <1>1, <1>4 DEF IInv, RowInv, Launched
<1>6. CreationInv'
  <2>1. Complete
    BY <1>1 DEF IInv, CreationInv, Complete
  <2>2. /\ Has("request")' = Has("request")
        /\ Has("resolution")' = Has("resolution")
        /\ Has("verify")' = Has("verify")
    BY <1>1 DEF Has
  <2>3. Queued => Queued'
    BY <1>1 DEF Queued
  <2>4. QED
    BY <1>1, <1>4, <2>1, <2>2, <2>3
       DEF IInv, CreationInv, Complete, Launched, StartStep
<1>7. /\ CapabilityInv' /\ ModelInv' /\ RecordInv'
      /\ ReadOnlyCannotWrite' /\ LaunchMeetsRequest' /\ RecordsTellTheLaunch'
  BY <1>1, <1>4, OutsideStep DEF Recording
<1>8. QED
  BY <1>1, <1>3, <1>5, <1>6, <1>7 DEF IInv

-----------------------------------------------------------------------------
(* start().                                                                *)

(* In a step of start() that leaves the request alone the row stays        *)
(* queued and complete.                                                    *)
LEMMA StartKeeps ==
    ASSUME IInv, NEW b \in Broker, step[b] \in StartStep,
           NEW s \in {"idle"} \cup StartStep, step' = [step EXCEPT ![b] = s],
           UNCHANGED <<ask, files, early>>,
           row'.mode = row.mode, row'.schema = row.schema,
           status' \in {status, "rejected", "preparing", "running"}
    PROVE  /\ step' \in [Broker -> {"idle"} \cup ToSet(CreationOrder)
                                            \cup ToSet(StartOrder)]
           /\ step'[b] = s /\ \A x \in Broker : x # b => step'[x] = step[x]
           /\ RowInv' /\ CreationInv'
<1>1. step' \in [Broker -> {"idle"} \cup ToSet(CreationOrder)
                                    \cup ToSet(StartOrder)]
  BY StepType DEF IInv
<1>2. step'[b] = s /\ \A x \in Broker : x # b => step'[x] = step[x]
  BY DEF IInv, TypeOK
<1>3. status # "absent" /\ step[b] # "idle"
  BY DEF IInv, RowInv, StartStep
<1>4. RowInv'
  BY <1>2, <1>3 DEF IInv, RowInv, StartStep
<1>5. /\ Has("request")' = Has("request")
      /\ Has("resolution")' = Has("resolution")
      /\ Has("verify")' = Has("verify")
  BY DEF Has
<1>6. ~early => Queued /\ Queued' /\ Complete
  BY DEF Queued, IInv, CreationInv
<1>7. CreationInv'
  <2>1. \A x \in Broker :
          /\ step'[x] \in {"resolution", "verify", "warning", "queue"}
                => Has("request")'
          /\ step'[x] \in {"verify", "warning", "queue"} => Has("resolution")'
          /\ step'[x] \in {"warning", "queue"} => Has("verify")'
    BY <1>2, <1>5 DEF IInv, CreationInv, StartStep
  <2>2. ~early => Complete' /\ Queued'
    BY <1>5, <1>6 DEF Complete
  <2>3. QED
    BY <2>1, <2>2 DEF CreationInv
<1>8. QED
  BY <1>1, <1>2, <1>4, <1>7

(* A step from record to record: where one start() records, it stays the   *)
(* only one.                                                               *)
LEMMA InsideStep ==
    ASSUME IInv, NEW b \in Broker,
           step[b] \in Recording, step'[b] \in Recording,
           UNCHANGED <<ask, conf, row, files, argv, contended, early>>,
           model'[b] \in {model[b], row.effective},
           \A x \in Broker \ {b} : step'[x] = step[x] /\ model'[x] = model[x],
           ~contended /\ ~early => Recorded(b)'
    PROVE  /\ CapabilityInv' /\ ModelInv' /\ RecordInv'
           /\ ReadOnlyCannotWrite' /\ LaunchMeetsRequest'
           /\ RecordsTellTheLaunch'
<1>1. CapabilityInv'
  <2> SUFFICES ASSUME NEW x \in Broker, ~early,
                      step'[x] \in {"model"} \cup Recording
               PROVE  ask.required \subseteq (Advertised(Loads(x)))'
    BY DEF CapabilityInv
  <2>1. step[x] \in {"model"} \cup Recording
    OBVIOUS
  <2>2. (Advertised(Loads(x)))' = Advertised(Loads(x))
    BY AdvertisedStays
  <2>3. QED
    BY <2>1, <2>2 DEF IInv, CapabilityInv
<1>2. ModelInv'
  BY DEF IInv, ModelInv
<1>3. ~contended => ~Launched /\ row.effective = model[b]
  BY DEF IInv, RecordInv
<1>4. ~contended => \A x \in Broker : x # b => step'[x] \notin Recording
  BY DEF IInv, RecordInv
<1>5. RecordInv'
  <2> SUFFICES ASSUME ~contended PROVE RecordInv'
    BY DEF RecordInv
  <2>1. /\ \A x, y \in Broker :
              step'[x] \in Recording /\ step'[y] \in Recording => x = y
        /\ \A x \in Broker : step'[x] \in Recording
              => ~Launched' /\ row'.effective = model'[x]
    BY <1>3, <1>4 DEF Launched
  <2>2. ASSUME ~early, NEW x \in Broker PROVE Recorded(x)'
    <3>1. CASE x = b
      BY <2>2, <3>1
    <3>2. CASE x # b
      BY <1>4, <3>2 DEF Recorded, Recording
    <3>3. QED
      BY <3>1, <3>2
  <2>3. QED
    BY <2>1, <2>2 DEF RecordInv
<1>6. ReadOnlyCannotWrite' /\ LaunchMeetsRequest' /\ RecordsTellTheLaunch'
  BY <1>3, LaunchStays DEF IInv
<1>7. QED
  BY <1>1, <1>2, <1>5, <1>6

LEMMA CallStep ==
    ASSUME IInv, NEW b \in Broker, Start(b)
    PROVE  IInv'
<1>1. /\ step[b] = "idle" /\ status # "absent"
      /\ step' = [step EXCEPT ![b] = "schema"]
      /\ calls' = calls + 1 /\ calls < MaxStarts
      /\ early' = (early \/ status = "created")
      /\ UNCHANGED <<ask, conf, status, row, files, modelfile, toolfile, argv,
                     model, contended, losses>>
  BY DEF Start, At, Goes, durable
<1>2. step' \in [Broker -> {"idle"} \cup ToSet(CreationOrder)
                                    \cup ToSet(StartOrder)]
  BY <1>1, StepType DEF IInv, StartStep
<1>3. calls' \in 0..MaxStarts
  BY <1>1, PreflightAssumption DEF IInv, TypeOK
<1>4. TypeOK'
  BY <1>1, <1>2, <1>3 DEF IInv, TypeOK
<1>5. step'[b] = "schema" /\ \A x \in Broker : x # b => step'[x] = step[x]
  BY <1>1 DEF IInv, TypeOK
<1>6. RowInv'
  BY <1>1, <1>5 DEF IInv, RowInv, Launched
<1>7. CreationInv'
  <2>1. /\ Has("request")' = Has("request")
        /\ Has("resolution")' = Has("resolution")
        /\ Has("verify")' = Has("verify")
    BY <1>1 DEF Has
  <2>2. Queued' = Queued /\ (~early' => ~early /\ Queued)
    BY <1>1 DEF Queued
  <2>3. Launched' = Launched
    BY <1>1 DEF Launched
  <2>4. QED
    BY <1>5, <2>1, <2>2, <2>3 DEF IInv, CreationInv, Complete
<1>8. step'[b] \notin {"model"} \cup Recording
  BY <1>5 DEF Recording
<1>9. /\ CapabilityInv' /\ ModelInv' /\ RecordInv'
      /\ ReadOnlyCannotWrite' /\ LaunchMeetsRequest' /\ RecordsTellTheLaunch'
  BY <1>1, <1>5, <1>8, OutsideStep
<1>10. QED
  BY <1>4, <1>6, <1>7, <1>9 DEF IInv

LEMMA LossStep ==
    ASSUME IInv, NEW b \in Broker, Loss(b)
    PROVE  IInv'
<1>1. /\ step' = [step EXCEPT ![b] = "idle"]
      /\ model' = [model EXCEPT ![b] = None]
      /\ losses' = losses + 1 /\ losses < MaxLosses
      /\ UNCHANGED <<ask, status, row, files, modelfile, toolfile, argv,
                     contended, early, calls>>
  BY DEF Loss, Goes, durable
<1>2. PICK c \in DOMAIN Config : conf' = [conf EXCEPT ![b] = c]
  BY DEF Loss
<1>3. step' \in [Broker -> {"idle"} \cup ToSet(CreationOrder)
                                    \cup ToSet(StartOrder)]
  BY <1>1, StepType DEF IInv
<1>4. losses' \in 0..MaxLosses
  BY <1>1, PreflightAssumption DEF IInv, TypeOK
<1>5. TypeOK'
  BY <1>1, <1>2, <1>3, <1>4 DEF IInv, TypeOK
<1>6. /\ step'[b] = "idle"
      /\ \A x \in Broker \ {b} : /\ step'[x] = step[x] /\ conf'[x] = conf[x]
                                 /\ model'[x] = model[x]
  BY <1>1, <1>2 DEF IInv, TypeOK
<1>7. RowInv'
  BY <1>1, <1>6 DEF IInv, RowInv, Launched
<1>8. CreationInv'
  <2>1. /\ Has("request")' = Has("request")
        /\ Has("resolution")' = Has("resolution")
        /\ Has("verify")' = Has("verify")
    BY <1>1 DEF Has
  <2>2. Queued' = Queued /\ Launched' = Launched
    BY <1>1 DEF Queued, Launched
  <2>3. QED
    BY <1>1, <1>6, <2>1, <2>2
       DEF IInv, CreationInv, Complete, StartStep
<1>9. step'[b] \notin {"model"} \cup Recording
  BY <1>6 DEF Recording
<1>10. /\ CapabilityInv' /\ ModelInv' /\ RecordInv'
       /\ ReadOnlyCannotWrite' /\ LaunchMeetsRequest' /\ RecordsTellTheLaunch'
  BY <1>1, <1>6, <1>9, OutsideStep
<1>11. QED
  BY <1>5, <1>7, <1>8, <1>10 DEF IInv

LEMMA PassesStep ==
    ASSUME IInv, NEW b \in Broker, Passes(b)
    PROVE  IInv'
<1> DEFINE next == Following(StartOrder, step[b])
<1>1. /\ step[b] \in {"schema", "tool", "capabilities", "modelprofile"}
      /\ ~Refused(b) /\ step' = [step EXCEPT ![b] = next]
      /\ UNCHANGED <<ask, conf, status, row, files, modelfile, toolfile, argv,
                     model, contended, losses, early, calls>>
  BY DEF Passes, Checks, Proceeds, Goes, durable
<1>2. /\ step[b] = "schema" => next = "tool"
      /\ step[b] = "tool" => next = "capabilities"
      /\ step[b] = "capabilities" => next = "model"
      /\ step[b] = "modelprofile" => next = "snapshot"
  BY StartFollows
<1> HIDE DEF next
<1>3. step[b] \in StartStep /\ next \in StartStep
  BY <1>1, <1>2 DEF StartStep
<1>4. /\ step' \in [Broker -> {"idle"} \cup ToSet(CreationOrder)
                                       \cup ToSet(StartOrder)]
      /\ step'[b] = next /\ \A x \in Broker : x # b => step'[x] = step[x]
      /\ RowInv' /\ CreationInv'
  BY <1>1, <1>3, StartKeeps
<1>5. TypeOK'
  BY <1>1, <1>4 DEF IInv, TypeOK
<1>6. (Advertised(Loads(b)))' = Advertised(Loads(b))
  BY <1>1, AdvertisedStays
<1>7. ASSUME step[b] = "capabilities", ~early
      PROVE  ask.required \subseteq (Advertised(Loads(b)))'
  <2>1. "request" \in files
    BY <1>3, <1>7 DEF IInv, CreationInv, Complete, Has
  <2>2. AskedRequired = ask.required
    BY <2>1 DEF AskedRequired
  <2>3. QED
    BY <1>1, <1>6, <1>7, <2>2 DEF Refused, At
<1>8. ASSUME step[b] = "modelprofile" PROVE Recorded(b)'
  <2>1. ProfileMatches(Loads(b), model[b])
    BY <1>1, <1>8 DEF Refused, At
  <2>2. (ProfileMatches(Loads(b), model[b]))'
  BY <1>1, <2>1, Still DEF Loads
  <2>3. step'[b] = "snapshot"
    BY <1>2, <1>4, <1>8
  <2>4. QED
    BY <2>2, <2>3 DEF Recorded
<1>9. /\ CapabilityInv' /\ ModelInv' /\ RecordInv'
      /\ ReadOnlyCannotWrite' /\ LaunchMeetsRequest' /\ RecordsTellTheLaunch'
  <2>1. CASE step[b] = "modelprofile"
    <3>1. step[b] \in Recording /\ step'[b] \in Recording
      BY <1>2, <1>4, <2>1 DEF Recording
    <3>2. QED
      BY <1>1, <1>4, <1>8, <2>1, <3>1, InsideStep
  <2>2. CASE step[b] # "modelprofile"
    <3>1. /\ step'[b] \notin Recording
          /\ step'[b] = "model" => step[b] = "capabilities"
      BY <1>1, <1>2, <1>4, <2>2 DEF Recording
    <3>2. QED
      BY <1>1, <1>4, <1>7, <3>1, OutsideStep
  <2>3. QED
    BY <2>1, <2>2
<1>10. QED
  BY <1>4, <1>5, <1>9 DEF IInv

(* A broker that gives up.                                                 *)
LEMMA GivesUp ==
    ASSUME IInv, NEW b \in Broker, step[b] \in StartStep,
           step' = [step EXCEPT ![b] = "idle"],
           status' \in {status, "rejected"},
           UNCHANGED <<ask, conf, row, files, modelfile, toolfile, argv, model,
                       contended, losses, early, calls>>
    PROVE  IInv'
<1>1. /\ step' \in [Broker -> {"idle"} \cup ToSet(CreationOrder)
                                       \cup ToSet(StartOrder)]
      /\ step'[b] = "idle" /\ \A x \in Broker : x # b => step'[x] = step[x]
      /\ RowInv' /\ CreationInv'
  BY StartKeeps
<1>2. TypeOK'
  BY <1>1 DEF IInv, TypeOK
<1>3. step'[b] \notin {"model"} \cup Recording
  BY <1>1 DEF Recording
<1>4. /\ CapabilityInv' /\ ModelInv' /\ RecordInv'
      /\ ReadOnlyCannotWrite' /\ LaunchMeetsRequest' /\ RecordsTellTheLaunch'
  BY <1>1, <1>3, OutsideStep
<1>5. QED
  BY <1>1, <1>2, <1>4 DEF IInv

LEMMA RejectsStep ==
    ASSUME IInv, NEW b \in Broker, Rejects(b)
    PROVE  IInv'
<1>1. step[b] \in StartStep
  BY DEF Rejects, Checks, StartStep
<1>2. /\ step' = [step EXCEPT ![b] = "idle"] /\ status' \in {status, "rejected"}
      /\ UNCHANGED <<ask, conf, row, files, modelfile, toolfile, argv, model,
                     contended, losses, early, calls>>
  BY DEF Rejects, Goes
<1>3. QED
  BY <1>1, <1>2, GivesUp

LEMMA ResolveModelStep ==
    ASSUME IInv, NEW b \in Broker, ResolveModel(b)
    PROVE  IInv'
<1> DEFINE m == EffectiveModel(Loads(b))
<1>1. /\ step[b] = "model"
      /\ UNCHANGED <<ask, conf, status, files, modelfile, toolfile, argv, early,
                     calls, losses>>
  BY DEF ResolveModel, At
<1>2. step[b] \in StartStep
  BY <1>1 DEF StartStep
<1>3. CASE ask.runtime = "openai_compatible" /\ Loads(b).provider = None
  <2>1. /\ step' = [step EXCEPT ![b] = "idle"]
        /\ UNCHANGED <<row, model, contended>>
    BY <1>3 DEF ResolveModel, Goes
  <2>2. QED
    BY <1>1, <1>2, <2>1, GivesUp
<1>4. CASE ~(ask.runtime = "openai_compatible" /\ Loads(b).provider = None)
  <2>1. /\ row' = [row EXCEPT !.effective = m]
        /\ model' = [model EXCEPT ![b] = m]
        /\ contended' = (contended \/ Launched \/ \E x \in Broker \ {b} :
                            step[x] \in Recording)
        /\ step' = [step EXCEPT ![b] = "modelprofile"]
    BY <1>1, <1>4, StartFollows DEF ResolveModel, Proceeds, Goes
  <2>2. conf[b] \in DOMAIN Config /\ ask \in Ask
    BY PreflightAssumption DEF IInv, TypeOK
  <2>3. m \in {None, "m1", "m2"}
    BY <2>2, ConfigFacts DEF EffectiveModel, Loads, Ask
  <2>4. ask.model # None => m = ask.model
    BY <1>1 DEF EffectiveModel, IInv, RowInv
  <2> HIDE DEF m
  <2>5. /\ row' \in [mode : Mode \cup {None}, schema : Schema \cup {None},
                     effective : {None, "m1", "m2"}]
        /\ row'.mode = row.mode /\ row'.schema = row.schema
        /\ row'.effective = m
    BY <2>1, <2>3 DEF IInv, TypeOK
  <2>6. /\ model' \in [Broker -> {None, "m1", "m2"}] /\ model'[b] = m
        /\ \A x \in Broker : x # b => model'[x] = model[x]
    BY <2>1, <2>3 DEF IInv, TypeOK
  <2>7. "modelprofile" \in StartStep
    BY DEF StartStep
  <2>8. /\ step' \in [Broker -> {"idle"} \cup ToSet(CreationOrder)
                                         \cup ToSet(StartOrder)]
        /\ step'[b] = "modelprofile"
        /\ \A x \in Broker : x # b => step'[x] = step[x]
        /\ RowInv' /\ CreationInv'
    BY <1>1, <1>2, <2>1, <2>5, <2>7, StartKeeps
  <2>9. TypeOK'
    BY <1>1, <2>1, <2>5, <2>6, <2>8 DEF IInv, TypeOK
  <2>10. CapabilityInv'
    <3> SUFFICES ASSUME NEW x \in Broker, ~early,
                        step'[x] \in {"model"} \cup Recording
                 PROVE  ask.required \subseteq (Advertised(Loads(x)))'
      BY <1>1 DEF CapabilityInv
    <3>1. (Advertised(Loads(x)))' = Advertised(Loads(x))
      BY <1>1, <2>5, AdvertisedStays
    <3>2. step[x] \in {"model"} \cup Recording
      BY <1>1, <2>8
    <3>3. QED
      BY <3>1, <3>2 DEF IInv, CapabilityInv
  <2>11. ModelInv'
    BY <1>1, <2>4, <2>5, <2>6, <2>8 DEF IInv, ModelInv
  <2>12. RecordInv'
    <3> SUFFICES ASSUME ~contended' PROVE RecordInv'
      BY DEF RecordInv
    <3>1. ~Launched /\ \A x \in Broker : x # b => step'[x] \notin Recording
      BY <2>1, <2>8
    <3>2. \A x \in Broker : Recorded(x)'
      BY <2>8, <3>1 DEF Recorded, Recording
    <3>3. QED
      BY <1>1, <2>5, <2>6, <3>1, <3>2 DEF RecordInv, Launched
  <2>13. Launched => contended'
    BY <2>1
  <2>14. ReadOnlyCannotWrite' /\ LaunchMeetsRequest' /\ RecordsTellTheLaunch'
    BY <1>1, <2>5, <2>13, LaunchStays DEF IInv
  <2>15. QED
    BY <2>8, <2>9, <2>10, <2>11, <2>12, <2>14 DEF IInv
<1>5. QED
  BY <1>3, <1>4

LEMMA RecordModelProfileStep ==
    ASSUME IInv, NEW b \in Broker, RecordModelProfile(b)
    PROVE  IInv'
<1>1. /\ step[b] = "snapshot" /\ step' = [step EXCEPT ![b] = "audit"]
      /\ modelfile' = IF ProfileMatches(Loads(b), model[b])
                      THEN ModelSnapshot(b) ELSE modelfile
      /\ UNCHANGED <<ask, conf, status, row, files, toolfile, argv, model,
                     contended, losses, early, calls>>
  BY StartFollows DEF RecordModelProfile, At, Proceeds, Goes, Snapshot
<1>2. "snapshot" \in StartStep /\ "audit" \in StartStep
  BY DEF StartStep
<1>3. /\ step' \in [Broker -> {"idle"} \cup ToSet(CreationOrder)
                                       \cup ToSet(StartOrder)]
      /\ step'[b] = "audit" /\ \A x \in Broker : x # b => step'[x] = step[x]
      /\ RowInv' /\ CreationInv'
  BY <1>1, <1>2, StartKeeps
<1>4. ask \in Ask
  BY PreflightAssumption DEF IInv, TypeOK
<1>5. modelfile'.profile \in {None, "p", "q"}
  <2>1. Asked("profile") \in {None, "p", "q"}
    BY <1>4 DEF Asked, Ask
  <2>2. (ModelSnapshot(b)).profile = Asked("profile")
    BY DEF ModelSnapshot, NoModel
  <2>3. QED
    BY <1>1, <2>1, <2>2 DEF IInv, TypeOK
<1>6. TypeOK'
  BY <1>1, <1>3, <1>5 DEF IInv, TypeOK
<1>7. ASSUME ~contended, ~early PROVE Recorded(b)'
  <2>1. ProfileMatches(Loads(b), model[b])
    BY <1>1, <1>7 DEF IInv, RecordInv, Recorded
  <2>2. /\ (ProfileMatches(Loads(b), model[b]))'
        /\ (ModelSnapshot(b))' = ModelSnapshot(b)
    BY <1>1, <2>1, Still DEF Loads, ModelSnapshot
  <2>3. QED
    BY <1>1, <1>3, <2>1, <2>2 DEF Recorded
<1>8. step[b] \in Recording /\ step'[b] \in Recording
  BY <1>1, <1>3 DEF Recording
<1>9. /\ CapabilityInv' /\ ModelInv' /\ RecordInv'
      /\ ReadOnlyCannotWrite' /\ LaunchMeetsRequest' /\ RecordsTellTheLaunch'
  BY <1>1, <1>3, <1>7, <1>8, InsideStep
<1>10. QED
  BY <1>3, <1>6, <1>9 DEF IInv

LEMMA RecordToolsStep ==
    ASSUME IInv, NEW b \in Broker, RecordTools(b)
    PROVE  IInv'
<1>1. /\ step[b] = "audit" /\ step' = [step EXCEPT ![b] = "prepare"]
      /\ toolfile' = IF ask.runtime = "claude_code" /\ ToolsUsable(Loads(b))
                     THEN [name |-> ToolsName,
                           count |-> Cardinality(
                                         Loads(b).tools[ToolsName].external)]
                     ELSE toolfile
      /\ UNCHANGED <<ask, conf, status, row, files, modelfile, argv, model,
                     contended, losses, early, calls>>
  BY StartFollows DEF RecordTools, At, Proceeds, Goes
<1>2. "audit" \in StartStep /\ "prepare" \in StartStep
  BY DEF StartStep
<1>3. /\ step' \in [Broker -> {"idle"} \cup ToSet(CreationOrder)
                                       \cup ToSet(StartOrder)]
      /\ step'[b] = "prepare" /\ \A x \in Broker : x # b => step'[x] = step[x]
      /\ RowInv' /\ CreationInv'
  BY <1>1, <1>2, StartKeeps
<1>4. TypeOK'
  BY <1>1, <1>3 DEF IInv, TypeOK
<1>5. ASSUME ~contended, ~early PROVE Recorded(b)'
  <2>1. Recorded(b)
    BY <1>5 DEF IInv, RecordInv
  <2>2. /\ ProfileMatches(Loads(b), model[b])
        /\ modelfile = ModelSnapshot(b)
    BY <1>1, <2>1 DEF Recorded
  <2>3. /\ (ProfileMatches(Loads(b), model[b]))'
        /\ (ModelSnapshot(b))' = ModelSnapshot(b)
        /\ (ToolsUsable(Loads(b)))' = ToolsUsable(Loads(b))
        /\ (Loads(b))' = Loads(b) /\ ToolsName' = ToolsName
    BY <1>1, <2>2, Still DEF Loads, ModelSnapshot
  <2>4. QED
    BY <1>1, <2>2, <2>3 DEF Recorded
<1>6. step[b] \in Recording /\ step'[b] \in Recording
  BY <1>1, <1>3 DEF Recording
<1>7. /\ CapabilityInv' /\ ModelInv' /\ RecordInv'
      /\ ReadOnlyCannotWrite' /\ LaunchMeetsRequest' /\ RecordsTellTheLaunch'
  BY <1>1, <1>3, <1>5, <1>6, InsideStep
<1>8. QED
  BY <1>3, <1>4, <1>7 DEF IInv

LEMMA PrepareStep ==
    ASSUME IInv, NEW b \in Broker, Prepare(b)
    PROVE  IInv'
<1>1. /\ step[b] = "prepare"
      /\ UNCHANGED <<ask, conf, row, files, modelfile, toolfile, argv,
                     contended, losses, early, calls>>
  BY DEF Prepare, At
<1>2. "prepare" \in StartStep /\ "command" \in StartStep
  BY DEF StartStep
<1>3. CASE ~CanGo(status, "preparing")
  <2>1. step' = [step EXCEPT ![b] = "idle"] /\ UNCHANGED <<status, model>>
    BY <1>3 DEF Prepare, Goes
  <2>2. QED
    BY <1>1, <1>2, <2>1, GivesUp
<1>4. CASE CanGo(status, "preparing")
  <2>1. /\ status' = "preparing"
        /\ model' = [model EXCEPT ![b] = row.effective]
        /\ step' = [step EXCEPT ![b] = "command"]
    BY <1>1, <1>4, StartFollows DEF Prepare, Proceeds, Goes
  <2>2. /\ step' \in [Broker -> {"idle"} \cup ToSet(CreationOrder)
                                         \cup ToSet(StartOrder)]
        /\ step'[b] = "command"
        /\ \A x \in Broker : x # b => step'[x] = step[x]
        /\ RowInv' /\ CreationInv'
    BY <1>1, <1>2, <2>1, StartKeeps
  <2>3. /\ model' \in [Broker -> {None, "m1", "m2"}]
        /\ model'[b] = row.effective
        /\ \A x \in Broker : x # b => model'[x] = model[x]
    BY <2>1 DEF IInv, TypeOK
  <2>4. TypeOK'
    BY <1>1, <2>1, <2>2, <2>3 DEF IInv, TypeOK
  <2>5. step[b] \in Recording /\ step'[b] \in Recording
    BY <1>1, <2>2 DEF Recording
  <2>6. ASSUME ~contended, ~early PROVE Recorded(b)'
    <3>1. Recorded(b) /\ model'[b] = model[b]
      BY <2>3, <2>5, <2>6 DEF IInv, RecordInv
    <3>2. /\ (ProfileMatches(Loads(b), model[b]))'
                = ProfileMatches(Loads(b), model[b])
          /\ (ModelSnapshot(b))' = ModelSnapshot(b)
          /\ (ToolsUsable(Loads(b)))' = ToolsUsable(Loads(b))
          /\ (Loads(b))' = Loads(b) /\ ToolsName' = ToolsName
      BY <1>1, <3>1, Still DEF Loads, ModelSnapshot
    <3>3. QED
      BY <1>1, <3>1, <3>2 DEF Recorded
  <2>7. /\ CapabilityInv' /\ ModelInv' /\ RecordInv'
        /\ ReadOnlyCannotWrite' /\ LaunchMeetsRequest'
        /\ RecordsTellTheLaunch'
    BY <1>1, <2>2, <2>3, <2>5, <2>6, InsideStep
  <2>8. QED
    BY <2>2, <2>4, <2>7 DEF IInv
<1>5. QED
  BY <1>3, <1>4

-----------------------------------------------------------------------------
(* The launch.                                                             *)

(* The tools of a command are those of a profile the adapter has checked.  *)
LEMMA CommandTools ==
    ASSUME IInv, NEW b \in Broker, ask.runtime = "claude_code",
           ToolsUsable(Loads(b))
    PROVE  LET p == Loads(b).tools[ToolsName]
           IN  /\ LocalRead \subseteq Usable(p)
               /\ Usable(p) \cap ExactTool = p.external
               /\ row.mode = "read_only" =>
                     Usable(p) \subseteq LocalRead \cup ExactTool
               /\ RemoteRead \in p.capabilities => p.external # {}
<1>1. conf[b] \in DOMAIN Config
  BY DEF IInv, TypeOK
<1>2. PICK E \in SUBSET ToolEntry : Loads(b).tools = ToolRegistry(E)
  BY <1>1, ConfigFacts DEF Loads
<1>3. ToolsName \in DOMAIN ToolRegistry(E)
  BY <1>2, BuiltinNames DEF ToolsName, DefaultTools, ToolsUsable
<1>4. row.mode = "read_only" =>
         \/ ToolsName = ReadOnlyTools
         \/ row.mode \in ToolRegistry(E)[ToolsName].modes
  BY <1>2 DEF ToolsName, DefaultTools, ToolsUsable
<1>5. QED
  BY <1>2, <1>3, <1>4, RegistryFacts

LEMMA LaunchStep ==
    ASSUME IInv, NEW b \in Broker, Launch(b)
    PROVE  IInv'
<1>1. /\ step[b] = "command" /\ step' = [step EXCEPT ![b] = "idle"]
      /\ UNCHANGED <<ask, conf, row, files, modelfile, toolfile, model,
                     contended, losses, early, calls>>
  BY DEF Launch, At, Goes
<1>2. step[b] \in StartStep /\ step[b] \in Recording
  BY <1>1 DEF StartStep, Recording
<1>3. CASE AdapterRefuses(b)
  <2>1. UNCHANGED <<status, argv>>
    BY <1>3 DEF Launch
  <2>2. QED
    BY <1>1, <1>2, <2>1, GivesUp
<1>4. CASE ~AdapterRefuses(b)
  <2> DEFINE p == Loads(b).tools[ToolsName]
  <2>1. argv' = Command(b) /\ status' \in {status, "running"}
    BY <1>4 DEF Launch
  <2>2. /\ step' \in [Broker -> {"idle"} \cup ToSet(CreationOrder)
                                         \cup ToSet(StartOrder)]
        /\ step'[b] = "idle" /\ \A x \in Broker : x # b => step'[x] = step[x]
        /\ RowInv' /\ CreationInv'
    BY <1>1, <1>2, <2>1, StartKeeps
  <2>3. TypeOK'
    BY <1>1, <2>1, <2>2 DEF IInv, TypeOK
  <2>4. \A x \in Broker : step'[x] # "idle" => x # b /\ step'[x] = step[x]
    BY <2>2
  <2>5. CapabilityInv'
    <3> SUFFICES ASSUME NEW x \in Broker, ~early,
                        step'[x] \in {"model"} \cup Recording
                 PROVE  ask.required \subseteq (Advertised(Loads(x)))'
      BY <1>1 DEF CapabilityInv
    <3>1. (Advertised(Loads(x)))' = Advertised(Loads(x))
      BY <1>1, AdvertisedStays
    <3>2. step[x] \in {"model"} \cup Recording
      BY <2>4 DEF Recording
    <3>3. QED
      BY <3>1, <3>2 DEF IInv, CapabilityInv
  <2>6. ModelInv'
    BY <1>1, <2>4 DEF IInv, ModelInv, Recording
  <2>7. RecordInv'
    <3> SUFFICES ASSUME ~contended PROVE RecordInv'
      BY <1>1 DEF RecordInv
    <3>1. \A x \in Broker : step'[x] \notin Recording
      BY <1>2, <2>2, <2>4 DEF IInv, RecordInv, Recording
    <3>2. \A x \in Broker : Recorded(x)'
      BY <3>1 DEF Recorded, Recording
    <3>3. QED
      BY <3>1, <3>2 DEF RecordInv
  <2>8. ask.runtime = "claude_code" =>
           /\ PermissionAllowed /\ ToolsUsable(Loads(b))
           /\ LocalRead \subseteq Usable(p)
           /\ Usable(p) \cap ExactTool = p.external
           /\ row.mode = "read_only" =>
                 Usable(p) \subseteq LocalRead \cup ExactTool
           /\ RemoteRead \in p.capabilities => p.external # {}
    BY <1>4, CommandTools DEF AdapterRefuses
  <2> HIDE DEF p
  <2>9. /\ argv'.conf = conf[b] /\ argv'.model = model[b]
        /\ argv'.sandbox = Sandbox
        /\ argv'.permission = IF ask.runtime = "claude_code"
                              THEN PermissionMode ELSE None
        /\ argv'.tools = IF ask.runtime = "claude_code" THEN Usable(p) ELSE {}
        /\ argv'.prefix = ("resolution" \in files)
        /\ argv'.contract = EffectiveSchema
    BY <2>1 DEF Command, Usable, p
  <2>10. ReadOnlyCannotWrite'
    <3> SUFFICES ASSUME row.mode = "read_only"
                 PROVE  /\ argv'.permission
                              \notin {"acceptEdits", "bypassPermissions"}
                        /\ argv'.tools \subseteq LocalRead \cup ExactTool
                        /\ argv'.sandbox \notin {"disabled", "workspace-write"}
      BY <1>1 DEF ReadOnlyCannotWrite
    <3>1. argv'.permission \notin {"acceptEdits", "bypassPermissions"}
      BY <2>8, <2>9, NoneAssumption
         DEF PermissionMode, PermissionAllowed, Overrides
    <3>2. argv'.tools \subseteq LocalRead \cup ExactTool
      BY <2>8, <2>9
    <3>3. argv'.sandbox \notin {"disabled", "workspace-write"}
      BY <2>9, NoneAssumption DEF Sandbox, CursorSandbox, CodexSandbox
    <3>4. QED
      BY <3>1, <3>2, <3>3
  <2>11. LaunchMeetsRequest'
    <3> SUFFICES ASSUME ~early PROVE LaunchMeetsRequest'
      BY <1>1 DEF LaunchMeetsRequest
    <3>1. Complete /\ status # "absent"
      BY <1>2 DEF IInv, CreationInv, RowInv, StartStep
    <3>2. /\ "request" \in files
          /\ ask.agent # None => "resolution" \in files
          /\ ask.verify => "verify" \in files
      BY <3>1 DEF Complete, Has
    <3>3. Asked("override") = ask.override
      BY <3>2 DEF Asked
    <3>4. /\ "mode" \in ask.given \/ ask.agent = None => row.mode = ask.mode
          /\ "schema" \in ask.given \/ ask.agent = None
                => row.schema = ask.schema
      BY <3>1 DEF IInv, RowInv
    <3>5. "schema" \in ask.given /\ ask.schema # None
             => argv'.contract = ask.schema
      BY <2>9, <3>4 DEF EffectiveSchema
    <3>6. ask.model # None => argv'.model = ask.model
      BY <1>2, <2>9 DEF IInv, ModelInv
    <3>7. ask.override # None /\ ask.runtime = "claude_code"
             => argv'.permission = ask.override
      BY <2>9, <3>3 DEF PermissionMode
    <3>8. ask.required \subseteq Advertised(Loads(b))
      BY <1>2 DEF IInv, CapabilityInv
    <3>9. ask.required # {} => /\ ask.runtime = "claude_code"
                               /\ ask.required \subseteq p.capabilities
      BY <3>8 DEF Advertised, p
    <3>10. /\ ask.required # {} => LocalRead \subseteq argv'.tools
           /\ RemoteRead \in ask.required => argv'.tools \cap ExactTool # {}
      BY <2>8, <2>9, <3>9
    <3>11. QED
      BY <1>1, <2>9, <3>2, <3>4, <3>5, <3>6, <3>7, <3>10
         DEF LaunchMeetsRequest
  <2>12. RecordsTellTheLaunch'
    <3> SUFFICES ASSUME ~early, ~contended PROVE RecordsTellTheLaunch'
      BY <1>1 DEF RecordsTellTheLaunch
    <3>1. /\ ProfileMatches(Loads(b), model[b])
          /\ modelfile = ModelSnapshot(b)
          /\ ask.runtime = "claude_code" => toolfile.count
                = Cardinality(p.external)
      BY <1>1, <2>8 DEF IInv, RecordInv, Recorded, p
    <3>2. row.effective = model[b]
      BY <1>2 DEF IInv, RecordInv
    <3>3. Asked("profile") = ask.profile
      BY <1>2 DEF IInv, CreationInv, Complete, Has, Asked
    <3>4. ask.profile # None =>
             /\ modelfile = [profile |-> ask.profile,
                             binding |-> Config[conf[b]].models[ask.profile]]
             /\ modelfile.binding.model \in {None, model[b]}
      BY <3>1, <3>3 DEF ModelSnapshot, ProfileMatches, Loads
    <3>5. QED
      BY <1>1, <2>8, <2>9, <3>1, <3>2, <3>4 DEF RecordsTellTheLaunch
  <2>13. QED
    BY <2>2, <2>3, <2>5, <2>6, <2>7, <2>10, <2>11, <2>12 DEF IInv
<1>5. QED
  BY <1>3, <1>4

-----------------------------------------------------------------------------
(* The theorems.                                                           *)

LEMMA InvInit == Init => IInv
<1> SUFFICES ASSUME Init PROVE IInv
  OBVIOUS
<1>1. /\ status = "absent" /\ row = NoRow /\ files = {} /\ argv = NoLaunch
      /\ \A b \in Broker : step[b] = "idle"
      /\ contended = FALSE /\ early = FALSE
  BY DEF Init
<1>2. TypeOK
  <2>1. ask \in Asks /\ conf \in [Broker -> DOMAIN Config]
    BY DEF Init
  <2>2. /\ row \in [mode : Mode \cup {None}, schema : Schema \cup {None},
                   effective : {None, "m1", "m2"}]
        /\ modelfile.profile \in {None, "p", "q"}
        /\ status \in {"absent", "created", "queued", "preparing", "running",
                       "rejected"}
        /\ files \subseteq Artifact
    BY DEF Init, NoRow, NoModel
  <2>3. /\ step \in [Broker -> {"idle"} \cup ToSet(CreationOrder)
                                        \cup ToSet(StartOrder)]
        /\ model \in [Broker -> {None, "m1", "m2"}]
    BY Steps DEF Init
  <2>4. calls \in 0..MaxStarts /\ losses \in 0..MaxLosses
    BY PreflightAssumption DEF Init
  <2>5. contended \in BOOLEAN /\ early \in BOOLEAN
    BY <1>1
  <2>6. QED
    BY <2>1, <2>2, <2>3, <2>4, <2>5 DEF TypeOK
<1>3. ~Launched
  BY <1>1 DEF Launched
<1>4. RowInv /\ CreationInv
  BY <1>1, <1>3 DEF RowInv, CreationInv, Queued, StartStep
<1>5. CapabilityInv /\ ModelInv /\ RecordInv
  BY <1>1 DEF CapabilityInv, ModelInv, RecordInv, Recorded, Recording
<1>6. ReadOnlyCannotWrite /\ LaunchMeetsRequest /\ RecordsTellTheLaunch
  BY <1>3 DEF ReadOnlyCannotWrite, LaunchMeetsRequest, RecordsTellTheLaunch
<1>7. QED
  BY <1>2, <1>4, <1>5, <1>6 DEF IInv

LEMMA InvNext == IInv /\ [Next]_vars => IInv'
<1> SUFFICES ASSUME IInv, [Next]_vars PROVE IInv'
  OBVIOUS
<1>1. CASE UNCHANGED vars
  <2>1. UNCHANGED <<ask, conf, status, row, files, modelfile, toolfile, argv,
                    step, model, contended, early, calls, losses>>
    BY <1>1 DEF vars, durable
  <2>2. TypeOK' /\ RowInv' /\ CreationInv' /\ ModelInv'
    BY <2>1 DEF IInv, TypeOK, RowInv, CreationInv, ModelInv, Launched, Queued,
                Complete, Has
  <2>3. CapabilityInv'
    BY <2>1, AdvertisedStays DEF IInv, CapabilityInv
  <2>4. \A x \in Broker : Recorded(x) => Recorded(x)'
    BY <2>1, RecordedStays
  <2>5. RecordInv'
    BY <2>1, <2>4 DEF IInv, RecordInv, Launched
  <2>6. ReadOnlyCannotWrite' /\ LaunchMeetsRequest' /\ RecordsTellTheLaunch'
    BY <2>1, LaunchStays DEF IInv
  <2>7. QED
    BY <2>2, <2>3, <2>5, <2>6 DEF IInv
<1>2. CASE Next
  <2>1. PICK b \in Broker :
          \/ InsertRow(b) \/ WriteArtifact(b) \/ Enqueue(b)
          \/ Start(b) \/ Passes(b) \/ Rejects(b) \/ ResolveModel(b)
          \/ RecordModelProfile(b) \/ RecordTools(b) \/ Prepare(b)
          \/ Launch(b) \/ Loss(b)
    BY <1>2 DEF Next
  <2>2. CASE InsertRow(b)
    BY <2>2, InsertRowStep
  <2>3. CASE WriteArtifact(b)
    BY <2>3, WriteArtifactStep
  <2>4. CASE Enqueue(b)
    BY <2>4, EnqueueStep
  <2>5. CASE Start(b)
    BY <2>5, CallStep
  <2>6. CASE Passes(b)
    BY <2>6, PassesStep
  <2>7. CASE Rejects(b)
    BY <2>7, RejectsStep
  <2>8. CASE ResolveModel(b)
    BY <2>8, ResolveModelStep
  <2>9. CASE RecordModelProfile(b)
    BY <2>9, RecordModelProfileStep
  <2>10. CASE RecordTools(b)
    BY <2>10, RecordToolsStep
  <2>11. CASE Prepare(b)
    BY <2>11, PrepareStep
  <2>12. CASE Launch(b)
    BY <2>12, LaunchStep
  <2>13. CASE Loss(b)
    BY <2>13, LossStep
  <2>14. QED
    BY <2>1, <2>2, <2>3, <2>4, <2>5, <2>6, <2>7, <2>8, <2>9, <2>10, <2>11,
       <2>12, <2>13
<1>3. QED
  BY <1>1, <1>2

LEMMA Invariant == Spec => []IInv
<1>1. Init => IInv
  BY InvInit
<1>2. IInv /\ [Next]_vars => IInv'
  BY InvNext
<1>3. QED
  BY <1>1, <1>2, PTL DEF Spec

(* A task that states required capabilities has passed the check with the  *)
(* configuration it launches with, and the check looks at all the adapter  *)
(* does.                                                                   *)
LEMMA InvRefusedEarly == IInv => RefusedEarly
<1> SUFFICES ASSUME IInv, NEW b \in Broker, step[b] = "command",
                    ask.required # {}, ~early
             PROVE  ~AdapterRefuses(b)
  BY DEF RefusedEarly, At
<1>1. ask.required \subseteq Advertised(Loads(b))
  BY DEF IInv, CapabilityInv, Recording
<1>2. PermissionAllowed /\ ToolsUsable(Loads(b))
  BY <1>1 DEF Advertised
<1>3. QED
  BY <1>2 DEF AdapterRefuses

(* The variables stay within their types, whatever is asked and configured.*)
THEOREM TypeCorrect == Spec => []TypeOK
<1>1. IInv => TypeOK
  BY DEF IInv
<1>2. QED
  BY <1>1, Invariant, PTL

(* However a request, a tool profile, a permission override and the        *)
(* configurations of the brokers that create and start a task combine, a   *)
(* read-only launch has neither an editing tool nor a shell.               *)
THEOREM ReadOnlySafe == Spec => []ReadOnlyCannotWrite
<1>1. IInv => ReadOnlyCannotWrite
  BY DEF IInv
<1>2. QED
  BY <1>1, Invariant, PTL

(* With brokers lost between any two steps of create() and start(), and    *)
(* coming back with other configurations, what is launched is what was     *)
(* asked for, the artifacts beside it describe it, and required            *)
(* capabilities are refused before the task is prepared.                   *)
THEOREM LaunchSafe == Spec => []LaunchIsAsAsked
<1>1. IInv => LaunchIsAsAsked
  BY InvRefusedEarly DEF IInv, LaunchIsAsAsked
<1>2. QED
  BY <1>1, Invariant, PTL

-----------------------------------------------------------------------------
(* The configuration files.                                                *)

Writing == {"backup", "temp", "rename"}
Engaged(p) == pc[p] \notin {"idle", "done", "lost"}

(* A command that goes on to write has decided to, on what it has read;    *)
(* what it writes can be read, unless it misfits the file's format.        *)
Decided(p) ==
    /\ cmd[p].do \in {"init", "config_init", "add", "install"}
    /\ wants[p] \in Files!Content \ {Files!Partial}
    /\ wants[p].kind = "file" \/ Files!Misfit(p)
    /\ Files!Starts(p) => read[p] = Files!Absent \/ cmd[p].force
    /\ cmd[p].do = "add" =>
          /\ read[p].names \ {"profiles"} \subseteq wants[p].names
          /\ cmd[p].name \in read[p].names => cmd[p].force
    /\ cmd[p].do = "install" =>
          /\ read[p].names \subseteq wants[p].names \/ Files!Misfit(p)
          /\ "theirs" \notin read[p].names
          /\ file = "host.json" => "twin" \notin read[p].names
          /\ pc[p] # "backup" => read[p] = Files!Absent \/ read[p] \in backups

DecisionInv ==
    \A p \in Proc :
        /\ pc[p] \in Writing => Decided(p)
        /\ pc[p] \in {"idle"} \cup Writing => p \notin replaced

(* Alone, one command is at work at a time, and the file is what it has    *)
(* read until it replaces it.                                              *)
AloneInv ==
    alone =>
        /\ \A p, q \in Proc : Engaged(p) /\ Engaged(q) => p = q
        /\ \A p \in Proc : pc[p] \in Writing => read[p] = content

FilesInv == Files!TypeOK /\ DecisionInv /\ AloneInv

USE DEF Files!vars, Files!disk, Files!command

(* What the contents of a file are told apart by.                          *)
LEMMA FileFacts ==
    /\ \A S \in SUBSET Files!Name, w \in Files!Spelling :
          /\ Files!File(S, w) \in Files!Content \ {Files!Partial}
          /\ Files!File(S, w).kind = "file" /\ Files!File(S, w).names = S
    /\ Files!Absent \in Files!Content \ {Files!Partial}
    /\ Files!Invalid \in Files!Content \ {Files!Partial}
    /\ Files!Absent.names = {} /\ Files!Invalid.names = {}
    /\ \A c \in Files!Content : c.names \in SUBSET Files!Name
<1>1. \A S \in SUBSET Files!Name, w \in Files!Spelling :
          /\ Files!File(S, w) \in Files!Content
          /\ Files!File(S, w) # Files!Partial
          /\ Files!File(S, w).kind = "file" /\ Files!File(S, w).names = S
  <2> SUFFICES ASSUME NEW S \in SUBSET Files!Name, NEW w \in Files!Spelling
               PROVE  /\ Files!File(S, w) \in Files!Content
                      /\ Files!File(S, w) # Files!Partial
                      /\ Files!File(S, w).kind = "file"
                      /\ Files!File(S, w).names = S
    OBVIOUS
  <2>1. Files!File(S, w) \in Files!Content
    BY DEF Files!Content
  <2>2. /\ Files!File(S, w).kind = "file" /\ Files!File(S, w).names = S
        /\ Files!Partial.kind = "partial"
    BY DEF Files!File, Files!Partial, Files!NoNames
  <2>3. QED
    BY <2>1, <2>2
<1>2. /\ Files!Absent # Files!Partial /\ Files!Invalid # Files!Partial
      /\ Files!Absent.names = {} /\ Files!Invalid.names = {}
  BY DEF Files!Absent, Files!Invalid, Files!Partial, Files!NoNames
<1>3. Files!Absent \in Files!Content /\ Files!Invalid \in Files!Content
  BY DEF Files!Content
<1>4. ASSUME NEW c \in Files!Content
      PROVE  c.names \in SUBSET Files!Name
  <2>1. CASE c \in {Files!Absent, Files!Invalid, Files!Partial}
    BY <2>1 DEF Files!Absent, Files!Invalid, Files!Partial, Files!NoNames
  <2>2. CASE c \in {Files!File(S, w) : S \in SUBSET Files!Name,
                                     w \in Files!Spelling}
    BY <2>2 DEF Files!File
  <2>3. QED
    BY <2>1, <2>2 DEF Files!Content
<1>5. QED
  BY <1>1, <1>2, <1>3, <1>4

(* A command as it begins: it has read the file, and what it goes on to    *)
(* write it has decided on what it read.                                   *)
LEMMA FilesRead ==
    ASSUME FilesInv, NEW p \in Proc,
           NEW to \in {"backup", "temp", "verify", "done"},
           NEW what \in Files!Answer, NEW w \in Files!Content,
           pc[p] = "idle", alone => Files!Busy = {}, Files!Reads(p),
           pc' = [pc EXCEPT ![p] = to],
           answer' = [answer EXCEPT ![p] = what],
           wants' = [wants EXCEPT ![p] = w],
           to \in Writing => Decided(p)'
    PROVE  FilesInv'
<1> USE DEF FilesInv, Files!Reads
<1>1. Files!TypeOK'
  BY DEF Files!TypeOK
<1>2. DecisionInv'
  <2>1. ASSUME NEW q \in Proc, q # p
        PROVE  /\ pc'[q] \in Writing => Decided(q)'
               /\ pc'[q] \in {"idle"} \cup Writing => q \notin replaced'
    BY <2>1 DEF DecisionInv, Decided, Files!Starts, Files!Misfit, Files!TypeOK
  <2>2. pc'[p] = to /\ p \notin replaced'
    BY DEF DecisionInv, Files!TypeOK
  <2>3. QED
    BY <2>1, <2>2 DEF DecisionInv
<1>3. AloneInv'
  BY DEF AloneInv, Engaged, Writing, Files!TypeOK, Files!Busy
<1>4. QED
  BY <1>1, <1>2, <1>3

(* init and config init.                                                   *)
LEMMA FilesInitialized ==
    ASSUME FilesInv, NEW p \in Proc, Files!InitHome(p) \/ Files!ConfigInit(p)
    PROVE  FilesInv'
<1>1. /\ pc[p] = "idle" /\ (alone => Files!Busy = {}) /\ Files!Reads(p)
      /\ cmd[p].do \in {"init", "config_init"}
  BY DEF Files!InitHome, Files!ConfigInit, Files!Begins
<1>2. wants[p] \in Files!Content /\ answer[p] \in Files!Answer
      /\ wants = [wants EXCEPT ![p] = wants[p]]
      /\ answer = [answer EXCEPT ![p] = answer[p]]
  BY DEF FilesInv, Files!TypeOK
<1>3. ASSUME NEW what \in Files!Answer, Files!Ends(p, what)
      PROVE  FilesInv'
  BY <1>1, <1>2, <1>3, FilesRead
     DEF Files!Ends, Files!Goto, Files!Says, Writing
<1>4. ASSUME content = Files!Absent \/ cmd[p].force,
             Files!Writes(p, "temp", Files!StarterText)
      PROVE  FilesInv'
  <2>1. /\ Files!StarterText \in Files!Content \ {Files!Partial}
        /\ Files!StarterText.kind = "file" \/ file = "config.json"
    <3>1. {"local"} \in SUBSET Files!Name /\ "rendered" \in Files!Spelling
      BY DEF Files!Name, Files!Spelling
    <3>2. QED
      BY <3>1, FileFacts DEF Files!Starter, Files!StarterText
  <2>2. /\ wants'[p] = Files!StarterText /\ read'[p] = content
        /\ UNCHANGED <<cmd, file>>
    BY <1>1, <1>4 DEF Files!Writes, Files!Reads, FilesInv, Files!TypeOK
  <2>3. Decided(p)'
    BY <1>1, <1>4, <2>1, <2>2 DEF Decided, Files!Starts, Files!Misfit
  <2>4. QED
    BY <1>1, <1>2, <1>4, <2>1, <2>3, FilesRead DEF Files!Writes, Files!Goto
<1>5. {"preserved", "elsewhere", "refused"} \subseteq Files!Answer
  BY DEF Files!Answer
<1>6. QED
  BY <1>3, <1>4, <1>5 DEF Files!InitHome, Files!ConfigInit

LEMMA FilesAdded ==
    ASSUME FilesInv, NEW p \in Proc, Files!ProviderAdd(p)
    PROVE  FilesInv'
<1>1. /\ pc[p] = "idle" /\ (alone => Files!Busy = {}) /\ Files!Reads(p)
      /\ cmd[p].do = "add"
  BY DEF Files!ProviderAdd, Files!Begins
<1>2. /\ wants[p] \in Files!Content /\ answer[p] \in Files!Answer
      /\ wants = [wants EXCEPT ![p] = wants[p]]
      /\ answer = [answer EXCEPT ![p] = answer[p]]
      /\ content \in Files!Content
  BY DEF FilesInv, Files!TypeOK
<1>3. CASE ~Files!MayAdd(p)
  <2>1. Files!Ends(p, "refused") /\ "refused" \in Files!Answer
    BY <1>3 DEF Files!ProviderAdd, Files!Answer
  <2>2. QED
    BY <1>1, <1>2, <2>1, FilesRead
       DEF Files!Ends, Files!Goto, Files!Says, Writing
<1>4. CASE Files!MayAdd(p)
  <2>1. Files!Writes(p, "temp", Files!Merged(p))
    BY <1>4 DEF Files!ProviderAdd
  <2> DEFINE names == (content.names \ {"profiles"}) \cup {cmd[p].name}
  <2>2. Files!Merged(p) = Files!File(names, "rendered")
    BY <1>4 DEF Files!MayAdd, Files!Merged
  <2>3. names \in SUBSET Files!Name /\ "rendered" \in Files!Spelling
    <3>1. cmd[p].name \in Files!Name
      BY CommandsAssumption DEF FilesInv, Files!TypeOK, Files!Command
    <3>2. content.names \in SUBSET Files!Name
      BY <1>2, FileFacts
    <3>3. QED
      BY <3>1, <3>2 DEF Files!Spelling
  <2>4. /\ Files!Merged(p) \in Files!Content \ {Files!Partial}
        /\ Files!Merged(p).kind = "file" /\ Files!Merged(p).names = names
    BY <2>2, <2>3, FileFacts
  <2>5. Decided(p)'
    <3>1. /\ wants'[p] = Files!Merged(p) /\ read'[p] = content
          /\ UNCHANGED cmd
      BY <1>1, <2>1 DEF Files!Writes, Files!Reads, FilesInv, Files!TypeOK
    <3>2. cmd[p].name \notin content.names \/ cmd[p].force
      BY <1>4 DEF Files!MayAdd
    <3>3. QED
      BY <1>1, <2>4, <3>1, <3>2 DEF Decided, Files!Starts
  <2>6. QED
    BY <1>1, <1>2, <2>1, <2>4, <2>5, FilesRead DEF Files!Writes, Files!Goto
<1>5. QED
  BY <1>3, <1>4

LEMMA FilesTested ==
    ASSUME FilesInv, NEW p \in Proc, Files!ProviderTest(p)
    PROVE  FilesInv'
<1>1. pc[p] = "idle" /\ (alone => Files!Busy = {}) /\ Files!Reads(p)
  BY DEF Files!ProviderTest, Files!Begins
<1>2. /\ wants[p] \in Files!Content
      /\ wants = [wants EXCEPT ![p] = wants[p]]
  BY DEF FilesInv, Files!TypeOK
<1>3. \E what \in Files!Answer : Files!Ends(p, what)
  BY DEF Files!ProviderTest, Files!Ends, Files!Answer
<1>4. QED
  BY <1>1, <1>2, <1>3, FilesRead
     DEF Files!Ends, Files!Goto, Files!Says, Writing

LEMMA FilesInstalled ==
    ASSUME FilesInv, NEW p \in Proc, Files!Install(p)
    PROVE  FilesInv'
<1> DEFINE ours == content.names \cup {"ours"}
<1>1. /\ pc[p] = "idle" /\ (alone => Files!Busy = {}) /\ Files!Reads(p)
      /\ cmd[p].do = "install"
  BY DEF Files!Install, Files!Begins
<1>2. /\ wants[p] \in Files!Content /\ answer[p] \in Files!Answer
      /\ wants = [wants EXCEPT ![p] = wants[p]]
      /\ answer = [answer EXCEPT ![p] = answer[p]]
      /\ content \in Files!Content
  BY DEF FilesInv, Files!TypeOK
<1>3. CASE Files!Ends(p, "refused")
  <2>1. "refused" \in Files!Answer
    BY DEF Files!Answer
  <2>2. QED
    BY <1>1, <1>2, <1>3, <2>1, FilesRead
       DEF Files!Ends, Files!Goto, Files!Says, Writing
<1>4. CASE Files!Goto(p, "verify") /\ Files!Says(p, "unchanged")
                                   /\ UNCHANGED wants
  <2>1. "unchanged" \in Files!Answer
    BY DEF Files!Answer
  <2>2. QED
    BY <1>1, <1>2, <1>4, <2>1, FilesRead DEF Files!Goto, Files!Says, Writing
<1>5. ASSUME NEW to \in {"temp", "backup"}, ~Files!Conflicts,
             to = IF content = Files!Absent THEN "temp" ELSE "backup",
             Files!Writes(p, to, Files!Registered)
      PROVE  FilesInv'
  <2>1. ours \in SUBSET Files!Name /\ "rendered" \in Files!Spelling
    <3>1. content.names \in SUBSET Files!Name
      BY <1>2, FileFacts
    <3>2. QED
      BY <3>1 DEF Files!Name, Files!Spelling
  <2>2. /\ Files!Registered \in Files!Content \ {Files!Partial}
        /\ \/ content.spelt = "inline"
           \/ /\ Files!Registered.kind = "file"
              /\ Files!Registered.names = ours
    BY <2>1, FileFacts DEF Files!Registered
  <2>3. /\ "theirs" \notin content.names
        /\ file = "host.json" => "twin" \notin content.names
        /\ content.names \subseteq ours
    BY <1>5 DEF Files!Conflicts
  <2> HIDE DEF ours
  <2>4. Decided(p)'
    <3>1. /\ wants'[p] = Files!Registered /\ read'[p] = content
          /\ pc'[p] = to /\ UNCHANGED <<cmd, file>>
      BY <1>1, <1>5
         DEF Files!Writes, Files!Goto, Files!Reads, FilesInv, Files!TypeOK
    <3>2. QED
      BY <1>1, <1>5, <2>2, <2>3, <3>1 DEF Decided, Files!Starts, Files!Misfit
  <2>5. QED
    BY <1>1, <1>2, <1>5, <2>2, <2>4, FilesRead DEF Files!Writes, Files!Goto
<1>6. QED
  BY <1>3, <1>4, <1>5 DEF Files!Install

(* The temporary file, the backup and what ends without a change.          *)
LEMMA FilesPrepared ==
    ASSUME FilesInv, NEW p \in Proc,
           \/ Files!Backup(p) \/ Files!Temp(p) \/ Files!TempFails(p)
           \/ Files!Verify(p) \/ Files!Lost(p)
    PROVE  FilesInv'
<1>0. /\ UNCHANGED <<file, alone, cmd, content, read, wants, replaced, edits>>
      /\ \E to \in {"temp", "rename", "done", "lost"} :
            /\ pc' = [pc EXCEPT ![p] = to]
            /\ to \in Writing => pc[p] \in Writing
      /\ Engaged(p)
  BY DEF Files!Backup, Files!Temp, Files!TempFails, Files!Verify, Files!Lost,
     Files!Goto, Files!Busy, Engaged, Writing
<1>1. Files!TypeOK'
  <2>1. /\ temps' \in SUBSET Proc /\ answer' \in [Proc -> Files!Answer]
    BY DEF Files!Backup, Files!Temp, Files!TempFails, Files!Verify,
       Files!Lost, Files!Says, Files!Answer, FilesInv, Files!TypeOK
  <2>2. backups' \subseteq Files!Content
    BY DEF Files!Backup, Files!BackupText, Files!Temp, Files!TempFails,
       Files!Verify, Files!Lost, FilesInv, Files!TypeOK
  <2>3. pc' \in [Proc -> {"idle", "backup", "temp", "rename", "verify",
                          "done", "lost"}]
    BY <1>0 DEF FilesInv, Files!TypeOK
  <2>4. QED
    BY <1>0, <2>1, <2>2, <2>3 DEF FilesInv, Files!TypeOK
<1>2. DecisionInv'
  <2>1. backups \subseteq backups'
    BY DEF Files!Backup, Files!Temp, Files!TempFails, Files!Verify, Files!Lost
  <2>2. pc[p] = "backup" /\ pc'[p] \in Writing => read[p] \in backups'
    BY DEF Files!Backup, Files!BackupText, Files!Temp, Files!TempFails,
       Files!Verify, Files!Lost, Files!Goto, FilesInv, Files!TypeOK, Writing
  <2>3. \A q \in Proc : q # p => pc'[q] = pc[q]
    BY <1>0 DEF FilesInv, Files!TypeOK
  <2>4. /\ pc'[p] \in Writing => pc[p] \in Writing
        /\ pc'[p] \notin {"idle", "backup"}
    BY <1>0 DEF FilesInv, Files!TypeOK
  <2>5. ASSUME NEW q \in Proc, pc'[q] \in Writing
        PROVE  Decided(q)'
    <3>1. Decided(q)
      BY <2>3, <2>4, <2>5 DEF FilesInv, DecisionInv
    <3>2. QED
      BY <1>0, <2>1, <2>2, <2>3, <2>4, <2>5, <3>1
         DEF Decided, Files!Starts, Files!Misfit
  <2>6. QED
    BY <1>0, <2>3, <2>4, <2>5 DEF FilesInv, DecisionInv, Writing
<1>3. AloneInv'
  BY <1>0 DEF FilesInv, AloneInv, Engaged, Writing, Files!TypeOK
<1>4. QED
  BY <1>1, <1>2, <1>3 DEF FilesInv

LEMMA FilesRenamed ==
    ASSUME FilesInv, NEW p \in Proc, Files!Rename(p)
    PROVE  FilesInv'
<1>1. /\ pc[p] = "rename" /\ content' = wants[p]
      /\ replaced' = replaced \cup {p}
      /\ \E to \in {"verify", "done"} : pc' = [pc EXCEPT ![p] = to]
      /\ UNCHANGED <<file, alone, cmd, read, wants, backups, edits>>
  BY DEF Files!Rename, Files!Goto
<1>2. Decided(p)
  BY <1>1 DEF FilesInv, DecisionInv, Writing
<1>3. Files!TypeOK'
  <2>1. wants[p] \in Files!Content \ {Files!Partial}
    BY <1>2, FileFacts DEF Decided, FilesInv, Files!TypeOK
  <2>2. /\ temps' \subseteq Proc /\ answer' \in [Proc -> Files!Answer]
    BY DEF Files!Rename, Files!Says, Files!Answer, FilesInv, Files!TypeOK
  <2>3. QED
    BY <1>1, <2>1, <2>2 DEF FilesInv, Files!TypeOK
<1>4. DecisionInv'
  BY <1>1 DEF FilesInv, DecisionInv, Decided, Writing, Files!TypeOK,
              Files!Starts, Files!Misfit
<1>5. AloneInv'
  BY <1>1 DEF FilesInv, AloneInv, Engaged, Writing, Files!TypeOK
<1>6. QED
  BY <1>3, <1>4, <1>5 DEF FilesInv

LEMMA FilesEdited ==
    ASSUME FilesInv, Files!Edit
    PROVE  FilesInv'
<1>1. /\ UNCHANGED <<file, alone, cmd, temps, backups, pc, read, wants,
                     replaced, answer>>
      /\ alone => Files!Busy = {}
  BY DEF Files!Edit
<1>2. Files!TypeOK'
  <2>1. content' \in Files!Content \ {Files!Partial}
    <3>1. /\ content.names \cup {"user"} \in SUBSET Files!Name
          /\ content.names \cup {"user", "profiles"} \in SUBSET Files!Name
          /\ content.names \ {"ours"} \in SUBSET Files!Name
      BY FileFacts DEF FilesInv, Files!TypeOK, Files!Name
    <3>2. "rendered" \in Files!Spelling /\ Files!Spellings \subseteq Files!Spelling
      BY DEF Files!Spelling, Files!Spellings
    <3>3. QED
      BY <3>1, <3>2, FileFacts DEF Files!Edit
  <2>2. edits' \in 0..MaxEdits
    BY CommandsAssumption DEF Files!Edit, FilesInv, Files!TypeOK
  <2>3. QED
    BY <1>1, <2>1, <2>2 DEF FilesInv, Files!TypeOK
<1>3. DecisionInv'
  BY <1>1 DEF FilesInv, DecisionInv, Decided, Files!Starts, Files!Misfit
<1>4. AloneInv'
  BY <1>1 DEF FilesInv, AloneInv, Engaged, Writing, Files!Busy
<1>5. QED
  BY <1>2, <1>3, <1>4 DEF FilesInv

LEMMA FilesInitInv == Files!Init => FilesInv
<1> SUFFICES ASSUME Files!Init
             PROVE  FilesInv
  OBVIOUS
<1>1. Files!TypeOK
  <2>1. content \in Files!Content \ {Files!Partial}
    <3>1. \A n \in Files!Name : {n} \in SUBSET Files!Name
      OBVIOUS
    <3>2. /\ {"local", "user", "ours", "theirs", "twin"} \subseteq Files!Name
          /\ {"other", "profiles"} \in SUBSET Files!Name
          /\ {"ours", "user"} \in SUBSET Files!Name
      BY DEF Files!Name
    <3>3. "rendered" \in Files!Spelling /\ Files!Spellings \subseteq Files!Spelling
      BY DEF Files!Spelling, Files!Spellings
    <3>4. QED
      BY <3>1, <3>2, <3>3, FileFacts DEF Files!Init, Files!Found, Files!Starter
  <2>2. QED
    BY <2>1, FileFacts, CommandsAssumption
       DEF Files!Init, Files!TypeOK, Files!Answer
<1>2. DecisionInv /\ AloneInv
  BY DEF Files!Init, DecisionInv, AloneInv, Engaged, Writing
<1>3. QED
  BY <1>1, <1>2 DEF FilesInv

LEMMA FilesStep == FilesInv /\ [Files!Next]_(Files!vars) => FilesInv'
<1> SUFFICES ASSUME FilesInv, [Files!Next]_(Files!vars)
             PROVE  FilesInv'
  OBVIOUS
<1>1. CASE UNCHANGED Files!vars
  BY <1>1 DEF FilesInv, DecisionInv, AloneInv, Decided, Engaged, Files!TypeOK,
     Files!Starts, Files!Misfit
<1>2. CASE Files!Next
  BY <1>2, FilesInitialized, FilesAdded, FilesTested, FilesInstalled,
     FilesPrepared, FilesRenamed, FilesEdited DEF Files!Next, Files!Runs
<1>3. QED
  BY <1>1, <1>2

HIDE DEF Files!vars, Files!disk, Files!command

(* The file changes when a command renames over it or an editor writes it. *)
LEMMA FilesChange ==
    ASSUME FilesInv, [Files!Next]_(Files!vars)
    PROVE  \/ \E p \in Proc : Files!Rename(p)
           \/ UNCHANGED <<content, replaced>>
           \/ edits' # edits /\ UNCHANGED replaced
<1>1. CASE Files!Edit
  BY <1>1, CommandsAssumption
     DEF Files!Edit, Files!command, FilesInv, Files!TypeOK
<1>2. CASE UNCHANGED Files!vars
  BY <1>2 DEF Files!vars, Files!disk, Files!command
<1>3. ASSUME NEW p \in Proc, Files!Runs(p) \/ Files!Lost(p), ~Files!Rename(p)
      PROVE  UNCHANGED <<content, replaced>>
  BY <1>3 DEF Files!Runs, Files!Lost, Files!InitHome, Files!ConfigInit,
     Files!ProviderAdd, Files!ProviderTest, Files!Install, Files!Backup,
     Files!Temp, Files!TempFails, Files!Verify, Files!Reads, Files!disk
<1>4. QED
  BY <1>1, <1>2, <1>3 DEF Files!Next

(* What a command that renames over the file has made sure of.             *)
LEMMA FilesReplaced ==
    ASSUME FilesInv, NEW p \in Proc, Files!Rename(p)
    PROVE  /\ content' = wants[p] /\ Decided(p) /\ pc[p] = "rename"
           /\ replaced' \ replaced = {p}
           /\ alone => read[p] = content
BY DEF FilesInv, DecisionInv, AloneInv, Writing, Files!Rename

LEMMA FilesKeep ==
    ASSUME FilesInv, [Files!Next]_(Files!vars)
    PROVE  /\ edits' = edits /\ content.kind = "file" =>
                 \/ content'.kind = "file"
                 \/ \E p \in replaced' \ replaced : Files!Misfit(p)
           /\ alone /\ edits' = edits /\ content' # content =>
                 \/ content.names \subseteq content'.names
                 \/ \E p \in replaced' \ replaced :
                       \/ /\ cmd[p].do = "add"
                          /\ content.names \ {"profiles"}
                                \subseteq content'.names
                       \/ Files!Starts(p) /\ cmd[p].force
                       \/ cmd[p].do = "install" /\ Files!Misfit(p)
           /\ \A p \in replaced' \ replaced :
                 alone /\ cmd[p].do = "add" /\ cmd[p].name \in content.names
                     => cmd[p].force
           /\ \A p \in replaced' \ replaced :
                 alone /\ cmd[p].do = "install" =>
                     /\ content = Files!Absent \/ content \in backups
                     /\ "theirs" \notin content.names
                     /\ file = "host.json" => "twin" \notin content.names
<1>1. CASE UNCHANGED <<content, replaced>>
  BY <1>1
<1>2. CASE edits' # edits /\ UNCHANGED replaced
  BY <1>2
<1>3. ASSUME NEW p \in Proc, Files!Rename(p)
      PROVE  /\ content'.kind = "file" \/ Files!Misfit(p)
             /\ replaced' \ replaced = {p}
             /\ alone =>
                  \/ content.names \subseteq content'.names
                  \/ /\ cmd[p].do = "add"
                     /\ content.names \ {"profiles"} \subseteq content'.names
                  \/ Files!Starts(p) /\ cmd[p].force
                  \/ cmd[p].do = "install" /\ Files!Misfit(p)
             /\ alone /\ cmd[p].do = "add" /\ cmd[p].name \in content.names
                  => cmd[p].force
             /\ alone /\ cmd[p].do = "install" =>
                  /\ content = Files!Absent \/ content \in backups
                  /\ "theirs" \notin content.names
                  /\ file = "host.json" => "twin" \notin content.names
  BY <1>3, FilesReplaced, FileFacts DEF Decided, Files!Starts
<1>4. QED
  BY <1>1, <1>2, <1>3, FilesChange

-----------------------------------------------------------------------------
(* The two parts of MCConfigFiles.                                         *)

LEMMA FilesPart == MCSpec => Files!Spec
<1>1. MCInit => Files!Init
  BY DEF MCInit
<1>2. [MCNext]_all => [Files!Next]_(Files!vars)
  BY DEF MCNext, all, filevars, Files!vars, Files!disk, Files!command
<1>3. QED
  BY <1>1, <1>2, PTL DEF MCSpec, Files!Spec

LEMMA PreflightPart == MCSpec => Spec
<1>1. MCInit => Init
  BY DEF MCInit
<1>2. [MCNext]_all => [Next]_vars
  BY DEF MCNext, all
<1>3. QED
  BY <1>1, <1>2, PTL DEF MCSpec, Spec

LEMMA FilesInvariant == Files!Spec => []FilesInv
<1>1. QED
  BY FilesInitInv, FilesStep, PTL DEF Files!Spec

(* Every variable of the two parts keeps its type.                         *)
THEOREM ConfigTyped == MCSpec => []ConfigTypeOK
<1>1. FilesInv => Files!TypeOK
  BY DEF FilesInv
<1>2. Files!TypeOK /\ TypeOK => ConfigTypeOK
  BY DEF ConfigTypeOK
<1>3. QED
  BY <1>1, <1>2, FilesPart, PreflightPart, FilesInvariant, TypeCorrect, PTL

(* write_atomic_text() and the commands that call it: a file that could be *)
(* read stays one whatever races or is lost, but for a text that misfits   *)
(* its format; and alone, no entry is dropped or rewritten unasked (other  *)
(* top-level keys are, by provider add), and what mcp install replaces is  *)
(* backed up.                                                              *)
THEOREM FilesSafe == MCSpec => FilesAreKept
<1> DEFINE Readable ==
               edits' = edits /\ content.kind = "file" =>
                   \/ content'.kind = "file"
                   \/ \E p \in replaced' \ replaced : Files!Misfit(p)
           Entries ==
               alone /\ edits' = edits /\ content' # content =>
                   \/ content.names \subseteq content'.names
                   \/ \E p \in replaced' \ replaced :
                         \/ /\ cmd[p].do = "add"
                            /\ content.names \ {"profiles"}
                                  \subseteq content'.names
                         \/ Files!Starts(p) /\ cmd[p].force
                         \/ cmd[p].do = "install" /\ Files!Misfit(p)
           AsAsked ==
               \A p \in replaced' \ replaced :
                   alone /\ cmd[p].do = "add"
                         /\ cmd[p].name \in content.names => cmd[p].force
           Backed ==
               \A p \in replaced' \ replaced :
                   alone /\ cmd[p].do = "install" =>
                       /\ content = Files!Absent \/ content \in backups
                       /\ "theirs" \notin content.names
                       /\ file = "host.json" => "twin" \notin content.names
<1>1. FilesInv /\ [Files!Next]_(Files!vars) =>
          Readable /\ Entries /\ AsAsked /\ Backed
  BY FilesKeep
<1> HIDE DEF Readable, Entries, AsAsked, Backed
<1>2. Files!Spec => [][Readable]_(Files!vars) /\ [][Entries]_(Files!vars)
                    /\ [][AsAsked]_(Files!vars) /\ [][Backed]_(Files!vars)
  BY <1>1, FilesInvariant, PTL DEF Files!Spec
<1>3. [][Readable]_(Files!vars) => Files!CommandsKeepItReadable
  BY DEF Files!CommandsKeepItReadable, Readable
<1>4. [][Entries]_(Files!vars) => Files!NoEntryIsLost
  BY DEF Files!NoEntryIsLost, Entries
<1>5. [][AsAsked]_(Files!vars) => Files!NoEntryIsOverwritten
  BY DEF Files!NoEntryIsOverwritten, AsAsked
<1>6. [][Backed]_(Files!vars) => Files!ReplacedIsBackedUp
  BY DEF Files!ReplacedIsBackedUp, Backed
<1>7. QED
  BY <1>2, <1>3, <1>4, <1>5, <1>6, FilesPart, PTL
     DEF FilesAreKept, Files!FilesAreKept
=============================================================================
