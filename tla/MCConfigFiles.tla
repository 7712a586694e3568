--------------------------- MODULE MCConfigFiles ---------------------------
(* The configuration files as commands rewrite them, or tasks as the       *)
(* loaded configuration lets them start: parts that share nothing, checked *)
(* in one run.                                                             *)
EXTENDS Preflight, TLC

CONSTANTS Proc, Commands, MaxEdits

VARIABLES kind, file, alone, cmd, pc, content, read, wants, temps, backups,
          replaced, answer, edits

Files == INSTANCE ConfigFiles

ASSUME CommandsAssumption ==
    Commands \subseteq Files!Command /\ MaxEdits \in Nat

filevars == <<file, alone, cmd, pc, content, read, wants, temps, backups,
              replaced, answer, edits>>
all == <<kind, vars, filevars>>

(* The part that does not move keeps one initial state.                    *)
MCInit ==
    /\ \/ /\ kind = "files"
          /\ ask = CHOOSE a \in Asks : TRUE
          /\ conf = [b \in Broker |-> 1]
       \/ /\ kind = "preflight"
          /\ alone = TRUE /\ content = Files!Absent /\ file = "host.json"
          /\ cmd = [p \in Proc |-> CHOOSE c \in Commands : c.do = "install"]
    /\ Init /\ Files!Init

MCNext ==
    \/ kind = "preflight" /\ Next /\ UNCHANGED <<kind, filevars>>
    \/ kind = "files" /\ Files!Next /\ UNCHANGED <<kind, vars>>

MCSpec == MCInit /\ [][MCNext]_all

(* Requests, rows, artifacts and files keep their types.                   *)
ConfigTypeOK == IF kind = "files" THEN Files!TypeOK ELSE TypeOK

(* ConfigFiles: what was in a file is kept.                                *)
FilesAreKept == Files!FilesAreKept

-----------------------------------------------------------------------------
Cmd(do, name, force, sound) ==
    [do |-> do, name |-> name, force |-> force, sound |-> sound,
     live |-> FALSE, billed |-> FALSE, credential |-> FALSE]

MCCommands ==
    {Cmd(do, "local", f, TRUE) : do \in {"init", "config_init"}, f \in BOOLEAN}
    \cup {Cmd("add", n, f, s) : n \in {"local", "other"}, f \in BOOLEAN,
                                s \in BOOLEAN}
    \cup {Cmd("install", "ours", FALSE, TRUE)}
    \cup [do : {"test"}, name : {"local"}, force : {FALSE}, sound : {TRUE},
          live : BOOLEAN, billed : BOOLEAN, credential : BOOLEAN]

Plain ==
    [runtime |-> "claude_code", given |-> {}, mode |-> "read_only",
     timeout |-> 2, schema |-> None, agent |-> None, category |-> None,
     override |-> None, tool |-> None, required |-> {}, profile |-> None,
     model |-> None, verify |-> FALSE, prose |-> FALSE]

MCAsks ==
    {[Plain EXCEPT !.mode = m, !.override = o, !.required = r] :
        m \in Mode, o \in {None, "auto", "acceptEdits"},
        r \in {{}, {WorkspaceRead}}}
    \cup {[Plain EXCEPT !.tool = t, !.required = r] :
             t \in {None, ReadOnlyTools, RemoteTools, "custom"},
             r \in {{}, {WorkspaceRead, RemoteRead}}}
    \cup {[Plain EXCEPT !.runtime = r, !.profile = p, !.model = m] :
             r \in {"claude_code", "openai_compatible", "cursor"},
             p \in {None, "p"}, m \in {None, "m1"}}
    \cup {[Plain EXCEPT !.agent = a, !.given = g, !.schema = s, !.runtime = r,
                        !.verify = TRUE, !.prose = TRUE] :
             a \in {"implementation-worker", "custom"},
             g \in {{}, {"mode", "schema"}}, s \in {"evidence-report"},
             r \in {"claude_code", "openai_compatible"}}
    \cup {[Plain EXCEPT !.runtime = r, !.schema = "review-findings"] :
             r \in {"cursor", "mock"}}
    \cup {[Plain EXCEPT !.runtime = "codex", !.mode = m] : m \in Mode}
    \cup {[Plain EXCEPT !.runtime = "opencode", !.model = "m1"],
          [Plain EXCEPT !.category = "review"],
          [Plain EXCEPT !.agent = "implementation-worker", !.timeout = 4,
                        !.given = {"timeout"}]}

Tools(name, ids) == [name |-> name, sound |-> TRUE, ids |-> ids]
Model(id, runtime, m) ==
    [id |-> id, runtime |-> runtime, provider |-> runtime = "openai_compatible",
     model |-> m, sound |-> TRUE]
Custom == [n \in {"custom"} |-> [mode |-> None, timeout |-> 2,
                                 schema |-> "review-findings"]]
NoAgents == [n \in {} |-> None]

Raw(tools, models, agents, default, provider) ==
    [tools |-> tools, models |-> models, agents |-> agents,
     default |-> default, provider |-> provider]

MCConfigs ==
    <<Raw({}, {}, NoAgents, None, None),
     Raw({Tools(RemoteTools, <<"mcp a", "mcp b">>), Tools("custom", <<"mcp a">>)},
         {Model("p", "claude_code", "m1"), Model("q", "openai_compatible", None)},
         Custom, "m1", "m2"),
     Raw({Tools(RemoteTools, <<"mcp *">>)}, {Model("p", "claude_code", None)},
         Custom, "m2", "m1"),
     Raw({Tools(ReadOnlyTools, <<"mcp a">>)},
         {Model("p", "cursor", "m1"), [Model("q", "cursor", None) EXCEPT
                                           !.provider = TRUE]},
         NoAgents, None, "m1")>>

Symmetry == Permutations(Proc) \cup Permutations(Broker)
=============================================================================
