----------------------------- MODULE ConfigFiles -----------------------------
(***************************************************************************)
(* The commands that read and rewrite a configuration file: a providers    *)
(* file (init, config init, provider add, provider test) or the file of an *)
(* MCP host (mcp install).  Each reads, decides, writes a temporary file   *)
(* and renames it; several may run at once, an editor beside them, and     *)
(* each may be lost between two of its steps.  Reading is one step here,   *)
(* also where the text is read once more for the backup.                   *)
(***************************************************************************)
EXTENDS Naturals, FiniteSets

CONSTANTS
    Proc,       \* processes, one command each
    Commands,   \* what they may be asked to do
    MaxEdits    \* bound: changes made by an editor

(* "profiles" stands for the other top-level keys of a providers file      *)
(* (tool_access_profiles, model_profiles), the rest for entries.           *)
Name    == {"local", "other", "ours", "theirs", "twin", "user", "profiles"}
Command == [do : {"init", "config_init", "add", "test", "install"},
            name : Name, force : BOOLEAN, sound : BOOLEAN,
            live : BOOLEAN, billed : BOOLEAN, credential : BOOLEAN]

(* What a file is called decides what it is and how it is parsed.          *)
ProvidersFile == {"config.yaml", "config.json"}
HostFile      == {"host.json", "host.toml"}

(* How a host file writes its servers: as mcp install renders them, in     *)
(* another way, or (in TOML) where no section can be put in: in an inline  *)
(* table, under a quoted key.                                              *)
Spelling == {"rendered", "by hand", "inline"}

(* A file that is not there, one that cannot be parsed or does not pass    *)
(* validation, one written halfway, or the names it has an entry for.      *)
NoNames(kind) == [kind |-> kind, names |-> {}, spelt |-> "rendered"]
Absent  == NoNames("absent")
Invalid == NoNames("invalid")
Partial == NoNames("partial")
File(names, spelt) == [kind |-> "file", names |-> names, spelt |-> spelt]
Content == {Absent, Invalid, Partial}
               \cup {File(S, w) : S \in SUBSET Name, w \in Spelling}

Starter == File({"local"}, "rendered")

VARIABLES
    file,     \* what it is called
    alone,    \* commands and edits do not overlap
    cmd,      \* the command of every process
    pc,       \* "idle", "backup", "temp", "rename", "verify", "done", "lost"
    content,  \* of the file
    read,     \* what every process has read
    wants,    \* what it is about to write
    temps,    \* the processes whose temporary file is there
    backups,  \* the contents that were backed up
    replaced, \* the processes that renamed over the file
    answer,   \* what every process reported
    edits

disk    == <<content, temps, backups>>
command == <<pc, read, wants, replaced, answer>>
vars    == <<file, alone, cmd, disk, command, edits>>

Answer == {"none", "refused", "preserved", "elsewhere", "unchanged", "written",
           "verified", "unverified", "error", "ok"}

TypeOK ==
    /\ file \in ProvidersFile \cup HostFile
    /\ alone \in BOOLEAN /\ cmd \in [Proc -> Commands]
    /\ pc \in [Proc -> {"idle", "backup", "temp", "rename", "verify", "done",
                        "lost"}]
    /\ content \in Content \ {Partial}
    /\ read \in [Proc -> Content] /\ wants \in [Proc -> Content]
    /\ temps \subseteq Proc /\ backups \subseteq Content
    /\ replaced \subseteq Proc
    /\ answer \in [Proc -> Answer]
    /\ edits \in 0..MaxEdits

Spellings == IF file = "host.toml" THEN Spelling ELSE {"rendered", "by hand"}

Found ==
    {Absent, Invalid} \cup
    IF file \in ProvidersFile
    THEN {Starter, File({"other", "profiles"}, "rendered")}
    ELSE {File(S, w) : S \in {{"user"}, {"ours", "user"}, {"theirs"}, {"twin"}},
                       w \in Spellings}

Init ==
    /\ file \in ProvidersFile \cup HostFile /\ alone \in BOOLEAN
    /\ cmd \in {c \in [Proc -> Commands] :
                   \A p \in Proc : c[p].do = "install" <=> file \in HostFile}
    /\ pc = [p \in Proc |-> "idle"]
    /\ content \in Found
    /\ read = [p \in Proc |-> Absent] /\ wants = [p \in Proc |-> Absent]
    /\ temps = {} /\ backups = {} /\ replaced = {}
    /\ answer = [p \in Proc |-> "none"] /\ edits = 0

Busy == {p \in Proc : pc[p] \notin {"idle", "done", "lost"}}
Begins(p, do) ==
    /\ pc[p] = "idle" /\ cmd[p].do = do
    /\ alone => Busy = {}

Goto(p, point) == pc' = [pc EXCEPT ![p] = point]
Says(p, what)  == answer' = [answer EXCEPT ![p] = what]

(* The command ends with a report and has written nothing.                 *)
Ends(p, what) ==
    /\ Goto(p, "done") /\ Says(p, what)
    /\ UNCHANGED wants

Writes(p, point, what) ==
    /\ Goto(p, point)
    /\ wants' = [wants EXCEPT ![p] = what]
    /\ UNCHANGED answer

Reads(p) ==
    /\ read' = [read EXCEPT ![p] = content]
    /\ UNCHANGED <<file, alone, cmd, disk, replaced, edits>>

-----------------------------------------------------------------------------
(* Providers.                                                              *)

(* The starter is YAML whatever the file is called: .json is parsed as JSON*)
(* by its suffix.                                                          *)
StarterText == IF file = "config.json" THEN Invalid ELSE Starter

(* run_init preserves an operator config without --force, and where there  *)
(* is none makes a config.yaml.                                            *)
InitHome(p) ==
    /\ Begins(p, "init") /\ Reads(p)
    /\ \/ content # Absent /\ ~cmd[p].force /\ Ends(p, "preserved")
       \/ content = Absent /\ file # "config.yaml" /\ Ends(p, "elsewhere")
       \/ /\ IF content = Absent THEN file = "config.yaml" ELSE cmd[p].force
          /\ Writes(p, "temp", StarterText)

(* config init raises where there is a file.                               *)
ConfigInit(p) ==
    /\ Begins(p, "config_init") /\ Reads(p)
    /\ IF content # Absent /\ ~cmd[p].force THEN Ends(p, "refused")
       ELSE Writes(p, "temp", StarterText)

(* The document with the entry, under the key "providers" and no other;    *)
(* some do not pass the validation.                                        *)
Merged(p) ==
    IF cmd[p].sound
    THEN File((content.names \ {"profiles"}) \cup {cmd[p].name}, "rendered")
    ELSE Invalid

MayAdd(p) ==
    /\ content # Invalid
    /\ cmd[p].name \notin content.names \/ cmd[p].force
    /\ Merged(p) # Invalid

ProviderAdd(p) ==
    /\ Begins(p, "add") /\ Reads(p)
    /\ IF MayAdd(p) THEN Writes(p, "temp", Merged(p)) ELSE Ends(p, "refused")

MayProbe(p) == cmd[p].live /\ cmd[p].credential /\ cmd[p].billed

(* run_provider_test: every layer that fails ends it, or the probe.        *)
ProviderTest(p) ==
    /\ Begins(p, "test") /\ Reads(p)
    /\ IF content \in {Absent, Invalid} \/ cmd[p].name \notin content.names
       THEN Ends(p, "error")
       ELSE /\ Goto(p, "done")
            /\ \/ Says(p, "error") /\ cmd[p].live
               \/ Says(p, "ok") /\ (cmd[p].live => MayProbe(p))
            /\ UNCHANGED wants

-----------------------------------------------------------------------------
(* MCP hosts.                                                              *)

(* A recollect-lines entry that differs; in JSON also another name for the *)
(* same invocation, which nobody looks for in TOML.                        *)
Conflicts ==
    \/ "theirs" \in content.names
    \/ file = "host.json" /\ "twin" \in content.names

(* The document with the entry.  A TOML section is put over the one there  *)
(* is or at the end, as text, and not parsed again: beside an inline table *)
(* it is a second definition.                                              *)
Registered ==
    IF content.spelt = "inline" THEN Invalid
    ELSE File(content.names \cup {"ours"}, "rendered")

(* The text would be the same.                                             *)
UpToDate == "ours" \in content.names /\ content.spelt = "rendered"

Install(p) ==
    /\ Begins(p, "install") /\ Reads(p)
    /\ \/ (content = Invalid \/ Conflicts) /\ Ends(p, "refused")
       \/ /\ content # Invalid /\ ~Conflicts
          /\ IF UpToDate
             THEN /\ Goto(p, "verify") /\ Says(p, "unchanged")
                  /\ UNCHANGED wants
             ELSE Writes(p, IF content = Absent THEN "temp" ELSE "backup",
                         Registered)

(* Fault: the backup is taken when the file has been replaced.             *)
BackupOf(p) == wants[p]

BackupText(p) == read[p]

Backup(p) ==
    /\ pc[p] = "backup"
    /\ backups' = backups \cup {BackupText(p)}
    /\ Goto(p, "temp")
    /\ UNCHANGED <<file, alone, cmd, content, temps, read, wants, replaced,
                   answer, edits>>

(* run_mcp_verify reads the file again and talks to the server; a file it  *)
(* cannot parse ends the command with an error.                            *)
Verify(p) ==
    /\ pc[p] = "verify"
    /\ Goto(p, "done")
    /\ \/ content = Invalid /\ Says(p, "error")
       \/ "ours" \in content.names /\ Says(p, "verified")
       \/ content # Invalid /\ Says(p, "unverified")
    /\ UNCHANGED <<file, alone, cmd, disk, read, wants, replaced, edits>>

-----------------------------------------------------------------------------
(* write_atomic_text.                                                      *)

(* Fault: the text is written to the file itself.                          *)
TempInPlace(p) ==
    /\ pc[p] = "temp" /\ content' = Partial /\ temps' = temps
    /\ Goto(p, "rename")
    /\ UNCHANGED <<file, alone, cmd, read, wants, backups, replaced, answer,
                   edits>>

Temp(p) ==
    /\ pc[p] = "temp"
    /\ temps' = temps \cup {p}
    /\ Goto(p, "rename")
    /\ UNCHANGED <<file, alone, cmd, content, read, wants, backups, replaced,
                   answer, edits>>

(* An error before the rename: the finally clause removes the temporary    *)
(* file only if there is no file in its place.                             *)
TempFails(p) ==
    /\ pc[p] = "rename"
    /\ temps' = IF content = Absent THEN temps \ {p} ELSE temps
    /\ Goto(p, "done") /\ Says(p, "error")
    /\ UNCHANGED <<file, alone, cmd, content, read, wants, backups, replaced,
                   edits>>

Rename(p) ==
    /\ pc[p] = "rename"
    /\ content' = wants[p]
    /\ temps' = temps \ {p}
    /\ replaced' = replaced \cup {p}
    /\ IF cmd[p].do = "install"
       THEN Goto(p, "verify") /\ UNCHANGED answer
       ELSE Goto(p, "done") /\ Says(p, "written")
    /\ UNCHANGED <<file, alone, cmd, read, wants, backups, edits>>

-----------------------------------------------------------------------------
Edit ==
    /\ edits < MaxEdits /\ edits' = edits + 1
    /\ alone => Busy = {}
    /\ content' \in {Invalid} \cup
           IF file \in ProvidersFile
           THEN {File(content.names \cup S, "rendered") :
                    S \in {{"user"}, {"user", "profiles"}}}
           ELSE {File(S, w) : S \in {content.names \cup {"user"},
                                    content.names \ {"ours"}},
                              w \in Spellings}
    /\ UNCHANGED <<file, alone, cmd, temps, backups, command>>

Lost(p) ==
    /\ p \in Busy
    /\ Goto(p, "lost")
    /\ UNCHANGED <<file, alone, cmd, disk, read, wants, replaced, answer,
                   edits>>

Runs(p) ==
    \/ InitHome(p) \/ ConfigInit(p) \/ ProviderAdd(p) \/ ProviderTest(p)
    \/ Install(p) \/ Backup(p) \/ Temp(p) \/ TempFails(p) \/ Rename(p)
    \/ Verify(p)

Next == Edit \/ \E p \in Proc : Runs(p) \/ Lost(p)

Spec == Init /\ [][Next]_vars

-----------------------------------------------------------------------------
(* Properties.                                                             *)

Starts(p) == cmd[p].do \in {"init", "config_init"}

(* The rewrites that leave a text the file's own readers cannot parse: the *)
(* YAML starter in a .json file, a TOML section beside an inline table.    *)
Misfit(p) ==
    \/ Starts(p) /\ file = "config.json"
    \/ cmd[p].do = "install" /\ read[p].spelt = "inline"

(* A file that could be read stays one: whatever fails, is lost or races,  *)
(* no command leaves a file that is cut off or does not validate, but for  *)
(* the rewrites that misfit its format.  (The editor may.)                 *)
CommandsKeepItReadable ==
    [][edits' = edits /\ content.kind = "file" =>
        \/ content'.kind = "file"
        \/ \E p \in replaced' \ replaced : Misfit(p)]_vars

(* Alone, no command drops an entry it was not told to: provider add keeps *)
(* the other providers (not the other top-level keys), mcp install all of  *)
(* a file it can put its section in, init everything.                      *)
NoEntryIsLost ==
    [][alone /\ edits' = edits /\ content' # content =>
        \/ content.names \subseteq content'.names
        \/ \E p \in replaced' \ replaced :
              \/ /\ cmd[p].do = "add"
                 /\ content.names \ {"profiles"} \subseteq content'.names
              \/ Starts(p) /\ cmd[p].force
              \/ cmd[p].do = "install" /\ Misfit(p)]_vars

(* Alone, an entry there was is rewritten only if that was asked for.      *)
NoEntryIsOverwritten ==
    [][\A p \in replaced' \ replaced :
        alone /\ cmd[p].do = "add" /\ cmd[p].name \in content.names
            => cmd[p].force]_vars

(* Alone, what mcp install replaces is in a backup, and was not the        *)
(* registration of someone else (in JSON, nor one of ours by another name),*)
(* also if it is lost on the way, or what it writes cannot be parsed.      *)
ReplacedIsBackedUp ==
    [][\A p \in replaced' \ replaced :
        alone /\ cmd[p].do = "install" =>
            /\ content = Absent \/ content \in backups
            /\ "theirs" \notin content.names
            /\ file = "host.json" => "twin" \notin content.names]_vars

(* What was in a file is kept: it can be read, and no entry in it is lost  *)
(* or replaced without being asked for or backed up, within the exceptions *)
(* named above.                                                            *)
FilesAreKept ==
    /\ CommandsKeepItReadable /\ NoEntryIsLost
    /\ NoEntryIsOverwritten /\ ReplacedIsBackedUp

-----------------------------------------------------------------------------
(* What the code does not keep.                                            *)

(* docs/cli.md:85 init leaves an existing operator config untouched unless *)
(* --force is given.  (Violated if the file appears between its check and  *)
(* its rename.)                                                            *)
InitPreserves ==
    [][\A p \in replaced' \ replaced :
        Starts(p) /\ ~cmd[p].force => content = Absent]_vars

(* docs/cli.md:103 provider add appends or overwrites one provider entry.  *)
OnlyTheEntryChanges ==
    [][\A p \in replaced' \ replaced :
        alone /\ cmd[p].do = "add"
            => content.names \subseteq content'.names]_vars

(* providers.py:381 "a minimal, immediately-valid starter config".         *)
StarterIsValid ==
    [][\A p \in replaced' \ replaced : Starts(p) => content'.kind = "file"]_vars

(* docs/cli.md:155 mcp install preserves unrelated MCP servers.            *)
InstallLeavesItReadable ==
    [][\A p \in replaced' \ replaced :
        cmd[p].do = "install" => content'.kind = "file"]_vars

(* mcp_commands.py:347 another server that already registers the same      *)
(* invocation is a duplicate to be removed first.                          *)
NoSecondRegistration ==
    [][\A p \in replaced' \ replaced :
        alone /\ cmd[p].do = "install" => "twin" \notin content.names]_vars
=============================================================================
