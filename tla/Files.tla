-------------------------------- MODULE Files --------------------------------
(***************************************************************************)
(* asem processes on the files they share with each other, with people and *)
(* with the agents' own programs.  A process runs one job:                 *)
(*   init     the wizard, then .asem.yaml and .gitignore                   *)
(*   mcp      the MCP server entry of one Integration Target               *)
(*   skills   the Skill document of one Integration Target                 *)
(*   launch   what createSession reads before it touches anything: the     *)
(*            config, the project's profiles, the user's profiles          *)
(* Every await, and every system call on a file that another program may   *)
(* replace, is a step of its own.  Anybody may replace a file in between,  *)
(* and a process may be killed or fail to write; it is then run again.     *)
(***************************************************************************)
EXTENDS FileFormats

CONSTANTS
    Procs,       \* the processes
    Scenarios,   \* [jobs: job of each process, files: contents of some files]
    EditsOf(_),  \* the contents somebody else may give to a file
    Selections,  \* the sets of templates a person ticks in the wizard
    MaxEdits,    \* bound on what the others write
    MaxFaults    \* bound on crashes and failed writes

Yaml == ".asem.yaml"
Ignore == ".gitignore"
ProjectAgents == ".asem/agents"
UserAgents == "~/.asem/agents"

(* The files that the targets, the project and the home directory have.    *)
Paths ==
    {Yaml, Ignore, ProjectAgents, UserAgents, CodexFile}
    \cup {JsonMcpTargets[t].global : t \in DOMAIN JsonMcpTargets}
    \cup {JsonMcpTargets[t].workspace : t \in DOMAIN JsonMcpTargets}
    \cup {SkillTargets[t].global : t \in DOMAIN SkillTargets}
    \cup {SkillTargets[t].workspace : t \in DOMAIN SkillTargets}

ContentsOf(path) ==
    CASE path = Ignore -> Texts("lines")
      [] path = CodexFile -> Texts("toml")
      [] OTHER -> Contents

(* What a process is asked for.                                            *)
Request ==
    [op : {"init", "mcp", "skills", "launch"}, id : STRING, agent : STRING,
     mux : STRING, interactive : BOOLEAN, tty : BOOLEAN, target : STRING,
     global : BOOLEAN, model : STRING, profile : STRING]

ASSUME FilesAssumption ==
    /\ \A s \in Scenarios :
          /\ s.jobs \in [Procs -> Request]
          /\ DOMAIN s.files \subseteq Paths \ {""}
          /\ \A path \in DOMAIN s.files : s.files[path] \in ContentsOf(path)
    /\ \A path \in Paths : EditsOf(path) \subseteq ContentsOf(path)
    /\ MaxEdits \in Nat /\ MaxFaults \in Nat

VARIABLES
    files,    \* the content of every file
    temps,    \* the temporary file of each process: "none", "torn" or "whole"
    jobs,     \* the job of each process
    procs,    \* where each process is and what it holds
    edits, faults
vars == <<files, temps, jobs, procs, edits, faults>>

(* read: what was read of the file to replace. draft: what replaces it.    *)
(* edited: one that is not asem has written a file the job is about, since *)
(* it began. made: the config this process wrote. source: the directory of *)
(* profiles being read; names: the files in it that are not read yet; got: *)
(* the profiles in those that are.                                         *)
Fresh ==
    [pc |-> "begin", path |-> Yaml, read |-> Absent, draft |-> Absent,
     edited |-> FALSE, selected |-> Absent, made |-> Absent,
     config |-> Absent, source |-> ProjectAgents, names |-> <<>>, got |-> {},
     project |-> {}, out |-> Absent]

Job(op) ==
    [op |-> op, id |-> None, agent |-> None, mux |-> None, interactive |-> FALSE,
     tty |-> FALSE, target |-> None, global |-> TRUE, model |-> None, profile |-> None]

TouchedBy(job) ==
    CASE job.op = "init" -> {Yaml, Ignore}
      [] job.op = "mcp" -> {ResolveMcp(job.target, job.global).path}
      [] job.op = "skills" -> {ResolveTarget(SkillTargets, job.target, job.global).path}
      [] job.op = "launch" -> {Yaml, ProjectAgents, UserAgents}
About(job) ==
    IF \/ job.op = "mcp" /\ IsRefused(ResolveMcp(job.target, job.global))
       \/ job.op = "skills" /\ IsRefused(ResolveTarget(SkillTargets, job.target, job.global))
    THEN {} ELSE TouchedBy(job)

Init ==
    \E s \in Scenarios :
        /\ jobs = s.jobs
        /\ files = [path \in DOMAIN s.files \cup UNION {About(s.jobs[p]) : p \in Procs} |->
                       IF path \in DOMAIN s.files THEN s.files[path] ELSE Absent]
        /\ temps = [p \in Procs |-> "none"]
        /\ procs = [p \in Procs |-> Fresh]
        /\ edits = 0 /\ faults = 0

----------------------------------------------------------------------------
(* The state of a process after a step.                                    *)
Goes(p, pc) == procs' = [procs EXCEPT ![p].pc = pc]
Ends(p, out) == procs' = [procs EXCEPT ![p].pc = "done", ![p].out = out]
Result(kind) == [kind |-> kind]
Done == Result("ok")

Drafts(p, path, draft) ==
    procs' = [procs EXCEPT ![p].pc = "write", ![p].path = path,
                           ![p].read = files[path], ![p].draft = draft]

At(p, op, pc) == jobs[p].op = op /\ procs[p].pc = pc
Only(p) == UNCHANGED <<files, temps, jobs, edits, faults>>

----------------------------------------------------------------------------
(* init.                                                                   *)
Given(job) == job.id # None /\ job.agent # None /\ job.mux # None
KnownIfGiven(name, builtin) == name \in Range(builtin) \cup {None}

(* runInit: the config may be there already, or asked for, or selected.    *)
RunInit(p) ==
    LET job == jobs[p]
        exists == files[Yaml].kind # "absent"
        selected == MaterializeInitConfig(job.id, Section(job.mux, {}), Section(job.agent, {}))
    IN  /\ At(p, "init", "begin")
        /\ CASE exists -> Goes(p, "init")
             [] ~exists /\ job.interactive ->
                  IF /\ job.tty
                     /\ KnownIfGiven(job.agent, BuiltinAgents)
                     /\ KnownIfGiven(job.mux, BuiltinMuxes)
                  THEN Goes(p, "wizard")
                  ELSE Ends(p, Refused("invalid_input"))
             [] ~exists /\ ~job.interactive ->
                  IF job.id = None THEN Ends(p, Refused("invalid_input"))
                  ELSE IF ~Given(job) THEN Goes(p, "init")
                  ELSE IF IsRefused(selected) THEN Ends(p, selected)
                  ELSE procs' = [procs EXCEPT ![p].pc = "init", ![p].selected = selected]
        /\ Only(p)

(* The person answers every prompt; the default id is the directory's name. *)
Wizard(p) ==
    /\ At(p, "init", "wizard")
    /\ \E a, m \in Selections, id \in IF jobs[p].id = None THEN Numbers \cup NeedsQuotes
                                      ELSE {jobs[p].id} :
        /\ a \subseteq Range(BuiltinAgents) /\ m \subseteq Range(BuiltinMuxes)
        /\ \E agent \in ResolveCategory(BuiltinAgents, "claude", jobs[p].agent, a),
              mux \in ResolveCategory(BuiltinMuxes, "herdr", jobs[p].mux, m) :
            procs' = [procs EXCEPT ![p].pc = "init",
                                   ![p].selected = MaterializeInitConfig(id, mux, agent)]
    /\ Only(p)

WizardCancelled(p) ==
    /\ At(p, "init", "wizard")
    /\ Ends(p, Result("cancelled"))
    /\ Only(p)

(* mutant: a config that exists ends the operation                         *)
NothingToDo(p) ==
    LET sel == procs[p].selected
        id == IF sel = Absent THEN jobs[p].id ELSE sel.id
        made == RenderConfig(id, IF sel = Absent THEN DefaultMux ELSE sel.mux,
                                 IF sel = Absent THEN DefaultAgent ELSE sel.agent)
    IN  /\ At(p, "init", "init")
        /\ IF files[Yaml].kind # "absent" THEN Ends(p, Done)
           ELSE IF id = None THEN Ends(p, Refused("invalid_input"))
           ELSE Drafts(p, Yaml, made)
        /\ Only(p)

(* initProject: the config, unless it exists by now.                       *)
InitConfig(p) ==
    LET sel == procs[p].selected
        id == IF sel = Absent THEN jobs[p].id ELSE sel.id
        made == RenderConfig(id, IF sel = Absent THEN DefaultMux ELSE sel.mux,
                                 IF sel = Absent THEN DefaultAgent ELSE sel.agent)
    IN  /\ At(p, "init", "init")
        /\ IF files[Yaml].kind # "absent" THEN Goes(p, "ignore")
           ELSE IF id = None THEN Ends(p, Refused("invalid_input"))
           ELSE Drafts(p, Yaml, made)
        /\ Only(p)

(* initProject: the rules, first whether the file is there, then its text. *)
LookForIgnore(p) ==
    /\ At(p, "init", "ignore")
    /\ IF files[Ignore].kind = "absent"
       THEN Drafts(p, Ignore, [kind |-> "lines", lines |-> EnsureGitignoreRules(<<>>)])
       ELSE Goes(p, "read")
    /\ Only(p)

ReadIgnore(p) ==
    /\ At(p, "init", "read")
    /\ IF files[Ignore].kind = "absent" THEN Ends(p, Result("threw"))
       ELSE LET lines == EnsureGitignoreRules(files[Ignore].lines)
            IN  IF lines = files[Ignore].lines THEN Ends(p, Done)
                ELSE Drafts(p, Ignore, [kind |-> "lines", lines |-> lines])
    /\ Only(p)

----------------------------------------------------------------------------
(* mcp add and skills add.                                                 *)
Merged(job, content) ==
    IF job.op = "skills" THEN [kind |-> "skill", current |-> TRUE]
    ELSE IF job.target = "codex" THEN InstallCodex(content)
    ELSE InstallJson(job.target, content)

(* A Skill document is replaced unread; a configuration is read if it is   *)
(* there.                                                                  *)
Install(p) ==
    LET job == jobs[p]
        at == IF job.op = "mcp" THEN ResolveMcp(job.target, job.global)
              ELSE ResolveTarget(SkillTargets, job.target, job.global)
    IN  /\ job.op \in {"mcp", "skills"} /\ procs[p].pc = "begin"
        /\ IF IsRefused(at) THEN Ends(p, at)
           ELSE IF job.op = "mcp" /\ files[at.path].kind # "absent" THEN Goes(p, "read")
           ELSE Drafts(p, at.path, Merged(job, Absent))
        /\ Only(p)

(* A file that is gone by now is invalid JSON, and an error of its own to  *)
(* codex.                                                                  *)
ReadTarget(p) ==
    LET job == jobs[p]
        path == ResolveMcp(job.target, job.global).path
        merged == Merged(job, files[path])
    IN  /\ At(p, "mcp", "read")
        /\ IF files[path].kind = "absent"
           THEN Ends(p, IF job.target = "codex" THEN Result("threw")
                                               ELSE Refused("invalid_config"))
           ELSE IF IsRefused(merged) THEN Ends(p, merged)
           ELSE Drafts(p, path, merged)
        /\ Only(p)

----------------------------------------------------------------------------
(* Replacing a file: a temporary one beside it, filled, renamed over it.   *)

(* mutant: the file itself is opened for writing                           *)
WriteInPlace(p) ==
    /\ procs[p].pc = "write"
    /\ files' = [files EXCEPT ![procs[p].path] = Torn]
    /\ temps' = [temps EXCEPT ![p] = "torn"]
    /\ Goes(p, "rename")
    /\ UNCHANGED <<jobs, edits, faults>>

WriteTemp(p) ==
    /\ procs[p].pc = "write"
    /\ temps' = [temps EXCEPT ![p] = "torn"]
    /\ Goes(p, "rename")
    /\ UNCHANGED <<files, jobs, edits, faults>>

FillTemp(p) ==
    /\ procs[p].pc = "rename" /\ temps[p] = "torn"
    /\ temps' = [temps EXCEPT ![p] = "whole"]
    /\ UNCHANGED <<files, jobs, procs, edits, faults>>

Rename(p) ==
    LET path == procs[p].path
        last == ~(jobs[p].op = "init" /\ path = Yaml)
    IN  /\ procs[p].pc = "rename" /\ temps[p] = "whole"
        /\ files' = [files EXCEPT ![path] = procs[p].draft]
        /\ temps' = [temps EXCEPT ![p] = "none"]
        /\ procs' = [procs EXCEPT
                        ![p].pc = IF last THEN "done" ELSE "ignore",
                        ![p].out = IF last THEN Done ELSE Absent,
                        ![p].made = IF last THEN @ ELSE procs[p].draft]
        /\ UNCHANGED <<jobs, edits, faults>>

(* The disk is full or the directory is not writable: the call throws and  *)
(* the temporary file, if it was made, stays behind.                       *)
WriteFails(p) ==
    /\ procs[p].pc \in {"write", "rename"} /\ faults < MaxFaults
    /\ faults' = faults + 1
    /\ Ends(p, Result("threw"))
    /\ UNCHANGED <<files, temps, jobs, edits>>

----------------------------------------------------------------------------
(* launch: what createSession settles before its first side effect.        *)
LookForConfig(p) ==
    /\ At(p, "launch", "begin")
    /\ IF files[Yaml].kind = "absent" THEN Ends(p, Refused("config_not_found"))
                                      ELSE Goes(p, "config")
    /\ Only(p)

LoadConfig(p) ==
    LET config == ParseConfig(files[Yaml])
    IN  /\ At(p, "launch", "config")
        /\ IF IsRefused(config) THEN Ends(p, config)
           ELSE procs' = [procs EXCEPT ![p].config = config,
                    ![p].pc = IF jobs[p].profile = None THEN "templates" ELSE "exists"]
        /\ Only(p)

(* With no name left the source is read: the user's comes after the        *)
(* project's, and after that the profile is looked up by its id.           *)
Gathered(p, names, got) ==
    LET all == ResolveProfiles(procs[p].project, got)
    IN  IF names # <<>>
        THEN procs' = [procs EXCEPT ![p].pc = "profile", ![p].names = names, ![p].got = got]
        ELSE IF procs[p].source = ProjectAgents
        THEN procs' = [procs EXCEPT ![p].pc = "exists", ![p].project = got,
                                    ![p].source = UserAgents]
        ELSE IF \A q \in all : q.id # jobs[p].profile
        THEN Ends(p, Refused("invalid_input"))
        ELSE procs' = [procs EXCEPT ![p].pc = "templates",
                 ![p].selected = CHOOSE q \in all : q.id = jobs[p].profile]

(* readSourceProfiles: is the directory there, what is in it, and then one *)
(* file after the other.  One that cannot be read or parsed, or a second   *)
(* one with the same id, and the source is refused.                        *)
LookForProfiles(p) ==
    /\ At(p, "launch", "exists")
    /\ IF files[procs[p].source].kind = "absent" THEN Gathered(p, <<>>, {})
                                                 ELSE Goes(p, "list")
    /\ Only(p)

ListProfiles(p) ==
    LET dir == files[procs[p].source]
    IN  /\ At(p, "launch", "list")
        /\ IF dir.kind # "dir" THEN Ends(p, Refused("invalid_config"))
           ELSE Gathered(p, [i \in DOMAIN dir.files |-> i], {})
        /\ Only(p)

ReadProfile(p) ==
    LET dir == files[procs[p].source]
        name == Head(procs[p].names)
    IN  /\ At(p, "launch", "profile")
        /\ IF \/ dir.kind # "dir"
              \/ name \notin DOMAIN dir.files
              \/ \E q \in procs[p].got : q.id = dir.files[name].id
           THEN Ends(p, Refused("invalid_config"))
           ELSE Gathered(p, Tail(procs[p].names), procs[p].got \cup {dir.files[name]})
        /\ Only(p)

ResolveTemplates(p) ==
    LET profile == IF jobs[p].profile = None THEN Profile(None, None, None)
                   ELSE procs[p].selected
        config == procs[p].config
        mux == IF jobs[p].mux = None THEN config.mux.default ELSE jobs[p].mux
        agent == ResolveAgent(jobs[p], profile, config)
        model == ResolveModel(jobs[p], profile)
    IN  /\ At(p, "launch", "templates")
        /\ Ends(p, IF ~Resolves(mux, config.mux, BuiltinMuxes)
                   THEN Refused("mux_template_not_found")
                   ELSE IF ~Resolves(agent, config.agent, BuiltinAgents)
                   THEN Refused("agent_template_not_found")
                   ELSE IF model # None /\ agent \in TakesNoModel
                   THEN Refused("invalid_input")
                   ELSE [kind |-> "launched", agent |-> agent, model |-> model])
        /\ Only(p)

----------------------------------------------------------------------------
(* The others, and faults.                                                 *)
Edit(path) ==
    /\ edits < MaxEdits
    /\ edits' = edits + 1
    /\ \E content \in EditsOf(path) \ {files[path]} :
        files' = [files EXCEPT ![path] = content]
    /\ procs' = [p \in Procs |->
                    [procs[p] EXCEPT !.edited = @ \/ path \in About(jobs[p])]]
    /\ UNCHANGED <<temps, jobs, faults>>

Crash(p) ==
    /\ procs[p].pc \notin {"done", "crashed"}
    /\ faults < MaxFaults
    /\ faults' = faults + 1
    /\ Goes(p, "crashed")
    /\ UNCHANGED <<files, temps, jobs, edits>>

(* The job again, in a new process: its temporary file has another name.   *)
RunAgain(p) ==
    /\ \/ procs[p].pc = "crashed"
       \/ procs[p].pc = "done" /\ procs[p].out.kind = "threw"
    /\ procs' = [procs EXCEPT ![p] = Fresh]
    /\ temps' = [temps EXCEPT ![p] = "none"]
    /\ UNCHANGED <<files, jobs, edits, faults>>

InitStep(p) ==
    \/ RunInit(p) \/ Wizard(p) \/ WizardCancelled(p) \/ InitConfig(p)
    \/ LookForIgnore(p) \/ ReadIgnore(p)
ReplaceStep(p) == WriteTemp(p) \/ FillTemp(p) \/ Rename(p)
LaunchStep(p) ==
    \/ LookForConfig(p) \/ LoadConfig(p) \/ LookForProfiles(p) \/ ListProfiles(p)
    \/ ReadProfile(p) \/ ResolveTemplates(p)

Next ==
    \/ \E p \in Procs : \/ InitStep(p) \/ Install(p) \/ ReadTarget(p)
                        \/ ReplaceStep(p) \/ LaunchStep(p)
                        \/ WriteFails(p) \/ Crash(p) \/ RunAgain(p)
    \/ \E path \in DOMAIN files : Edit(path)

Spec == Init /\ [][Next]_vars

----------------------------------------------------------------------------
(* Every process is where its job can be, every file is one that a target, *)
(* a project or a home directory has, and a temporary file stands only     *)
(* beside a replacement that has not ended well.                           *)
PlacesOf(op) ==
    CASE op = "init" -> {"begin", "wizard", "init", "ignore", "read", "write", "rename"}
      [] op = "mcp" -> {"begin", "read", "write", "rename"}
      [] op = "skills" -> {"begin", "write", "rename"}
      [] op = "launch" -> {"begin", "config", "exists", "list", "profile", "templates"}
TypeOK ==
    /\ DOMAIN files \subseteq Paths \ {""}
    /\ temps \in [Procs -> {"none", "torn", "whole"}]
    /\ \A p \in Procs :
        /\ procs[p].pc \in PlacesOf(jobs[p].op) \cup {"done", "crashed"}
        /\ procs[p].path \in DOMAIN files \cup {Yaml}
        /\ procs[p].pc = "done" <=> procs[p].out # Absent
        /\ procs[p].out = Done => temps[p] = "none"
    /\ edits \in 0 .. MaxEdits /\ faults \in 0 .. MaxFaults

(* Whatever is killed or fails in the middle of a write, no reader ever    *)
(* finds half a file, and who reports success has left no temporary one    *)
(* (writeFileAtomic, writeTextFileAtomic).                                 *)
FilesAreWhole == TypeOK /\ \A path \in DOMAIN files : files[path] # Torn

(* What a file says that is not asem's: the other servers of a JSON file,  *)
(* the other tables of a TOML file, every line of .gitignore.              *)
OtherEntries(at) ==
    [k \in ServerKeys |-> [at[k] EXCEPT !.has = {e \in @ : e[1] # "asem"}]]
OtherLines(lines) ==
    {i \in DOMAIN lines :
        lines[i] # Blank /\ TableAt(lines, i) \notin {AsemTable, AsemTableNoted}}

(* Line i of the old ones is line at[i] of the new: the other lines are    *)
(* the same, in the same tables and in the same order, and no more.        *)
SameOtherLines(old, new) ==
    \E at \in [OtherLines(old) -> OtherLines(new)] :
        /\ \A i \in OtherLines(old) :
             new[at[i]] = old[i] /\ TableAt(new, at[i]) = TableAt(old, i)
        /\ \A i, j \in OtherLines(old) : i < j => at[i] < at[j]
        /\ Range(at) = OtherLines(new)

Keeps(old, new) ==
    CASE new.kind = "json" ->
           /\ old.kind \in {"absent", "json"}
           /\ \A k \in ServerKeys :
                LET before == OtherEntries(ReadJsonObject(old).at)[k]
                    after == OtherEntries(new.at)[k]
                IN  after = before \/ (before = NoServers /\ after = ServerMap({}))
      [] new.kind = "toml" ->
           SameOtherLines(IF old.kind = "absent" THEN <<>> ELSE old.lines, new.lines)
      [] new.kind = "lines" ->
           old.kind = "lines" => SubSeq(new.lines, 1, Len(old.lines)) = old.lines
      [] new.kind = "yaml" -> old.kind = "absent"
      [] OTHER -> TRUE

(* A process that replaces a file nobody changed since it read it keeps    *)
(* everything in it that is not asem's, and never replaces a file it could *)
(* not read (installJsonMcpServer, installCodexMcpServer, initProject).    *)
KeepsForeign ==
    [][\A p \in Procs :
         LET path == procs[p].path
         IN  /\ procs[p].pc = "rename" /\ procs'[p].pc \in {"ignore", "done"}
             /\ files[path] = procs[p].read
             => (files'[path] = files[path] \/ Keeps(files[path], files'[path]))]_vars

(* After an init that ended well every rule is in .gitignore, once, also   *)
(* when an earlier run was killed between the two files or another init    *)
(* runs at the same time; and there is a config, one that an init wrote if *)
(* this one wrote its own (initProject).                                   *)
Times(rule, lines) == Cardinality({i \in DOMAIN lines : lines[i] = rule})
CompletedInitHolds ==
    \A p \in Procs :
        jobs[p].op = "init" /\ procs[p].out = Done /\ ~procs[p].edited =>
            /\ files[Ignore].kind = "lines"
            /\ \A rule \in Range(RuntimeGitignoreRules) : Times(rule, files[Ignore].lines) = 1
            /\ files[Yaml].kind # "absent"
            /\ procs[p].made # Absent => files[Yaml].kind = "yaml"

(* What mcp add and skills add reported is what the client finds: its own  *)
(* entry under its own key, one definition in TOML, the current document;  *)
(* also when two targets share the file and whatever was in it - but for a *)
(* definition under a TOML header in a spelling that asem does not see     *)
(* (see the README).                                                       *)
Hidden(lines) ==
    {i \in DOMAIN lines :
        \/ lines[i] = AsemTableNoted
        \/ lines[i] = AsemKey /\ TableAt(lines, i) = ParentTableNoted}
Seen(lines) ==
    {i \in DOMAIN lines :
        \/ lines[i] \in {AsemTable, DottedKey}
        \/ lines[i] = AsemKey /\ TableAt(lines, i) = ParentTable}
Definitions(lines) == Cardinality(Seen(lines) \cup Hidden(lines))
InstalledHolds ==
    \A p \in Procs :
        LET job == jobs[p]
            found == files[procs[p].path]
        IN  job.op \in {"mcp", "skills"} /\ procs[p].out = Done /\ ~procs[p].edited =>
                CASE job.op = "skills" -> found = [kind |-> "skill", current |-> TRUE]
                  [] job.op = "mcp" /\ job.target = "codex" ->
                       Hidden(found.lines) = {} => Definitions(found.lines) = 1
                  [] OTHER ->
                       LET adapter == JsonMcpTargets[job.target]
                       IN  {e \in found.at[adapter.key].has : e[1] = "asem"}
                               = {<<"asem", adapter.shape>>}

(* A .gitignore that names no rule twice and a TOML file that defines asem  *)
(* once at most (TOML allows no more).  What somebody else wrote twice     *)
(* stays there twice.                                                      *)
Tidy(path, content) ==
    /\ path = Ignore /\ content.kind = "lines" =>
          \A rule \in Range(RuntimeGitignoreRules) : Times(rule, content.lines) <= 1
    /\ path = CodexFile /\ content.kind = "toml" =>
          Hidden(content.lines) # {} \/ Definitions(content.lines) <= 1
TidyFiles(scenarios) ==
    /\ \A s \in scenarios : \A path \in DOMAIN s.files : Tidy(path, s.files[path])
    /\ \A path \in Paths : \A content \in EditsOf(path) : Tidy(path, content)

(* The config that init has written says, to the loader, what was selected *)
(* on the command line or in the wizard, and its default templates are     *)
(* among the templates it lists (renderConfigYaml against FileConfigLoader). *)
ConfigSaysWhatWasSelected ==
    \A p \in Procs :
        LET sel == procs[p].selected
            config == ParseConfig(files[Yaml])
        IN  procs[p].made # Absent /\ files[Yaml] = procs[p].made =>
                /\ ~IsRefused(config)
                /\ IF sel = Absent THEN config.id = jobs[p].id ELSE config = sel
                /\ \A section \in {config.mux, config.agent} :
                    section.templates # {} => section.default \in section.templates

(* The names that the file gives back as they are: on the command line no  *)
(* bare number for an id, in the mux no template with line breaks, and a   *)
(* wizard that is given the id.  With others the property does not hold    *)
(* (init_yaml).                                                            *)
PlainJob(job) ==
    job.op = "init" =>
        /\ job.id \notin Numbers /\ job.mux \notin HasLineBreaks
        /\ job.interactive => job.id # None
PlainNames(scenarios) ==
    /\ \A s \in scenarios : \A p \in Procs : PlainJob(s.jobs[p])
    /\ \A m \in Selections : m \cap HasLineBreaks = {}

(* A launch uses one profile whole: the project's before the user's, and a *)
(* profile's model only with the Agent the profile was written for         *)
(* (resolveProfiles, resolveModel), whoever edits the files meanwhile.     *)
LaunchFollowsOneProfile ==
    \A p \in Procs :
        LET job == jobs[p]
            used == procs[p].selected
            out == procs[p].out
        IN  job.op = "launch" /\ job.profile # None /\ out.kind = "launched" =>
                /\ \A q \in procs[p].project : q.id = job.profile => used = q
                /\ out.model \notin {None, job.model} =>
                    /\ out.model = used.model
                    /\ out.agent \in {used.agent, procs[p].config.agent.default}
                    /\ job.agent \in {None, used.agent}
================================================================================
