----------------------------- MODULE FileFormats -----------------------------
(***************************************************************************)
(* The files asem shares with people and other programs, and what it does  *)
(* to their contents: .asem.yaml and the wizard that fills it, the rules   *)
(* in .gitignore, the JSON and TOML configurations of the Integration      *)
(* Targets, Skill documents and Agent Profiles.  A file is its items in    *)
(* order; an item is told apart only as far as the code tells it apart.    *)
(***************************************************************************)
EXTENDS Naturals, Sequences, FiniteSets, Functions

None == "none"
Absent == [kind |-> "absent"]
Torn == [kind |-> "torn"]
Refused(code) == [kind |-> "refused", code |-> code]
IsRefused(content) == content.kind = "refused"

----------------------------------------------------------------------------
(* .asem.yaml.  A scalar of letters, digits, dots, dashes and underscores  *)
(* is written bare, "2024" among them; any other between double quotes,    *)
(* where a parser folds a line break into a space.                         *)
Numbers == {"2024"}
NeedsQuotes == {"team: one"}
BuiltinAgents == <<"agy", "claude", "codex", "gemini", "kimi", "opencode", "pi">>
BuiltinMuxes == <<"herdr", "rmux", "tmux", "zellij">>
HasLineBreaks == {"zellij"}

(* mutant: nothing is quoted                                               *)
BareAlways(value) == [text |-> value, quoted |-> FALSE]

YamlScalar(value) == [text |-> value, quoted |-> value \in NeedsQuotes]
YamlTemplate(name) == IF name \in HasLineBreaks THEN "folded" ELSE name

Section(default, templates) == [default |-> default, templates |-> templates]

RenderConfig(id, mux, agent) ==
    [kind |-> "yaml", id |-> YamlScalar(id),
     mux |-> [mux EXCEPT !.templates = {YamlTemplate(t) : t \in @}],
     agent |-> [agent EXCEPT !.templates = {YamlTemplate(t) : t \in @}]]

(* What the loader makes of the file it found, and reads: a bare number is *)
(* no string, and a file that is gone by now is an invalid one.            *)
ParseConfig(content) ==
    IF \/ content.kind # "yaml"
       \/ content.id.text \in Numbers \cup NeedsQuotes /\ ~content.id.quoted
    THEN Refused("invalid_config")
    ELSE [kind |-> "config", id |-> content.id.text,
          mux |-> content.mux, agent |-> content.agent]

(* A name resolves in the registry when it is builtin or in the project.   *)
Resolves(name, section, builtin) ==
    name \in Range(builtin) \cup section.templates

(* One category of the wizard: what was ticked, with the default of the    *)
(* command line locked in, and the default chosen among it.                *)
Ticked(fixed, chosen) == chosen \cup ({fixed} \ {None})
Highlighted(builtin, existing, selected) ==
    IF existing \in selected THEN existing
    ELSE builtin[CHOOSE i \in DOMAIN builtin :
                    /\ builtin[i] \in selected
                    /\ \A j \in 1 .. i - 1 : builtin[j] \notin selected]
ResolveCategory(builtin, existing, fixed, chosen) ==
    LET selected == Ticked(fixed, chosen)
    IN  IF fixed # None THEN {Section(fixed, selected)}
        ELSE IF Cardinality(selected) = 1
        THEN {Section(Highlighted(builtin, existing, selected), selected)}
        ELSE {Section(d, selected) : d \in selected}

(* The Config that init writes; an unknown name is refused.                *)
MaterializeInitConfig(id, mux, agent) ==
    IF \/ ~(agent.templates \cup {agent.default} \subseteq Range(BuiltinAgents))
       \/ ~(mux.templates \cup {mux.default} \subseteq Range(BuiltinMuxes))
    THEN Refused("invalid_input")
    ELSE [kind |-> "config", id |-> id,
          mux |-> Section(mux.default, mux.templates \cup {mux.default}),
          agent |-> Section(agent.default, agent.templates \cup {agent.default})]

DefaultMux == Section("herdr", {})
DefaultAgent == Section("claude", {})

----------------------------------------------------------------------------
(* .gitignore: the rules that keep tokens out of Git.                      *)
RuntimeGitignoreRules ==
    <<".asem/sessions/", ".asem/current-session*.json", ".asem/tokens/">>
RulesHeader == "# asem runtime state"
Blank == ""

MissingRules(lines) ==
    LET Unless(rule) == IF rule \in Range(lines) THEN <<>> ELSE <<rule>>
        rules == RuntimeGitignoreRules
    IN  Unless(rules[1]) \o Unless(rules[2]) \o Unless(rules[3])

EnsureGitignoreRules(lines) ==
    IF MissingRules(lines) = <<>> THEN lines
    ELSE lines \o (IF lines = <<>> THEN <<>> ELSE <<Blank>>)
               \o <<RulesHeader>> \o MissingRules(lines)

----------------------------------------------------------------------------
(* The Integration Targets: file and servers key of each, "" where the     *)
(* scope is refused, and the shape of the entry.                           *)
Target(key, global, workspace, shape) ==
    [key |-> key, global |-> global, workspace |-> workspace, shape |-> shape]

JsonMcpTargets ==
    [pi |-> Target("mcpServers", "~/.config/mcp/mcp.json", ".mcp.json", "command"),
     claudecode |-> Target("mcpServers", "~/.claude.json", ".mcp.json", "command"),
     jcode |-> Target("servers", "~/.jcode/mcp.json", ".jcode/mcp.json", "shared"),
     opencode |-> Target("mcp", "~/.config/opencode/opencode.json",
                         "opencode.json", "local array"),
     antigravity |-> Target("mcpServers", "~/.gemini/antigravity-cli/mcp_config.json",
                            ".agents/mcp_config.json", "env"),
     copilotvscode |-> Target("servers", "", ".vscode/mcp.json", "stdio"),
     copilotcli |-> Target("mcpServers", "~/.copilot/mcp-config.json", "", "local tools")]

SkillFile(global, workspace) == [global |-> global, workspace |-> workspace]
SkillTargets ==
    [pi |-> SkillFile("~/.pi/agent/skills", ".pi/skills"),
     claudecode |-> SkillFile("~/.claude/skills", ".claude/skills"),
     codex |-> SkillFile("~/.codex/skills", ""),
     opencode |-> SkillFile("~/.config/opencode/skills", ".opencode/skills"),
     jcode |-> SkillFile("~/.jcode/skills", ".jcode/skills"),
     antigravity |-> SkillFile("~/.gemini/antigravity-cli/skills", ".agents/skills"),
     copilotvscode |-> SkillFile("~/.copilot/skills", ".github/skills"),
     copilotcli |-> SkillFile("~/.copilot/skills", ".github/skills")]

CodexFile == "~/.codex/config.toml"

(* Where a target is installed, or the refusal.                            *)
ResolveTarget(table, target, global) ==
    IF target \notin DOMAIN table THEN Refused("unknown_target")
    ELSE LET path == IF global THEN table[target].global ELSE table[target].workspace
         IN  IF path = "" THEN Refused("unsupported_scope")
             ELSE [kind |-> "path", path |-> path]
ResolveMcp(target, global) ==
    IF target # "codex" THEN ResolveTarget(JsonMcpTargets, target, global)
    ELSE IF global THEN [kind |-> "path", path |-> CodexFile]
    ELSE Refused("unsupported_scope")

----------------------------------------------------------------------------
(* A JSON configuration: under each key no value, a value that is no       *)
(* object, or a set of <<server, entry>>.                                  *)
ServerKeys == {"mcpServers", "servers", "mcp"}
NoServers == [is |-> "missing", has |-> {}]
NotAnObject == [is |-> "other", has |-> {}]
ServerMap(entries) == [is |-> "map", has |-> entries]
JsonObject(at) == [kind |-> "json", at |-> at]
EmptyJson == JsonObject([k \in ServerKeys |-> NoServers])

ReadJsonObject(content) ==
    IF content.kind = "absent" THEN EmptyJson
    ELSE IF content.kind # "json" THEN Refused("invalid_config")
    ELSE content

(* mutant: the servers of the file are replaced by the one of asem         *)
ReplacesTheServers(target, content) ==
    LET config == ReadJsonObject(content)
        adapter == JsonMcpTargets[target]
    IN  IF IsRefused(config) THEN config
        ELSE [config EXCEPT !.at[adapter.key] = ServerMap({<<"asem", adapter.shape>>})]

InstallJson(target, content) ==
    LET config == ReadJsonObject(content)
        adapter == JsonMcpTargets[target]
    IN  IF IsRefused(config) THEN config
        ELSE IF config.at[adapter.key].is = "other" THEN Refused("invalid_config")
        ELSE [config EXCEPT !.at[adapter.key] =
                ServerMap({e \in @.has : e[1] # "asem"} \cup {<<"asem", adapter.shape>>})]

----------------------------------------------------------------------------
(* The TOML configuration of codex, line by line.                          *)
AsemTable == "[mcp_servers.asem]"
AsemTableNoted == "[mcp_servers.asem] # note"
AsemEnv == "[mcp_servers.asem.env]"
ParentTable == "[mcp_servers]"
ParentTableNoted == "[mcp_servers] # note"
OtherTable == "[other]"
AsemKey == "asem = {}"
DottedKey == "mcp_servers.asem.command = ''"
OldKey == "command = 'old'"
OtherKey == "key = 1"
Comment == "# comment"

(* The noted ones are to TOML the header without the note, to asem some    *)
(* other one.  They stand for every spelling but the one asem looks for:   *)
(* with a comment behind it, with spaces or quotes inside.                 *)
Headers == {AsemTable, AsemTableNoted, AsemEnv, ParentTable, ParentTableNoted,
            OtherTable}
RenderedAsemTable == <<AsemTable, "command = 'asem'", "args = ['mcp']">>

(* The header of the table a line is in, Blank before the first one.       *)
TableAt(lines, i) ==
    LET headers == {j \in 1 .. i : lines[j] \in Headers}
    IN  IF headers = {} THEN Blank
        ELSE lines[CHOOSE j \in headers : \A k \in headers : k <= j]

HasUnsafeAsemDefinition(lines) ==
    \E i \in DOMAIN lines :
        \/ lines[i] = DottedKey
        \/ lines[i] = AsemKey /\ TableAt(lines, i) = ParentTable

(* The lines of the table from its header to the line before the next one. *)
TableEnd(lines, start) ==
    LET later == {j \in start + 1 .. Len(lines) : lines[j] \in Headers}
    IN  IF later = {} THEN Len(lines) + 1
        ELSE CHOOSE j \in later : \A k \in later : j <= k

UpsertCodexAsemTable(lines) ==
    IF AsemTable \notin Range(lines)
    THEN (IF lines = <<>> THEN <<>> ELSE Append(lines, Blank)) \o RenderedAsemTable
    ELSE LET start == CHOOSE i \in DOMAIN lines :
                        lines[i] = AsemTable /\ AsemTable \notin Range(SubSeq(lines, 1, i - 1))
         IN  SubSeq(lines, 1, start - 1) \o RenderedAsemTable
             \o SubSeq(lines, TableEnd(lines, start), Len(lines))

(* mutant: the parent-table and dotted forms are not looked for            *)
InstallCodexBlindly(content) ==
    LET lines == IF content.kind = "absent" THEN <<>> ELSE content.lines
    IN  [kind |-> "toml", lines |-> UpsertCodexAsemTable(lines)]

InstallCodex(content) ==
    LET lines == IF content.kind = "absent" THEN <<>> ELSE content.lines
    IN  IF AsemTable \notin Range(lines) /\ HasUnsafeAsemDefinition(lines)
        THEN Refused("invalid_config")
        ELSE [kind |-> "toml", lines |-> UpsertCodexAsemTable(lines)]

----------------------------------------------------------------------------
(* Agent Profiles: the builtin ones set neither an Agent nor a model.      *)
Profile(id, agent, model) == [id |-> id, agent |-> agent, model |-> model]
BuiltinProfiles == {Profile("reviewer", None, None)}

Over(nearer, farther) ==
    nearer \cup {p \in farther : \A q \in nearer : q.id # p.id}

ResolveProfiles(project, user) == Over(project, Over(user, BuiltinProfiles))

(* mutant: the model of the profile follows it to any Agent                *)
ModelLeaks(input, profile) == IF input.model # None THEN input.model ELSE profile.model

ResolveModel(input, profile) ==
    IF input.model # None THEN input.model
    ELSE IF input.agent # None /\ input.agent # profile.agent THEN None
    ELSE profile.model

ResolveAgent(input, profile, config) ==
    IF input.agent # None THEN input.agent
    ELSE IF profile.agent # None THEN profile.agent
    ELSE config.agent.default

TakesNoModel == {"agy"}

----------------------------------------------------------------------------
(* What a file may contain.  A text file is its lines, also one that asem  *)
(* cannot make anything of.                                                *)
Sections == [default : STRING, templates : SUBSET STRING]
Servers ==
    [is : {"missing", "other"}, has : {{}}]
    \cup [is : {"map"}, has : SUBSET (STRING \X STRING)]
Profiles == [id : STRING, agent : STRING, model : STRING]

Texts(kind) == {Absent} \cup [kind : {kind}, lines : Seq(STRING)]
Contents ==
    {Absent} \cup [kind : {"broken"}]
    \cup [kind : {"yaml"}, id : [text : STRING, quoted : BOOLEAN],
          mux : Sections, agent : Sections]
    \cup [kind : {"json"}, at : [ServerKeys -> Servers]]
    \cup [kind : {"skill"}, current : BOOLEAN]
    \cup [kind : {"dir"}, files : Seq(Profiles)]
================================================================================
