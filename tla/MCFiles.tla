------------------------------- MODULE MCFiles -------------------------------
(* Two processes; every scenario gives them jobs and the files they meet.   *)
EXTENDS Files, TLC

CONSTANTS p1, p2

TwoJobs(a, b) == p1 :> a @@ p2 :> b
Scenario(twoJobs, contents) == [jobs |-> twoJobs, files |-> contents]

InitJob(id) == [Job("init") EXCEPT !.id = id]
Chosen(id, agent, mux) == [InitJob(id) EXCEPT !.agent = agent, !.mux = mux]
Asked(job) == [job EXCEPT !.interactive = TRUE, !.tty = TRUE]
Mcp(target, global) == [Job("mcp") EXCEPT !.target = target, !.global = global]
Skills(target, global) == [Job("skills") EXCEPT !.target = target, !.global = global]
Launch(agent, model, profile) ==
    [Job("launch") EXCEPT !.agent = agent, !.model = model, !.profile = profile]
Idle == Skills("nobody", TRUE)

Broken == [kind |-> "broken"]
Lines(lines) == [kind |-> "lines", lines |-> lines]
Toml(lines) == [kind |-> "toml", lines |-> lines]
Dir(profiles) == [kind |-> "dir", files |-> profiles]
Team == RenderConfig("team: one", DefaultMux, Section("agy", {}))
WithServers(key, value) == [EmptyJson EXCEPT !.at[key] = value]

Ignores == {Absent, Lines(<<"node_modules/">>), Lines(<<"a", ".asem/tokens/">>),
            Lines(RuntimeGitignoreRules)}
Jsons == {Absent, Broken}
    \cup {WithServers("mcpServers", v) :
            v \in {NotAnObject, ServerMap({<<"asem", "old">>, <<"other", "x">>})}}
    \cup {WithServers("servers", ServerMap({<<"other", "x">>}))}

TomlLines == {AsemTable, AsemTableNoted, AsemEnv, ParentTable, ParentTableNoted,
              OtherTable, AsemKey, DottedKey, OldKey, OtherKey, Comment}
Tomls == {Toml(l) : l \in {t \in UNION {[1 .. n -> TomlLines] : n \in 1 .. 3} :
                              Definitions(t) <= 1}}
SomeTomls == {Absent, Toml(<<AsemTable, OldKey, OtherTable, OtherKey>>),
              Toml(<<OtherTable, Comment>>), Toml(<<ParentTable, AsemKey>>)}

UserDirs == {Absent, Dir(<<Profile("p", "claude", "opus"), Profile("reviewer", "pi", None)>>)}
ProjectDirs ==
    {Absent, Broken, Dir(<<Profile("p", None, "opus")>>), Dir(<<Profile("p", "pi", None)>>),
     Dir(<<Profile("p", "pi", "x"), Profile("p", "agy", None)>>),
     Dir(<<Profile("p", "pi", "x"), Profile("reviewer", "agy", None)>>)}

InitJobs == {InitJob(None), InitJob("w"), InitJob("team: one"), Chosen("w", "pi", "tmux"),
             Chosen("w", "nobody", "tmux"), [InitJob("w") EXCEPT !.interactive = TRUE],
             Asked(Chosen("w", None, "rmux"))}
InitPairs == {TwoJobs(InitJob("w"), b) : b \in InitJobs}
    \cup {TwoJobs(Asked(Chosen("w", "kimi", None)), b) : b \in {Idle, InitJob("team: one")}}

Inits == {Scenario(j, Yaml :> y @@ Ignore :> i) :
            j \in InitPairs, y \in {Absent, Broken}, i \in Ignores}
Shared == {Scenario(TwoJobs(Mcp(a, FALSE), Mcp(b, FALSE)), (".mcp.json") :> f) :
            a, b \in {"pi", "claudecode"}, f \in Jsons}
Alone == {Scenario(TwoJobs(Mcp(t, g), Idle), <<>>) :
            t \in DOMAIN JsonMcpTargets \cup {"codex", "nobody"}, g \in BOOLEAN}
    \cup {Scenario(TwoJobs(Skills(t, g), Skills("copilotcli", FALSE)), <<>>) :
            t \in DOMAIN SkillTargets, g \in BOOLEAN}
    \cup {Scenario(TwoJobs(Mcp("jcode", TRUE), Idle), ("~/.jcode/mcp.json") :> f) : f \in Jsons}
Codex == {Scenario(TwoJobs(Mcp("codex", TRUE), Idle), CodexFile :> f) : f \in Tomls}
    \cup {Scenario(TwoJobs(Mcp("codex", TRUE), Mcp("codex", TRUE)), CodexFile :> f) :
            f \in SomeTomls}
Launches ==
    {Scenario(TwoJobs(Launch(a, m, q), j),
              Yaml :> y @@ ProjectAgents :> d @@ UserAgents :> u) :
        a \in {None, "claude", "agy", "nobody"}, m \in {None, "sonnet"},
        q \in {None, "p", "reviewer"}, j \in {Idle, InitJob("w")}, y \in {Absent, Team},
        d \in ProjectDirs, u \in UserDirs}
McScenarios == Inits \cup Shared \cup Alone \cup Codex \cup Launches

McEditsOf(path) ==
    CASE path = Yaml -> {Absent, Team}
      [] path = Ignore -> {Absent, Lines(<<"node_modules/">>)}
      [] path = ".mcp.json" -> {Absent, Broken, WithServers("mcpServers", ServerMap({<<"new", "y">>}))}
      [] path = CodexFile -> {Absent, Toml(<<ParentTable, AsemKey>>), Toml(<<OtherTable>>)}
      [] path = ProjectAgents -> {Absent, Dir(<<Profile("p", "agy", None)>>),
                                  Dir(<<Profile("q", None, None), Profile("p", "agy", "y")>>)}
      [] path = UserAgents -> {Dir(<<Profile("p", "kimi", "k2")>>)}
      [] OTHER -> {}
McSelections == {{"claude"}, {"claude", "agy"}, {"herdr"}, {"rmux", "tmux"}}

(* Values that the written file does not give back.                         *)
McScalars ==
    {Scenario(TwoJobs(InitJob("2024"), Idle), <<>>),
     Scenario(TwoJobs(Chosen("w", "claude", "zellij"), Idle), <<>>)}

(* What the theorems ask of the names and of the files.                     *)
ASSUME McNamesAssumption == PlainNames(McScenarios)
ASSUME McFilesAssumption == TidyFiles(McScenarios \cup McScalars)
===============================================================================
