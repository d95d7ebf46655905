---------------------------- MODULE Files_Proofs -----------------------------
(***************************************************************************)
(* Theorems about Files, for any processes, jobs, file contents, edits and *)
(* faults.                                                                 *)
(***************************************************************************)
EXTENDS Files, FiniteSetTheorems, WellFoundedInduction, TLAPS

(***************************************************************************)
(* Sequences, whatever they hold.                                          *)
(***************************************************************************)
IsSeq(s) == \E S : s \in Seq(S)

LEMMA Lengths ==
    ASSUME NEW s, IsSeq(s)
    PROVE  Len(s) \in Nat /\ DOMAIN s = 1 .. Len(s)
  BY DEF IsSeq

LEMMA NoElement == IsSeq(<<>>) /\ Len(<<>>) = 0
<1>1. <<>> \in Seq({})
  OBVIOUS
<1>. QED  BY <1>1 DEF IsSeq

LEMMA OneElement ==
    ASSUME NEW x
    PROVE  IsSeq(<<x>>) /\ Len(<<x>>) = 1 /\ <<x>>[1] = x
<1>1. <<x>> \in Seq({x})
  OBVIOUS
<1>. QED  BY <1>1 DEF IsSeq

(* u is s with t behind it.                                                *)
Joins(u, s, t) ==
    /\ IsSeq(u) /\ Len(u) = Len(s) + Len(t)
    /\ \A i \in 1 .. Len(s) : u[i] = s[i]
    /\ \A i \in 1 .. Len(t) : u[Len(s) + i] = t[i]

LEMMA Joined ==
    ASSUME NEW s, NEW t, IsSeq(s), IsSeq(t)
    PROVE  Joins(s \o t, s, t)
<1>1. PICK S, T : s \in Seq(S) /\ t \in Seq(T)
  BY DEF IsSeq
<1>2. s \in Seq(S \cup T) /\ t \in Seq(S \cup T)
  BY <1>1
<1>3. s \o t \in Seq(S \cup T) /\ Len(s \o t) = Len(s) + Len(t)
  BY <1>2
<1>4. /\ \A i \in 1 .. Len(s) : (s \o t)[i] = s[i]
      /\ \A i \in 1 .. Len(t) : (s \o t)[Len(s) + i] = t[i]
  BY <1>2
<1>. QED  BY <1>3, <1>4 DEF IsSeq, Joins

LEMMA Cut ==
    ASSUME NEW s, IsSeq(s), NEW m \in Nat \ {0}, NEW n \in Nat, n <= Len(s), m <= n + 1
    PROVE  /\ IsSeq(SubSeq(s, m, n)) /\ Len(SubSeq(s, m, n)) = n + 1 - m
           /\ \A i \in 1 .. n + 1 - m : SubSeq(s, m, n)[i] = s[m + i - 1]
<1>1. PICK S : s \in Seq(S)
  BY DEF IsSeq
<1>2. SubSeq(s, m, n) \in Seq(S) /\ Len(SubSeq(s, m, n)) = n + 1 - m
  BY <1>1
<1>3. \A i \in 1 .. n + 1 - m : SubSeq(s, m, n)[i] = s[m + i - 1]
  BY <1>1
<1>. QED  BY <1>2, <1>3 DEF IsSeq

(***************************************************************************)
(* What a file may hold, and what the operators on contents return.        *)
(***************************************************************************)
IsSection(s) == s = Section(s.default, s.templates)

(* A config as the wizard and the command line select it.                  *)
IsConfig(c) ==
    /\ c = [kind |-> "config", id |-> c.id, mux |-> c.mux, agent |-> c.agent]
    /\ IsSection(c.mux) /\ IsSection(c.agent)

IsYaml(c) ==
    /\ c = [kind |-> "yaml", id |-> c.id, mux |-> c.mux, agent |-> c.agent]
    /\ c.id = [text |-> c.id.text, quoted |-> c.id.quoted]
    /\ IsSection(c.mux) /\ IsSection(c.agent)

IsJson(c) ==
    /\ c = JsonObject(c.at)
    /\ c.at = [k \in ServerKeys |-> [is |-> c.at[k].is, has |-> c.at[k].has]]
    /\ \A k \in ServerKeys : \/ c.at[k].is \in {"missing", "other"} /\ c.at[k].has = {}
                            \/ c.at[k].is = "map"

IsText(c) == c = [kind |-> c.kind, lines |-> c.lines] /\ IsSeq(c.lines)
IsDir(c) == c = [kind |-> "dir", files |-> c.files] /\ IsSeq(c.files)

(* No file is torn, and every one has the form of what it holds.           *)
Holds(path, c) ==
    \/ c = Absent
    \/ path = Ignore /\ IsText(c) /\ c.kind = "lines"
    \/ path = CodexFile /\ IsText(c) /\ c.kind = "toml"
    \/ /\ path \notin {Ignore, CodexFile}
       /\ \/ c = [kind |-> "broken"]
          \/ c.kind = "yaml" /\ IsYaml(c)
          \/ c.kind = "json" /\ IsJson(c)
          \/ c.kind = "skill"
          \/ c.kind = "dir" /\ IsDir(c)

LEMMA GivenHolds ==
    ASSUME NEW path, NEW c \in ContentsOf(path)
    PROVE  Holds(path, c)
<1>1. \A s \in Sections : IsSection(s)
  BY DEF Sections, IsSection, Section
<1>2. \A kind : \A d \in [kind : {kind}, lines : Seq(STRING)] : IsText(d) /\ d.kind = kind
  BY DEF IsText, IsSeq
<1>3. CASE path = Ignore
  BY <1>3, <1>2 DEF Holds, ContentsOf, Texts
<1>4. CASE path # Ignore /\ path = CodexFile
  BY <1>4, <1>2 DEF Holds, ContentsOf, Texts
<1>5. CASE path \notin {Ignore, CodexFile}
  <2>1. c \in Contents
    BY <1>5 DEF ContentsOf
  <2>2. CASE c = Absent
    BY <2>2 DEF Holds
  <2>3. CASE c \in [kind : {"broken"}]
    BY <2>3, <1>5 DEF Holds
  <2>4. CASE c \in [kind : {"yaml"}, id : [text : STRING, quoted : BOOLEAN],
                    mux : Sections, agent : Sections]
    BY <2>4, <1>1, <1>5 DEF Holds, IsYaml
  <2>5. CASE c \in [kind : {"json"}, at : [ServerKeys -> Servers]]
    <3>1. c.kind = "json" /\ c = JsonObject(c.at)
      BY <2>5 DEF JsonObject
    <3>2. \A k \in ServerKeys : c.at[k] = [is |-> c.at[k].is, has |-> c.at[k].has]
      BY <2>5 DEF Servers
    <3>3. c.at = [k \in ServerKeys |-> [is |-> c.at[k].is, has |-> c.at[k].has]]
      BY <2>5, <3>2
    <3>4. \A k \in ServerKeys : \/ c.at[k].is \in {"missing", "other"} /\ c.at[k].has = {}
                               \/ c.at[k].is = "map"
      BY <2>5 DEF Servers
    <3>5. IsJson(c)
      BY <3>1, <3>3, <3>4 DEF IsJson
    <3>. QED  BY <3>1, <3>5, <1>5 DEF Holds
  <2>6. CASE c \in [kind : {"skill"}, current : BOOLEAN]
    BY <2>6, <1>5 DEF Holds
  <2>7. CASE c \in [kind : {"dir"}, files : Seq(Profiles)]
    BY <2>7, <1>5 DEF Holds, IsDir, IsSeq
  <2>. QED  BY <2>1, <2>2, <2>3, <2>4, <2>5, <2>6, <2>7 DEF Contents
<1>. QED  BY <1>3, <1>4, <1>5

LEMMA HeldIsWhole ==
    ASSUME NEW path, NEW c, Holds(path, c)
    PROVE  c # Torn
  BY DEF Holds, Torn, Absent

LEMMA SectionsAre ==
    ASSUME NEW d, NEW t
    PROVE  IsSection(Section(d, t)) /\ Section(d, t).default = d /\ Section(d, t).templates = t
  BY DEF Section, IsSection

LEMMA DefaultsAre == IsSection(DefaultMux) /\ IsSection(DefaultAgent)
  BY SectionsAre DEF DefaultMux, DefaultAgent

(* What init writes is a config file.                                      *)
LEMMA RenderIs ==
    ASSUME NEW id, NEW mux, NEW agent, IsSection(mux), IsSection(agent)
    PROVE  /\ IsYaml(RenderConfig(id, mux, agent))
           /\ RenderConfig(id, mux, agent).kind = "yaml"
<1>. DEFINE fold(s) == [s EXCEPT !.templates = {YamlTemplate(t) : t \in @}]
<1>1. \A s : IsSection(s) => IsSection(fold(s))
  BY DEF IsSection, Section
<1>2. RenderConfig(id, mux, agent) =
         [kind |-> "yaml", id |-> YamlScalar(id), mux |-> fold(mux), agent |-> fold(agent)]
  BY DEF RenderConfig
<1>3. YamlScalar(id) = [text |-> YamlScalar(id).text, quoted |-> YamlScalar(id).quoted]
  BY DEF YamlScalar
<1>. HIDE DEF fold
<1>. QED  BY <1>1, <1>2, <1>3 DEF IsYaml

(* A selection of builtin templates is a config; any other is refused.     *)
LEMMA SelectionIs ==
    ASSUME NEW id, NEW mux, NEW agent
    PROVE  /\ \/ IsConfig(MaterializeInitConfig(id, mux, agent))
              \/ IsRefused(MaterializeInitConfig(id, mux, agent))
           /\ /\ agent.templates \cup {agent.default} \subseteq Range(BuiltinAgents)
              /\ mux.templates \cup {mux.default} \subseteq Range(BuiltinMuxes)
              => IsConfig(MaterializeInitConfig(id, mux, agent))
<1>. DEFINE made == [kind |-> "config", id |-> id,
          mux |-> Section(mux.default, mux.templates \cup {mux.default}),
          agent |-> Section(agent.default, agent.templates \cup {agent.default})]
<1>2. IsConfig(made)
  BY SectionsAre DEF IsConfig
<1>3. IsRefused(Refused("invalid_input"))
  BY DEF IsRefused, Refused
<1>. QED  BY <1>2, <1>3 DEF MaterializeInitConfig

(***************************************************************************)
(* .gitignore.                                                             *)
(***************************************************************************)
Never(x, s) == \A i \in DOMAIN s : s[i] # x
Once(x, s) == \E i \in DOMAIN s : s[i] = x /\ \A j \in DOMAIN s : s[j] = x => j = i
NotTwice(x, s) == \A i, j \in DOMAIN s : s[i] = x /\ s[j] = x => i = j

LEMMA NeverJoined ==
    ASSUME NEW x, NEW s, NEW t, IsSeq(s), IsSeq(t), Never(x, s), Never(x, t)
    PROVE  Never(x, s \o t)
<1>1. /\ Len(s) \in Nat /\ DOMAIN s = 1 .. Len(s)
      /\ Len(t) \in Nat /\ DOMAIN t = 1 .. Len(t)
      /\ DOMAIN (s \o t) = 1 .. Len(s) + Len(t)
  BY Lengths, Joined DEF Joins
<1>2. \A i \in 1 .. Len(s) : (s \o t)[i] # x
  BY <1>1, Joined DEF Never, Joins
<1>3. \A i \in 1 .. Len(t) : (s \o t)[Len(s) + i] # x
  BY <1>1, Joined DEF Never, Joins
<1>4. \A i \in 1 .. Len(s) + Len(t) : i \in 1 .. Len(s) \/ i - Len(s) \in 1 .. Len(t)
  BY <1>1
<1>5. \A i \in 1 .. Len(s) + Len(t) : Len(s) + (i - Len(s)) = i
  BY <1>1
<1>. QED  BY <1>1, <1>2, <1>3, <1>4, <1>5 DEF Never

LEMMA OnceJoined ==
    ASSUME NEW x, NEW s, NEW t, IsSeq(s), IsSeq(t)
    PROVE  /\ Once(x, s) /\ Never(x, t) => Once(x, s \o t)
           /\ Never(x, s) /\ Once(x, t) => Once(x, s \o t)
<1>1. /\ Len(s) \in Nat /\ DOMAIN s = 1 .. Len(s)
      /\ Len(t) \in Nat /\ DOMAIN t = 1 .. Len(t)
      /\ DOMAIN (s \o t) = 1 .. Len(s) + Len(t)
  BY Lengths, Joined DEF Joins
<1>2. /\ \A i \in 1 .. Len(s) : (s \o t)[i] = s[i]
      /\ \A i \in 1 .. Len(t) : (s \o t)[Len(s) + i] = t[i]
  BY Joined DEF Joins
<1>3. \A i \in 1 .. Len(s) + Len(t) :
         \/ i \in 1 .. Len(s) /\ (s \o t)[i] = s[i]
         \/ \E j \in 1 .. Len(t) : i = Len(s) + j /\ (s \o t)[i] = t[j]
  <2>. SUFFICES ASSUME NEW i \in 1 .. Len(s) + Len(t), i \notin 1 .. Len(s)
                PROVE  \E j \in 1 .. Len(t) : i = Len(s) + j /\ (s \o t)[i] = t[j]
    BY <1>2
  <2>1. i - Len(s) \in 1 .. Len(t) /\ i = Len(s) + (i - Len(s))
    BY <1>1
  <2>. QED  BY <2>1, <1>2
<1>4. ASSUME Once(x, s), Never(x, t)  PROVE Once(x, s \o t)
  <2>1. PICK i \in 1 .. Len(s) : s[i] = x /\ \A j \in 1 .. Len(s) : s[j] = x => j = i
    BY <1>4, <1>1 DEF Once
  <2>2. i \in 1 .. Len(s) + Len(t) /\ (s \o t)[i] = x
    BY <2>1, <1>1, <1>2
  <2>3. \A k \in 1 .. Len(s) + Len(t) : (s \o t)[k] = x => k = i
    BY <1>3, <2>1, <1>4, <1>1 DEF Never
  <2>. QED  BY <2>2, <2>3, <1>1 DEF Once
<1>5. ASSUME Never(x, s), Once(x, t)  PROVE Once(x, s \o t)
  <2>1. PICK i \in 1 .. Len(t) : t[i] = x /\ \A j \in 1 .. Len(t) : t[j] = x => j = i
    BY <1>5, <1>1 DEF Once
  <2>2. Len(s) + i \in 1 .. Len(s) + Len(t) /\ (s \o t)[Len(s) + i] = x
    BY <2>1, <1>1, <1>2
  <2>3. \A k \in 1 .. Len(s) + Len(t) : (s \o t)[k] = x => k = Len(s) + i
    BY <1>3, <2>1, <1>5, <1>1 DEF Never
  <2>. QED  BY <2>2, <2>3, <1>1 DEF Once
<1>. QED  BY <1>4, <1>5

LEMMA InOneElement ==
    ASSUME NEW x, NEW y
    PROVE  /\ x # y => Never(x, <<y>>)
           /\ Once(x, <<x>>)
           /\ Never(x, <<>>)
<1>1. \A z : DOMAIN <<z>> = {1} /\ <<z>>[1] = z
  OBVIOUS
<1>2. DOMAIN <<>> = {}
  OBVIOUS
<1>. QED  BY <1>1, <1>2 DEF Never, Once

LEMMA OneTime ==
    ASSUME NEW x, NEW s, Once(x, s)
    PROVE  Times(x, s) = 1
<1>1. PICK i \in DOMAIN s : s[i] = x /\ \A j \in DOMAIN s : s[j] = x => j = i
  BY DEF Once
<1>2. {j \in DOMAIN s : s[j] = x} = {i}
  BY <1>1
<1>. QED  BY <1>2, FS_Singleton DEF Times

LEMMA OnceOrNever ==
    ASSUME NEW x, NEW s, NotTwice(x, s)
    PROVE  IF x \in Range(s) THEN Once(x, s) ELSE Never(x, s)
  BY DEF NotTwice, Once, Never, Range

Rules == Range(RuntimeGitignoreRules)

(* Missing rules are appended to whatever lines there are; if no line      *)
(* repeats a rule, every rule is then there once.                          *)
LEMMA RulesAreAdded ==
    ASSUME NEW lines, IsSeq(lines)
    PROVE  /\ IsSeq(EnsureGitignoreRules(lines))
           /\ (\A rule \in Rules : NotTwice(rule, lines))
              => \A rule \in Rules : Once(rule, EnsureGitignoreRules(lines))
<1>. DEFINE unless(rule) == IF rule \in Range(lines) THEN <<>> ELSE <<rule>>
            missing == MissingRules(lines)
            gap == IF lines = <<>> THEN <<>> ELSE <<Blank>>
<1>1. PICK one, two, three :
         /\ RuntimeGitignoreRules = <<one, two, three>>
         /\ one # two /\ one # three /\ two # three
         /\ Blank \notin {one, two, three} /\ RulesHeader \notin {one, two, three}
  <2>. DEFINE a == ".asem/sessions/"
              b == ".asem/current-session*.json"
              c == ".asem/tokens/"
  <2>1. a # b /\ a # c /\ b # c /\ Blank \notin {a, b, c} /\ RulesHeader \notin {a, b, c}
    BY DEF Blank, RulesHeader
  <2>2. RuntimeGitignoreRules = <<a, b, c>>
    BY Zenon DEF RuntimeGitignoreRules
  <2>. HIDE DEF a, b, c
  <2>. QED  BY <2>1, <2>2
<1>2. Rules = {one, two, three}
  <2>1. DOMAIN <<one, two, three>> = {1, 2, 3}
    OBVIOUS
  <2>. QED  BY <1>1, <2>1 DEF Rules, Range
<1>3. missing = unless(one) \o unless(two) \o unless(three)
  BY <1>1 DEF MissingRules
<1>4. ASSUME NEW r
      PROVE  /\ IsSeq(unless(r))
             /\ \A x : x # r => Never(x, unless(r))
             /\ IF r \in Range(lines) THEN Never(r, unless(r)) ELSE Once(r, unless(r))
  BY NoElement, OneElement, InOneElement
<1>5. IsSeq(gap) /\ \A x : x # Blank => Never(x, gap)
  BY NoElement, OneElement, InOneElement
<1>6. IsSeq(<<RulesHeader>>) /\ \A x : x # RulesHeader => Never(x, <<RulesHeader>>)
  BY OneElement, InOneElement
<1>. HIDE DEF unless, gap, missing
<1>7. IsSeq(unless(one) \o unless(two)) /\ IsSeq(missing)
  BY <1>3, <1>4, Joined DEF Joins
<1>8. ASSUME NEW x \in Rules
      PROVE  IF x \in Range(lines) THEN Never(x, missing) ELSE Once(x, missing)
  <2>1. CASE x = one
    <3>1. Never(x, unless(two)) /\ Never(x, unless(three))
      BY <2>1, <1>1, <1>4
    <3>2. IF x \in Range(lines) THEN Never(x, unless(one) \o unless(two))
                                ELSE Once(x, unless(one) \o unless(two))
      BY <2>1, <3>1, <1>4, OnceJoined, NeverJoined
    <3>. QED  BY <3>1, <3>2, <1>3, <1>4, <1>7, OnceJoined, NeverJoined
  <2>2. CASE x = two
    <3>1. Never(x, unless(one)) /\ Never(x, unless(three))
      BY <2>2, <1>1, <1>4
    <3>2. IF x \in Range(lines) THEN Never(x, unless(one) \o unless(two))
                                ELSE Once(x, unless(one) \o unless(two))
      BY <2>2, <3>1, <1>4, OnceJoined, NeverJoined
    <3>. QED  BY <3>1, <3>2, <1>3, <1>4, <1>7, OnceJoined, NeverJoined
  <2>3. CASE x = three
    <3>1. Never(x, unless(one)) /\ Never(x, unless(two))
      BY <2>3, <1>1, <1>4
    <3>2. Never(x, unless(one) \o unless(two))
      BY <3>1, <1>4, NeverJoined
    <3>. QED  BY <2>3, <3>2, <1>3, <1>4, <1>7, OnceJoined, NeverJoined
  <2>. QED  BY <1>2, <2>1, <2>2, <2>3
<1>9. IsSeq(lines \o gap) /\ IsSeq(lines \o gap \o <<RulesHeader>>)
      /\ IsSeq(lines \o gap \o <<RulesHeader>> \o missing)
  BY <1>5, <1>6, <1>7, Joined DEF Joins
<1>10. EnsureGitignoreRules(lines)
         = IF missing = <<>> THEN lines ELSE lines \o gap \o <<RulesHeader>> \o missing
  BY DEF EnsureGitignoreRules, gap, missing
<1>11. ASSUME NEW x \in Rules, NotTwice(x, lines)
       PROVE  Once(x, EnsureGitignoreRules(lines))
  <2>1. x # Blank /\ x # RulesHeader
    BY <1>1, <1>2
  <2>2. Never(x, gap) /\ Never(x, <<RulesHeader>>)
    BY <2>1, <1>5, <1>6
  <2>3. CASE x \in Range(lines)
    <3>1. Once(x, lines) /\ Never(x, missing)
      BY <2>3, <1>8, <1>11, OnceOrNever
    <3>2. Once(x, lines \o gap)
      BY <3>1, <2>2, <1>5, OnceJoined
    <3>3. Once(x, lines \o gap \o <<RulesHeader>>)
      BY <3>2, <2>2, <1>6, <1>9, OnceJoined
    <3>4. Once(x, lines \o gap \o <<RulesHeader>> \o missing)
      BY <3>1, <3>3, <1>7, <1>9, OnceJoined
    <3>. QED  BY <3>1, <3>4, <1>10
  <2>4. CASE x \notin Range(lines)
    <3>1. Never(x, lines) /\ Once(x, missing)
      BY <2>4, <1>8, <1>11, OnceOrNever
    <3>2. Never(x, lines \o gap)
      BY <3>1, <2>2, <1>5, NeverJoined
    <3>3. Never(x, lines \o gap \o <<RulesHeader>>)
      BY <3>2, <2>2, <1>6, <1>9, NeverJoined
    <3>4. Once(x, lines \o gap \o <<RulesHeader>> \o missing)
      BY <3>1, <3>3, <1>7, <1>9, OnceJoined
    <3>5. missing # <<>>
      BY <3>1 DEF Once
    <3>. QED  BY <3>4, <3>5, <1>10
  <2>. QED  BY <2>3, <2>4
<1>. QED  BY <1>9, <1>10, <1>11

(***************************************************************************)
(* The Integration Targets and their JSON files.                           *)
(***************************************************************************)
JsonPath(target, global) ==
    IF global THEN JsonMcpTargets[target].global ELSE JsonMcpTargets[target].workspace
SkillPath(target, global) ==
    IF global THEN SkillTargets[target].global ELSE SkillTargets[target].workspace

JsonPaths ==
    ({JsonPath(t, TRUE) : t \in DOMAIN JsonMcpTargets}
        \cup {JsonPath(t, FALSE) : t \in DOMAIN JsonMcpTargets}) \ {""}
SkillPaths ==
    ({SkillPath(t, TRUE) : t \in DOMAIN SkillTargets}
        \cup {SkillPath(t, FALSE) : t \in DOMAIN SkillTargets}) \ {""}

(* The key and the shape of the entry that a JSON file is given.           *)
KeyIn(path) ==
    IF path \in {"~/.jcode/mcp.json", ".jcode/mcp.json", ".vscode/mcp.json"} THEN "servers"
    ELSE IF path \in {"~/.config/opencode/opencode.json", "opencode.json"} THEN "mcp"
    ELSE "mcpServers"
ShapeIn(path) ==
    IF path \in {"~/.jcode/mcp.json", ".jcode/mcp.json"} THEN "shared"
    ELSE IF path \in {"~/.config/opencode/opencode.json", "opencode.json"} THEN "local array"
    ELSE IF path \in {"~/.gemini/antigravity-cli/mcp_config.json", ".agents/mcp_config.json"}
    THEN "env"
    ELSE IF path = ".vscode/mcp.json" THEN "stdio"
    ELSE IF path = "~/.copilot/mcp-config.json" THEN "local tools"
    ELSE "command"

SkillFiles ==
    {"~/.pi/agent/skills", ".pi/skills", "~/.claude/skills", ".claude/skills",
     "~/.codex/skills", "~/.config/opencode/skills", ".opencode/skills",
     "~/.jcode/skills", ".jcode/skills", "~/.gemini/antigravity-cli/skills",
     ".agents/skills", "~/.copilot/skills", ".github/skills"}

LEMMA SkillFilesAre == SkillPaths \subseteq SkillFiles
<1>. SUFFICES ASSUME NEW t \in DOMAIN SkillTargets, NEW g \in BOOLEAN, SkillPath(t, g) # ""
              PROVE  SkillPath(t, g) \in SkillFiles
  BY DEF SkillPaths
<1>1. t \in {"pi", "claudecode", "codex", "opencode", "jcode", "antigravity", "copilotvscode", "copilotcli"}
  BY DEF SkillTargets
<1>2. CASE t = "pi"
  BY <1>2 DEF SkillTargets, SkillFile, SkillPath, SkillFiles
<1>3. CASE t = "claudecode"
  BY <1>3 DEF SkillTargets, SkillFile, SkillPath, SkillFiles
<1>4. CASE t = "codex"
  BY <1>4 DEF SkillTargets, SkillFile, SkillPath, SkillFiles
<1>5. CASE t = "opencode"
  BY <1>5 DEF SkillTargets, SkillFile, SkillPath, SkillFiles
<1>6. CASE t = "jcode"
  BY <1>6 DEF SkillTargets, SkillFile, SkillPath, SkillFiles
<1>7. CASE t = "antigravity"
  BY <1>7 DEF SkillTargets, SkillFile, SkillPath, SkillFiles
<1>8. CASE t = "copilotvscode"
  BY <1>8 DEF SkillTargets, SkillFile, SkillPath, SkillFiles
<1>9. CASE t = "copilotcli"
  BY <1>9 DEF SkillTargets, SkillFile, SkillPath, SkillFiles
<1>. QED  BY <1>1, <1>2, <1>3, <1>4, <1>5, <1>6, <1>7, <1>8, <1>9

(* Targets that share a file agree on what they put into it.               *)
LEMMA TargetsAgree ==
    ASSUME NEW t \in DOMAIN JsonMcpTargets, NEW g \in BOOLEAN, JsonPath(t, g) # ""
    PROVE  /\ JsonMcpTargets[t].key = KeyIn(JsonPath(t, g))
           /\ JsonMcpTargets[t].shape = ShapeIn(JsonPath(t, g))
           /\ JsonPath(t, g) \notin {Yaml, Ignore, CodexFile}
           /\ JsonPath(t, g) \notin SkillPaths
           /\ KeyIn(JsonPath(t, g)) \in ServerKeys
<1>1. t \in {"pi", "claudecode", "jcode", "opencode", "antigravity", "copilotvscode", "copilotcli"}
  BY DEF JsonMcpTargets
<1>2. \A p \in SkillPaths : p \in SkillFiles
  BY SkillFilesAre
<1>3. CASE t = "pi"
  BY <1>3, <1>2 DEF JsonMcpTargets, Target, JsonPath, KeyIn, ShapeIn, Yaml, Ignore, CodexFile, ServerKeys,
         SkillFiles
<1>4. CASE t = "claudecode"
  BY <1>4, <1>2 DEF JsonMcpTargets, Target, JsonPath, KeyIn, ShapeIn, Yaml, Ignore, CodexFile, ServerKeys,
         SkillFiles
<1>5. CASE t = "jcode"
  BY <1>5, <1>2 DEF JsonMcpTargets, Target, JsonPath, KeyIn, ShapeIn, Yaml, Ignore, CodexFile, ServerKeys,
         SkillFiles
<1>6. CASE t = "opencode"
  BY <1>6, <1>2 DEF JsonMcpTargets, Target, JsonPath, KeyIn, ShapeIn, Yaml, Ignore, CodexFile, ServerKeys,
         SkillFiles
<1>7. CASE t = "antigravity"
  BY <1>7, <1>2 DEF JsonMcpTargets, Target, JsonPath, KeyIn, ShapeIn, Yaml, Ignore, CodexFile, ServerKeys,
         SkillFiles
<1>8. CASE t = "copilotvscode"
  BY <1>8, <1>2 DEF JsonMcpTargets, Target, JsonPath, KeyIn, ShapeIn, Yaml, Ignore, CodexFile, ServerKeys,
         SkillFiles
<1>9. CASE t = "copilotcli"
  BY <1>9, <1>2 DEF JsonMcpTargets, Target, JsonPath, KeyIn, ShapeIn, Yaml, Ignore, CodexFile, ServerKeys,
         SkillFiles
<1>. QED  BY <1>1, <1>3, <1>4, <1>5, <1>6, <1>7, <1>8, <1>9

LEMMA SkillsApart == SkillPaths \cap ({Yaml, Ignore, CodexFile} \cup JsonPaths) = {}
<1>1. \A p \in SkillPaths : p \in SkillFiles
  BY SkillFilesAre
<1>2. {Yaml, Ignore, CodexFile} \cap SkillFiles = {}
  BY DEF Yaml, Ignore, CodexFile, SkillFiles
<1>3. \A p \in JsonPaths : p \notin SkillPaths
  <2>. SUFFICES ASSUME NEW t \in DOMAIN JsonMcpTargets, NEW g \in BOOLEAN, JsonPath(t, g) # ""
                PROVE  JsonPath(t, g) \notin SkillPaths
    BY Zenon DEF JsonPaths
  <2>. QED  BY TargetsAgree
<1>. QED  BY <1>1, <1>2, <1>3

(* Where an MCP server is installed, unless the target is refused.         *)
LEMMA McpResolves ==
    ASSUME NEW target, NEW global \in BOOLEAN, ~IsRefused(ResolveMcp(target, global))
    PROVE  \/ /\ target = "codex" /\ ResolveMcp(target, global).path = CodexFile
           \/ /\ target # "codex" /\ target \in DOMAIN JsonMcpTargets
              /\ ResolveMcp(target, global).path = JsonPath(target, global)
              /\ JsonPath(target, global) \in JsonPaths
<1>1. IsRefused(Refused("unknown_target")) /\ IsRefused(Refused("unsupported_scope"))
  BY DEF IsRefused, Refused
<1>2. CASE target = "codex"
  BY <1>1, <1>2 DEF ResolveMcp
<1>3. CASE target # "codex"
  <2>1. ResolveMcp(target, global) = ResolveTarget(JsonMcpTargets, target, global)
    BY <1>3 DEF ResolveMcp
  <2>2. /\ target \in DOMAIN JsonMcpTargets
        /\ JsonPath(target, global) # ""
        /\ ResolveTarget(JsonMcpTargets, target, global).path = JsonPath(target, global)
    BY <1>1, <2>1 DEF ResolveTarget, JsonPath
  <2>3. JsonPath(target, global) \in JsonPaths
    BY <2>2 DEF JsonPaths
  <2>. QED  BY <1>3, <2>1, <2>2, <2>3
<1>. QED  BY <1>2, <1>3

LEMMA SkillResolves ==
    ASSUME NEW target, NEW global \in BOOLEAN,
           ~IsRefused(ResolveTarget(SkillTargets, target, global))
    PROVE  ResolveTarget(SkillTargets, target, global).path \in SkillPaths
<1>1. IsRefused(Refused("unknown_target")) /\ IsRefused(Refused("unsupported_scope"))
  BY DEF IsRefused, Refused
<1>2. /\ target \in DOMAIN SkillTargets
      /\ SkillPath(target, global) # ""
      /\ ResolveTarget(SkillTargets, target, global).path = SkillPath(target, global)
  BY <1>1 DEF ResolveTarget, SkillPath
<1>3. SkillPath(target, global) \in SkillPaths
  BY <1>2 DEF SkillPaths
<1>. QED  BY <1>2, <1>3

(* The entry of asem in a JSON file, under the key the file is known by.   *)
HasEntry(c, path) ==
    {e \in c.at[KeyIn(path)].has : e[1] = "asem"} = {<<"asem", ShapeIn(path)>>}

(* new is old with one server map under key: old's other servers and asem. *)
PutsEntry(old, new, key) ==
    /\ key \in ServerKeys /\ old.at[key].is # "other"
    /\ \A k \in ServerKeys \ {key} : new.at[k] = old.at[k]
    /\ new.at[key].is = "map"
    /\ \E entry : /\ entry[1] = "asem"
                  /\ new.at[key].has = {e \in old.at[key].has : e[1] # "asem"} \cup {entry}

LEMMA JsonIsInstalled ==
    ASSUME NEW t \in DOMAIN JsonMcpTargets, NEW g \in BOOLEAN, JsonPath(t, g) # "",
           NEW c, Holds(JsonPath(t, g), c), ~IsRefused(InstallJson(t, c))
    PROVE  /\ InstallJson(t, c).kind = "json" /\ IsJson(InstallJson(t, c))
           /\ HasEntry(InstallJson(t, c), JsonPath(t, g))
           /\ c.kind \in {"absent", "json"} /\ IsJson(ReadJsonObject(c))
           /\ PutsEntry(ReadJsonObject(c), InstallJson(t, c), JsonMcpTargets[t].key)
<1>. DEFINE path == JsonPath(t, g)
            key == JsonMcpTargets[t].key
            config == ReadJsonObject(c)
            old == config.at[key]
            has == {e \in old.has : e[1] # "asem"} \cup {<<"asem", JsonMcpTargets[t].shape>>}
            new == [config EXCEPT !.at[key] = ServerMap(has)]
<1>1. /\ key = KeyIn(path) /\ JsonMcpTargets[t].shape = ShapeIn(path)
      /\ path \notin {Ignore, CodexFile} /\ key \in ServerKeys
  BY TargetsAgree
<1>2. /\ IsRefused(Refused("invalid_config"))
      /\ \A d : d.kind = "json" => ~IsRefused(d)
  BY DEF IsRefused, Refused
<1>3. /\ InstallJson(t, c) = new /\ ~IsRefused(config)
      /\ config.at[key].is # "other"
  BY <1>2 DEF InstallJson
<1>4. config.kind = "json" /\ IsJson(config) /\ c.kind \in {"absent", "json"}
  <2>1. EmptyJson.kind = "json" /\ IsJson(EmptyJson)
    BY DEF EmptyJson, IsJson, JsonObject, NoServers
  <2>2. CASE c.kind = "absent"
    BY <2>1, <2>2 DEF ReadJsonObject
  <2>3. CASE c.kind # "absent"
    <3>1. c.kind = "json" /\ config = c
      BY <2>3, <1>2, <1>3 DEF ReadJsonObject
    <3>2. IsJson(c)
      <4>0. Absent.kind = "absent" /\ [kind |-> "broken"].kind = "broken"
        BY DEF Absent
      <4>1. c # Absent /\ c # [kind |-> "broken"]
        BY Zenon, <3>1, <2>3, <4>0
      <4>2. c.kind \notin {"lines", "toml", "yaml", "skill", "dir"}
        BY <3>1
      <4>. QED  BY <4>1, <4>2, <1>1 DEF Holds
    <3>. QED  BY <3>1, <3>2
  <2>. QED  BY <2>2, <2>3
<1>. HIDE DEF has
<1>5. PICK map : /\ map = ServerMap(has) /\ map.has = has /\ map.is = "map"
                 /\ map = [is |-> map.is, has |-> map.has]
  <2>1. \A is : [is |-> is, has |-> has].has = has /\ [is |-> is, has |-> has].is = is
    OBVIOUS
  <2>2. PICK is : ServerMap(has) = [is |-> is, has |-> has] /\ is = "map"
    BY Zenon DEF ServerMap
  <2>. QED  BY <2>1, <2>2
<1>6. new = [config EXCEPT !.at = [config.at EXCEPT ![key] = map]]
  BY <1>5
<1>. HIDE DEF new, config, key
<1>7. /\ new = JsonObject([config.at EXCEPT ![key] = map])
      /\ new.at = [config.at EXCEPT ![key] = map]
      /\ new.kind = "json"
  BY <1>4, <1>6 DEF IsJson, JsonObject
<1>9. PICK at : at = config.at
  OBVIOUS
<1>10. at = [k \in ServerKeys |-> [is |-> at[k].is, has |-> at[k].has]]
  BY <1>4, <1>9 DEF IsJson
<1>11. new.at[key] = map /\ \A k \in ServerKeys \ {key} : new.at[k] = at[k]
  BY <1>1, <1>7, <1>9, <1>10
<1>12. new.at = [k \in ServerKeys |-> [is |-> new.at[k].is, has |-> new.at[k].has]]
  <2>1. \A k \in ServerKeys : new.at[k] = [is |-> new.at[k].is, has |-> new.at[k].has]
    BY <1>5, <1>10, <1>11
  <2>2. new.at = [k \in ServerKeys |-> new.at[k]]
    BY <1>7, <1>9, <1>10
  <2>. QED  BY <2>1, <2>2
<1>13. IsJson(new)
  <2>1. \A k \in ServerKeys : \/ at[k].is \in {"missing", "other"} /\ at[k].has = {}
                             \/ at[k].is = "map"
    BY <1>4, <1>9 DEF IsJson
  <2>2. \A k \in ServerKeys : \/ new.at[k].is \in {"missing", "other"} /\ new.at[k].has = {}
                             \/ new.at[k].is = "map"
    BY <1>5, <1>11, <2>1
  <2>. QED  BY <1>7, <1>12, <2>2 DEF IsJson
<1>14. PICK entry : entry = <<"asem", JsonMcpTargets[t].shape>> /\ entry[1] = "asem"
  <2>1. \A x, y : <<x, y>>[1] = x
    OBVIOUS
  <2>2. PICK x, y : x = "asem" /\ y = JsonMcpTargets[t].shape
    OBVIOUS
  <2>3. <<"asem", JsonMcpTargets[t].shape>> = <<x, y>>
    BY Zenon, <2>2
  <2>. QED  BY Zenon, <2>1, <2>2, <2>3
<1>15. {e \in has : e[1] = "asem"} = {entry}
  BY <1>14 DEF has
<1>16. PutsEntry(config, new, key)
  <2>1. has = {e \in at[key].has : e[1] # "asem"} \cup {entry}
    BY <1>9, <1>14 DEF has
  <2>. QED  BY <1>1, <1>3, <1>5, <1>9, <1>11, <1>14, <2>1 DEF PutsEntry, key
<1>. QED  BY <1>1, <1>3, <1>4, <1>5, <1>7, <1>11, <1>13, <1>14, <1>15, <1>16
          DEF HasEntry, key, config

(***************************************************************************)
(* The TOML file of codex.                                                 *)
(***************************************************************************)

LEMMA Smallest ==
    ASSUME NEW T \in SUBSET Nat, T # {}
    PROVE  \E x \in T : \A y \in T : x <= y
<1>1. \E x \in T : \A y \in T : <<y, x>> \notin OpToRel(<, Nat)
  BY NatLessThanWellFounded, WFMin
<1>2. \A y, x \in Nat : y < x => <<y, x>> \in OpToRel(<, Nat)
  BY Zenon DEF OpToRel
<1>3. PICK x \in T : \A y \in T : ~(y < x)
  BY <1>1, <1>2
<1>. QED  BY <1>3

LEMMA Largest ==
    ASSUME NEW n \in Nat, NEW T \in SUBSET (1 .. n), T # {}
    PROVE  \E x \in T : \A y \in T : y <= x
<1>. DEFINE below == {n - x : x \in T}
<1>1. below \in SUBSET Nat /\ below # {}
  <2>1. \A x \in T : n - x \in Nat
    OBVIOUS
  <2>2. PICK x \in T : TRUE
    OBVIOUS
  <2>3. n - x \in below
    OBVIOUS
  <2>. QED  BY <2>1, <2>3
<1>2. PICK m \in below : \A y \in below : m <= y
  BY <1>1, Smallest
<1>3. PICK x \in T : m = n - x
  BY <1>2
<1>4. \A y \in T : n - x <= n - y
  BY <1>2, <1>3
<1>. QED  BY <1>3, <1>4

(* The places where a server asem is defined (Definitions counts them).    *)
Defines(lines) == Seen(lines) \cup Hidden(lines)

(* A file that defines it twice has a definition that asem does not see.   *)
WellDefined(lines) == Hidden(lines) # {} \/ \A i, j \in Defines(lines) : i = j

(* The table a line is in is told by the lines before it, ...              *)
LEMMA SamePrefix ==
    ASSUME NEW s, NEW t, NEW n \in Nat, \A j \in 1 .. n : s[j] = t[j]
    PROVE  TableAt(s, n) = TableAt(t, n)
<1>. DEFINE H(q) == {j \in 1 .. n : q[j] \in Headers}
<1>1. H(s) = H(t)
  OBVIOUS
<1>2. CASE H(s) = {}
  BY <1>1, <1>2 DEF TableAt
<1>3. CASE H(s) # {}
  <2>1. \E x \in H(s) : \A y \in H(s) : y <= x
    BY <1>3, Largest
  <2>2. (CHOOSE j \in H(s) : \A k \in H(s) : k <= j) \in 1 .. n
    BY <2>1
  <2>. QED  BY <1>1, <1>3, <2>2 DEF TableAt
<1>. QED  BY <1>2, <1>3

(* ... and by the last header among them.                                  *)
LEMMA LastHeader ==
    ASSUME NEW s, NEW n \in Nat, NEW h \in 1 .. n, s[h] \in Headers,
           \A j \in h + 1 .. n : s[j] \notin Headers
    PROVE  TableAt(s, n) = s[h]
<1>. DEFINE H == {j \in 1 .. n : s[j] \in Headers}
<1>1. h \in H /\ \A k \in H : k <= h
  OBVIOUS
<1>2. \A j \in H : (\A k \in H : k <= j) => j = h
  BY <1>1
<1>3. (CHOOSE j \in H : \A k \in H : k <= j) = h
  BY <1>1, <1>2
<1>. QED  BY <1>1, <1>3 DEF TableAt

(* Behind a header, two files that go on alike are in the same tables.     *)
SameBehind(s, a, t, b, n) ==
    s[a] \in Headers /\ \A j \in 0 .. n : s[a + j] = t[b + j]

LEMMA SameAfterHeader ==
    ASSUME NEW s, NEW t, NEW a \in Nat \ {0}, NEW b \in Nat \ {0}, NEW n \in Nat,
           SameBehind(s, a, t, b, n)
    PROVE  TableAt(s, a + n) = TableAt(t, b + n)
<1>. DEFINE H == {j \in 1 .. n + 1 : s[a + j - 1] \in Headers}
<1>0. s[a] \in Headers /\ \A j \in 0 .. n : s[a + j] = t[b + j]
  BY DEF SameBehind
<1>1. 1 \in H
  BY <1>0
<1>2. PICK h \in H : \A y \in H : y <= h
  <2>1. H \in SUBSET (1 .. n + 1) /\ n + 1 \in Nat
    OBVIOUS
  <2>2. H # {}
    BY <1>1
  <2>. HIDE DEF H
  <2>. QED  BY <2>1, <2>2, Largest
<1>3. h - 1 \in 0 .. n /\ s[a + (h - 1)] = t[b + (h - 1)]
  BY <1>0, <1>2
<1>4. s[a + (h - 1)] \in Headers
  BY <1>2
<1>5. \A j \in h .. n : s[a + j] \notin Headers
  <2>. SUFFICES ASSUME NEW j \in h .. n, s[a + j] \in Headers  PROVE FALSE
    OBVIOUS
  <2>1. j + 1 \in 1 .. n + 1 /\ a + (j + 1) - 1 = a + j
    OBVIOUS
  <2>2. j + 1 \in H
    BY <2>1
  <2>. QED  BY <1>2, <2>2
<1>6. \A j \in h .. n : t[b + j] \notin Headers
  BY <1>0, <1>3, <1>5
<1>7. TableAt(s, a + n) = s[a + (h - 1)]
  <2>1. \A j \in a + (h - 1) + 1 .. a + n : j - a \in h .. n /\ j = a + (j - a)
    OBVIOUS
  <2>2. \A j \in a + (h - 1) + 1 .. a + n : s[j] \notin Headers
    BY <1>5, <2>1
  <2>. QED  BY <1>3, <1>4, <2>2, LastHeader
<1>8. TableAt(t, b + n) = t[b + (h - 1)]
  <2>1. \A j \in b + (h - 1) + 1 .. b + n : j - b \in h .. n /\ j = b + (j - b)
    OBVIOUS
  <2>2. \A j \in b + (h - 1) + 1 .. b + n : t[j] \notin Headers
    BY <1>6, <2>1
  <2>. QED  BY <1>3, <1>4, <2>2, LastHeader
<1>. QED  BY <1>3, <1>7, <1>8

(* What the table of asem is replaced with.                                *)
LEMMA Rendered ==
    /\ IsSeq(RenderedAsemTable) /\ Len(RenderedAsemTable) = 3
    /\ RenderedAsemTable[1] = AsemTable
    /\ \A i \in 2 .. 3 : RenderedAsemTable[i]
         \notin {AsemTable, AsemTableNoted, DottedKey, AsemKey} \cup Headers
<1>. DEFINE a == "command = 'asem'"
            b == "args = ['mcp']"
<1>1. {a, b} \cap ({AsemTable, AsemTableNoted, DottedKey, AsemKey} \cup Headers) = {}
  BY DEF AsemTable, AsemTableNoted, DottedKey, AsemKey, Headers, AsemEnv, ParentTable,
         ParentTableNoted, OtherTable
<1>2. RenderedAsemTable = <<AsemTable, a, b>>
  BY Zenon DEF RenderedAsemTable
<1>3. \A x, y, z : /\ <<x, y, z>> \in Seq({x, y, z})
                   /\ Len(<<x, y, z>>) = 3 /\ <<x, y, z>>[1] = x
                   /\ <<x, y, z>>[2] = y /\ <<x, y, z>>[3] = z
  OBVIOUS
<1>. HIDE DEF a, b
<1>4. \A i \in 2 .. 3 : i = 2 \/ i = 3
  OBVIOUS
<1>5. /\ RenderedAsemTable \in Seq({AsemTable, a, b}) /\ Len(RenderedAsemTable) = 3
      /\ RenderedAsemTable[1] = AsemTable /\ RenderedAsemTable[2] = a
      /\ RenderedAsemTable[3] = b
  BY <1>2, <1>3
<1>6. \A i \in 2 .. 3 : RenderedAsemTable[i] \in {a, b}
  BY <1>4, <1>5
<1>7. IsSeq(RenderedAsemTable)
  BY <1>5 DEF IsSeq
<1>. QED  BY <1>1, <1>5, <1>6, <1>7

LEMMA HeadersAre ==
    /\ AsemTable \in Headers /\ AsemTableNoted \in Headers
    /\ AsemTable \notin {AsemTableNoted, ParentTableNoted, DottedKey, AsemKey}
    /\ Blank \notin Headers \cup {DottedKey, AsemKey}
  BY DEF AsemTable, AsemTableNoted, AsemEnv, ParentTable, ParentTableNoted, OtherTable,
         Headers, DottedKey, AsemKey, Blank

(* The table ends before the next header.                                  *)
LEMMA EndOfTable ==
    ASSUME NEW lines, IsSeq(lines), NEW start \in DOMAIN lines
    PROVE  /\ TableEnd(lines, start) \in start + 1 .. Len(lines) + 1
           /\ TableEnd(lines, start) <= Len(lines) => lines[TableEnd(lines, start)] \in Headers
           /\ \A j \in start + 1 .. Len(lines) :
                lines[j] \in Headers => TableEnd(lines, start) <= j
<1>. DEFINE later == {j \in start + 1 .. Len(lines) : lines[j] \in Headers}
<1>1. Len(lines) \in Nat /\ start \in 1 .. Len(lines)
  BY Lengths
<1>2. CASE later = {}
  BY <1>1, <1>2 DEF TableEnd
<1>3. CASE later # {}
  <2>1. later \in SUBSET Nat
    BY <1>1
  <2>2. \E x \in later : \A y \in later : x <= y
    BY <1>3, <2>1, Smallest
  <2>3. TableEnd(lines, start) = CHOOSE j \in later : \A k \in later : j <= k
    BY <1>3 DEF TableEnd
  <2>4. TableEnd(lines, start) \in later /\ \A k \in later : TableEnd(lines, start) <= k
    BY <2>2, <2>3
  <2>. QED  BY <1>1, <2>4
<1>. QED  BY <1>2, <1>3

(* The table of asem is put behind the file, ...                           *)
Appended(new, lines, n) ==
    /\ n \in Nat /\ Len(lines) <= n /\ IsSeq(new) /\ DOMAIN new = 1 .. n + 3
    /\ \A i \in 1 .. Len(lines) : new[i] = lines[i]
    /\ \A i \in Len(lines) + 1 .. n : new[i] = Blank
    /\ \A i \in 1 .. 3 : new[n + i] = RenderedAsemTable[i]

LEMMA TableAppended ==
    ASSUME NEW lines, IsSeq(lines), AsemTable \notin Range(lines)
    PROVE  \E n : Appended(UpsertCodexAsemTable(lines), lines, n)
<1>. DEFINE gap == IF lines = <<>> THEN <<>> ELSE <<Blank>>
            before == lines \o gap
            new == before \o RenderedAsemTable
            n == Len(before)
<1>1. IsSeq(gap) /\ \A i \in DOMAIN gap : gap[i] = Blank
  BY NoElement, OneElement, Lengths
<1>. HIDE DEF gap
<1>2. /\ IsSeq(before) /\ n = Len(lines) + Len(gap) /\ n \in Nat
      /\ \A i \in 1 .. Len(lines) : before[i] = lines[i]
      /\ \A i \in 1 .. Len(gap) : before[Len(lines) + i] = Blank
  BY <1>1, Joined, Lengths DEF Joins
<1>3. /\ IsSeq(new) /\ DOMAIN new = 1 .. n + 3
      /\ \A i \in 1 .. n : new[i] = before[i]
      /\ \A i \in 1 .. 3 : new[n + i] = RenderedAsemTable[i]
  <2>. HIDE DEF before
  <2>1. IsSeq(before) /\ IsSeq(RenderedAsemTable) /\ Len(RenderedAsemTable) = 3
    BY <1>2, Rendered
  <2>2. /\ IsSeq(new) /\ Len(new) = n + Len(RenderedAsemTable)
        /\ \A i \in 1 .. n : new[i] = before[i]
        /\ \A i \in 1 .. Len(RenderedAsemTable) : new[n + i] = RenderedAsemTable[i]
    <3>1. Joins(new, before, RenderedAsemTable)
      BY <2>1, Joined
    <3>. QED  BY ONLY <3>1 DEF Joins
  <2>. HIDE DEF new
  <2>3. DOMAIN new = 1 .. Len(new)
    BY <2>2, Lengths
  <2>. QED  BY <2>1, <2>2, <2>3
<1>4. UpsertCodexAsemTable(lines) = new
  <2>1. \A x : IsSeq(lines) => Append(lines, x) = lines \o <<x>>
    BY DEF IsSeq
  <2>2. lines = <<>> => before = <<>>
    BY DEF gap
  <2>3. lines # <<>> => before = Append(lines, Blank)
    BY <2>1 DEF gap
  <2>. QED  BY <2>2, <2>3 DEF UpsertCodexAsemTable
<1>. HIDE DEF before, new, n
<1>5. Len(lines) \in Nat /\ DOMAIN lines = 1 .. Len(lines) /\ Len(gap) \in Nat
  BY <1>1, Lengths
<1>6. \A i \in 1 .. Len(lines) : new[i] = lines[i]
  BY <1>2, <1>3, <1>5
<1>7. ASSUME NEW i \in Len(lines) + 1 .. n  PROVE new[i] = Blank
  <2>1. i - Len(lines) \in 1 .. Len(gap) /\ Len(lines) + (i - Len(lines)) = i
    BY <1>2, <1>5
  <2>2. before[i] = Blank
    BY <1>2, <2>1
  <2>3. i \in 1 .. n
    BY <1>5
  <2>. QED  BY <2>2, <2>3, <1>3
<1>8. Len(lines) <= n
  BY <1>2, <1>5
<1>. QED  BY <1>2, <1>3, <1>4, <1>6, <1>7, <1>8 DEF Appended

(* Whatever the file was, one definition is left, unless there is another  *)
(* that asem does not see.                                                 *)
LEMMA UpsertAppends ==
    ASSUME NEW lines, IsSeq(lines), AsemTable \notin Range(lines),
           ~HasUnsafeAsemDefinition(lines)
    PROVE  /\ IsSeq(UpsertCodexAsemTable(lines))
           /\ Hidden(UpsertCodexAsemTable(lines)) = {}
              => \E d : Defines(UpsertCodexAsemTable(lines)) = {d}
<1>. DEFINE new == UpsertCodexAsemTable(lines)
<1>1. PICK n : Appended(new, lines, n)
  BY TableAppended
<1>. HIDE DEF new
<1>2. /\ n \in Nat /\ Len(lines) <= n
      /\ \A i \in 1 .. Len(lines) : new[i] = lines[i]
      /\ \A i \in Len(lines) + 1 .. n : new[i] = Blank
  BY <1>1 DEF Appended
<1>3. /\ IsSeq(new) /\ DOMAIN new = 1 .. n + 3
      /\ \A i \in 1 .. 3 : new[n + i] = RenderedAsemTable[i]
  BY <1>1 DEF Appended
<1>5. Len(lines) \in Nat /\ DOMAIN lines = 1 .. Len(lines)
  BY Lengths
<1>6. ASSUME Hidden(new) = {}
      PROVE  Defines(new) = {n + 1}
  <2>1. \A i \in 1 .. Len(lines) : new[i] = lines[i]
    BY <1>2
  <2>2. ASSUME NEW i \in 1 .. Len(lines)  PROVE i \notin Defines(new)
    <3>1. new[i] # AsemTable /\ new[i] # DottedKey
      BY <2>1, <1>5 DEF Range, HasUnsafeAsemDefinition
    <3>2. TableAt(new, i) = TableAt(lines, i)
      BY <2>1, SamePrefix
    <3>. QED  BY <3>1, <3>2, <2>1, <1>5, <1>6 DEF Defines, Seen, HasUnsafeAsemDefinition
  <2>3. ASSUME NEW i \in Len(lines) + 1 .. n  PROVE i \notin Defines(new)
    <3>1. new[i] = Blank
      BY <1>2
    <3>. QED  BY <3>1, HeadersAre DEF Defines, Seen, Hidden
  <2>4. n + 1 \in Defines(new)
    <3>1. n + 1 \in 1 .. n + 3 /\ new[n + 1] = AsemTable
      BY <1>2, <1>3, Rendered
    <3>. QED  BY <3>1, <1>3 DEF Defines, Seen, Hidden
  <2>5. ASSUME NEW i \in 2 .. 3  PROVE n + i \notin Defines(new)
    <3>1. new[n + i] = RenderedAsemTable[i]
      BY <1>3
    <3>. QED  BY <3>1, Rendered DEF Defines, Seen, Hidden
  <2>6. \A i \in 1 .. n + 3 :
           i \in 1 .. Len(lines) \/ i \in Len(lines) + 1 .. n \/ i = n + 1 \/ i - n \in 2 .. 3
    BY <1>2, <1>5
  <2>7. \A i \in 1 .. n + 3 : i - n \in 2 .. 3 => n + (i - n) = i
    BY <1>2
  <2>8. Defines(new) \subseteq 1 .. n + 3
    BY <1>3 DEF Defines, Seen, Hidden
  <2>. QED  BY <2>2, <2>3, <2>4, <2>5, <2>6, <2>7, <2>8
<1>. QED  BY <1>3, <1>6 DEF new

(* ... or in the place of the lines from start up to end.                  *)
Spliced(new, lines, start, end) ==
    /\ start \in 1 .. Len(lines) /\ lines[start] = AsemTable
    /\ end \in start + 1 .. Len(lines) + 1
    /\ end <= Len(lines) => lines[end] \in Headers
    /\ \A j \in start + 1 .. Len(lines) : lines[j] \in Headers => end <= j
    /\ IsSeq(new) /\ DOMAIN new = 1 .. start + 2 + (Len(lines) + 1 - end)
    /\ \A i \in 1 .. start - 1 : new[i] = lines[i]
    /\ \A i \in 1 .. 3 : new[start - 1 + i] = RenderedAsemTable[i]
    /\ \A i \in 1 .. Len(lines) + 1 - end : new[start + 2 + i] = lines[end + i - 1]

LEMMA TableSpliced ==
    ASSUME NEW lines, IsSeq(lines), AsemTable \in Range(lines)
    PROVE  \E start, end : Spliced(UpsertCodexAsemTable(lines), lines, start, end)
<1>. DEFINE start == CHOOSE i \in DOMAIN lines :
                        lines[i] = AsemTable /\ AsemTable \notin Range(SubSeq(lines, 1, i - 1))
            end == TableEnd(lines, start)
            top == SubSeq(lines, 1, start - 1)
            rest == SubSeq(lines, end, Len(lines))
            new == top \o RenderedAsemTable \o rest
<1>1. Len(lines) \in Nat /\ DOMAIN lines = 1 .. Len(lines)
  BY Lengths
<1>2. start \in 1 .. Len(lines) /\ lines[start] = AsemTable
  <2>. DEFINE T == {i \in DOMAIN lines : lines[i] = AsemTable}
  <2>1. T \in SUBSET Nat /\ T # {}
    BY <1>1 DEF Range
  <2>2. PICK i \in T : \A j \in T : i <= j
    BY <2>1, Smallest
  <2>3. \A k \in 1 .. i - 1 : SubSeq(lines, 1, i - 1)[k] # AsemTable
    <3>1. \A k \in 1 .. i - 1 : SubSeq(lines, 1, i - 1)[k] = lines[k] /\ k \in DOMAIN lines
      <4>1. i - 1 \in Nat /\ i - 1 <= Len(lines) /\ 1 <= (i - 1) + 1
        BY <1>1
      <4>2. \A k \in 1 .. (i - 1) + 1 - 1 : SubSeq(lines, 1, i - 1)[k] = lines[1 + k - 1]
        BY <4>1, Cut
      <4>. QED  BY <4>1, <4>2, <1>1
    <3>. QED  BY <3>1, <2>2, <1>1
  <2>4. DOMAIN SubSeq(lines, 1, i - 1) = 1 .. i - 1
    <3>1. i - 1 \in Nat /\ i - 1 <= Len(lines) /\ 1 <= (i - 1) + 1
      BY <1>1
    <3>2. IsSeq(SubSeq(lines, 1, i - 1)) /\ Len(SubSeq(lines, 1, i - 1)) = (i - 1) + 1 - 1
      BY <3>1, Cut
    <3>. QED  BY <3>1, <3>2, Lengths
  <2>5. lines[i] = AsemTable /\ AsemTable \notin Range(SubSeq(lines, 1, i - 1))
    BY <2>3, <2>4 DEF Range
  <2>. QED  BY <2>5, <1>1
<1>3. /\ end \in start + 1 .. Len(lines) + 1
      /\ end <= Len(lines) => lines[end] \in Headers
      /\ \A j \in start + 1 .. Len(lines) : lines[j] \in Headers => end <= j
  BY <1>1, <1>2, EndOfTable
<1>4. UpsertCodexAsemTable(lines) = new
  BY DEF UpsertCodexAsemTable
<1>. HIDE DEF start, end
<1>5. /\ IsSeq(top) /\ Len(top) = start - 1
      /\ \A i \in 1 .. start - 1 : top[i] = lines[i]
  <2>1. start - 1 \in Nat /\ start - 1 <= Len(lines) /\ 1 <= (start - 1) + 1
    BY <1>1, <1>2
  <2>2. /\ IsSeq(top) /\ Len(top) = (start - 1) + 1 - 1
        /\ \A i \in 1 .. (start - 1) + 1 - 1 : top[i] = lines[1 + i - 1]
    BY <2>1, Cut
  <2>. QED  BY <2>1, <2>2
<1>6. /\ IsSeq(rest) /\ Len(rest) = Len(lines) + 1 - end
      /\ \A i \in 1 .. Len(lines) + 1 - end : rest[i] = lines[end + i - 1]
  <2>1. end \in Nat \ {0} /\ end <= Len(lines) + 1
    BY <1>1, <1>2, <1>3
  <2>. QED  BY <2>1, <1>1, Cut
<1>. HIDE DEF top, rest
<1>7. /\ IsSeq(top \o RenderedAsemTable) /\ Len(top \o RenderedAsemTable) = start + 2
      /\ \A i \in 1 .. start - 1 : (top \o RenderedAsemTable)[i] = lines[i]
      /\ \A i \in 1 .. 3 : (top \o RenderedAsemTable)[start - 1 + i] = RenderedAsemTable[i]
  <2>1. /\ IsSeq(top) /\ IsSeq(RenderedAsemTable)
        /\ Len(RenderedAsemTable) = 3 /\ Len(top) = start - 1
    BY <1>5, Rendered
  <2>2. /\ IsSeq(top \o RenderedAsemTable)
        /\ Len(top \o RenderedAsemTable) = Len(top) + Len(RenderedAsemTable)
        /\ \A i \in 1 .. Len(top) : (top \o RenderedAsemTable)[i] = top[i]
        /\ \A i \in 1 .. Len(RenderedAsemTable) :
             (top \o RenderedAsemTable)[Len(top) + i] = RenderedAsemTable[i]
    <3>1. Joins(top \o RenderedAsemTable, top, RenderedAsemTable)
      BY <2>1, Joined
    <3>. QED  BY <3>1 DEF Joins
  <2>. DEFINE both == top \o RenderedAsemTable
  <2>. HIDE DEF both
  <2>3. IsSeq(both) /\ Len(both) = start + 2
    BY <2>1, <2>2, <1>2 DEF both
  <2>4. \A i \in 1 .. start - 1 : both[i] = lines[i]
    BY <2>1, <2>2, <1>5 DEF both
  <2>5. \A i \in 1 .. 3 : both[start - 1 + i] = RenderedAsemTable[i]
    BY <2>1, <2>2 DEF both
  <2>. QED  BY <2>3, <2>4, <2>5 DEF both
<1>8. /\ IsSeq(new) /\ Len(new) = start + 2 + (Len(lines) + 1 - end)
      /\ \A i \in 1 .. start + 2 : new[i] = (top \o RenderedAsemTable)[i]
      /\ \A i \in 1 .. Len(lines) + 1 - end : new[start + 2 + i] = lines[end + i - 1]
  <2>. DEFINE both == top \o RenderedAsemTable
  <2>1. IsSeq(both) /\ IsSeq(rest) /\ Len(both) = start + 2
        /\ Len(rest) = Len(lines) + 1 - end
    BY <1>6, <1>7
  <2>2. new = both \o rest
    OBVIOUS
  <2>. HIDE DEF both, new
  <2>3. /\ IsSeq(new) /\ Len(new) = Len(both) + Len(rest)
        /\ \A i \in 1 .. Len(both) : new[i] = both[i]
        /\ \A i \in 1 .. Len(rest) : new[Len(both) + i] = rest[i]
    <3>1. Joins(both \o rest, both, rest)
      BY <2>1, Joined
    <3>. QED  BY <2>2, <3>1 DEF Joins
  <2>. QED  BY <2>1, <2>3, <1>6 DEF both
<1>. HIDE DEF new
<1>9. DOMAIN new = 1 .. start + 2 + (Len(lines) + 1 - end)
  BY <1>8, Lengths
<1>10. \A i \in 1 .. start - 1 : new[i] = lines[i]
  <2>1. \A i \in 1 .. start - 1 : i \in 1 .. start + 2
    BY <1>2
  <2>. QED  BY <2>1, <1>7, <1>8
<1>11. \A i \in 1 .. 3 : new[start - 1 + i] = RenderedAsemTable[i]
  <2>1. \A i \in 1 .. 3 : start - 1 + i \in 1 .. start + 2
    BY <1>2
  <2>. QED  BY <2>1, <1>7, <1>8
<1>12. /\ IsSeq(new)
       /\ \A i \in 1 .. Len(lines) + 1 - end : new[start + 2 + i] = lines[end + i - 1]
  BY <1>8
<1>13. Spliced(new, lines, start, end)
  BY <1>2, <1>3, <1>9, <1>10, <1>11, <1>12 DEF Spliced
<1>. QED  BY <1>4, <1>13

(* What is behind the table stays in the tables it was in.                 *)
LEMMA RestInPlace ==
    ASSUME NEW lines, IsSeq(lines), NEW new, NEW start, NEW end, Spliced(new, lines, start, end),
           NEW i \in 1 .. Len(lines) + 1 - end
    PROVE  TableAt(new, start + 2 + i) = TableAt(lines, end + i - 1)
<1>1. Len(lines) \in Nat /\ DOMAIN lines = 1 .. Len(lines)
  BY Lengths
<1>2. start \in 1 .. Len(lines) /\ end \in start + 1 .. Len(lines) + 1
  BY DEF Spliced
<1>3. /\ end <= Len(lines) => lines[end] \in Headers
      /\ \A j \in 1 .. Len(lines) + 1 - end : new[start + 2 + j] = lines[end + j - 1]
  BY DEF Spliced
<1>4. end + i - 1 \in 1 .. Len(lines) /\ i - 1 \in Nat
  BY <1>1, <1>2
<1>5. end \in Nat \ {0} /\ start + 3 \in Nat \ {0} /\ end <= Len(lines)
  BY <1>1, <1>2
<1>6. lines[end] \in Headers
  BY <1>3, <1>5
<1>7. \A j \in 0 .. i - 1 : lines[end + j] = new[start + 3 + j]
  <2>. SUFFICES ASSUME NEW j \in 0 .. i - 1
                PROVE  lines[end + j] = new[start + 3 + j]
    OBVIOUS
  <2>1. /\ j + 1 \in 1 .. Len(lines) + 1 - end
        /\ start + 2 + (j + 1) = start + 3 + j /\ end + (j + 1) - 1 = end + j
    BY <1>1, <1>2
  <2>. QED  BY <2>1, <1>3
<1>8. TableAt(lines, end + (i - 1)) = TableAt(new, start + 3 + (i - 1))
  <2>. DEFINE k == i - 1
              b == start + 3
  <2>1. k \in Nat /\ b \in Nat \ {0} /\ SameBehind(lines, end, new, b, k)
    BY <1>4, <1>5, <1>6, <1>7 DEF SameBehind
  <2>. HIDE DEF k, b
  <2>2. TableAt(lines, end + k) = TableAt(new, b + k)
    BY <2>1, <1>5, SameAfterHeader
  <2>. QED  BY <2>2 DEF k, b
<1>9. end + (i - 1) = end + i - 1 /\ start + 3 + (i - 1) = start + 2 + i
  BY <1>1, <1>2
<1>. QED  BY Zenon, <1>8, <1>9

(* One definition is left, if there was one.                               *)
LEMMA UpsertReplaces ==
    ASSUME NEW lines, IsSeq(lines), AsemTable \in Range(lines)
    PROVE  /\ IsSeq(UpsertCodexAsemTable(lines))
           /\ /\ WellDefined(lines)
              /\ Hidden(UpsertCodexAsemTable(lines)) = {}
              => \E d : Defines(UpsertCodexAsemTable(lines)) = {d}
<1>. DEFINE new == UpsertCodexAsemTable(lines)
<1>0. PICK start, end : Spliced(new, lines, start, end)
  BY TableSpliced
<1>. HIDE DEF new
<1>1. Len(lines) \in Nat /\ DOMAIN lines = 1 .. Len(lines)
  BY Lengths
<1>2. start \in 1 .. Len(lines) /\ lines[start] = AsemTable
  BY <1>0 DEF Spliced
<1>3. /\ end \in start + 1 .. Len(lines) + 1
      /\ end <= Len(lines) => lines[end] \in Headers
      /\ \A j \in start + 1 .. Len(lines) : lines[j] \in Headers => end <= j
  BY <1>0 DEF Spliced
<1>8. /\ IsSeq(new)
      /\ \A i \in 1 .. Len(lines) + 1 - end : new[start + 2 + i] = lines[end + i - 1]
  BY <1>0 DEF Spliced
<1>9. DOMAIN new = 1 .. start + 2 + (Len(lines) + 1 - end)
  BY <1>0 DEF Spliced
<1>10. \A i \in 1 .. start - 1 : new[i] = lines[i]
  BY <1>0 DEF Spliced
<1>11. \A i \in 1 .. 3 : new[start - 1 + i] = RenderedAsemTable[i]
  BY <1>0 DEF Spliced
<1>12. ASSUME Hidden(new) = {}  PROVE Hidden(lines) = {}
  <2>. SUFFICES ASSUME NEW j \in Hidden(lines)  PROVE FALSE
    OBVIOUS
  <2>1. /\ j \in 1 .. Len(lines)
        /\ lines[j] = AsemTableNoted \/ TableAt(lines, j) = ParentTableNoted
    BY <1>1 DEF Hidden
  <2>2. ASSUME NEW k \in DOMAIN new, new[k] = lines[j], TableAt(new, k) = TableAt(lines, j)
        PROVE  FALSE
    BY <1>12, <2>2 DEF Hidden
  <2>3. CASE j < start
    <3>1. j \in Nat /\ j \in DOMAIN new /\ \A i \in 1 .. j : new[i] = lines[i]
      BY <2>1, <2>3, <1>1, <1>2, <1>3, <1>9, <1>10
    <3>2. TableAt(new, j) = TableAt(lines, j) /\ new[j] = lines[j]
      BY <3>1, <2>1, SamePrefix
    <3>. QED  BY <2>2, <3>1, <3>2
  <2>4. CASE j \in start .. end - 1
    <3>1. j \in Nat /\ start \in 1 .. j /\ lines[start] \in Headers
      BY <2>1, <2>4, <1>2, HeadersAre
    <3>2. \A i \in start + 1 .. j : lines[i] \notin Headers
      BY <2>4, <1>1, <1>2, <1>3
    <3>3. TableAt(lines, j) = AsemTable
      BY <3>1, <3>2, <1>2, LastHeader
    <3>4. lines[j] # AsemTableNoted
      BY <2>1, <2>4, <3>2, <1>2, HeadersAre
    <3>. QED  BY <2>1, <3>3, <3>4, HeadersAre
  <2>5. CASE j >= end
    <3>. DEFINE i == j - end + 1
    <3>1. /\ i \in 1 .. Len(lines) + 1 - end /\ end + i - 1 = j
          /\ start + 2 + i \in DOMAIN new
      BY <2>1, <2>5, <1>1, <1>2, <1>3, <1>9
    <3>. HIDE DEF i
    <3>2. /\ new[start + 2 + i] = lines[end + i - 1]
          /\ TableAt(new, start + 2 + i) = TableAt(lines, end + i - 1)
      BY <3>1, <1>0, <1>8, RestInPlace
    <3>. QED  BY <2>2, <3>1, <3>2
  <2>. QED  BY <2>1, <2>3, <2>4, <2>5, <1>1, <1>2, <1>3
<1>13. ASSUME WellDefined(lines), Hidden(new) = {}
       PROVE  Defines(new) = {start}
  <2>1. Defines(lines) = {start}
    <3>1. start \in Defines(lines)
      BY <1>1, <1>2 DEF Defines, Seen, Hidden
    <3>. QED  BY <3>1, <1>12, <1>13 DEF WellDefined
  <2>2. ASSUME NEW i \in 1 .. start - 1  PROVE i \notin Defines(new)
    <3>1. \A j \in 1 .. i : new[j] = lines[j]
      BY <1>10, <1>2
    <3>2. i \in Nat /\ i \in 1 .. Len(lines) /\ i # start
      BY <1>1, <1>2
    <3>3. TableAt(new, i) = TableAt(lines, i)
      BY <3>1, <3>2, SamePrefix
    <3>4. new[i] = lines[i]
      BY <3>1, <3>2
    <3>. QED  BY <3>2, <3>3, <3>4, <2>1, <1>1 DEF Defines, Seen, Hidden
  <2>3. start \in Defines(new)
    <3>1. new[start - 1 + 1] = AsemTable
      BY <1>11, Rendered
    <3>2. start - 1 + 1 = start /\ start \in DOMAIN new
      BY <1>1, <1>2, <1>3, <1>9
    <3>. QED  BY <3>1, <3>2 DEF Defines, Seen, Hidden
  <2>4. ASSUME NEW i \in 2 .. 3  PROVE start - 1 + i \notin Defines(new)
    <3>1. new[start - 1 + i] = RenderedAsemTable[i]
      BY <1>11
    <3>. QED  BY <3>1, Rendered DEF Defines, Seen, Hidden
  <2>5. ASSUME NEW i \in 1 .. Len(lines) + 1 - end  PROVE start + 2 + i \notin Defines(new)
    <3>1. end + i - 1 \in 1 .. Len(lines) /\ end + i - 1 # start /\ i - 1 \in Nat
      BY <1>1, <1>2, <1>3
    <3>2. new[start + 2 + i] = lines[end + i - 1]
      BY <1>8
    <3>3. TableAt(new, start + 2 + i) = TableAt(lines, end + i - 1)
      BY <1>0, RestInPlace
    <3>. QED  BY <3>1, <3>2, <3>3, <2>1, <1>1 DEF Defines, Seen, Hidden
  <2>6. ASSUME NEW i \in DOMAIN new
        PROVE  \/ i \in 1 .. start - 1 \/ i = start
               \/ \E j \in 2 .. 3 : i = start - 1 + j
               \/ \E j \in 1 .. Len(lines) + 1 - end : i = start + 2 + j
    <3>1. i \in 1 .. start + 2 + (Len(lines) + 1 - end)
      BY <1>9
    <3>2. CASE i > start + 2
      <4>1. i - (start + 2) \in 1 .. Len(lines) + 1 - end /\ i = start + 2 + (i - (start + 2))
        BY <3>1, <3>2, <1>1, <1>2, <1>3
      <4>. QED  BY <4>1
    <3>3. CASE i \in {start + 1, start + 2}
      <4>1. i = start - 1 + 2 \/ i = start - 1 + 3
        BY <3>3, <1>2
      <4>. QED  BY <4>1
    <3>. QED  BY <3>1, <3>2, <3>3, <1>1, <1>2, <1>3
  <2>7. Defines(new) \subseteq DOMAIN new
    BY DEF Defines, Seen, Hidden
  <2>8. ASSUME NEW i \in Defines(new), i # start  PROVE FALSE
    <3>1. i \in DOMAIN new
      BY <2>7
    <3>. QED  BY <2>2, <2>4, <2>5, <2>6, <3>1, <2>8
  <2>. QED  BY <2>3, <2>8
<1>. QED  BY <1>8, <1>13 DEF new

(* Lines that are none of asem's stay, in their tables and in their order. *)
LEMMA AppendedKeeps ==
    ASSUME NEW lines, IsSeq(lines), NEW new, NEW n, Appended(new, lines, n)
    PROVE  SameOtherLines(lines, new)
<1>. DEFINE at == [i \in OtherLines(lines) |-> i]
<1>1. /\ n \in Nat /\ Len(lines) <= n /\ DOMAIN new = 1 .. n + 3
      /\ \A i \in 1 .. Len(lines) : new[i] = lines[i]
      /\ \A i \in Len(lines) + 1 .. n : new[i] = Blank
      /\ \A i \in 1 .. 3 : new[n + i] = RenderedAsemTable[i]
  BY DEF Appended
<1>2. Len(lines) \in Nat /\ DOMAIN lines = 1 .. Len(lines)
  BY Lengths
<1>3. \A i \in 1 .. Len(lines) : TableAt(new, i) = TableAt(lines, i)
  <2>. SUFFICES ASSUME NEW i \in 1 .. Len(lines)  PROVE TableAt(new, i) = TableAt(lines, i)
    OBVIOUS
  <2>1. i \in Nat /\ \A j \in 1 .. i : new[j] = lines[j]
    BY <1>1, <1>2
  <2>. QED  BY <2>1, SamePrefix
<1>4. ASSUME NEW i \in 1 .. 3  PROVE TableAt(new, n + i) = AsemTable
  <2>1. n + i \in Nat /\ n + 1 \in 1 .. n + i /\ new[n + 1] = AsemTable
    BY <1>1, Rendered
  <2>2. new[n + 1] \in Headers
    BY <2>1, HeadersAre
  <2>3. ASSUME NEW j \in (n + 1) + 1 .. n + i  PROVE new[j] \notin Headers
    <3>1. j - n \in 2 .. 3 /\ j - n \in 1 .. 3 /\ n + (j - n) = j
      BY <1>1
    <3>. QED  BY <3>1, <1>1, Rendered
  <2>. QED  BY <2>1, <2>2, <2>3, LastHeader
<1>5. OtherLines(new) = OtherLines(lines)
  <2>1. ASSUME NEW i \in OtherLines(new)  PROVE i \in 1 .. Len(lines)
    <3>1. i \in 1 .. n + 3 /\ new[i] # Blank /\ TableAt(new, i) # AsemTable
      BY <1>1 DEF OtherLines
    <3>2. i \notin Len(lines) + 1 .. n
      BY <1>1, <3>1
    <3>3. ~(i - n \in 1 .. 3)
      <4>1. n + (i - n) = i
        BY <3>1, <1>1
      <4>. QED  BY <4>1, <3>1, <1>4
    <3>. QED  BY <3>1, <3>2, <3>3, <1>1, <1>2
  <2>2. OtherLines(lines) \subseteq 1 .. Len(lines) /\ 1 .. Len(lines) \subseteq DOMAIN new
    BY <1>1, <1>2 DEF OtherLines
  <2>. QED  BY <2>1, <2>2, <1>1, <1>2, <1>3 DEF OtherLines
<1>6. OtherLines(lines) \subseteq 1 .. Len(lines)
  BY <1>2 DEF OtherLines
<1>7. at \in [OtherLines(lines) -> OtherLines(new)] /\ Range(at) = OtherLines(new)
  BY <1>5 DEF Range
<1>. QED  BY <1>1, <1>3, <1>6, <1>7 DEF SameOtherLines

LEMMA SplicedKeeps ==
    ASSUME NEW lines, IsSeq(lines), NEW new, NEW start, NEW end, Spliced(new, lines, start, end)
    PROVE  SameOtherLines(lines, new)
<1>. DEFINE moved(i) == IF i < start THEN i ELSE i - end + start + 3
            at == [i \in OtherLines(lines) |-> moved(i)]
<1>1. Len(lines) \in Nat /\ DOMAIN lines = 1 .. Len(lines)
  BY Lengths
<1>2. /\ start \in 1 .. Len(lines) /\ lines[start] = AsemTable
      /\ end \in start + 1 .. Len(lines) + 1
      /\ \A j \in start + 1 .. Len(lines) : lines[j] \in Headers => end <= j
  BY DEF Spliced
<1>3. DOMAIN new = 1 .. start + 2 + (Len(lines) + 1 - end)
  BY DEF Spliced
<1>4. \A i \in 1 .. start - 1 : new[i] = lines[i]
  BY DEF Spliced
<1>5. \A i \in 1 .. 3 : new[start - 1 + i] = RenderedAsemTable[i]
  BY DEF Spliced
<1>6. \A i \in 1 .. Len(lines) + 1 - end : new[start + 2 + i] = lines[end + i - 1]
  BY DEF Spliced
<1>7. ASSUME NEW i \in 1 .. start - 1  PROVE TableAt(new, i) = TableAt(lines, i)
  <2>1. i \in Nat /\ \A j \in 1 .. i : new[j] = lines[j]
    BY <1>2, <1>4
  <2>. QED  BY <2>1, SamePrefix
<1>8. ASSUME NEW i \in end .. Len(lines)
      PROVE  /\ moved(i) \in DOMAIN new /\ new[moved(i)] = lines[i]
             /\ TableAt(new, moved(i)) = TableAt(lines, i)
  <2>. DEFINE k == i - end + 1
  <2>1. /\ k \in 1 .. Len(lines) + 1 - end /\ end + k - 1 = i
        /\ moved(i) = start + 2 + k /\ moved(i) \in DOMAIN new
    BY <1>1, <1>2, <1>3
  <2>. HIDE DEF k, moved
  <2>. QED  BY <2>1, <1>6, RestInPlace
<1>9. ASSUME NEW i \in start .. end - 1  PROVE TableAt(lines, i) = AsemTable
  <2>1. i \in Nat /\ start \in 1 .. i /\ lines[start] \in Headers
    BY <1>1, <1>2, HeadersAre
  <2>2. \A j \in start + 1 .. i : lines[j] \notin Headers
    BY <1>1, <1>2
  <2>. QED  BY <2>1, <2>2, <1>2, LastHeader
<1>10. ASSUME NEW i \in 1 .. 3  PROVE TableAt(new, start - 1 + i) = AsemTable
  <2>1. /\ start - 1 + i \in Nat /\ start \in 1 .. start - 1 + i /\ start = start - 1 + 1
        /\ new[start] = AsemTable
    BY <1>2, <1>5, Rendered
  <2>2. new[start] \in Headers
    BY <2>1, HeadersAre
  <2>3. ASSUME NEW j \in start + 1 .. start - 1 + i  PROVE new[j] \notin Headers
    <3>1. /\ j - start + 1 \in 2 .. 3 /\ j - start + 1 \in 1 .. 3
          /\ start - 1 + (j - start + 1) = j
      BY <1>2
    <3>. QED  BY <3>1, <1>5, Rendered
  <2>. QED  BY <2>1, <2>2, <2>3, LastHeader
<1>11. ASSUME NEW i \in OtherLines(lines)
       PROVE  i \in 1 .. start - 1 \/ i \in end .. Len(lines)
  <2>1. i \in 1 .. Len(lines) /\ TableAt(lines, i) # AsemTable
    BY <1>1 DEF OtherLines
  <2>2. i \notin start .. end - 1
    BY <2>1, <1>9
  <2>. QED  BY <2>1, <2>2, <1>1, <1>2
<1>12. \A i \in 1 .. start - 1 : moved(i) = i /\ i \in DOMAIN new /\ i \in DOMAIN lines
  BY <1>1, <1>2, <1>3
<1>13. ASSUME NEW i \in OtherLines(lines)
       PROVE  /\ moved(i) \in OtherLines(new) /\ new[moved(i)] = lines[i]
              /\ TableAt(new, moved(i)) = TableAt(lines, i)
  <2>1. /\ moved(i) \in DOMAIN new /\ new[moved(i)] = lines[i]
        /\ TableAt(new, moved(i)) = TableAt(lines, i)
    <3>. HIDE DEF moved
    <3>. QED  BY <1>4, <1>7, <1>8, <1>11, <1>12
  <2>. HIDE DEF moved
  <2>. QED  BY <2>1 DEF OtherLines
<1>14. ASSUME NEW j \in OtherLines(new)  PROVE \E i \in OtherLines(lines) : moved(i) = j
  <2>1. j \in 1 .. start + 2 + (Len(lines) + 1 - end) /\ TableAt(new, j) # AsemTable
        /\ new[j] # Blank /\ TableAt(new, j) # AsemTableNoted
    BY <1>3 DEF OtherLines
  <2>2. ~(j - start + 1 \in 1 .. 3)
    <3>1. start - 1 + (j - start + 1) = j
      BY <2>1, <1>2
    <3>. QED  BY <3>1, <2>1, <1>10
  <2>3. CASE j < start
    <3>1. j \in 1 .. start - 1
      BY <2>1, <2>3, <1>2
    <3>2. j \in OtherLines(lines)
      BY <3>1, <2>1, <1>4, <1>7, <1>12 DEF OtherLines
    <3>. QED  BY <3>1, <3>2, <1>12
  <2>4. CASE j > start + 2
    <3>. DEFINE i == j - start - 3 + end
    <3>1. i \in end .. Len(lines) /\ moved(i) = j /\ i \in DOMAIN lines
      BY <2>1, <2>4, <1>1, <1>2
    <3>. HIDE DEF i, moved
    <3>2. lines[i] = new[j] /\ TableAt(lines, i) = TableAt(new, j)
      BY <3>1, <1>8
    <3>3. i \in OtherLines(lines)
      BY <3>1, <3>2, <2>1 DEF OtherLines
    <3>. QED  BY <3>1, <3>3
  <2>. QED  BY <2>1, <2>2, <2>3, <2>4, <1>2
<1>15. ASSUME NEW i \in OtherLines(lines), NEW j \in OtherLines(lines), i < j
       PROVE  moved(i) < moved(j)
  BY <1>1, <1>2, <1>11, <1>15
<1>. HIDE DEF moved
<1>16. at \in [OtherLines(lines) -> OtherLines(new)]
  BY <1>13
<1>17. Range(at) = OtherLines(new)
  BY <1>13, <1>14 DEF Range
<1>18. \A i \in OtherLines(lines) : at[i] = moved(i)
  OBVIOUS
<1>. HIDE DEF at
<1>. QED  BY <1>13, <1>15, <1>16, <1>17, <1>18 DEF SameOtherLines

(* What InstallCodex makes of a file, or of none.                          *)
LEMMA CodexIsInstalled ==
    ASSUME NEW c, Holds(CodexFile, c), ~IsRefused(InstallCodex(c))
    PROVE  LET d == InstallCodex(c)
           IN  /\ d.kind = "toml" /\ IsText(d)
               /\ (c.kind = "toml" => WellDefined(c.lines)) =>
                    /\ WellDefined(d.lines)
                    /\ Hidden(d.lines) = {} => Definitions(d.lines) = 1
<1>. DEFINE lines == IF c.kind = "absent" THEN <<>> ELSE c.lines
            new == UpsertCodexAsemTable(lines)
<1>1. IsRefused(Refused("invalid_config")) /\ Absent.kind = "absent"
  BY DEF IsRefused, Refused, Absent
<1>2. /\ InstallCodex(c) = [kind |-> "toml", lines |-> new]
      /\ AsemTable \in Range(lines) \/ ~HasUnsafeAsemDefinition(lines)
  BY <1>1 DEF InstallCodex
<1>3. IsSeq(lines) /\ ((c.kind = "toml" => WellDefined(c.lines)) => WellDefined(lines))
  <2>1. CASE c.kind = "absent"
    <3>1. lines = <<>>
      BY <2>1
    <3>2. Defines(<<>>) = {}
      BY DEF Defines, Seen, Hidden
    <3>. QED  BY <3>1, <3>2, NoElement DEF WellDefined
  <2>2. CASE c.kind # "absent"
    <3>1. c # Absent
      BY <1>1, <2>2
    <3>2. CodexFile # Ignore
      BY DEF CodexFile, Ignore
    <3>3. IsText(c) /\ c.kind = "toml"
      BY <3>1, <3>2 DEF Holds
    <3>. QED  BY <3>3, <2>2 DEF IsText
  <2>. QED  BY <2>1, <2>2
<1>4. /\ IsSeq(new)
      /\ WellDefined(lines) /\ Hidden(new) = {} => \E d : Defines(new) = {d}
  <2>. HIDE DEF lines
  <2>. QED  BY <1>2, <1>3, UpsertAppends, UpsertReplaces
<1>. HIDE DEF new, lines
<1>5. WellDefined(lines) /\ Hidden(new) = {} => Definitions(new) = 1
  <2>1. Definitions(new) = Cardinality(Defines(new))
    BY DEF Definitions, Defines, Seen, Hidden
  <2>. QED  BY <2>1, <1>4, FS_Singleton
<1>6. WellDefined(lines) => WellDefined(new)
  BY <1>4 DEF WellDefined
<1>7. PICK kind : kind = "toml" /\ InstallCodex(c) = [kind |-> kind, lines |-> new]
  BY <1>2
<1>8. InstallCodex(c).kind = kind /\ InstallCodex(c).lines = new
  BY <1>7
<1>. QED  BY <1>3, <1>4, <1>5, <1>6, <1>7, <1>8 DEF IsText

(***************************************************************************)
(* The wizard: what a category gives is builtin, and its default is in it. *)
(***************************************************************************)
LEMMA BuiltinsAre ==
    /\ IsSeq(BuiltinAgents) /\ IsSeq(BuiltinMuxes)
    /\ Range(BuiltinAgents) \cap HasLineBreaks = {}
<1>1. BuiltinAgents \in Seq({"agy", "claude", "codex", "gemini", "kimi", "opencode", "pi"})
  BY DEF BuiltinAgents
<1>2. BuiltinMuxes \in Seq({"herdr", "rmux", "tmux", "zellij"})
  BY DEF BuiltinMuxes
<1>3. Range(BuiltinAgents) \subseteq
         {"agy", "claude", "codex", "gemini", "kimi", "opencode", "pi"}
  BY <1>1 DEF Range
<1>4. Range(BuiltinAgents) \cap HasLineBreaks = {}
  BY <1>3 DEF HasLineBreaks
<1>. QED  BY <1>1, <1>2, <1>4 DEF IsSeq

Ticks(section, fixed, chosen) == section.templates = Ticked(fixed, chosen)

LEMMA CategoryIs ==
    ASSUME NEW builtin, IsSeq(builtin), NEW existing,
           NEW fixed \in Range(builtin) \cup {None}, NEW chosen \in SUBSET Range(builtin),
           NEW section \in ResolveCategory(builtin, existing, fixed, chosen)
    PROVE  /\ IsSection(section)
           /\ Ticks(section, fixed, chosen)
           /\ section.templates \subseteq Range(builtin)
           /\ section.default \in section.templates
<1>. USE DEF Ticks
<1>. DEFINE selected == Ticked(fixed, chosen)
<1>1. selected \subseteq Range(builtin) /\ (fixed # None => fixed \in selected)
  BY DEF Ticked
<1>. HIDE DEF selected
<1>2. ASSUME NEW d \in selected, section = Section(d, selected)
      PROVE  /\ IsSection(section) /\ section.templates = selected
             /\ section.default \in section.templates
  BY <1>2, SectionsAre
<1>3. CASE fixed # None
  BY <1>1, <1>2, <1>3 DEF ResolveCategory, selected
<1>4. CASE fixed = None /\ Cardinality(selected) = 1
  <2>1. selected # {}
    BY <1>4, FS_EmptySet
  <2>2. Highlighted(builtin, existing, selected) \in selected
    <3>. DEFINE T == {i \in DOMAIN builtin : builtin[i] \in selected}
    <3>1. DOMAIN builtin = 1 .. Len(builtin) /\ Len(builtin) \in Nat
      BY Lengths
    <3>2. T \in SUBSET Nat /\ T # {}
      BY <1>1, <2>1, <3>1 DEF Range
    <3>3. PICK i \in T : \A j \in T : i <= j
      BY <3>2, Smallest
    <3>4. i \in DOMAIN builtin /\ builtin[i] \in selected
          /\ \A j \in 1 .. i - 1 : builtin[j] \notin selected
      BY <3>1, <3>3
    <3>. QED  BY <3>4 DEF Highlighted
  <2>3. section = Section(Highlighted(builtin, existing, selected), selected)
    BY <1>4 DEF ResolveCategory, selected
  <2>. QED  BY <1>1, <1>2, <2>2, <2>3 DEF selected
<1>5. CASE fixed = None /\ Cardinality(selected) # 1
  <2>1. section \in {Section(d, selected) : d \in selected}
    BY <1>5 DEF ResolveCategory, selected
  <2>. QED  BY <1>1, <1>2, <2>1 DEF selected
<1>. QED  BY <1>3, <1>4, <1>5

(***************************************************************************)
(* The files a job is about.                                               *)
(***************************************************************************)
LEMMA AboutIs ==
    ASSUME NEW job \in Request
    PROVE  /\ job.op = "init" => About(job) = {Yaml, Ignore}
           /\ job.op = "launch" => About(job) = {Yaml, ProjectAgents, UserAgents}
           /\ job.op = "mcp" /\ ~IsRefused(ResolveMcp(job.target, job.global))
                => About(job) = {ResolveMcp(job.target, job.global).path}
           /\ job.op = "skills" /\ ~IsRefused(ResolveTarget(SkillTargets, job.target, job.global))
                => About(job) = {ResolveTarget(SkillTargets, job.target, job.global).path}
           /\ About(job) \subseteq {Yaml, Ignore, ProjectAgents, UserAgents, CodexFile}
                                     \cup JsonPaths \cup SkillPaths
<1>1. job.op \in {"init", "mcp", "skills", "launch"} /\ job.global \in BOOLEAN
  BY DEF Request
<1>2. CASE job.op = "init"
  BY <1>2 DEF About, TouchedBy
<1>3. CASE job.op = "launch"
  BY <1>3 DEF About, TouchedBy
<1>4. CASE job.op = "mcp"
  <2>1. ~IsRefused(ResolveMcp(job.target, job.global))
           => ResolveMcp(job.target, job.global).path \in {CodexFile} \cup JsonPaths
    BY <1>1, McpResolves
  <2>2. TouchedBy(job) = {ResolveMcp(job.target, job.global).path}
    BY <1>4 DEF TouchedBy
  <2>. QED  BY <1>4, <2>1, <2>2 DEF About
<1>5. CASE job.op = "skills"
  <2>1. ~IsRefused(ResolveTarget(SkillTargets, job.target, job.global))
           => ResolveTarget(SkillTargets, job.target, job.global).path \in SkillPaths
    BY <1>1, SkillResolves
  <2>2. TouchedBy(job) = {ResolveTarget(SkillTargets, job.target, job.global).path}
    BY <1>5 DEF TouchedBy
  <2>. QED  BY <1>5, <2>1, <2>2 DEF About
<1>. QED  BY <1>1, <1>2, <1>3, <1>4, <1>5

LEMMA AboutPaths ==
    ASSUME NEW job \in Request
    PROVE  About(job) \subseteq Paths \ {""}
<1>1. "" \notin {Yaml, Ignore, ProjectAgents, UserAgents, CodexFile}
  BY DEF Yaml, Ignore, ProjectAgents, UserAgents, CodexFile
<1>2. JsonPaths \subseteq Paths \ {""}
  BY DEF JsonPaths, JsonPath, Paths
<1>3. SkillPaths \subseteq Paths \ {""}
  BY DEF SkillPaths, SkillPath, Paths
<1>4. {Yaml, Ignore, ProjectAgents, UserAgents, CodexFile} \subseteq Paths
  BY DEF Paths
<1>. QED  BY <1>1, <1>2, <1>3, <1>4, AboutIs

(***************************************************************************)
(* What a step leaves of the processes.                                    *)
(***************************************************************************)
WholeProc(f) ==
    f = [pc |-> f.pc, path |-> f.path, read |-> f.read, draft |-> f.draft,
         edited |-> f.edited, selected |-> f.selected, made |-> f.made,
         config |-> f.config, source |-> f.source, names |-> f.names, got |-> f.got,
         project |-> f.project, out |-> f.out]
WholeProcs ==
    procs = [p \in Procs |-> procs[p]] /\ \A p \in Procs : WholeProc(procs[p])

(* The others stand where they stood, and p holds what it held, but for    *)
(* the fields that are said to change.                                     *)
Others(p) == WholeProcs' /\ \A q \in Procs \ {p} : procs'[q] = procs[q]
KeepsFile(f, g) == g.path = f.path /\ g.read = f.read /\ g.draft = f.draft
KeepsRest(f, g) == g.edited = f.edited
KeepsInit(f, g) == g.selected = f.selected /\ g.made = f.made
KeepsLaunch(f, g) == g.config = f.config /\ g.project = f.project /\ g.got = f.got

LEMMA FreshIs ==
    /\ WholeProc(Fresh) /\ Fresh.pc = "begin" /\ Fresh.path = Yaml /\ Fresh.edited = FALSE
    /\ Fresh.selected = Absent /\ Fresh.made = Absent /\ Fresh.out = Absent
    /\ Fresh.project = {} /\ Fresh.got = {}
  BY DEF Fresh, WholeProc

LEMMA Replaced ==
    ASSUME WholeProcs, NEW p \in Procs, NEW g, WholeProc(g),
           procs' = [procs EXCEPT ![p] = g]
    PROVE  Others(p) /\ procs'[p] = g
  BY DEF WholeProcs, Others

LEMMA OneField ==
    ASSUME NEW f, WholeProc(f), NEW x
    PROVE  /\ WholeProc([f EXCEPT !.pc = x])
           /\ WholeProc([f EXCEPT !.path = x])
           /\ WholeProc([f EXCEPT !.read = x])
           /\ WholeProc([f EXCEPT !.draft = x])
           /\ WholeProc([f EXCEPT !.selected = x])
           /\ WholeProc([f EXCEPT !.made = x])
           /\ WholeProc([f EXCEPT !.config = x])
           /\ WholeProc([f EXCEPT !.source = x])
           /\ WholeProc([f EXCEPT !.names = x])
           /\ WholeProc([f EXCEPT !.got = x])
           /\ WholeProc([f EXCEPT !.project = x])
           /\ WholeProc([f EXCEPT !.out = x])
<1>1. WholeProc([f EXCEPT !.pc = x])  BY DEF WholeProc
<1>2. WholeProc([f EXCEPT !.path = x])  BY DEF WholeProc
<1>3. WholeProc([f EXCEPT !.read = x])  BY DEF WholeProc
<1>4. WholeProc([f EXCEPT !.draft = x])  BY DEF WholeProc
<1>5. WholeProc([f EXCEPT !.selected = x])  BY DEF WholeProc
<1>6. WholeProc([f EXCEPT !.made = x])  BY DEF WholeProc
<1>7. WholeProc([f EXCEPT !.config = x])  BY DEF WholeProc
<1>8. WholeProc([f EXCEPT !.project = x])  BY DEF WholeProc
<1>9. WholeProc([f EXCEPT !.out = x])  BY DEF WholeProc
<1>10. WholeProc([f EXCEPT !.source = x])  BY DEF WholeProc
<1>11. WholeProc([f EXCEPT !.names = x])  BY DEF WholeProc
<1>12. WholeProc([f EXCEPT !.got = x])  BY DEF WholeProc
<1>. QED  BY <1>1, <1>2, <1>3, <1>4, <1>5, <1>6, <1>7, <1>8, <1>9, <1>10, <1>11, <1>12

LEMMA Going ==
    ASSUME WholeProcs, NEW p \in Procs, NEW pc, Goes(p, pc)
    PROVE  /\ Others(p)
           /\ KeepsFile(procs[p], procs'[p]) /\ KeepsRest(procs[p], procs'[p])
           /\ KeepsInit(procs[p], procs'[p]) /\ KeepsLaunch(procs[p], procs'[p])
           /\ procs'[p].pc = pc /\ procs'[p].out = procs[p].out
<1>. DEFINE f == procs[p]
            g == [f EXCEPT !.pc = pc]
<1>1. WholeProc(f)
  BY DEF WholeProcs
<1>2. procs' = [procs EXCEPT ![p] = g]
  BY DEF Goes
<1>. HIDE DEF f
<1>3. /\ WholeProc(g)
      /\ KeepsFile(f, g) /\ KeepsRest(f, g) /\ KeepsInit(f, g) /\ KeepsLaunch(f, g)
      /\ g.pc = pc /\ g.out = f.out
  BY <1>1 DEF WholeProc, KeepsFile, KeepsRest, KeepsInit, KeepsLaunch
<1>. HIDE DEF g
<1>4. Others(p) /\ procs'[p] = g
  BY <1>2, <1>3, Replaced
<1>. QED  BY <1>3, <1>4 DEF f

LEMMA Ending ==
    ASSUME WholeProcs, NEW p \in Procs, NEW out, Ends(p, out)
    PROVE  /\ Others(p)
           /\ KeepsFile(procs[p], procs'[p]) /\ KeepsRest(procs[p], procs'[p])
           /\ KeepsInit(procs[p], procs'[p]) /\ KeepsLaunch(procs[p], procs'[p])
           /\ procs'[p].pc = "done" /\ procs'[p].out = out
<1>. DEFINE f == procs[p]
<1>0. PICK done : done = "done"
  OBVIOUS
<1>. DEFINE g == [f EXCEPT !.pc = done, !.out = out]
<1>1. WholeProc(f)
  BY DEF WholeProcs
<1>2. procs' = [procs EXCEPT ![p] = g]
  BY <1>0 DEF Ends, WholeProcs
<1>. HIDE DEF f
<1>3. WholeProc(g)
  <2>1. PICK h1 : h1 = [f EXCEPT !.pc = done] /\ WholeProc(h1)
    BY <1>1, OneField
  <2>2. PICK h2 : h2 = [h1 EXCEPT !.out = out] /\ WholeProc(h2)
    BY <2>1, OneField
  <2>3. g = h2
    BY <2>1, <2>2
  <2>. QED  BY <2>1, <2>2, <2>3
<1>4. KeepsFile(f, g)
  BY <1>1 DEF WholeProc, KeepsFile
<1>5. KeepsRest(f, g)
  BY <1>1 DEF WholeProc, KeepsRest
<1>6. KeepsInit(f, g)
  BY <1>1 DEF WholeProc, KeepsInit
<1>7. KeepsLaunch(f, g)
  BY <1>1 DEF WholeProc, KeepsLaunch
<1>8. g.pc = done /\ g.out = out
  BY <1>1 DEF WholeProc
<1>. HIDE DEF g
<1>9. Others(p) /\ procs'[p] = g
  BY <1>2, <1>3, Replaced
<1>. QED  BY <1>0, <1>4, <1>5, <1>6, <1>7, <1>8, <1>9 DEF f

LEMMA Drafting ==
    ASSUME WholeProcs, NEW p \in Procs, NEW path, NEW draft, Drafts(p, path, draft)
    PROVE  /\ Others(p) /\ KeepsRest(procs[p], procs'[p])
           /\ KeepsInit(procs[p], procs'[p]) /\ KeepsLaunch(procs[p], procs'[p])
           /\ procs'[p].pc = "write" /\ procs'[p].out = procs[p].out
           /\ procs'[p].path = path /\ procs'[p].draft = draft
           /\ procs'[p].read = files[path]
<1>. DEFINE f == procs[p]
<1>0. PICK write, read : write = "write" /\ read = files[path]
  OBVIOUS
<1>. DEFINE g == [f EXCEPT !.pc = write, !.path = path, !.read = read, !.draft = draft]
<1>1. WholeProc(f)
  BY DEF WholeProcs
<1>2. procs' = [procs EXCEPT ![p] = g]
  BY <1>0 DEF Drafts, WholeProcs
<1>. HIDE DEF f
<1>3. WholeProc(g)
  <2>1. PICK h1 : h1 = [f EXCEPT !.pc = write] /\ WholeProc(h1)
    BY <1>1, OneField
  <2>2. PICK h2 : h2 = [h1 EXCEPT !.path = path] /\ WholeProc(h2)
    BY <2>1, OneField
  <2>3. PICK h3 : h3 = [h2 EXCEPT !.read = read] /\ WholeProc(h3)
    BY <2>2, OneField
  <2>4. PICK h4 : h4 = [h3 EXCEPT !.draft = draft] /\ WholeProc(h4)
    BY <2>3, OneField
  <2>5. g = h4
    BY <2>1, <2>2, <2>3, <2>4
  <2>. QED  BY <2>1, <2>2, <2>3, <2>4, <2>5
<1>4. KeepsRest(f, g)
  BY <1>1 DEF WholeProc, KeepsRest
<1>5. KeepsInit(f, g)
  BY <1>1 DEF WholeProc, KeepsInit
<1>6. KeepsLaunch(f, g)
  BY <1>1 DEF WholeProc, KeepsLaunch
<1>7. /\ g.pc = write /\ g.out = f.out /\ g.path = path /\ g.draft = draft
      /\ g.read = read
  BY <1>1 DEF WholeProc
<1>. HIDE DEF g
<1>8. Others(p) /\ procs'[p] = g
  BY <1>2, <1>3, Replaced
<1>. QED  BY <1>0, <1>4, <1>5, <1>6, <1>7, <1>8 DEF f

(* A selection, of a config or of a profile; what a launch has read.       *)
Selects(p, pc, selected) == procs' = [procs EXCEPT ![p].pc = pc, ![p].selected = selected]
Loads(p, pc, config) == procs' = [procs EXCEPT ![p].config = config, ![p].pc = pc]
Reads(p, pc, names, got) ==
    procs' = [procs EXCEPT ![p].pc = pc, ![p].names = names, ![p].got = got]
Turns(p, pc, project, source) ==
    procs' = [procs EXCEPT ![p].pc = pc, ![p].project = project, ![p].source = source]

LEMMA Selecting ==
    ASSUME WholeProcs, NEW p \in Procs, NEW pc, NEW selected, Selects(p, pc, selected)
    PROVE  /\ Others(p) /\ KeepsFile(procs[p], procs'[p]) /\ KeepsRest(procs[p], procs'[p])
           /\ KeepsLaunch(procs[p], procs'[p])
           /\ procs'[p].pc = pc /\ procs'[p].out = procs[p].out
           /\ procs'[p].selected = selected /\ procs'[p].made = procs[p].made
<1>. DEFINE f == procs[p]
            g == [f EXCEPT !.pc = pc, !.selected = selected]
<1>1. WholeProc(f)
  BY DEF WholeProcs
<1>2. procs' = [procs EXCEPT ![p] = g]
  BY DEF WholeProcs, Selects
<1>. HIDE DEF f
<1>3. WholeProc(g)
  <2>1. PICK h1 : h1 = [f EXCEPT !.pc = pc] /\ WholeProc(h1)
    BY <1>1, OneField
  <2>2. PICK h2 : h2 = [h1 EXCEPT !.selected = selected] /\ WholeProc(h2)
    BY <2>1, OneField
  <2>3. g = h2
    BY <2>1, <2>2
  <2>. QED  BY <2>1, <2>2, <2>3
<1>4. KeepsFile(f, g)
  BY <1>1 DEF WholeProc, KeepsFile
<1>5. KeepsRest(f, g)
  BY <1>1 DEF WholeProc, KeepsRest
<1>6. KeepsLaunch(f, g)
  BY <1>1 DEF WholeProc, KeepsLaunch
<1>7. g.pc = pc /\ g.out = f.out /\ g.selected = selected /\ g.made = f.made
  BY <1>1 DEF WholeProc
<1>. HIDE DEF g
<1>8. Others(p) /\ procs'[p] = g
  BY <1>2, <1>3, Replaced
<1>. QED  BY <1>4, <1>5, <1>6, <1>7, <1>8 DEF f

LEMMA Loading ==
    ASSUME WholeProcs, NEW p \in Procs, NEW pc, NEW config, Loads(p, pc, config)
    PROVE  /\ Others(p) /\ KeepsFile(procs[p], procs'[p]) /\ KeepsRest(procs[p], procs'[p])
           /\ KeepsInit(procs[p], procs'[p])
           /\ procs'[p].pc = pc /\ procs'[p].out = procs[p].out
           /\ procs'[p].config = config /\ procs'[p].project = procs[p].project
           /\ procs'[p].got = procs[p].got
<1>. DEFINE f == procs[p]
            g == [f EXCEPT !.config = config, !.pc = pc]
<1>1. WholeProc(f)
  BY DEF WholeProcs
<1>2. procs' = [procs EXCEPT ![p] = g]
  BY DEF WholeProcs, Loads
<1>. HIDE DEF f
<1>3. WholeProc(g)
  <2>1. PICK h1 : h1 = [f EXCEPT !.config = config] /\ WholeProc(h1)
    BY <1>1, OneField
  <2>2. PICK h2 : h2 = [h1 EXCEPT !.pc = pc] /\ WholeProc(h2)
    BY <2>1, OneField
  <2>3. g = h2
    BY <2>1, <2>2
  <2>. QED  BY <2>1, <2>2, <2>3
<1>4. KeepsFile(f, g)
  BY <1>1 DEF WholeProc, KeepsFile
<1>5. KeepsRest(f, g)
  BY <1>1 DEF WholeProc, KeepsRest
<1>6. KeepsInit(f, g)
  BY <1>1 DEF WholeProc, KeepsInit
<1>7. /\ g.pc = pc /\ g.out = f.out /\ g.config = config /\ g.project = f.project
      /\ g.got = f.got
  BY <1>1 DEF WholeProc
<1>. HIDE DEF g
<1>8. Others(p) /\ procs'[p] = g
  BY <1>2, <1>3, Replaced
<1>. QED  BY <1>4, <1>5, <1>6, <1>7, <1>8 DEF f

LEMMA Reading ==
    ASSUME WholeProcs, NEW p \in Procs, NEW pc, NEW names, NEW got,
           Reads(p, pc, names, got)
    PROVE  /\ Others(p) /\ KeepsFile(procs[p], procs'[p]) /\ KeepsRest(procs[p], procs'[p])
           /\ KeepsInit(procs[p], procs'[p])
           /\ procs'[p].pc = pc /\ procs'[p].out = procs[p].out
           /\ procs'[p].config = procs[p].config
           /\ procs'[p].got = got /\ procs'[p].project = procs[p].project
<1>. DEFINE f == procs[p]
            g == [f EXCEPT !.pc = pc, !.names = names, !.got = got]
<1>1. WholeProc(f)
  BY DEF WholeProcs
<1>2. procs' = [procs EXCEPT ![p] = g]
  BY DEF WholeProcs, Reads
<1>. HIDE DEF f
<1>3. WholeProc(g)
  <2>1. PICK h1 : h1 = [f EXCEPT !.pc = pc] /\ WholeProc(h1)
    BY <1>1, OneField
  <2>2. PICK h2 : h2 = [h1 EXCEPT !.names = names] /\ WholeProc(h2)
    BY <2>1, OneField
  <2>3. PICK h3 : h3 = [h2 EXCEPT !.got = got] /\ WholeProc(h3)
    BY <2>2, OneField
  <2>4. g = h3
    BY <2>1, <2>2, <2>3
  <2>. QED  BY <2>1, <2>2, <2>3, <2>4
<1>4. KeepsFile(f, g)
  BY <1>1 DEF WholeProc, KeepsFile
<1>5. KeepsRest(f, g)
  BY <1>1 DEF WholeProc, KeepsRest
<1>6. KeepsInit(f, g)
  BY <1>1 DEF WholeProc, KeepsInit
<1>7. /\ g.pc = pc /\ g.out = f.out /\ g.config = f.config
      /\ g.got = got /\ g.project = f.project
  BY <1>1 DEF WholeProc
<1>. HIDE DEF g
<1>8. Others(p) /\ procs'[p] = g
  BY <1>2, <1>3, Replaced
<1>. QED  BY <1>4, <1>5, <1>6, <1>7, <1>8 DEF f

LEMMA Turning ==
    ASSUME WholeProcs, NEW p \in Procs, NEW pc, NEW project, NEW source,
           Turns(p, pc, project, source)
    PROVE  /\ Others(p) /\ KeepsFile(procs[p], procs'[p]) /\ KeepsRest(procs[p], procs'[p])
           /\ KeepsInit(procs[p], procs'[p])
           /\ procs'[p].pc = pc /\ procs'[p].out = procs[p].out
           /\ procs'[p].config = procs[p].config
           /\ procs'[p].got = procs[p].got /\ procs'[p].project = project
<1>. DEFINE f == procs[p]
            g == [f EXCEPT !.pc = pc, !.project = project, !.source = source]
<1>1. WholeProc(f)
  BY DEF WholeProcs
<1>2. procs' = [procs EXCEPT ![p] = g]
  BY DEF WholeProcs, Turns
<1>. HIDE DEF f
<1>3. WholeProc(g)
  <2>1. PICK h1 : h1 = [f EXCEPT !.pc = pc] /\ WholeProc(h1)
    BY <1>1, OneField
  <2>2. PICK h2 : h2 = [h1 EXCEPT !.project = project] /\ WholeProc(h2)
    BY <2>1, OneField
  <2>3. PICK h3 : h3 = [h2 EXCEPT !.source = source] /\ WholeProc(h3)
    BY <2>2, OneField
  <2>4. g = h3
    BY <2>1, <2>2, <2>3
  <2>. QED  BY <2>1, <2>2, <2>3, <2>4
<1>4. KeepsFile(f, g)
  BY <1>1 DEF WholeProc, KeepsFile
<1>5. KeepsRest(f, g)
  BY <1>1 DEF WholeProc, KeepsRest
<1>6. KeepsInit(f, g)
  BY <1>1 DEF WholeProc, KeepsInit
<1>7. /\ g.pc = pc /\ g.out = f.out /\ g.config = f.config
      /\ g.got = f.got /\ g.project = project
  BY <1>1 DEF WholeProc
<1>. HIDE DEF g
<1>8. Others(p) /\ procs'[p] = g
  BY <1>2, <1>3, Replaced
<1>. QED  BY <1>4, <1>5, <1>6, <1>7, <1>8 DEF f

(* A rename ends the job, but for the config of an init.                   *)
LEMMA Renaming ==
    ASSUME WholeProcs, NEW p \in Procs, Rename(p)
    PROVE  LET f == procs[p]
               g == procs'[p]
           IN  /\ Others(p) /\ KeepsFile(f, g) /\ KeepsRest(f, g) /\ KeepsLaunch(f, g)
               /\ g.selected = f.selected
               /\ IF jobs[p].op = "init" /\ f.path = Yaml
                  THEN g.pc = "ignore" /\ g.out = Absent /\ g.made = f.draft
                  ELSE g.pc = "done" /\ g.out = Done /\ g.made = f.made
<1>. DEFINE f == procs[p]
            last == ~(jobs[p].op = "init" /\ f.path = Yaml)
<1>0. PICK pc, out, made : /\ pc = (IF last THEN "done" ELSE "ignore")
                           /\ out = (IF last THEN Done ELSE Absent)
                           /\ made = (IF last THEN f.made ELSE f.draft)
  OBVIOUS
<1>. DEFINE g == [f EXCEPT !.pc = pc, !.out = out, !.made = made]
<1>1. WholeProc(f)
  BY DEF WholeProcs
<1>2. procs' = [procs EXCEPT ![p] = g]
  BY <1>0 DEF Rename, WholeProcs
<1>. HIDE DEF f
<1>3. WholeProc(g)
  <2>1. PICK h1 : h1 = [f EXCEPT !.pc = pc] /\ WholeProc(h1)
    BY <1>1, OneField
  <2>2. PICK h2 : h2 = [h1 EXCEPT !.out = out] /\ WholeProc(h2)
    BY <2>1, OneField
  <2>3. PICK h3 : h3 = [h2 EXCEPT !.made = made] /\ WholeProc(h3)
    BY <2>2, OneField
  <2>4. g = h3
    BY <2>1, <2>2, <2>3
  <2>. QED  BY <2>1, <2>2, <2>3, <2>4
<1>4. KeepsFile(f, g)
  BY <1>1 DEF WholeProc, KeepsFile
<1>5. KeepsRest(f, g)
  BY <1>1 DEF WholeProc, KeepsRest
<1>6. KeepsLaunch(f, g)
  BY <1>1 DEF WholeProc, KeepsLaunch
<1>7. g.selected = f.selected /\ g.pc = pc /\ g.out = out /\ g.made = made
  BY <1>1 DEF WholeProc
<1>. HIDE DEF g
<1>8. Others(p) /\ procs'[p] = g
  BY <1>2, <1>3, Replaced
<1>. QED  BY <1>0, <1>4, <1>5, <1>6, <1>7, <1>8 DEF f

LEMMA Editing ==
    ASSUME WholeProcs, NEW path, Edit(path), NEW p \in Procs
    PROVE  LET f == procs[p]
               g == procs'[p]
           IN  /\ WholeProcs'
               /\ KeepsFile(f, g) /\ KeepsInit(f, g) /\ KeepsLaunch(f, g)
               /\ g.pc = f.pc /\ g.out = f.out
               /\ g.edited = (f.edited \/ path \in About(jobs[p]))
<1>. DEFINE new(q) == [procs[q] EXCEPT !.edited = @ \/ path \in About(jobs[q])]
<1>1. procs' = [q \in Procs |-> new(q)]
  BY DEF Edit
<1>2. ASSUME NEW q \in Procs
      PROVE  /\ WholeProc(new(q)) /\ KeepsFile(procs[q], new(q))
             /\ KeepsInit(procs[q], new(q)) /\ KeepsLaunch(procs[q], new(q))
             /\ new(q).pc = procs[q].pc /\ new(q).out = procs[q].out
             /\ new(q).edited = (procs[q].edited \/ path \in About(jobs[q]))
  <2>. DEFINE f == procs[q]
  <2>0. PICK edited : edited = (f.edited \/ path \in About(jobs[q]))
    OBVIOUS
  <2>1. WholeProc(f)
    BY DEF WholeProcs
  <2>2. new(q) = [f EXCEPT !.edited = edited]
    BY <2>0
  <2>. HIDE DEF f, new
  <2>. QED  BY <2>0, <2>1, <2>2 DEF WholeProc, KeepsFile, KeepsInit, KeepsLaunch, f
<1>. HIDE DEF new
<1>. QED  BY <1>1, <1>2 DEF WholeProcs

(***************************************************************************)
(* The invariant: every file has the form of what it holds, and so has     *)
(* every draft that is about to replace one.                               *)
(***************************************************************************)
ProcFits(f, job, temp, D) ==
    /\ f.pc \in PlacesOf(job.op) \cup {"done", "crashed"}
    /\ f.path \in D \cup {Yaml}
    /\ f.pc = "done" <=> f.out # Absent
    /\ f.pc \notin {"rename", "done", "crashed"} => temp = "none"
    /\ f.out = Done => temp = "none"
    /\ f.pc \in {"write", "rename"} => f.path \in About(job) /\ Holds(f.path, f.draft)
    /\ f.pc = "wizard" => /\ KnownIfGiven(job.agent, BuiltinAgents)
                          /\ KnownIfGiven(job.mux, BuiltinMuxes)
    /\ job.op = "init" => f.selected = Absent \/ IsConfig(f.selected)
    /\ job.op = "mcp" /\ f.pc = "read" => ~IsRefused(ResolveMcp(job.target, job.global))

WorldFits ==
    /\ jobs \in [Procs -> Request]
    /\ DOMAIN files \subseteq Paths \ {""}
    /\ files = [path \in DOMAIN files |-> files[path]]
    /\ \A p \in Procs : About(jobs[p]) \subseteq DOMAIN files
ContentsFit == \A path \in DOMAIN files : Holds(path, files[path])

FilesInv ==
    /\ WorldFits /\ ContentsFit /\ WholeProcs
    /\ temps \in [Procs -> {"none", "torn", "whole"}]
    /\ \A p \in Procs : ProcFits(procs[p], jobs[p], temps[p], DOMAIN files)
    /\ edits \in 0 .. MaxEdits /\ faults \in 0 .. MaxFaults

LEMMA Outcomes ==
    /\ Absent.kind = "absent" /\ Done.kind = "ok" /\ Done # Absent
    /\ \A code : Refused(code).kind = "refused" /\ IsRefused(Refused(code))
    /\ \A kind : Result(kind).kind = kind
    /\ \A out : out.kind # "absent" => out # Absent
    /\ \A out : out.kind # "ok" => out # Done
    /\ \A out : IsRefused(out) => out # Absent /\ out # Done
  BY DEF Absent, Done, Result, Refused, IsRefused

LEMMA FreshFits ==
    ASSUME NEW job \in Request, NEW D
    PROVE  ProcFits(Fresh, job, "none", D)
<1>1. job.op \in {"init", "mcp", "skills", "launch"}
  BY DEF Request
<1>2. "begin" \in PlacesOf(job.op)
  BY <1>1 DEF PlacesOf
<1>. QED  BY <1>2, FreshIs, Outcomes DEF ProcFits

LEMMA FilesStart == Init => FilesInv
<1>. SUFFICES ASSUME Init PROVE FilesInv
  OBVIOUS
<1>1. PICK s \in Scenarios :
        /\ jobs = s.jobs
        /\ files = [path \in DOMAIN s.files \cup UNION {About(s.jobs[p]) : p \in Procs} |->
                       IF path \in DOMAIN s.files THEN s.files[path] ELSE Absent]
        /\ temps = [p \in Procs |-> "none"]
        /\ procs = [p \in Procs |-> Fresh]
        /\ edits = 0 /\ faults = 0
  BY DEF Init
<1>2. /\ jobs \in [Procs -> Request] /\ DOMAIN s.files \subseteq Paths \ {""}
      /\ \A path \in DOMAIN s.files : s.files[path] \in ContentsOf(path)
      /\ MaxEdits \in Nat /\ MaxFaults \in Nat
  BY <1>1, FilesAssumption
<1>3. WorldFits
  <2>1. \A p \in Procs : About(jobs[p]) \subseteq Paths \ {""}
    BY <1>2, AboutPaths
  <2>2. DOMAIN files = DOMAIN s.files \cup UNION {About(s.jobs[p]) : p \in Procs}
    BY <1>1
  <2>3. \A p \in Procs : About(jobs[p]) \subseteq DOMAIN files
    BY <1>1, <2>2
  <2>4. DOMAIN files \subseteq Paths \ {""}
    BY <1>1, <1>2, <2>1, <2>2
  <2>5. files = [path \in DOMAIN files |-> files[path]]
    BY <1>1
  <2>. QED  BY <1>2, <2>3, <2>4, <2>5 DEF WorldFits
<1>4. ContentsFit
  <2>. SUFFICES ASSUME NEW path \in DOMAIN files  PROVE Holds(path, files[path])
    BY DEF ContentsFit
  <2>1. CASE path \in DOMAIN s.files
    <3>1. files[path] = s.files[path]
      BY <1>1, <2>1
    <3>. QED  BY <3>1, <2>1, <1>2, GivenHolds
  <2>2. CASE path \notin DOMAIN s.files
    <3>1. files[path] = Absent
      BY <1>1, <2>2
    <3>. QED  BY <3>1 DEF Holds
  <2>. QED  BY <2>1, <2>2
<1>5. WholeProcs
  BY <1>1, FreshIs DEF WholeProcs
<1>6. temps \in [Procs -> {"none", "torn", "whole"}]
  BY <1>1
<1>7. \A p \in Procs : ProcFits(procs[p], jobs[p], temps[p], DOMAIN files)
  BY <1>1, <1>2, FreshFits
<1>8. edits \in 0 .. MaxEdits /\ faults \in 0 .. MaxFaults
  <2>1. MaxEdits \in Nat /\ MaxFaults \in Nat
    BY <1>2
  <2>2. edits = 0 /\ faults = 0
    BY <1>1
  <2>. QED  BY <2>1, <2>2
<1>. QED  BY <1>3, <1>4, <1>5, <1>6, <1>7, <1>8 DEF FilesInv

(* A step of p that leaves the files alone.                                *)
LEMMA StepFits ==
    ASSUME FilesInv, NEW p \in Procs, Others(p),
           files' = files, jobs' = jobs, edits' = edits,
           temps' \in [Procs -> {"none", "torn", "whole"}],
           \A q \in Procs \ {p} : temps'[q] = temps[q],
           faults' \in 0 .. MaxFaults,
           ProcFits(procs'[p], jobs[p], temps'[p], DOMAIN files)
    PROVE  FilesInv'
<1>1. WorldFits' /\ ContentsFit'
  BY DEF FilesInv, WorldFits, ContentsFit
<1>2. WholeProcs'
  BY DEF Others
<1>3. \A q \in Procs : ProcFits(procs'[q], jobs'[q], temps'[q], DOMAIN files')
  BY DEF FilesInv, Others
<1>. QED  BY <1>1, <1>2, <1>3 DEF FilesInv

LEMMA OnlyFits ==
    ASSUME FilesInv, NEW p \in Procs, Others(p), Only(p),
           ProcFits(procs'[p], jobs[p], temps[p], DOMAIN files)
    PROVE  FilesInv'
<1>1. /\ files' = files /\ temps' = temps /\ jobs' = jobs /\ edits' = edits
      /\ faults' = faults
  BY DEF Only
<1>2. temps \in [Procs -> {"none", "torn", "whole"}] /\ faults \in 0 .. MaxFaults
  BY DEF FilesInv
<1>. QED  BY <1>1, <1>2, StepFits

(* A process that ends, from where it has no temporary file.               *)
LEMMA EndFits ==
    ASSUME FilesInv, NEW p \in Procs, NEW out, Ends(p, out), Only(p), out # Absent,
           procs[p].pc \notin {"rename", "done", "crashed"}
    PROVE  FilesInv'
<1>1. ProcFits(procs[p], jobs[p], temps[p], DOMAIN files) /\ WholeProcs
  BY DEF FilesInv
<1>2. /\ Others(p) /\ procs'[p].pc = "done" /\ procs'[p].out = out
      /\ procs'[p].path = procs[p].path /\ procs'[p].selected = procs[p].selected
  BY <1>1, Ending DEF KeepsFile, KeepsInit
<1>3. ProcFits(procs'[p], jobs[p], temps[p], DOMAIN files)
  BY <1>1, <1>2 DEF ProcFits
<1>. QED  BY <1>2, <1>3, OnlyFits

(* A process that goes on.                                                 *)
LEMMA GoFits ==
    ASSUME FilesInv, NEW p \in Procs, NEW pc \in PlacesOf(jobs[p].op),
           Goes(p, pc), Only(p),
           pc \notin {"write", "rename", "done", "crashed"},
           procs[p].pc \notin {"rename", "done", "crashed"},
           pc = "wizard" => /\ KnownIfGiven(jobs[p].agent, BuiltinAgents)
                            /\ KnownIfGiven(jobs[p].mux, BuiltinMuxes),
           pc = "read" /\ jobs[p].op = "mcp"
             => ~IsRefused(ResolveMcp(jobs[p].target, jobs[p].global))
    PROVE  FilesInv'
<1>1. ProcFits(procs[p], jobs[p], temps[p], DOMAIN files) /\ WholeProcs
  BY DEF FilesInv
<1>2. /\ Others(p) /\ procs'[p].pc = pc /\ procs'[p].out = procs[p].out
      /\ procs'[p].path = procs[p].path /\ procs'[p].selected = procs[p].selected
  BY <1>1, Going DEF KeepsFile, KeepsInit
<1>3. ProcFits(procs'[p], jobs[p], temps[p], DOMAIN files)
  BY <1>1, <1>2 DEF ProcFits
<1>. QED  BY <1>2, <1>3, OnlyFits

(* A process that has drafted what a file is to be.                        *)
LEMMA DraftFits ==
    ASSUME FilesInv, NEW p \in Procs, NEW path \in About(jobs[p]), NEW draft,
           Drafts(p, path, draft), Only(p), Holds(path, draft),
           jobs[p].op \in {"init", "mcp", "skills"},
           procs[p].pc \notin {"rename", "done", "crashed"}
    PROVE  FilesInv'
<1>1. ProcFits(procs[p], jobs[p], temps[p], DOMAIN files) /\ WholeProcs
      /\ About(jobs[p]) \subseteq DOMAIN files
  BY DEF FilesInv, WorldFits
<1>2. /\ Others(p) /\ procs'[p].pc = "write" /\ procs'[p].out = procs[p].out
      /\ procs'[p].path = path /\ procs'[p].draft = draft
      /\ procs'[p].selected = procs[p].selected
  BY <1>1, Drafting DEF KeepsInit
<1>3. "write" \in PlacesOf(jobs[p].op)
  BY DEF PlacesOf
<1>4. ProcFits(procs'[p], jobs[p], temps[p], DOMAIN files)
  BY <1>1, <1>2, <1>3 DEF ProcFits
<1>. QED  BY <1>2, <1>4, OnlyFits

(***************************************************************************)
(* The steps, one by one.                                                  *)
(***************************************************************************)

(* What runInit and initProject would make of the command line.            *)
IdOf(job, sel) == IF sel = Absent THEN job.id ELSE sel.id
RenderOf(job, sel) ==
    RenderConfig(IdOf(job, sel), IF sel = Absent THEN DefaultMux ELSE sel.mux,
                 IF sel = Absent THEN DefaultAgent ELSE sel.agent)

LEMMA RenderedHolds ==
    ASSUME NEW job, NEW sel, sel = Absent \/ IsConfig(sel)
    PROVE  Holds(Yaml, RenderOf(job, sel)) /\ RenderOf(job, sel).kind = "yaml"
<1>1. Yaml \notin {Ignore, CodexFile}
  BY DEF Yaml, Ignore, CodexFile
<1>2. IsYaml(RenderOf(job, sel)) /\ RenderOf(job, sel).kind = "yaml"
  <2>1. CASE sel = Absent
    BY <2>1, DefaultsAre, RenderIs DEF RenderOf
  <2>2. CASE sel # Absent
    <3>1. IsSection(sel.mux) /\ IsSection(sel.agent)
      BY <2>2 DEF IsConfig
    <3>. QED  BY <2>2, <3>1, RenderIs DEF RenderOf
  <2>. QED  BY <2>1, <2>2
<1>. QED  BY <1>1, <1>2 DEF Holds

LEMMA ConfigsAre ==
    ASSUME NEW c, IsConfig(c)
    PROVE  c.kind = "config" /\ c # Absent /\ ~IsRefused(c)
<1>1. c.kind = "config"
  BY DEF IsConfig
<1>. QED  BY <1>1, Outcomes DEF IsRefused

(* RunInit: it goes on to the wizard or to the config, or is refused.      *)
LEMMA RunInitSteps ==
    ASSUME NEW p \in Procs, RunInit(p)
    PROVE  LET job == jobs[p]
               sel == MaterializeInitConfig(job.id, Section(job.mux, {}), Section(job.agent, {}))
           IN  /\ At(p, "init", "begin") /\ Only(p)
               /\ \/ Goes(p, "init")
                  \/ /\ KnownIfGiven(job.agent, BuiltinAgents)
                     /\ KnownIfGiven(job.mux, BuiltinMuxes)
                     /\ job.interactive /\ Goes(p, "wizard")
                  \/ \E out : Ends(p, out) /\ IsRefused(out)
                  \/ /\ ~job.interactive /\ ~IsRefused(sel)
                     /\ Selects(p, "init", sel)
  BY Outcomes DEF RunInit, Selects

LEMMA RunInitFits ==
    ASSUME FilesInv, NEW p \in Procs, RunInit(p)
    PROVE  FilesInv'
<1>. DEFINE job == jobs[p]
            sel == MaterializeInitConfig(job.id, Section(job.mux, {}), Section(job.agent, {}))
<1>1. At(p, "init", "begin") /\ Only(p)
  BY RunInitSteps
<1>2. /\ job.op = "init" /\ procs[p].pc = "begin"
      /\ {"wizard", "init"} \subseteq PlacesOf(job.op)
  BY <1>1 DEF At, PlacesOf
<1>3. CASE Goes(p, "init")
  BY <1>1, <1>2, <1>3, GoFits
<1>4. CASE /\ KnownIfGiven(job.agent, BuiltinAgents) /\ KnownIfGiven(job.mux, BuiltinMuxes)
           /\ Goes(p, "wizard")
  BY <1>1, <1>2, <1>4, GoFits
<1>5. ASSUME NEW out, Ends(p, out), IsRefused(out)  PROVE FilesInv'
  BY <1>1, <1>2, <1>5, EndFits, Outcomes
<1>6. ASSUME ~IsRefused(sel), Selects(p, "init", sel)
      PROVE  FilesInv'
  <2>1. IsConfig(sel)
    BY <1>6, SelectionIs
  <2>. HIDE DEF sel
  <2>2. ProcFits(procs[p], jobs[p], temps[p], DOMAIN files) /\ WholeProcs
    BY DEF FilesInv
  <2>3. /\ Others(p) /\ procs'[p].pc = "init" /\ procs'[p].out = procs[p].out
        /\ procs'[p].path = procs[p].path /\ procs'[p].selected = sel
    BY <1>6, <2>2, Selecting DEF KeepsFile
  <2>4. ProcFits(procs'[p], jobs[p], temps[p], DOMAIN files)
    BY <1>2, <2>1, <2>2, <2>3 DEF ProcFits
  <2>. QED  BY <1>1, <2>3, <2>4, OnlyFits
<1>. QED  BY <1>3, <1>4, <1>5, <1>6, RunInitSteps

(* Wizard: the answers are builtin templates, so the selection is a config. *)
LEMMA WizardSteps ==
    ASSUME NEW p \in Procs, Wizard(p),
           KnownIfGiven(jobs[p].agent, BuiltinAgents), KnownIfGiven(jobs[p].mux, BuiltinMuxes)
    PROVE  /\ At(p, "init", "wizard") /\ Only(p)
           /\ \E id, agent, mux, sel :
                /\ sel = MaterializeInitConfig(id, mux, agent) /\ IsConfig(sel)
                /\ jobs[p].id # None => id = jobs[p].id
                /\ \E m \in Selections : mux.templates = Ticked(jobs[p].mux, m)
                /\ mux.default \in mux.templates
                /\ Selects(p, "init", sel)
<1>1. PICK a \in Selections, m \in Selections,
           id \in (IF jobs[p].id = None THEN Numbers \cup NeedsQuotes ELSE {jobs[p].id}) :
        /\ a \subseteq Range(BuiltinAgents) /\ m \subseteq Range(BuiltinMuxes)
        /\ \E agent \in ResolveCategory(BuiltinAgents, "claude", jobs[p].agent, a),
              mux \in ResolveCategory(BuiltinMuxes, "herdr", jobs[p].mux, m) :
            Selects(p, "init", MaterializeInitConfig(id, mux, agent))
  BY DEF Wizard, Selects
<1>2. PICK agent \in ResolveCategory(BuiltinAgents, "claude", jobs[p].agent, a),
           mux \in ResolveCategory(BuiltinMuxes, "herdr", jobs[p].mux, m) :
        Selects(p, "init", MaterializeInitConfig(id, mux, agent))
  BY <1>1
<1>3. /\ jobs[p].agent \in Range(BuiltinAgents) \cup {None}
      /\ jobs[p].mux \in Range(BuiltinMuxes) \cup {None}
  BY DEF KnownIfGiven
<1>4. /\ agent.templates \subseteq Range(BuiltinAgents) /\ agent.default \in agent.templates
  BY <1>1, <1>3, BuiltinsAre, CategoryIs
<1>5. /\ mux.templates \subseteq Range(BuiltinMuxes) /\ mux.default \in mux.templates
      /\ mux.templates = Ticked(jobs[p].mux, m)
  <2>1. IsSeq(BuiltinMuxes) /\ m \in SUBSET Range(BuiltinMuxes)
    BY <1>1, BuiltinsAre
  <2>2. PICK herdr : mux \in ResolveCategory(BuiltinMuxes, herdr, jobs[p].mux, m)
    BY <1>2
  <2>3. Ticks(mux, jobs[p].mux, m)
    BY <1>3, <2>1, <2>2, CategoryIs
  <2>4. mux.templates \subseteq Range(BuiltinMuxes) /\ mux.default \in mux.templates
    BY <1>3, <2>1, <2>2, CategoryIs
  <2>. QED  BY <2>3, <2>4 DEF Ticks
<1>6. IsConfig(MaterializeInitConfig(id, mux, agent))
  BY <1>4, <1>5, SelectionIs
<1>7. jobs[p].id # None => id = jobs[p].id
  OBVIOUS
<1>8. At(p, "init", "wizard") /\ Only(p)
  BY DEF Wizard
<1>. QED  BY <1>2, <1>4, <1>5, <1>6, <1>7, <1>8

LEMMA WizardFits ==
    ASSUME FilesInv, NEW p \in Procs, Wizard(p)
    PROVE  FilesInv'
<1>1. /\ ProcFits(procs[p], jobs[p], temps[p], DOMAIN files) /\ WholeProcs
      /\ procs[p].pc = "wizard" /\ jobs[p].op = "init" /\ Only(p)
  BY DEF FilesInv, Wizard, At
<1>2. KnownIfGiven(jobs[p].agent, BuiltinAgents) /\ KnownIfGiven(jobs[p].mux, BuiltinMuxes)
  BY <1>1 DEF ProcFits
<1>3. PICK sel : /\ IsConfig(sel)
                 /\ Selects(p, "init", sel)
  BY <1>2, WizardSteps
<1>4. /\ Others(p) /\ procs'[p].pc = "init" /\ procs'[p].out = procs[p].out
      /\ procs'[p].path = procs[p].path /\ procs'[p].selected = sel
  BY <1>1, <1>3, Selecting DEF KeepsFile
<1>5. "init" \in PlacesOf(jobs[p].op)
  BY <1>1 DEF PlacesOf
<1>6. ProcFits(procs'[p], jobs[p], temps[p], DOMAIN files)
  BY <1>1, <1>3, <1>4, <1>5 DEF ProcFits
<1>. QED  BY <1>1, <1>4, <1>6, OnlyFits

LEMMA CancelFits ==
    ASSUME FilesInv, NEW p \in Procs, WizardCancelled(p)
    PROVE  FilesInv'
<1>1. procs[p].pc = "wizard" /\ Ends(p, Result("cancelled")) /\ Only(p)
  BY DEF WizardCancelled, At
<1>2. Result("cancelled") # Absent
  BY Outcomes
<1>. QED  BY <1>1, <1>2, EndFits

(* InitConfig: the config of the selection, unless there is one.           *)
LEMMA InitConfigSteps ==
    ASSUME NEW p \in Procs, InitConfig(p)
    PROVE  /\ At(p, "init", "init") /\ Only(p)
           /\ \/ files[Yaml].kind # "absent" /\ Goes(p, "ignore")
              \/ \E out : Ends(p, out) /\ IsRefused(out)
              \/ /\ IdOf(jobs[p], procs[p].selected) # None
                 /\ Drafts(p, Yaml, RenderOf(jobs[p], procs[p].selected))
  BY Outcomes DEF InitConfig, IdOf, RenderOf

LEMMA InitConfigFits ==
    ASSUME FilesInv, NEW p \in Procs, InitConfig(p)
    PROVE  FilesInv'
<1>1. At(p, "init", "init") /\ Only(p)
  BY InitConfigSteps
<1>2. /\ jobs[p].op = "init" /\ procs[p].pc = "init" /\ "ignore" \in PlacesOf(jobs[p].op)
      /\ About(jobs[p]) = {Yaml, Ignore}
      /\ procs[p].selected = Absent \/ IsConfig(procs[p].selected)
  BY <1>1, AboutIs DEF At, PlacesOf, FilesInv, ProcFits, WorldFits
<1>3. CASE Goes(p, "ignore")
  BY <1>1, <1>2, <1>3, GoFits
<1>4. ASSUME NEW out, Ends(p, out), IsRefused(out)  PROVE FilesInv'
  BY <1>1, <1>2, <1>4, EndFits, Outcomes
<1>5. CASE Drafts(p, Yaml, RenderOf(jobs[p], procs[p].selected))
  BY <1>1, <1>2, <1>5, DraftFits, RenderedHolds
<1>. QED  BY <1>3, <1>4, <1>5, InitConfigSteps

(* The rules: a file of lines, the old ones first.                         *)
LEMMA LinesHold ==
    ASSUME NEW lines, IsSeq(lines)
    PROVE  /\ Holds(Ignore, [kind |-> "lines", lines |-> lines])
           /\ [kind |-> "lines", lines |-> lines].kind = "lines"
           /\ [kind |-> "lines", lines |-> lines].lines = lines
<1>1. \A kind : /\ [kind |-> kind, lines |-> lines].kind = kind
                /\ [kind |-> kind, lines |-> lines].lines = lines
  OBVIOUS
<1>2. PICK kind : kind = "lines"
  OBVIOUS
<1>3. Holds(Ignore, [kind |-> kind, lines |-> lines])
  BY <1>1, <1>2 DEF Holds, IsText
<1>. QED  BY <1>1, <1>2, <1>3

LEMMA IgnoreHeld ==
    ASSUME NEW c, Holds(Ignore, c), c.kind # "absent"
    PROVE  c.kind = "lines" /\ IsText(c) /\ IsSeq(c.lines)
<1>1. c # Absent
  BY Outcomes
<1>2. Ignore # CodexFile
  BY DEF Ignore, CodexFile
<1>. QED  BY <1>1, <1>2 DEF Holds, IsText

LEMMA LookForIgnoreFits ==
    ASSUME FilesInv, NEW p \in Procs, LookForIgnore(p)
    PROVE  FilesInv'
<1>1. /\ jobs[p].op = "init" /\ procs[p].pc = "ignore" /\ Only(p)
      /\ Ignore \in About(jobs[p]) /\ "read" \in PlacesOf(jobs[p].op)
  BY AboutIs DEF LookForIgnore, At, PlacesOf, FilesInv, WorldFits
<1>2. CASE files[Ignore].kind = "absent"
  <2>1. IsSeq(EnsureGitignoreRules(<<>>))
    BY NoElement, RulesAreAdded
  <2>2. PICK draft : draft = [kind |-> "lines", lines |-> EnsureGitignoreRules(<<>>)]
    OBVIOUS
  <2>3. Drafts(p, Ignore, draft)
    BY <1>2, <2>2 DEF LookForIgnore
  <2>4. Holds(Ignore, draft)
    BY <2>1, <2>2, LinesHold
  <2>. QED  BY <1>1, <2>3, <2>4, DraftFits
<1>3. CASE files[Ignore].kind # "absent"
  <2>1. Goes(p, "read")
    BY <1>3 DEF LookForIgnore
  <2>. QED  BY <1>1, <2>1, GoFits
<1>. QED  BY <1>2, <1>3

(* ReadIgnore: the file is gone, or has every rule, or is drafted again.   *)
LEMMA ReadIgnoreSteps ==
    ASSUME FilesInv, NEW p \in Procs, ReadIgnore(p)
    PROVE  /\ At(p, "init", "read") /\ Only(p)
           /\ \/ Ends(p, Result("threw"))
              \/ /\ files[Ignore].kind = "lines" /\ IsSeq(files[Ignore].lines)
                 /\ \/ /\ EnsureGitignoreRules(files[Ignore].lines) = files[Ignore].lines
                       /\ Ends(p, Done)
                    \/ \E draft : /\ Drafts(p, Ignore, draft) /\ Holds(Ignore, draft)
                                  /\ draft.kind = "lines"
                                  /\ draft.lines = EnsureGitignoreRules(files[Ignore].lines)
<1>1. At(p, "init", "read") /\ Only(p)
  BY DEF ReadIgnore
<1>2. Ignore \in DOMAIN files
  <2>1. jobs[p] \in Request /\ jobs[p].op = "init" /\ About(jobs[p]) \subseteq DOMAIN files
    BY <1>1 DEF At, FilesInv, WorldFits
  <2>. QED  BY <2>1, AboutIs
<1>3. Holds(Ignore, files[Ignore])
  BY <1>2 DEF FilesInv, ContentsFit
<1>4. CASE files[Ignore].kind = "absent"
  BY <1>1, <1>4 DEF ReadIgnore
<1>5. CASE files[Ignore].kind # "absent"
  <2>1. files[Ignore].kind = "lines" /\ IsSeq(files[Ignore].lines)
    BY <1>3, <1>5, IgnoreHeld
  <2>. DEFINE lines == EnsureGitignoreRules(files[Ignore].lines)
  <2>2. IsSeq(lines)
    BY <2>1, RulesAreAdded
  <2>3. PICK draft : draft = [kind |-> "lines", lines |-> lines]
    OBVIOUS
  <2>4. (lines = files[Ignore].lines /\ Ends(p, Done)) \/ Drafts(p, Ignore, draft)
    BY <1>5, <2>3 DEF ReadIgnore
  <2>. HIDE DEF lines
  <2>5. Holds(Ignore, draft) /\ draft.kind = "lines" /\ draft.lines = lines
    BY <2>2, <2>3, LinesHold
  <2>. QED  BY <1>1, <2>1, <2>4, <2>5 DEF lines
<1>. QED  BY <1>4, <1>5

LEMMA ReadIgnoreFits ==
    ASSUME FilesInv, NEW p \in Procs, ReadIgnore(p)
    PROVE  FilesInv'
<1>1. /\ jobs[p].op = "init" /\ procs[p].pc = "read" /\ Only(p) /\ Ignore \in About(jobs[p])
  BY ReadIgnoreSteps, AboutIs DEF At, FilesInv, WorldFits
<1>2. CASE Ends(p, Result("threw"))
  <2>1. Result("threw") # Absent
    BY Outcomes
  <2>. QED  BY <1>1, <1>2, <2>1, EndFits
<1>3. CASE Ends(p, Done)
  BY <1>1, <1>3, EndFits, Outcomes
<1>4. ASSUME NEW draft, Drafts(p, Ignore, draft), Holds(Ignore, draft)
      PROVE  FilesInv'
  BY <1>1, <1>4, DraftFits
<1>. QED  BY <1>2, <1>3, <1>4, ReadIgnoreSteps

(* What mcp add and skills add leave in a file, if the file they found was *)
(* well defined.                                                           *)
InstalledAt(path, c) ==
    /\ path = CodexFile =>
          /\ c.kind = "toml" /\ WellDefined(c.lines)
          /\ Hidden(c.lines) = {} => Definitions(c.lines) = 1
    /\ path \in JsonPaths => c.kind = "json" /\ HasEntry(c, path)
    /\ path \in SkillPaths => c = [kind |-> "skill", current |-> TRUE]
TidyCodex(path, c) == path = CodexFile /\ c.kind = "toml" => WellDefined(c.lines)

(* Where mcp add and skills add write, and what: the merge of what is in   *)
(* the file, which is nothing when the file was found absent.              *)
TargetOf(job) ==
    IF job.op = "mcp" THEN ResolveMcp(job.target, job.global)
    ELSE ResolveTarget(SkillTargets, job.target, job.global)
Merges(p, path, draft) ==
    /\ jobs[p].op \in {"mcp", "skills"} /\ ~IsRefused(TargetOf(jobs[p]))
    /\ path = TargetOf(jobs[p]).path
    /\ draft = Merged(jobs[p], files[path]) /\ ~IsRefused(draft)

LEMMA AbsentHeld ==
    ASSUME NEW path, NEW c, Holds(path, c), c.kind = "absent"
    PROVE  c = Absent
  BY DEF Holds

LEMMA NothingMerges ==
    ASSUME NEW job \in Request, job.op \in {"mcp", "skills"}, ~IsRefused(TargetOf(job))
    PROVE  ~IsRefused(Merged(job, Absent))
<1>1. \A c : c.kind # "refused" => ~IsRefused(c)
  BY DEF IsRefused
<1>2. CASE job.op = "skills"
  <2>1. Merged(job, Absent) = [kind |-> "skill", current |-> TRUE]
    BY <1>2 DEF Merged
  <2>. QED  BY <2>1 DEF IsRefused
<1>3. CASE job.op = "mcp" /\ job.target = "codex"
  <2>1. ~HasUnsafeAsemDefinition(<<>>)
    BY DEF HasUnsafeAsemDefinition
  <2>2. InstallCodex(Absent) = [kind |-> "toml", lines |-> UpsertCodexAsemTable(<<>>)]
    BY <2>1, Outcomes DEF InstallCodex
  <2>3. InstallCodex(Absent).kind = "toml"
    BY <2>2
  <2>. QED  BY <1>3, <2>3 DEF Merged, IsRefused
<1>4. CASE job.op = "mcp" /\ job.target # "codex"
  <2>1. job.target \in DOMAIN JsonMcpTargets /\ job.global \in BOOLEAN
        /\ JsonPath(job.target, job.global) # ""
    BY <1>4, McpResolves DEF TargetOf, Request, JsonPaths
  <2>2. JsonMcpTargets[job.target].key \in ServerKeys
    BY <2>1, TargetsAgree
  <2>3. EmptyJson.kind = "json" /\ EmptyJson.at = [k \in ServerKeys |-> NoServers]
    BY DEF EmptyJson, JsonObject
  <2>4. PICK key : key = JsonMcpTargets[job.target].key /\ key \in ServerKeys
    BY <2>2
  <2>5. EmptyJson.at[key].is # "other" /\ ~IsRefused(EmptyJson)
    BY <2>3, <2>4 DEF NoServers, IsRefused
  <2>6. ReadJsonObject(Absent) = EmptyJson
    BY Outcomes DEF ReadJsonObject
  <2>7. PICK map : InstallJson(job.target, Absent) = [EmptyJson EXCEPT !.at[key] = map]
    BY <2>4, <2>5, <2>6 DEF InstallJson
  <2>8. InstallJson(job.target, Absent).kind = "json"
    BY <2>3, <2>7 DEF EmptyJson, JsonObject
  <2>. QED  BY <1>4, <2>8 DEF Merged, IsRefused
<1>. QED  BY <1>2, <1>3, <1>4

LEMMA InstallSteps ==
    ASSUME FilesInv, NEW p \in Procs, Install(p) \/ ReadTarget(p)
    PROVE  /\ jobs[p].op \in {"mcp", "skills"} /\ procs[p].pc \in {"begin", "read"}
           /\ Only(p)
           /\ \/ \E out : Ends(p, out) /\ out # Absent /\ out # Done
              \/ /\ jobs[p].op = "mcp" /\ Goes(p, "read")
                 /\ ~IsRefused(ResolveMcp(jobs[p].target, jobs[p].global))
              \/ \E path, draft : Merges(p, path, draft) /\ Drafts(p, path, draft)
<1>. DEFINE job == jobs[p]
            at == TargetOf(job)
<1>1. job \in Request /\ About(job) \subseteq DOMAIN files
      /\ ProcFits(procs[p], job, temps[p], DOMAIN files)
  BY DEF FilesInv, WorldFits
<1>2. CASE Install(p)
  <2>1. job.op \in {"mcp", "skills"} /\ procs[p].pc = "begin" /\ Only(p)
    BY <1>2 DEF Install
  <2>2. \/ IsRefused(at) /\ Ends(p, at)
        \/ /\ ~IsRefused(at) /\ job.op = "mcp" /\ Goes(p, "read")
        \/ /\ ~IsRefused(at) /\ (job.op = "mcp" => files[at.path].kind = "absent")
           /\ Drafts(p, at.path, Merged(job, Absent))
    BY <1>2 DEF Install, TargetOf
  <2>3. job.op = "mcp" => at = ResolveMcp(job.target, job.global)
    BY DEF TargetOf
  <2>4. ASSUME ~IsRefused(at), job.op = "mcp" => files[at.path].kind = "absent"
        PROVE  Merges(p, at.path, Merged(job, Absent))
    <3>1. Merged(job, Absent) = Merged(job, files[at.path])
      <4>1. CASE job.op = "skills"
        BY <4>1 DEF Merged
      <4>2. CASE job.op = "mcp"
        <5>1. at.path \in DOMAIN files
          BY <1>1, <2>3, <2>4, <4>2, AboutIs
        <5>2. files[at.path] = Absent
          BY <2>4, <4>2, <5>1, AbsentHeld DEF FilesInv, ContentsFit
        <5>. QED  BY <5>2
      <4>. QED  BY <2>1, <4>1, <4>2
    <3>2. ~IsRefused(Merged(job, Absent))
      BY <1>1, <2>1, <2>4, NothingMerges
    <3>. QED  BY <2>1, <2>4, <3>1, <3>2 DEF Merges
  <2>. HIDE DEF at
  <2>. QED  BY <2>1, <2>2, <2>3, <2>4, Outcomes
<1>3. CASE ReadTarget(p)
  <2>1. job.op = "mcp" /\ procs[p].pc = "read" /\ Only(p)
    BY <1>3 DEF ReadTarget, At
  <2>2. ~IsRefused(at) /\ at = ResolveMcp(job.target, job.global)
    BY <1>1, <2>1 DEF ProcFits, TargetOf
  <2>3. PICK path, draft : path = at.path /\ draft = Merged(job, files[path])
    OBVIOUS
  <2>4. \/ Ends(p, Result("threw")) \/ Ends(p, Refused("invalid_config"))
        \/ IsRefused(draft) /\ Ends(p, draft)
        \/ ~IsRefused(draft) /\ Drafts(p, path, draft)
    BY <1>3, <2>2, <2>3 DEF ReadTarget
  <2>5. ~IsRefused(draft) => Merges(p, path, draft)
    BY <2>1, <2>2, <2>3 DEF Merges
  <2>6. PICK threw : threw = Result("threw") /\ threw # Absent /\ threw # Done
    <3>1. Result("threw").kind = "threw"
      BY Outcomes
    <3>. QED  BY <3>1, Outcomes
  <2>7. PICK refused : refused = Refused("invalid_config") /\ IsRefused(refused)
    BY Outcomes
  <2>. HIDE DEF at
  <2>. QED  BY <2>1, <2>4, <2>5, <2>6, <2>7, Outcomes
<1>. QED  BY <1>2, <1>3

(* What is put in a file has the form of such a file and holds asem's own  *)
(* entry.                                                                  *)
LEMMA MergesWell ==
    ASSUME FilesInv, NEW p \in Procs, NEW path, NEW draft, Merges(p, path, draft)
    PROVE  /\ path \in About(jobs[p]) /\ path \in {CodexFile} \cup JsonPaths \cup SkillPaths
           /\ Holds(path, draft)
           /\ TidyCodex(path, files[path]) => InstalledAt(path, draft)
<1>. DEFINE job == jobs[p]
<1>1. /\ job.op \in {"mcp", "skills"} /\ ~IsRefused(TargetOf(job))
      /\ path = TargetOf(job).path
      /\ draft = Merged(job, files[path]) /\ ~IsRefused(draft)
  BY DEF Merges
<1>2. job \in Request /\ job.global \in BOOLEAN /\ About(job) \subseteq DOMAIN files
  BY DEF FilesInv, WorldFits, Request
<1>3. /\ ~IsRefused(draft) /\ (job.op = "mcp" => ~IsRefused(ResolveMcp(job.target, job.global)))
      /\ job.op = "mcp" => path = ResolveMcp(job.target, job.global).path
      /\ job.op = "skills" => ~IsRefused(ResolveTarget(SkillTargets, job.target, job.global))
      /\ job.op = "skills" => path = ResolveTarget(SkillTargets, job.target, job.global).path
  BY <1>1 DEF TargetOf
<1>4. /\ path \in About(job) /\ path \in {CodexFile} \cup JsonPaths \cup SkillPaths
      /\ Holds(path, draft)
      /\ TidyCodex(path, files[path]) => InstalledAt(path, draft)
  <2>1. path \in About(job)
    BY <1>1, <1>2, <1>3, AboutIs
  <2>2. Holds(path, files[path])
    BY <2>1, <1>2 DEF FilesInv, ContentsFit
  <2>3. CASE job.op = "skills"
    <3>1. path \in SkillPaths /\ path \notin {Ignore, CodexFile} \cup JsonPaths
      BY <2>3, <1>2, <1>3, SkillResolves, SkillsApart
    <3>2. draft = [kind |-> "skill", current |-> TRUE]
      BY <1>1, <2>3 DEF Merged
    <3>3. draft.kind = "skill"
      BY <3>2
    <3>. QED  BY <2>1, <3>1, <3>2, <3>3 DEF Holds, InstalledAt
  <2>4. CASE job.op = "mcp" /\ job.target = "codex"
    <3>1. path = CodexFile /\ CodexFile \notin JsonPaths \cup SkillPaths
      <4>1. path = CodexFile
        BY <2>4, <1>2, <1>3, McpResolves
      <4>2. CodexFile \notin SkillPaths
        BY SkillsApart
      <4>3. CodexFile \notin JsonPaths
        <5>. SUFFICES ASSUME NEW t \in DOMAIN JsonMcpTargets, NEW g \in BOOLEAN,
                             JsonPath(t, g) # ""
                      PROVE  JsonPath(t, g) # CodexFile
          BY Zenon DEF JsonPaths
        <5>. QED  BY TargetsAgree
      <4>. QED  BY <4>1, <4>2, <4>3
    <3>2. draft = InstallCodex(files[path])
      BY <1>1, <2>4 DEF Merged
    <3>3. /\ draft.kind = "toml" /\ IsText(draft)
          /\ TidyCodex(path, files[path]) =>
               /\ WellDefined(draft.lines)
               /\ Hidden(draft.lines) = {} => Definitions(draft.lines) = 1
      BY <1>3, <2>2, <3>1, <3>2, CodexIsInstalled DEF TidyCodex
    <3>. QED  BY <2>1, <3>1, <3>3 DEF Holds, InstalledAt
  <2>5. CASE job.op = "mcp" /\ job.target # "codex"
    <3>1. /\ job.target \in DOMAIN JsonMcpTargets /\ path = JsonPath(job.target, job.global)
          /\ path \in JsonPaths
      BY <2>5, <1>2, <1>3, McpResolves
    <3>2. draft = InstallJson(job.target, files[path])
      BY <1>1, <2>5 DEF Merged
    <3>3. path # ""
      BY <3>1 DEF JsonPaths
    <3>4. path \notin {Ignore, CodexFile} \cup SkillPaths
      BY <3>1, <3>3, <1>2, TargetsAgree
    <3>5. draft.kind = "json" /\ IsJson(draft) /\ HasEntry(draft, path)
      BY <1>2, <1>3, <2>2, <3>1, <3>2, <3>3, JsonIsInstalled
    <3>. QED  BY <2>1, <3>1, <3>4, <3>5 DEF Holds, InstalledAt
  <2>. QED  BY <1>1, <2>3, <2>4, <2>5
<1>. QED  BY <1>4

LEMMA InstallFits ==
    ASSUME FilesInv, NEW p \in Procs, Install(p) \/ ReadTarget(p)
    PROVE  FilesInv'
<1>1. /\ jobs[p].op \in {"mcp", "skills"} /\ procs[p].pc \in {"begin", "read"} /\ Only(p)
      /\ jobs[p].op = "mcp" => "read" \in PlacesOf(jobs[p].op)
  BY InstallSteps DEF PlacesOf
<1>2. ASSUME NEW out, Ends(p, out), out # Absent  PROVE FilesInv'
  BY <1>1, <1>2, EndFits
<1>3. ASSUME Goes(p, "read"), jobs[p].op = "mcp",
             ~IsRefused(ResolveMcp(jobs[p].target, jobs[p].global))
      PROVE  FilesInv'
  BY <1>1, <1>3, GoFits
<1>4. ASSUME NEW path, NEW draft, Merges(p, path, draft), Drafts(p, path, draft)
      PROVE  FilesInv'
  BY <1>1, <1>4, MergesWell, DraftFits
<1>. QED  BY <1>2, <1>3, <1>4, InstallSteps

LEMMA WriteTempFits ==
    ASSUME FilesInv, NEW p \in Procs, WriteTemp(p)
    PROVE  FilesInv'
<1>1. /\ ProcFits(procs[p], jobs[p], temps[p], DOMAIN files) /\ WholeProcs
      /\ jobs[p] \in Request /\ temps \in [Procs -> {"none", "torn", "whole"}]
      /\ faults \in 0 .. MaxFaults
  BY DEF FilesInv, WorldFits
<1>2. /\ procs[p].pc = "write" /\ Goes(p, "rename") /\ temps' = [temps EXCEPT ![p] = "torn"]
      /\ files' = files /\ jobs' = jobs /\ edits' = edits /\ faults' = faults
  BY DEF WriteTemp
<1>3. /\ Others(p) /\ procs'[p].pc = "rename" /\ procs'[p].out = procs[p].out
      /\ KeepsFile(procs[p], procs'[p]) /\ procs'[p].selected = procs[p].selected
  BY <1>1, <1>2, Going DEF KeepsInit
<1>4. procs[p].out = Absent
  BY <1>1, <1>2 DEF ProcFits
<1>5. "rename" \in PlacesOf(jobs[p].op)
  <2>1. procs[p].pc \in PlacesOf(jobs[p].op)
    BY <1>1, <1>2 DEF ProcFits
  <2>. QED  BY <1>1, <1>2, <2>1 DEF PlacesOf, Request
<1>6. ProcFits(procs'[p], jobs[p], temps'[p], DOMAIN files)
  BY <1>1, <1>2, <1>3, <1>4, <1>5, Outcomes DEF ProcFits, KeepsFile
<1>7. temps' \in [Procs -> {"none", "torn", "whole"}] /\ \A q \in Procs \ {p} : temps'[q] = temps[q]
  BY <1>1, <1>2
<1>. QED  BY <1>1, <1>2, <1>3, <1>6, <1>7, StepFits

LEMMA FillTempFits ==
    ASSUME FilesInv, NEW p \in Procs, FillTemp(p)
    PROVE  FilesInv'
<1>1. /\ ProcFits(procs[p], jobs[p], temps[p], DOMAIN files) /\ WholeProcs
      /\ temps \in [Procs -> {"none", "torn", "whole"}] /\ faults \in 0 .. MaxFaults
  BY DEF FilesInv
<1>2. /\ procs[p].pc = "rename" /\ temps' = [temps EXCEPT ![p] = "whole"]
      /\ files' = files /\ jobs' = jobs /\ edits' = edits /\ faults' = faults /\ procs' = procs
  BY DEF FillTemp
<1>3. Others(p)
  BY <1>1, <1>2 DEF Others, WholeProcs, WholeProc
<1>4. procs[p].out = Absent
  BY <1>1, <1>2 DEF ProcFits
<1>5. ProcFits(procs'[p], jobs[p], temps'[p], DOMAIN files)
  BY <1>1, <1>2, <1>4, Outcomes DEF ProcFits
<1>6. temps' \in [Procs -> {"none", "torn", "whole"}] /\ \A q \in Procs \ {p} : temps'[q] = temps[q]
  BY <1>1, <1>2
<1>. QED  BY <1>1, <1>2, <1>3, <1>5, <1>6, StepFits

(* A rename puts a whole draft in the place of a file of the job.          *)
LEMMA RenameSteps ==
    ASSUME FilesInv, NEW p \in Procs, Rename(p)
    PROVE  /\ procs[p].pc = "rename" /\ temps[p] = "whole"
           /\ procs[p].path \in About(jobs[p]) /\ procs[p].path \in DOMAIN files
           /\ Holds(procs[p].path, procs[p].draft)
           /\ files' = [files EXCEPT ![procs[p].path] = procs[p].draft]
           /\ DOMAIN files' = DOMAIN files
           /\ files'[procs[p].path] = procs[p].draft
           /\ \A path \in DOMAIN files \ {procs[p].path} : files'[path] = files[path]
           /\ files' = [path \in DOMAIN files' |-> files'[path]]
           /\ temps' = [temps EXCEPT ![p] = "none"]
           /\ jobs' = jobs /\ edits' = edits /\ faults' = faults
<1>. DEFINE path == procs[p].path
            draft == procs[p].draft
<1>1. /\ procs[p].pc = "rename" /\ temps[p] = "whole" /\ files' = [files EXCEPT ![path] = draft]
      /\ temps' = [temps EXCEPT ![p] = "none"]
      /\ jobs' = jobs /\ edits' = edits /\ faults' = faults
  BY DEF Rename
<1>2. path \in About(jobs[p]) /\ Holds(path, draft) /\ path \in DOMAIN files
  BY <1>1 DEF FilesInv, WorldFits, ProcFits
<1>3. files = [x \in DOMAIN files |-> files[x]]
  BY DEF FilesInv, WorldFits
<1>. HIDE DEF path, draft
<1>4. /\ DOMAIN files' = DOMAIN files /\ files'[path] = draft
      /\ \A x \in DOMAIN files \ {path} : files'[x] = files[x]
      /\ files' = [x \in DOMAIN files' |-> files'[x]]
  BY <1>1, <1>2, <1>3
<1>. QED  BY <1>1, <1>2, <1>4 DEF path, draft

LEMMA RenameFits ==
    ASSUME FilesInv, NEW p \in Procs, Rename(p)
    PROVE  FilesInv'
<1>1. /\ WholeProcs /\ jobs[p] \in Request /\ temps \in [Procs -> {"none", "torn", "whole"}]
      /\ ProcFits(procs[p], jobs[p], temps[p], DOMAIN files)
  BY DEF FilesInv, WorldFits
<1>2. /\ DOMAIN files' = DOMAIN files /\ files' = [path \in DOMAIN files' |-> files'[path]]
      /\ temps' = [temps EXCEPT ![p] = "none"]
      /\ jobs' = jobs /\ edits' = edits /\ faults' = faults
  BY RenameSteps
<1>3. WorldFits'
  BY <1>2 DEF FilesInv, WorldFits
<1>4. ContentsFit'
  <2>. SUFFICES ASSUME NEW path \in DOMAIN files  PROVE Holds(path, files'[path])
    BY <1>2 DEF ContentsFit
  <2>1. CASE path = procs[p].path
    BY <2>1, RenameSteps
  <2>2. CASE path # procs[p].path
    BY <2>2, RenameSteps DEF FilesInv, ContentsFit
  <2>. QED  BY <2>1, <2>2
<1>5. temps' \in [Procs -> {"none", "torn", "whole"}] /\ temps'[p] = "none"
      /\ \A q \in Procs \ {p} : temps'[q] = temps[q]
  BY <1>1, <1>2
<1>6. /\ Others(p) /\ KeepsFile(procs[p], procs'[p]) /\ procs'[p].selected = procs[p].selected
      /\ IF jobs[p].op = "init" /\ procs[p].path = Yaml
         THEN procs'[p].pc = "ignore" /\ procs'[p].out = Absent
         ELSE procs'[p].pc = "done" /\ procs'[p].out = Done
  BY <1>1, Renaming
<1>7. ProcFits(procs'[p], jobs[p], temps'[p], DOMAIN files)
  <2>1. jobs[p].op = "init" => "ignore" \in PlacesOf(jobs[p].op)
    BY DEF PlacesOf
  <2>. QED  BY <1>1, <1>5, <1>6, <2>1, Outcomes DEF ProcFits, KeepsFile
<1>8. \A q \in Procs : ProcFits(procs'[q], jobs'[q], temps'[q], DOMAIN files')
  BY <1>2, <1>5, <1>6, <1>7 DEF FilesInv, Others
<1>. QED  BY <1>2, <1>3, <1>4, <1>5, <1>6, <1>8 DEF FilesInv, Others

LEMMA WriteFailsFits ==
    ASSUME FilesInv, NEW p \in Procs, WriteFails(p)
    PROVE  FilesInv'
<1>1. /\ ProcFits(procs[p], jobs[p], temps[p], DOMAIN files) /\ WholeProcs
      /\ temps \in [Procs -> {"none", "torn", "whole"}] /\ faults \in 0 .. MaxFaults
  BY DEF FilesInv
<1>2. /\ procs[p].pc \in {"write", "rename"} /\ Ends(p, Result("threw"))
      /\ faults < MaxFaults /\ faults' = faults + 1 /\ temps' = temps
      /\ files' = files /\ jobs' = jobs /\ edits' = edits
  BY DEF WriteFails
<1>3. PICK out : out = Result("threw") /\ out # Absent /\ out # Done
  <2>1. Result("threw").kind = "threw"
    BY Outcomes
  <2>. QED  BY <2>1, Outcomes
<1>4. /\ Others(p) /\ procs'[p].pc = "done" /\ procs'[p].out = out
      /\ KeepsFile(procs[p], procs'[p]) /\ procs'[p].selected = procs[p].selected
  BY <1>1, <1>2, <1>3, Ending DEF KeepsInit
<1>5. ProcFits(procs'[p], jobs[p], temps'[p], DOMAIN files)
  BY <1>1, <1>2, <1>3, <1>4 DEF ProcFits, KeepsFile
<1>6. faults' \in 0 .. MaxFaults
  <2>1. MaxFaults \in Nat
    BY FilesAssumption
  <2>2. faults' = faults + 1 /\ faults < MaxFaults /\ faults \in 0 .. MaxFaults
    BY <1>1, <1>2
  <2>. QED  BY <2>1, <2>2
<1>. QED  BY <1>1, <1>2, <1>4, <1>5, <1>6, StepFits

LEMMA CrashFits ==
    ASSUME FilesInv, NEW p \in Procs, Crash(p)
    PROVE  FilesInv'
<1>1. /\ ProcFits(procs[p], jobs[p], temps[p], DOMAIN files) /\ WholeProcs
      /\ temps \in [Procs -> {"none", "torn", "whole"}] /\ faults \in 0 .. MaxFaults
  BY DEF FilesInv
<1>2. /\ procs[p].pc \notin {"done", "crashed"} /\ Goes(p, "crashed")
      /\ faults < MaxFaults /\ faults' = faults + 1 /\ temps' = temps
      /\ files' = files /\ jobs' = jobs /\ edits' = edits
  BY DEF Crash
<1>3. /\ Others(p) /\ procs'[p].pc = "crashed" /\ procs'[p].out = procs[p].out
      /\ KeepsFile(procs[p], procs'[p]) /\ procs'[p].selected = procs[p].selected
  BY <1>1, <1>2, Going DEF KeepsInit
<1>4. ProcFits(procs'[p], jobs[p], temps'[p], DOMAIN files)
  BY <1>1, <1>2, <1>3 DEF ProcFits, KeepsFile
<1>5. faults' \in 0 .. MaxFaults
  <2>1. MaxFaults \in Nat
    BY FilesAssumption
  <2>2. faults' = faults + 1 /\ faults < MaxFaults /\ faults \in 0 .. MaxFaults
    BY <1>1, <1>2
  <2>. QED  BY <2>1, <2>2
<1>. QED  BY <1>1, <1>2, <1>3, <1>4, <1>5, StepFits

LEMMA RunAgainSteps ==
    ASSUME WholeProcs, NEW p \in Procs, RunAgain(p)
    PROVE  /\ Others(p) /\ procs'[p] = Fresh /\ temps' = [temps EXCEPT ![p] = "none"]
           /\ files' = files /\ jobs' = jobs /\ edits' = edits /\ faults' = faults
<1>1. procs' = [procs EXCEPT ![p] = Fresh]
  BY DEF RunAgain
<1>2. Others(p) /\ procs'[p] = Fresh
  BY <1>1, FreshIs, Replaced
<1>. QED  BY <1>2 DEF RunAgain

LEMMA RunAgainFits ==
    ASSUME FilesInv, NEW p \in Procs, RunAgain(p)
    PROVE  FilesInv'
<1>1. /\ WholeProcs /\ jobs[p] \in Request
      /\ temps \in [Procs -> {"none", "torn", "whole"}] /\ faults \in 0 .. MaxFaults
  BY DEF FilesInv, WorldFits
<1>2. /\ Others(p) /\ procs'[p] = Fresh /\ temps' = [temps EXCEPT ![p] = "none"]
      /\ files' = files /\ jobs' = jobs /\ edits' = edits /\ faults' = faults
  BY <1>1, RunAgainSteps
<1>3. /\ temps' \in [Procs -> {"none", "torn", "whole"}] /\ temps'[p] = "none"
      /\ \A q \in Procs \ {p} : temps'[q] = temps[q]
  BY <1>1, <1>2
<1>4. ProcFits(procs'[p], jobs[p], temps'[p], DOMAIN files)
  BY <1>1, <1>2, <1>3, FreshFits
<1>. QED  BY <1>1, <1>2, <1>3, <1>4, StepFits

(* A launch only reads: the config, then one source of profiles after the  *)
(* other, file by file.                                                    *)
Gathers(p, got) ==
    \/ \E names : Reads(p, "profile", names, got)
    \/ Turns(p, "exists", got, UserAgents)
    \/ \E out : Ends(p, out) /\ IsRefused(out)
    \/ \E used \in ResolveProfiles(procs[p].project, got) :
          used.id = jobs[p].profile /\ Selects(p, "templates", used)

LEMMA GatheredGathers ==
    ASSUME NEW p \in Procs, NEW names, NEW got, Gathered(p, names, got)
    PROVE  Gathers(p, got)
<1>. DEFINE all == ResolveProfiles(procs[p].project, got)
<1>1. \/ Reads(p, "profile", names, got)
      \/ Turns(p, "exists", got, UserAgents)
      \/ Ends(p, Refused("invalid_input"))
      \/ /\ ~(\A q \in all : q.id # jobs[p].profile)
         /\ Selects(p, "templates", CHOOSE q \in all : q.id = jobs[p].profile)
  BY DEF Gathered, Reads, Turns, Selects
<1>. HIDE DEF all
<1>2. IsRefused(Refused("invalid_input"))
  BY Outcomes
<1>. QED  BY <1>1, <1>2 DEF Gathers, all

(* The config is looked for, and read.                                     *)
LEMMA ConfigSteps ==
    ASSUME NEW p \in Procs, LookForConfig(p) \/ LoadConfig(p)
    PROVE  /\ jobs[p].op = "launch" /\ procs[p].pc \in {"begin", "config"} /\ Only(p)
           /\ \/ \E out : Ends(p, out) /\ IsRefused(out)
              \/ Goes(p, "config")
              \/ \E pc \in {"templates", "exists"} : \E config :
                    /\ pc = "templates" => jobs[p].profile = None
                    /\ Loads(p, pc, config)
<1>1. /\ jobs[p].op = "launch" /\ procs[p].pc \in {"begin", "config"} /\ Only(p)
  BY DEF LookForConfig, LoadConfig, At
<1>2. PICK pc : pc = IF jobs[p].profile = None THEN "templates" ELSE "exists"
  OBVIOUS
<1>3. PICK config : config = ParseConfig(files[Yaml])
  OBVIOUS
<1>4. PICK refused : refused = Refused("config_not_found") /\ IsRefused(refused)
  BY Outcomes
<1>5. CASE LookForConfig(p)
  BY <1>1, <1>4, <1>5 DEF LookForConfig
<1>6. CASE LoadConfig(p)
  <2>1. IF IsRefused(config) THEN Ends(p, config)
        ELSE procs' = [procs EXCEPT ![p].config = config, ![p].pc = pc]
    BY <1>2, <1>3, <1>6 DEF LoadConfig
  <2>2. pc \in {"templates", "exists"} /\ (pc = "templates" => jobs[p].profile = None)
    BY <1>2
  <2>3. CASE IsRefused(config)
    BY <1>1, <2>1, <2>3
  <2>4. CASE ~IsRefused(config)
    BY <1>1, <2>1, <2>2, <2>4 DEF Loads
  <2>. QED  BY <2>3, <2>4
<1>. QED  BY <1>5, <1>6

(* A source is looked for, listed and read; what has been read of it grows *)
(* by a profile with an id of its own.                                     *)
LEMMA ProfileSteps ==
    ASSUME NEW p \in Procs, LookForProfiles(p) \/ ListProfiles(p) \/ ReadProfile(p)
    PROVE  /\ jobs[p].op = "launch" /\ procs[p].pc \in {"exists", "list", "profile"} /\ Only(p)
           /\ \/ \E out : Ends(p, out) /\ IsRefused(out)
              \/ Goes(p, "list")
              \/ Gathers(p, {})
              \/ \E q : /\ \A r \in procs[p].got : r.id # q.id
                        /\ Gathers(p, procs[p].got \cup {q})
<1>1. /\ jobs[p].op = "launch" /\ procs[p].pc \in {"exists", "list", "profile"} /\ Only(p)
  BY DEF LookForProfiles, ListProfiles, ReadProfile, At
<1>2. PICK refused : refused = Refused("invalid_config") /\ IsRefused(refused)
  BY Outcomes
<1>3. CASE LookForProfiles(p)
  <2>1. Gathered(p, <<>>, {}) \/ Goes(p, "list")
    BY <1>3 DEF LookForProfiles
  <2>. QED  BY <1>1, <2>1, GatheredGathers
<1>4. CASE ListProfiles(p)
  <2>1. PICK names : Gathered(p, names, {}) \/ Ends(p, refused)
    BY <1>2, <1>4 DEF ListProfiles
  <2>. QED  BY <1>1, <1>2, <2>1, GatheredGathers
<1>5. CASE ReadProfile(p)
  <2>. DEFINE dir == files[procs[p].source]
              q == dir.files[Head(procs[p].names)]
  <2>1. PICK names : names = Tail(procs[p].names)
    OBVIOUS
  <2>2. \/ Ends(p, refused)
        \/ /\ ~(\E r \in procs[p].got : r.id = q.id)
           /\ Gathered(p, names, procs[p].got \cup {q})
    BY <1>2, <1>5, <2>1 DEF ReadProfile
  <2>. HIDE DEF q
  <2>. QED  BY <1>1, <1>2, <2>2, GatheredGathers
<1>. QED  BY <1>3, <1>4, <1>5

(* What a launch is asked for, settled against what it has read.           *)
Launched(out, agent, model) ==
    out = [kind |-> "launched", agent |-> agent, model |-> model]

LEMMA ResolveTemplatesSteps ==
    ASSUME NEW p \in Procs, ResolveTemplates(p)
    PROVE  LET job == jobs[p]
               profile == IF job.profile = None THEN Profile(None, None, None)
                          ELSE procs[p].selected
           IN  /\ At(p, "launch", "templates") /\ Only(p)
               /\ \E out : /\ Ends(p, out)
                           /\ \/ IsRefused(out)
                              \/ Launched(out, ResolveAgent(job, profile, procs[p].config),
                                          ResolveModel(job, profile))
<1>. DEFINE job == jobs[p]
            profile == IF job.profile = None THEN Profile(None, None, None)
                       ELSE procs[p].selected
            config == procs[p].config
            mux == IF job.mux = None THEN config.mux.default ELSE job.mux
            agent == ResolveAgent(job, profile, config)
            model == ResolveModel(job, profile)
            out == IF ~Resolves(mux, config.mux, BuiltinMuxes)
                   THEN Refused("mux_template_not_found")
                   ELSE IF ~Resolves(agent, config.agent, BuiltinAgents)
                   THEN Refused("agent_template_not_found")
                   ELSE IF model # None /\ agent \in TakesNoModel
                   THEN Refused("invalid_input")
                   ELSE [kind |-> "launched", agent |-> agent, model |-> model]
<1>1. At(p, "launch", "templates") /\ Only(p) /\ Ends(p, out)
  BY DEF ResolveTemplates
<1>. HIDE DEF profile, agent, model, mux, config
<1>2. \/ out = Refused("mux_template_not_found") \/ out = Refused("agent_template_not_found")
      \/ out = Refused("invalid_input") \/ Launched(out, agent, model)
  BY Zenon DEF Launched
<1>. HIDE DEF out
<1>3. IsRefused(out) \/ Launched(out, agent, model)
  BY <1>2, Outcomes
<1>. QED  BY <1>1, <1>3 DEF profile, agent, model, config

LEMMA LaunchedIs ==
    ASSUME NEW out, NEW agent, NEW model, Launched(out, agent, model)
    PROVE  out.kind = "launched" /\ out.agent = agent /\ out.model = model
  BY DEF Launched

(* Wherever a launch goes on to, it keeps what is not its own.             *)
Reaches(p) ==
    /\ Others(p) /\ procs'[p].path = procs[p].path /\ procs'[p].made = procs[p].made
    /\ procs'[p].pc \in {"config", "exists", "list", "profile", "templates", "done"}
    /\ (procs'[p].pc = "done" <=> procs'[p].out # Absent) /\ procs'[p].out # Done

LEMMA GathersReaches ==
    ASSUME WholeProcs, NEW p \in Procs, procs[p].out = Absent, NEW got, Gathers(p, got)
    PROVE  Reaches(p)
<1>1. ASSUME NEW names, Reads(p, "profile", names, got)  PROVE Reaches(p)
  BY <1>1, Reading, Outcomes DEF Reaches, KeepsFile, KeepsInit
<1>2. CASE Turns(p, "exists", got, UserAgents)
  BY <1>2, Turning, Outcomes DEF Reaches, KeepsFile, KeepsInit
<1>3. ASSUME NEW out, Ends(p, out), IsRefused(out)  PROVE Reaches(p)
  BY <1>3, Ending, Outcomes DEF Reaches, KeepsFile, KeepsInit
<1>4. ASSUME NEW used, Selects(p, "templates", used)  PROVE Reaches(p)
  BY <1>4, Selecting, Outcomes DEF Reaches, KeepsFile
<1>. QED  BY <1>1, <1>2, <1>3, <1>4 DEF Gathers

LEMMA LaunchReaches ==
    ASSUME FilesInv, NEW p \in Procs, LaunchStep(p)
    PROVE  /\ jobs[p].op = "launch" /\ Only(p) /\ Reaches(p)
           /\ procs[p].pc \in {"begin", "config", "exists", "list", "profile", "templates"}
<1>1. WholeProcs /\ ProcFits(procs[p], jobs[p], temps[p], DOMAIN files)
  BY DEF FilesInv
<1>2. /\ jobs[p].op = "launch" /\ Only(p)
      /\ procs[p].pc \in {"begin", "config", "exists", "list", "profile", "templates"}
  BY DEF LaunchStep, LookForConfig, LoadConfig, LookForProfiles, ListProfiles, ReadProfile,
         ResolveTemplates, At
<1>. SUFFICES Reaches(p)
  BY <1>2
<1>3. procs[p].out = Absent
  BY <1>1, <1>2 DEF ProcFits
<1>4. ASSUME NEW out, Ends(p, out), out # Absent, out # Done  PROVE Reaches(p)
  BY <1>1, <1>4, Ending DEF Reaches, KeepsFile, KeepsInit
<1>5. ASSUME NEW pc \in {"config", "list"}, Goes(p, pc)  PROVE Reaches(p)
  BY <1>1, <1>3, <1>5, Going, Outcomes DEF Reaches, KeepsFile, KeepsInit
<1>6. CASE LookForConfig(p) \/ LoadConfig(p)
  <2>1. ASSUME NEW pc \in {"templates", "exists"}, NEW config, Loads(p, pc, config)
        PROVE  Reaches(p)
    BY <1>1, <1>3, <2>1, Loading, Outcomes DEF Reaches, KeepsFile, KeepsInit
  <2>. QED  BY <1>4, <1>5, <1>6, <2>1, ConfigSteps, Outcomes
<1>7. CASE LookForProfiles(p) \/ ListProfiles(p) \/ ReadProfile(p)
  BY <1>1, <1>3, <1>4, <1>5, <1>7, ProfileSteps, GathersReaches, Outcomes
<1>8. CASE ResolveTemplates(p)
  <2>1. PICK out : Ends(p, out) /\ (IsRefused(out) \/ \E agent, model : Launched(out, agent, model))
    BY <1>8, ResolveTemplatesSteps
  <2>2. out # Absent /\ out # Done
    BY <2>1, LaunchedIs, Outcomes
  <2>. QED  BY <1>4, <2>1, <2>2
<1>. QED  BY <1>6, <1>7, <1>8 DEF LaunchStep

LEMMA LaunchStepKeepsForm ==
    ASSUME FilesInv, NEW p \in Procs, LaunchStep(p)
    PROVE  FilesInv'
<1>1. /\ jobs[p].op = "launch" /\ Only(p) /\ Reaches(p)
      /\ procs[p].pc \in {"begin", "config", "exists", "list", "profile", "templates"}
      /\ ProcFits(procs[p], jobs[p], temps[p], DOMAIN files)
  BY LaunchReaches DEF FilesInv
<1>2. {"config", "exists", "list", "profile", "templates"} \subseteq PlacesOf(jobs[p].op)
  BY <1>1 DEF PlacesOf
<1>3. temps[p] = "none"
  BY <1>1 DEF ProcFits
<1>4. ProcFits(procs'[p], jobs[p], temps[p], DOMAIN files)
  BY <1>1, <1>2, <1>3 DEF ProcFits, Reaches
<1>. QED  BY <1>1, <1>4, OnlyFits DEF Reaches

(* The others put in a file what they may put in it.                       *)
LEMMA EditSteps ==
    ASSUME FilesInv, NEW path \in DOMAIN files, Edit(path)
    PROVE  /\ jobs' = jobs /\ temps' = temps /\ faults' = faults
           /\ DOMAIN files' = DOMAIN files
           /\ files' = [x \in DOMAIN files' |-> files'[x]]
           /\ \A x \in DOMAIN files \ {path} : files'[x] = files[x]
           /\ files'[path] \in EditsOf(path) /\ Holds(path, files'[path])
           /\ edits' \in 0 .. MaxEdits
<1>1. PICK content \in EditsOf(path) : files' = [files EXCEPT ![path] = content]
  BY DEF Edit
<1>2. files = [x \in DOMAIN files |-> files[x]] /\ DOMAIN files \subseteq Paths \ {""}
  BY DEF FilesInv, WorldFits
<1>3. Holds(path, content)
  BY <1>2, FilesAssumption, GivenHolds
<1>4. /\ DOMAIN files' = DOMAIN files /\ files'[path] = content
      /\ \A x \in DOMAIN files \ {path} : files'[x] = files[x]
      /\ files' = [x \in DOMAIN files' |-> files'[x]]
  BY <1>1, <1>2
<1>5. edits' \in 0 .. MaxEdits
  <2>1. MaxEdits \in Nat
    BY FilesAssumption
  <2>2. edits' = edits + 1 /\ edits < MaxEdits /\ edits \in 0 .. MaxEdits
    BY DEF Edit, FilesInv
  <2>. QED  BY <2>1, <2>2
<1>6. jobs' = jobs /\ temps' = temps /\ faults' = faults
  BY DEF Edit
<1>. QED  BY <1>3, <1>4, <1>5, <1>6

LEMMA EditFits ==
    ASSUME FilesInv, NEW path \in DOMAIN files, Edit(path)
    PROVE  FilesInv'
<1>1. /\ jobs' = jobs /\ temps' = temps /\ faults' = faults /\ DOMAIN files' = DOMAIN files
      /\ files' = [x \in DOMAIN files' |-> files'[x]] /\ edits' \in 0 .. MaxEdits
  BY EditSteps
<1>2. WorldFits'
  BY <1>1 DEF FilesInv, WorldFits
<1>3. ContentsFit'
  BY EditSteps DEF FilesInv, ContentsFit
<1>4. ASSUME NEW p \in Procs
      PROVE  WholeProcs' /\ ProcFits(procs'[p], jobs'[p], temps'[p], DOMAIN files')
  <2>1. ProcFits(procs[p], jobs[p], temps[p], DOMAIN files) /\ WholeProcs
    BY DEF FilesInv
  <2>2. /\ WholeProcs' /\ KeepsFile(procs[p], procs'[p]) /\ procs'[p].selected = procs[p].selected
        /\ procs'[p].pc = procs[p].pc /\ procs'[p].out = procs[p].out
    BY <2>1, Editing DEF KeepsInit
  <2>. QED  BY <1>1, <2>1, <2>2 DEF ProcFits, KeepsFile
<1>5. WholeProcs'
  <2>1. CASE Procs = {}
    <3>1. procs' = [q \in Procs |-> [procs[q] EXCEPT !.edited = @ \/ path \in About(jobs[q])]]
      BY DEF Edit
    <3>. QED  BY <2>1, <3>1 DEF WholeProcs
  <2>. QED  BY <2>1, <1>4
<1>. QED  BY <1>1, <1>2, <1>3, <1>4, <1>5 DEF FilesInv

LEMMA FilesStep ==
    ASSUME FilesInv, [Next]_vars
    PROVE  FilesInv'
<1>1. CASE UNCHANGED vars
  BY <1>1 DEF vars, FilesInv, WorldFits, ContentsFit, WholeProcs
<1>2. ASSUME NEW p \in Procs, InitStep(p)  PROVE FilesInv'
  BY <1>2, RunInitFits, WizardFits, CancelFits, InitConfigFits, LookForIgnoreFits,
     ReadIgnoreFits DEF InitStep
<1>3. ASSUME NEW p \in Procs, ReplaceStep(p)  PROVE FilesInv'
  BY <1>3, WriteTempFits, FillTempFits, RenameFits DEF ReplaceStep
<1>4. ASSUME NEW p \in Procs, LaunchStep(p)  PROVE FilesInv'
  BY <1>4, LaunchStepKeepsForm
<1>5. ASSUME NEW p \in Procs,
             Install(p) \/ ReadTarget(p) \/ WriteFails(p) \/ Crash(p) \/ RunAgain(p)
      PROVE  FilesInv'
  BY <1>5, InstallFits, WriteFailsFits, CrashFits, RunAgainFits
<1>6. ASSUME NEW path \in DOMAIN files, Edit(path)  PROVE FilesInv'
  BY <1>6, EditFits
<1>. QED  BY <1>1, <1>2, <1>3, <1>4, <1>5, <1>6 DEF Next

LEMMA InvFilesAreWhole == FilesInv => FilesAreWhole
<1>. SUFFICES ASSUME FilesInv PROVE FilesAreWhole
  OBVIOUS
<1>1. \A path \in DOMAIN files : files[path] # Torn
  BY HeldIsWhole DEF FilesInv, ContentsFit
<1>2. TypeOK
  BY DEF FilesInv, WorldFits, ProcFits, TypeOK
<1>. QED  BY <1>1, <1>2 DEF FilesAreWhole

LEMMA FilesHold == Spec => []FilesInv
  BY FilesStart, FilesStep, PTL DEF Spec

(***************************************************************************)
(* Whatever is killed or fails in the middle of a write, and whoever else  *)
(* writes, no reader ever finds half a file, and who reports success has   *)
(* left no temporary file (writeFileAtomic, writeTextFileAtomic).          *)
(***************************************************************************)
THEOREM FilesStayWhole == Spec => []FilesAreWhole
  BY FilesHold, InvFilesAreWhole, PTL

(***************************************************************************)
(* A step is a step of one process, or an edit.                            *)
(***************************************************************************)
StepOf(p) ==
    \/ InitStep(p) \/ Install(p) \/ ReadTarget(p) \/ ReplaceStep(p) \/ LaunchStep(p)
    \/ WriteFails(p) \/ Crash(p) \/ RunAgain(p)

LEMMA StepsOfOne ==
    ASSUME FilesInv, NEW p \in Procs, StepOf(p)
    PROVE  Others(p) /\ jobs' = jobs
<1>1. WholeProcs
  BY DEF FilesInv
<1>2. ASSUME Only(p)  PROVE jobs' = jobs
  BY <1>2 DEF Only
<1>3. CASE RunInit(p)
  BY <1>1, <1>2, <1>3, RunInitSteps, Going, Ending, Selecting
<1>4. CASE Wizard(p)
  <2>1. KnownIfGiven(jobs[p].agent, BuiltinAgents) /\ KnownIfGiven(jobs[p].mux, BuiltinMuxes)
    BY <1>4 DEF FilesInv, ProcFits, Wizard, At
  <2>. QED  BY <1>1, <1>2, <1>4, <2>1, WizardSteps, Selecting
<1>5. CASE WizardCancelled(p)
  BY <1>1, <1>2, <1>5, Ending DEF WizardCancelled
<1>6. CASE InitConfig(p)
  BY <1>1, <1>2, <1>6, InitConfigSteps, Going, Ending, Drafting
<1>7. CASE LookForIgnore(p)
  <2>1. \/ \E draft : Drafts(p, Ignore, draft)
        \/ Goes(p, "read")
    BY <1>7 DEF LookForIgnore
  <2>2. Only(p)
    BY <1>7 DEF LookForIgnore
  <2>. QED  BY <1>1, <1>2, <2>1, <2>2, Going, Drafting
<1>8. CASE ReadIgnore(p)
  <2>1. \/ \E out : Ends(p, out)
        \/ \E draft : Drafts(p, Ignore, draft)
    BY <1>8, ReadIgnoreSteps
  <2>2. Only(p)
    BY <1>8 DEF ReadIgnore
  <2>. QED  BY <1>1, <1>2, <2>1, <2>2, Ending, Drafting
<1>9. CASE Install(p) \/ ReadTarget(p)
  BY <1>1, <1>2, <1>9, InstallSteps, Going, Ending, Drafting
<1>10. CASE WriteTemp(p)
  BY <1>1, <1>10, Going DEF WriteTemp
<1>11. CASE FillTemp(p)
  BY <1>1, <1>11 DEF FillTemp, Others, WholeProcs, WholeProc
<1>12. CASE Rename(p)
  BY <1>1, <1>12, Renaming DEF Rename
<1>13. CASE LaunchStep(p)
  BY <1>2, <1>13, LaunchReaches DEF Reaches
<1>14. CASE WriteFails(p)
  BY <1>1, <1>14, Ending DEF WriteFails
<1>15. CASE Crash(p)
  BY <1>1, <1>15, Going DEF Crash
<1>16. CASE RunAgain(p)
  BY <1>1, <1>16, RunAgainSteps
<1>. QED  BY <1>3, <1>4, <1>5, <1>6, <1>7, <1>8, <1>9, <1>10, <1>11, <1>12, <1>13, <1>14,
             <1>15, <1>16
          DEF StepOf, InitStep, ReplaceStep

LEMMA NextIs ==
    ASSUME [Next]_vars
    PROVE  \/ UNCHANGED vars
           \/ \E p \in Procs : StepOf(p)
           \/ \E path \in DOMAIN files : Edit(path)
  BY DEF Next, StepOf

(***************************************************************************)
(* A launch and its profile: the ids of a source are distinct, and those   *)
(* of the part read so far, so the project's profile of the id, if there   *)
(* is one, is the profile used.                                            *)
(***************************************************************************)
IdsApart(profiles) == \A q, r \in profiles : q.id = r.id => q = r
FromProject(f, job) == \A q \in f.project : q.id = job.profile => f.selected = q
ModelGoesWithAgent(f, job) ==
    f.out.model \notin {None, job.model} =>
        /\ f.out.model = f.selected.model
        /\ f.out.agent \in {f.selected.agent, f.config.agent.default}
        /\ job.agent \in {None, f.selected.agent}

LaunchFits(f, job) ==
    job.op = "launch" =>
        /\ IdsApart(f.project) /\ IdsApart(f.got)
        /\ job.profile # None /\ (f.pc = "templates" \/ f.out.kind = "launched")
             => FromProject(f, job)
        /\ job.profile # None /\ f.out.kind = "launched" => ModelGoesWithAgent(f, job)
LaunchInv == \A p \in Procs : LaunchFits(procs[p], jobs[p])

LEMMA OneMore ==
    ASSUME NEW got, IdsApart(got), NEW q, \A r \in got : r.id # q.id
    PROVE  IdsApart(got \cup {q})
  BY DEF IdsApart

LEMMA NearerFirst ==
    ASSUME NEW project, NEW user, IdsApart(project), NEW used \in ResolveProfiles(project, user)
    PROVE  \A q \in project : q.id = used.id => used = q
  BY DEF ResolveProfiles, Over, IdsApart

LEMMA ModelsGoWithAgents ==
    ASSUME NEW job, NEW used, NEW config,
           ResolveModel(job, used) \notin {None, job.model}
    PROVE  /\ ResolveModel(job, used) = used.model
           /\ ResolveAgent(job, used, config) \in {used.agent, config.agent.default}
           /\ job.agent \in {None, used.agent}
  BY DEF ResolveModel, ResolveAgent

LEMMA LaunchStart == Init => LaunchInv
  BY FreshIs, Outcomes DEF Init, LaunchInv, LaunchFits, IdsApart

LEMMA GathersFits ==
    ASSUME WholeProcs, NEW p \in Procs, LaunchFits(procs[p], jobs[p]), jobs[p].op = "launch",
           procs[p].out = Absent, NEW got, IdsApart(got), Gathers(p, got)
    PROVE  LaunchFits(procs'[p], jobs[p])
<1>1. IdsApart(procs[p].project) /\ IdsApart(procs[p].got) /\ procs[p].out.kind # "launched"
  BY Outcomes DEF LaunchFits
<1>2. ASSUME NEW names, Reads(p, "profile", names, got)
      PROVE  LaunchFits(procs'[p], jobs[p])
  <2>1. /\ procs'[p].pc = "profile" /\ procs'[p].out = procs[p].out
        /\ procs'[p].project = procs[p].project /\ procs'[p].got = got
    BY <1>2, Reading
  <2>. QED  BY <1>1, <2>1 DEF LaunchFits
<1>3. CASE Turns(p, "exists", got, UserAgents)
  <2>1. /\ procs'[p].pc = "exists" /\ procs'[p].out = procs[p].out
        /\ procs'[p].project = got /\ procs'[p].got = procs[p].got
    BY <1>3, Turning
  <2>. QED  BY <1>1, <2>1 DEF LaunchFits
<1>4. ASSUME NEW out, Ends(p, out), IsRefused(out)
      PROVE  LaunchFits(procs'[p], jobs[p])
  <2>1. /\ procs'[p].project = procs[p].project /\ procs'[p].got = procs[p].got
        /\ procs'[p].pc = "done" /\ procs'[p].out = out
    BY <1>4, Ending DEF KeepsLaunch
  <2>2. out.kind # "launched"
    BY <1>4 DEF IsRefused
  <2>. QED  BY <1>1, <2>1, <2>2 DEF LaunchFits
<1>5. ASSUME NEW used \in ResolveProfiles(procs[p].project, got), used.id = jobs[p].profile,
             Selects(p, "templates", used)
      PROVE  LaunchFits(procs'[p], jobs[p])
  <2>1. /\ procs'[p].pc = "templates" /\ procs'[p].out = procs[p].out
        /\ procs'[p].project = procs[p].project /\ procs'[p].selected = used
        /\ procs'[p].got = procs[p].got
    BY <1>5, Selecting DEF KeepsLaunch
  <2>2. \A q \in procs[p].project : q.id = used.id => used = q
    BY <1>1, <1>5, NearerFirst
  <2>. QED  BY <1>1, <1>5, <2>1, <2>2 DEF LaunchFits, FromProject
<1>. QED  BY <1>2, <1>3, <1>4, <1>5 DEF Gathers

LEMMA LaunchStepFits ==
    ASSUME FilesInv, NEW p \in Procs, LaunchFits(procs[p], jobs[p]), LaunchStep(p)
    PROVE  LaunchFits(procs'[p], jobs[p])
<1>1. WholeProcs /\ ProcFits(procs[p], jobs[p], temps[p], DOMAIN files)
  BY DEF FilesInv
<1>2. /\ jobs[p].op = "launch"
      /\ procs[p].pc \in {"begin", "config", "exists", "list", "profile", "templates"}
  BY LaunchReaches
<1>3. /\ procs[p].out = Absent /\ procs[p].out.kind # "launched"
      /\ IdsApart(procs[p].project) /\ IdsApart(procs[p].got)
  BY <1>1, <1>2, Outcomes DEF ProcFits, LaunchFits
<1>4. ASSUME NEW out, Ends(p, out), IsRefused(out)
      PROVE  LaunchFits(procs'[p], jobs[p])
  BY <1>1, <1>2, <1>3, <1>4, GathersFits DEF Gathers
<1>5. ASSUME NEW pc \in {"config", "list"}, Goes(p, pc)
      PROVE  LaunchFits(procs'[p], jobs[p])
  <2>1. /\ procs'[p].pc = pc /\ procs'[p].out = procs[p].out
        /\ procs'[p].project = procs[p].project /\ procs'[p].got = procs[p].got
    BY <1>1, <1>5, Going DEF KeepsLaunch
  <2>. QED  BY <1>3, <1>5, <2>1 DEF LaunchFits
<1>6. CASE LookForConfig(p) \/ LoadConfig(p)
  <2>1. ASSUME NEW pc \in {"templates", "exists"}, NEW config,
               pc = "templates" => jobs[p].profile = None, Loads(p, pc, config)
        PROVE  LaunchFits(procs'[p], jobs[p])
    <3>1. /\ procs'[p].pc = pc /\ procs'[p].out = procs[p].out
          /\ procs'[p].project = procs[p].project /\ procs'[p].got = procs[p].got
      BY <1>1, <2>1, Loading
    <3>. QED  BY <1>3, <2>1, <3>1 DEF LaunchFits
  <2>. QED  BY <1>4, <1>5, <1>6, <2>1, ConfigSteps
<1>7. CASE LookForProfiles(p) \/ ListProfiles(p) \/ ReadProfile(p)
  <2>1. CASE Gathers(p, {})
    <3>1. IdsApart({})
      BY DEF IdsApart
    <3>. QED  BY <1>1, <1>2, <1>3, <2>1, <3>1, GathersFits
  <2>2. ASSUME NEW q, \A r \in procs[p].got : r.id # q.id, Gathers(p, procs[p].got \cup {q})
        PROVE  LaunchFits(procs'[p], jobs[p])
    <3>1. IdsApart(procs[p].got \cup {q})
      BY <1>3, <2>2, OneMore
    <3>. QED  BY <1>1, <1>2, <1>3, <2>2, <3>1, GathersFits
  <2>. QED  BY <1>4, <1>5, <1>7, <2>1, <2>2, ProfileSteps
<1>8. CASE ResolveTemplates(p)
  <2>. DEFINE job == jobs[p]
              profile == IF job.profile = None THEN Profile(None, None, None)
                         ELSE procs[p].selected
              agent == ResolveAgent(job, profile, procs[p].config)
              model == ResolveModel(job, profile)
  <2>1. procs[p].pc = "templates"
    BY <1>8 DEF ResolveTemplates, At
  <2>2. ASSUME NEW out, Ends(p, out), Launched(out, agent, model)
        PROVE  LaunchFits(procs'[p], jobs[p])
    <3>1. /\ procs'[p].pc = "done" /\ procs'[p].out = out
          /\ procs'[p].project = procs[p].project /\ procs'[p].config = procs[p].config
          /\ procs'[p].selected = procs[p].selected /\ procs'[p].got = procs[p].got
      BY <1>1, <2>2, Ending DEF KeepsLaunch, KeepsInit
    <3>2. out.agent = agent /\ out.model = model
      BY <2>2, LaunchedIs
    <3>3. IdsApart(procs'[p].project) /\ IdsApart(procs'[p].got)
      BY <1>3, <3>1
    <3>4. ASSUME job.profile # None  PROVE FromProject(procs'[p], job)
      BY <1>2, <2>1, <3>1, <3>4 DEF LaunchFits, FromProject
    <3>5. ASSUME job.profile # None  PROVE ModelGoesWithAgent(procs'[p], job)
      <4>1. profile = procs[p].selected
        BY <3>5
      <4>. HIDE DEF profile
      <4>2. model \notin {None, job.model} =>
              /\ model = procs[p].selected.model
              /\ agent \in {procs[p].selected.agent, procs[p].config.agent.default}
              /\ job.agent \in {None, procs[p].selected.agent}
        BY <4>1, ModelsGoWithAgents
      <4>. QED  BY <4>2, <3>1, <3>2 DEF ModelGoesWithAgent
    <3>. QED  BY <3>3, <3>4, <3>5 DEF LaunchFits
  <2>. HIDE DEF agent, model, profile
  <2>3. \E out : Ends(p, out) /\ (IsRefused(out) \/ Launched(out, agent, model))
    BY <1>8, ResolveTemplatesSteps DEF agent, model, profile
  <2>. QED  BY <1>4, <2>2, <2>3
<1>. QED  BY <1>6, <1>7, <1>8 DEF LaunchStep

LEMMA LaunchNext ==
    ASSUME FilesInv, LaunchInv, [Next]_vars
    PROVE  LaunchInv'
<1>1. ASSUME NEW p \in Procs, LaunchFits(procs'[p], jobs[p]), Others(p), jobs' = jobs
      PROVE  LaunchInv'
  BY <1>1 DEF LaunchInv, Others
<1>2. CASE UNCHANGED vars
  BY <1>2 DEF vars, LaunchInv
<1>3. ASSUME NEW p \in Procs, StepOf(p)
      PROVE  LaunchInv'
  <2>1. /\ Others(p) /\ jobs' = jobs /\ WholeProcs /\ LaunchFits(procs[p], jobs[p])
        /\ ProcFits(procs[p], jobs[p], temps[p], DOMAIN files)
    BY <1>3, StepsOfOne DEF FilesInv, LaunchInv
  <2>2. CASE LaunchStep(p)
    BY <2>1, <2>2, <1>1, LaunchStepFits DEF LaunchInv
  <2>3. CASE jobs[p].op # "launch"
    BY <2>1, <2>3, <1>1 DEF LaunchFits
  <2>4. CASE Crash(p)
    <3>1. /\ KeepsInit(procs[p], procs'[p]) /\ KeepsLaunch(procs[p], procs'[p])
          /\ procs'[p].pc = "crashed" /\ procs'[p].out = procs[p].out
      BY <2>1, <2>4, Going DEF Crash
    <3>2. LaunchFits(procs'[p], jobs[p])
      BY <2>1, <3>1 DEF LaunchFits, FromProject, ModelGoesWithAgent, KeepsInit, KeepsLaunch
    <3>. QED  BY <1>1, <2>1, <3>2
  <2>5. CASE RunAgain(p)
    <3>1. procs'[p] = Fresh
      BY <2>1, <2>5, RunAgainSteps
    <3>2. LaunchFits(procs'[p], jobs[p])
      BY <3>1, FreshIs, Outcomes DEF LaunchFits, IdsApart
    <3>. QED  BY <1>1, <2>1, <3>2
  <2>6. ASSUME InitStep(p) \/ Install(p) \/ ReadTarget(p) \/ ReplaceStep(p) \/ WriteFails(p)
        PROVE  jobs[p].op # "launch"
    <3>1. InitStep(p) => jobs[p].op = "init"
      BY DEF InitStep, RunInit, Wizard, WizardCancelled, InitConfig, LookForIgnore,
             ReadIgnore, At
    <3>2. Install(p) \/ ReadTarget(p) => jobs[p].op \in {"mcp", "skills"}
      BY DEF Install, ReadTarget, At
    <3>3. ReplaceStep(p) \/ WriteFails(p) => procs[p].pc \in {"write", "rename"}
      BY DEF ReplaceStep, WriteFails, WriteTemp, FillTemp, Rename
    <3>4. procs[p].pc \in {"write", "rename"} => jobs[p].op # "launch"
      BY <2>1 DEF ProcFits, PlacesOf
    <3>. QED  BY <2>6, <3>1, <3>2, <3>3, <3>4
  <2>. QED  BY <1>3, <2>2, <2>3, <2>4, <2>5, <2>6 DEF StepOf
<1>4. ASSUME NEW path \in DOMAIN files, Edit(path)
      PROVE  LaunchInv'
  <2>. SUFFICES ASSUME NEW p \in Procs  PROVE LaunchFits(procs'[p], jobs'[p])
    BY DEF LaunchInv
  <2>1. /\ KeepsInit(procs[p], procs'[p]) /\ KeepsLaunch(procs[p], procs'[p])
        /\ procs'[p].pc = procs[p].pc /\ procs'[p].out = procs[p].out
    BY <1>4, Editing DEF FilesInv
  <2>2. jobs' = jobs
    BY <1>4 DEF Edit
  <2>. QED  BY <2>1, <2>2
            DEF LaunchInv, LaunchFits, FromProject, ModelGoesWithAgent, KeepsInit, KeepsLaunch
<1>. QED  BY <1>2, <1>3, <1>4, NextIs

LEMMA InvLaunch == LaunchInv => LaunchFollowsOneProfile
  BY DEF LaunchInv, LaunchFits, FromProject, ModelGoesWithAgent, LaunchFollowsOneProfile

(***************************************************************************)
(* A launch uses one profile whole: the project's before the user's, and a *)
(* profile's model only with the Agent it was written for, whoever edits   *)
(* the files between the reads (resolveProfiles, resolveModel).            *)
(***************************************************************************)
THEOREM LaunchesFollowOneProfile == Spec => []LaunchFollowsOneProfile
  BY FilesHold, FilesStart, FilesStep, LaunchStart, LaunchNext, InvLaunch, PTL DEF Spec

(***************************************************************************)
(* The config of an init: what it drafts, and later has made, is what the  *)
(* command line or the wizard selected, and the loader reads it back.      *)
(***************************************************************************)
IsPlain(c) ==
    /\ IsConfig(c) /\ c.id \notin Numbers
    /\ c.mux.templates \cap HasLineBreaks = {} /\ c.agent.templates \cap HasLineBreaks = {}
    /\ c.mux.default \in c.mux.templates /\ c.agent.default \in c.agent.templates

ConfigFits(f, job) ==
    /\ job.op # "init" \/ f.pc \in {"begin", "wizard"} => f.made = Absent
    /\ f.pc = "wizard" => job.interactive
    /\ job.op = "init" => f.selected = Absent \/ IsPlain(f.selected)
    /\ job.op = "init" /\ f.pc \in {"write", "rename"} /\ f.path = Yaml
         => f.draft = RenderOf(job, f.selected)
    /\ f.made # Absent => f.made = RenderOf(job, f.selected)

ConfigInv ==
    /\ \A p \in Procs : PlainJob(jobs[p])
    /\ \A p \in Procs : ConfigFits(procs[p], jobs[p])

LEMMA MaterializeIs ==
    ASSUME NEW id, NEW mux, NEW agent, ~IsRefused(MaterializeInitConfig(id, mux, agent)),
           id \notin Numbers, (mux.templates \cup {mux.default}) \cap HasLineBreaks = {}
    PROVE  IsPlain(MaterializeInitConfig(id, mux, agent))
<1>1. IsRefused(Refused("invalid_input"))
  BY Outcomes
<1>2. PICK sel : sel = MaterializeInitConfig(id, mux, agent)
  OBVIOUS
<1>3. /\ sel = [kind |-> "config", id |-> id,
                mux |-> Section(mux.default, mux.templates \cup {mux.default}),
                agent |-> Section(agent.default, agent.templates \cup {agent.default})]
      /\ agent.templates \cup {agent.default} \subseteq Range(BuiltinAgents)
  BY <1>1, <1>2 DEF MaterializeInitConfig
<1>4. IsConfig(sel)
  BY <1>2, SelectionIs
<1>5. /\ sel.id = id /\ sel.mux = Section(mux.default, mux.templates \cup {mux.default})
      /\ sel.agent = Section(agent.default, agent.templates \cup {agent.default})
  BY <1>3
<1>6. /\ sel.mux.templates = mux.templates \cup {mux.default} /\ sel.mux.default = mux.default
      /\ sel.agent.templates = agent.templates \cup {agent.default}
      /\ sel.agent.default = agent.default
  <2>1. \A d, t : Section(d, t).default = d /\ Section(d, t).templates = t
    BY SectionsAre
  <2>2. PICK m, a : m = mux.templates \cup {mux.default} /\ a = agent.templates \cup {agent.default}
    OBVIOUS
  <2>3. sel.mux = Section(mux.default, m) /\ sel.agent = Section(agent.default, a)
    BY <1>5, <2>2
  <2>4. /\ sel.mux.templates = m /\ sel.mux.default = mux.default
        /\ sel.agent.templates = a /\ sel.agent.default = agent.default
    BY <2>1, <2>3
  <2>. QED  BY <2>2, <2>4
<1>7. sel.agent.templates \cap HasLineBreaks = {}
  BY <1>3, <1>6, BuiltinsAre
<1>. QED  BY <1>2, <1>4, <1>5, <1>6, <1>7 DEF IsPlain

(* What the loader makes of what init writes.                              *)
LEMMA TemplatesAreRead ==
    ASSUME NEW s, IsSection(s), s.templates \cap HasLineBreaks = {}
    PROVE  [s EXCEPT !.templates = {YamlTemplate(t) : t \in @}] = s
<1>1. \A t \in s.templates : YamlTemplate(t) = t
  BY DEF YamlTemplate
<1>2. {YamlTemplate(t) : t \in s.templates} = s.templates
  BY <1>1
<1>. QED  BY <1>2 DEF IsSection, Section

LEMMA RenderedIsRead ==
    ASSUME NEW id, NEW mux, NEW agent, id \notin Numbers, IsSection(mux), IsSection(agent),
           mux.templates \cap HasLineBreaks = {}, agent.templates \cap HasLineBreaks = {}
    PROVE  ParseConfig(RenderConfig(id, mux, agent)) =
               [kind |-> "config", id |-> id, mux |-> mux, agent |-> agent]
<1>1. PICK c : c = RenderConfig(id, mux, agent)
  OBVIOUS
<1>2. PICK yaml : yaml = "yaml"
  OBVIOUS
<1>3. c = [kind |-> yaml, id |-> YamlScalar(id), mux |-> mux, agent |-> agent]
  BY <1>1, <1>2, TemplatesAreRead DEF RenderConfig
<1>4. c.kind = yaml /\ c.id = YamlScalar(id) /\ c.mux = mux /\ c.agent = agent
  BY <1>3
<1>5. c.id.text = id /\ c.id.quoted = (id \in NeedsQuotes)
  BY <1>4 DEF YamlScalar
<1>6. ~(c.id.text \in Numbers \cup NeedsQuotes /\ ~c.id.quoted)
  BY <1>5
<1>7. ParseConfig(c) = [kind |-> "config", id |-> c.id.text, mux |-> c.mux, agent |-> c.agent]
  BY <1>2, <1>4, <1>6 DEF ParseConfig
<1>. QED  BY <1>1, <1>4, <1>5, <1>7

LEMMA SelectionIsRead ==
    ASSUME NEW job, PlainJob(job), job.op = "init", NEW sel, sel = Absent \/ IsPlain(sel)
    PROVE  LET config == ParseConfig(RenderOf(job, sel))
           IN  /\ ~IsRefused(config)
               /\ IF sel = Absent THEN config.id = job.id ELSE config = sel
               /\ \A section \in {config.mux, config.agent} :
                    section.templates # {} => section.default \in section.templates
<1>1. PICK config : config = ParseConfig(RenderOf(job, sel))
  OBVIOUS
<1>2. CASE sel = Absent
  <2>1. RenderOf(job, sel) = RenderConfig(job.id, DefaultMux, DefaultAgent)
    BY <1>2 DEF RenderOf, IdOf
  <2>2. DefaultMux.templates = {} /\ DefaultAgent.templates = {}
    BY SectionsAre DEF DefaultMux, DefaultAgent
  <2>3. config = [kind |-> "config", id |-> job.id, mux |-> DefaultMux, agent |-> DefaultAgent]
    BY <1>1, <2>1, <2>2, DefaultsAre, RenderedIsRead DEF PlainJob
  <2>4. /\ config.kind = "config" /\ config.id = job.id
        /\ config.mux = DefaultMux /\ config.agent = DefaultAgent
    BY <2>3
  <2>5. ~IsRefused(config)
    BY <2>4 DEF IsRefused
  <2>. QED  BY <1>1, <1>2, <2>2, <2>4, <2>5
<1>3. CASE sel # Absent
  <2>1. IsPlain(sel) /\ IsConfig(sel) /\ IsSection(sel.mux) /\ IsSection(sel.agent)
    BY <1>3 DEF IsPlain, IsConfig
  <2>2. RenderOf(job, sel) = RenderConfig(sel.id, sel.mux, sel.agent)
    BY <1>3 DEF RenderOf, IdOf
  <2>3. config = [kind |-> "config", id |-> sel.id, mux |-> sel.mux, agent |-> sel.agent]
    BY <1>1, <2>1, <2>2, RenderedIsRead DEF IsPlain
  <2>4. config = sel
    BY <2>1, <2>3 DEF IsConfig
  <2>5. ~IsRefused(sel)
    BY <2>1, ConfigsAre
  <2>. QED  BY <1>1, <1>3, <2>1, <2>4, <2>5 DEF IsPlain
<1>. QED  BY <1>2, <1>3

LEMMA ConfigStart ==
    ASSUME PlainNames(Scenarios), Init
    PROVE  ConfigInv
<1>1. \A p \in Procs : PlainJob(jobs[p])
  BY DEF Init, PlainNames
<1>2. \A p \in Procs : procs[p] = Fresh
  BY DEF Init
<1>. QED  BY <1>1, <1>2, FreshIs DEF ConfigInv, ConfigFits

(* A process that keeps its selection, its config and what it drafts.      *)
LEMMA ConfigKept ==
    ASSUME NEW f, NEW g, NEW job, ConfigFits(f, job), KeepsInit(f, g), KeepsFile(f, g),
           g.pc \in {"begin", "wizard"} => f.pc \in {"begin", "wizard"},
           g.pc = "wizard" => job.interactive,
           g.pc \in {"write", "rename"} => f.pc \in {"write", "rename"}
    PROVE  ConfigFits(g, job)
  BY DEF ConfigFits, KeepsInit, KeepsFile

LEMMA ConfigEnds ==
    ASSUME FilesInv, NEW p \in Procs, ConfigFits(procs[p], jobs[p]), NEW out, Ends(p, out)
    PROVE  ConfigFits(procs'[p], jobs[p])
<1>1. /\ KeepsFile(procs[p], procs'[p]) /\ KeepsInit(procs[p], procs'[p])
      /\ procs'[p].pc = "done"
  BY Ending DEF FilesInv
<1>. QED  BY <1>1, ConfigKept

LEMMA ConfigGoes ==
    ASSUME FilesInv, NEW p \in Procs, ConfigFits(procs[p], jobs[p]), NEW pc, Goes(p, pc),
           pc \in {"begin", "wizard"} => procs[p].pc \in {"begin", "wizard"},
           pc = "wizard" => jobs[p].interactive,
           pc \in {"write", "rename"} => procs[p].pc \in {"write", "rename"}
    PROVE  ConfigFits(procs'[p], jobs[p])
<1>1. /\ KeepsFile(procs[p], procs'[p]) /\ KeepsInit(procs[p], procs'[p])
      /\ procs'[p].pc = pc
  BY Going DEF FilesInv
<1>. QED  BY <1>1, ConfigKept

LEMMA ConfigDrafts ==
    ASSUME FilesInv, NEW p \in Procs, ConfigFits(procs[p], jobs[p]), NEW path, NEW draft,
           Drafts(p, path, draft),
           jobs[p].op = "init" /\ path = Yaml => draft = RenderOf(jobs[p], procs[p].selected)
    PROVE  ConfigFits(procs'[p], jobs[p])
<1>1. /\ KeepsInit(procs[p], procs'[p]) /\ procs'[p].pc = "write"
      /\ procs'[p].path = path /\ procs'[p].draft = draft
  BY Drafting DEF FilesInv
<1>. QED  BY <1>1 DEF ConfigFits, KeepsInit

LEMMA ConfigSelects ==
    ASSUME FilesInv, NEW p \in Procs, ConfigFits(procs[p], jobs[p]), NEW sel, IsPlain(sel),
           procs[p].pc \in {"begin", "wizard"}, Selects(p, "init", sel)
    PROVE  ConfigFits(procs'[p], jobs[p])
<1>1. /\ procs'[p].pc = "init" /\ procs'[p].selected = sel /\ procs'[p].made = procs[p].made
  BY Selecting DEF FilesInv
<1>. QED  BY <1>1 DEF ConfigFits

LEMMA ConfigInitStep ==
    ASSUME FilesInv, NEW p \in Procs, PlainJob(jobs[p]), ConfigFits(procs[p], jobs[p]),
           \A m \in Selections : m \cap HasLineBreaks = {}, InitStep(p)
    PROVE  ConfigFits(procs'[p], jobs[p])
<1>. DEFINE job == jobs[p]
<1>1. CASE RunInit(p)
  <2>. DEFINE sel == MaterializeInitConfig(job.id, Section(job.mux, {}), Section(job.agent, {}))
  <2>1. procs[p].pc = "begin" /\ job.op = "init"
    BY <1>1, RunInitSteps DEF At
  <2>2. ASSUME ~IsRefused(sel)  PROVE IsPlain(sel)
    BY <2>1, <2>2, SectionsAre, MaterializeIs DEF PlainJob
  <2>. HIDE DEF sel
  <2>3. \/ Goes(p, "init")
        \/ job.interactive /\ Goes(p, "wizard")
        \/ \E out : Ends(p, out)
        \/ ~IsRefused(sel) /\ Selects(p, "init", sel)
    BY <1>1, RunInitSteps DEF sel
  <2>4. CASE Goes(p, "init")
    BY <2>4, ConfigGoes
  <2>5. CASE job.interactive /\ Goes(p, "wizard")
    BY <2>1, <2>5, ConfigGoes
  <2>6. CASE \E out : Ends(p, out)
    BY <2>6, ConfigEnds
  <2>7. CASE ~IsRefused(sel) /\ Selects(p, "init", sel)
    BY <2>1, <2>2, <2>7, ConfigSelects
  <2>. QED  BY <2>3, <2>4, <2>5, <2>6, <2>7
<1>2. CASE Wizard(p)
  <2>1. KnownIfGiven(job.agent, BuiltinAgents) /\ KnownIfGiven(job.mux, BuiltinMuxes)
    BY <1>2 DEF FilesInv, ProcFits, Wizard, At
  <2>2. PICK id, agent, mux, sel :
           /\ sel = MaterializeInitConfig(id, mux, agent) /\ IsConfig(sel)
           /\ job.id # None => id = job.id
           /\ \E m \in Selections : mux.templates = Ticked(job.mux, m)
           /\ mux.default \in mux.templates
           /\ Selects(p, "init", sel)
    BY <1>2, <2>1, WizardSteps
  <2>3. procs[p].pc = "wizard" /\ job.op = "init"
    BY <1>2 DEF Wizard, At
  <2>4. id \notin Numbers
    BY <2>2, <2>3 DEF ConfigFits, PlainJob
  <2>5. (mux.templates \cup {mux.default}) \cap HasLineBreaks = {}
    BY <2>2, <2>3 DEF PlainJob, Ticked
  <2>6. IsPlain(sel)
    BY <2>2, <2>4, <2>5, ConfigsAre, MaterializeIs
  <2>. QED  BY <2>2, <2>3, <2>6, ConfigSelects
<1>3. CASE WizardCancelled(p)
  BY <1>3, ConfigEnds DEF WizardCancelled
<1>4. CASE InitConfig(p)
  <2>1. \/ Goes(p, "ignore") \/ (\E out : Ends(p, out))
        \/ Drafts(p, Yaml, RenderOf(job, procs[p].selected))
    BY <1>4, InitConfigSteps
  <2>2. CASE Goes(p, "ignore")
    BY <2>2, ConfigGoes
  <2>3. CASE Drafts(p, Yaml, RenderOf(job, procs[p].selected))
    BY <2>3, ConfigDrafts
  <2>. QED  BY <2>1, <2>2, <2>3, ConfigEnds
<1>5. Ignore # Yaml
  BY DEF Ignore, Yaml
<1>6. CASE LookForIgnore(p)
  <2>1. (\E draft : Drafts(p, Ignore, draft)) \/ Goes(p, "read")
    BY <1>6 DEF LookForIgnore
  <2>2. CASE Goes(p, "read")
    BY <2>2, ConfigGoes
  <2>3. CASE \E draft : Drafts(p, Ignore, draft)
    BY <1>5, <2>3, ConfigDrafts
  <2>. QED  BY <2>1, <2>2, <2>3
<1>7. CASE ReadIgnore(p)
  <2>1. (\E out : Ends(p, out)) \/ (\E draft : Drafts(p, Ignore, draft))
    BY <1>7, ReadIgnoreSteps
  <2>. QED  BY <1>5, <2>1, ConfigEnds, ConfigDrafts
<1>. QED  BY <1>1, <1>2, <1>3, <1>4, <1>6, <1>7 DEF InitStep

LEMMA ConfigOtherStep ==
    ASSUME FilesInv, NEW p \in Procs, ConfigFits(procs[p], jobs[p]), StepOf(p), ~InitStep(p)
    PROVE  ConfigFits(procs'[p], jobs[p])
<1>1. WholeProcs /\ ProcFits(procs[p], jobs[p], temps[p], DOMAIN files)
  BY DEF FilesInv
<1>2. CASE Install(p) \/ ReadTarget(p)
  <2>1. jobs[p].op # "init"
        /\ \/ (\E out : Ends(p, out)) \/ (\E path, draft : Drafts(p, path, draft))
           \/ Goes(p, "read")
    BY <1>2, InstallSteps
  <2>. QED  BY <2>1, ConfigEnds, ConfigDrafts, ConfigGoes
<1>3. CASE WriteTemp(p)
  BY <1>3, ConfigGoes DEF WriteTemp
<1>4. CASE FillTemp(p)
  BY <1>4 DEF FillTemp
<1>5. CASE Rename(p)
  <2>1. procs[p].pc = "rename"
    BY <1>5 DEF Rename
  <2>2. procs'[p].selected = procs[p].selected
    BY <1>1, <1>5, Renaming
  <2>3. CASE jobs[p].op = "init" /\ procs[p].path = Yaml
    <3>1. procs'[p].pc = "ignore" /\ procs'[p].made = procs[p].draft
      BY <1>1, <1>5, <2>3, Renaming
    <3>. QED  BY <2>1, <2>2, <2>3, <3>1 DEF ConfigFits
  <2>4. CASE ~(jobs[p].op = "init" /\ procs[p].path = Yaml)
    <3>1. procs'[p].pc = "done" /\ procs'[p].made = procs[p].made
      BY <1>1, <1>5, <2>4, Renaming
    <3>. QED  BY <2>1, <2>2, <2>4, <3>1 DEF ConfigFits
  <2>. QED  BY <2>3, <2>4
<1>6. CASE LaunchStep(p)
  BY <1>6, LaunchReaches DEF ConfigFits, Reaches
<1>7. CASE WriteFails(p)
  BY <1>7, ConfigEnds DEF WriteFails
<1>8. CASE Crash(p)
  BY <1>8, ConfigGoes DEF Crash
<1>9. CASE RunAgain(p)
  <2>1. procs'[p] = Fresh
    BY <1>1, <1>9, RunAgainSteps
  <2>. QED  BY <2>1, FreshIs DEF ConfigFits
<1>. QED  BY <1>2, <1>3, <1>4, <1>5, <1>6, <1>7, <1>8, <1>9 DEF StepOf, ReplaceStep

LEMMA ConfigNext ==
    ASSUME PlainNames(Scenarios), FilesInv, ConfigInv, [Next]_vars
    PROVE  ConfigInv'
<1>1. CASE UNCHANGED vars
  BY <1>1 DEF vars, ConfigInv
<1>2. ASSUME NEW p \in Procs, StepOf(p)  PROVE ConfigInv'
  <2>1. Others(p) /\ jobs' = jobs
    BY <1>2, StepsOfOne
  <2>2. ConfigFits(procs'[p], jobs[p])
    BY <1>2, ConfigInitStep, ConfigOtherStep DEF ConfigInv, PlainNames
  <2>. QED  BY <2>1, <2>2 DEF ConfigInv, Others
<1>3. ASSUME NEW path \in DOMAIN files, Edit(path)  PROVE ConfigInv'
  <2>1. jobs' = jobs
    BY <1>3 DEF Edit
  <2>2. ASSUME NEW p \in Procs  PROVE ConfigFits(procs'[p], jobs[p])
    <3>1. /\ KeepsFile(procs[p], procs'[p]) /\ KeepsInit(procs[p], procs'[p])
          /\ procs'[p].pc = procs[p].pc
      BY <1>3, Editing DEF FilesInv
    <3>2. ConfigFits(procs[p], jobs[p])
      BY DEF ConfigInv
    <3>3. procs[p].pc = "wizard" => jobs[p].interactive
      BY <3>2 DEF ConfigFits
    <3>. QED  BY <3>1, <3>2, <3>3, ConfigKept
  <2>. QED  BY <2>1, <2>2 DEF ConfigInv
<1>. QED  BY <1>1, <1>2, <1>3, NextIs

LEMMA InvConfig == ConfigInv => ConfigSaysWhatWasSelected
<1>. SUFFICES ASSUME ConfigInv, NEW p \in Procs,
                     procs[p].made # Absent, files[Yaml] = procs[p].made
              PROVE  LET sel == procs[p].selected
                         config == ParseConfig(files[Yaml])
                     IN  /\ ~IsRefused(config)
                         /\ IF sel = Absent THEN config.id = jobs[p].id ELSE config = sel
                         /\ \A section \in {config.mux, config.agent} :
                              section.templates # {} => section.default \in section.templates
  BY DEF ConfigSaysWhatWasSelected
<1>1. /\ PlainJob(jobs[p]) /\ jobs[p].op = "init"
      /\ procs[p].selected = Absent \/ IsPlain(procs[p].selected)
      /\ files[Yaml] = RenderOf(jobs[p], procs[p].selected)
  BY DEF ConfigInv, ConfigFits
<1>. QED  BY <1>1, SelectionIsRead

(***************************************************************************)
(* The config that init has written says, to the loader, what was selected *)
(* on the command line or in the wizard, whatever was killed and run again *)
(* meanwhile, for the names that the file gives back as they are           *)
(* (renderConfigYaml against FileConfigLoader).                            *)
(***************************************************************************)
THEOREM ConfigsSayWhatWasSelected ==
    PlainNames(Scenarios) => (Spec => []ConfigSaysWhatWasSelected)
<1>. SUFFICES ASSUME PlainNames(Scenarios)  PROVE Spec => []ConfigSaysWhatWasSelected
  OBVIOUS
<1>1. Init => ConfigInv
  BY ConfigStart
<1>2. FilesInv /\ ConfigInv /\ [Next]_vars => ConfigInv'
  BY ConfigNext
<1>. QED  BY <1>1, <1>2, FilesHold, InvConfig, PTL DEF Spec

(***************************************************************************)
(* What a job has written stands until one that is not asem writes there:  *)
(* whatever else asem writes to the same file is written as well.          *)
(***************************************************************************)
LEMMA AtMostOne ==
    ASSUME NEW n \in Nat, NEW S \in SUBSET (1 .. n), Cardinality(S) <= 1
    PROVE  \A i, j \in S : i = j
<1>1. IsFiniteSet(1 .. n)
  BY FS_Interval
<1>2. IsFiniteSet(S)
  BY <1>1, FS_Subset
<1>3. Cardinality(S) \in Nat
  BY <1>2, FS_CardinalityType
<1>4. CASE Cardinality(S) = 0
  BY <1>2, <1>4, FS_EmptySet
<1>5. CASE Cardinality(S) = 1
  <2>1. PICK x : S = {x}
    BY <1>2, <1>5, FS_Singleton
  <2>. QED  BY <2>1
<1>. QED  BY <1>3, <1>4, <1>5

TidyIn(path, c) ==
    /\ path = Ignore /\ c.kind = "lines" => \A rule \in Rules : NotTwice(rule, c.lines)
    /\ TidyCodex(path, c)

LEMMA TidyIsSo ==
    ASSUME NEW path, NEW c, Holds(path, c), Tidy(path, c)
    PROVE  TidyIn(path, c)
<1>1. ASSUME IsSeq(c.lines), NEW rule, Times(rule, c.lines) <= 1
      PROVE  NotTwice(rule, c.lines)
  <2>. DEFINE S == {i \in DOMAIN c.lines : c.lines[i] = rule}
  <2>1. S \in SUBSET (1 .. Len(c.lines)) /\ Len(c.lines) \in Nat
    BY <1>1, Lengths
  <2>2. Cardinality(S) <= 1
    BY <1>1 DEF Times
  <2>3. \A i, j \in S : i = j
    BY <2>1, <2>2, AtMostOne
  <2>. QED  BY <2>3 DEF NotTwice
<1>2. ASSUME IsSeq(c.lines), Definitions(c.lines) <= 1
      PROVE  WellDefined(c.lines)
  <2>1. Defines(c.lines) \in SUBSET (1 .. Len(c.lines)) /\ Len(c.lines) \in Nat
    BY <1>2, Lengths DEF Defines, Seen, Hidden
  <2>2. Cardinality(Defines(c.lines)) <= 1
    BY <1>2 DEF Definitions, Defines, Seen, Hidden
  <2>3. \A i, j \in Defines(c.lines) : i = j
    BY <2>1, <2>2, AtMostOne
  <2>. QED  BY <2>3 DEF WellDefined
<1>3. ASSUME path = Ignore, c.kind = "lines"
      PROVE  \A rule \in Rules : NotTwice(rule, c.lines)
  <2>1. IsSeq(c.lines)
    BY <1>3, IgnoreHeld
  <2>2. \A rule \in Rules : Times(rule, c.lines) <= 1
    BY <1>3 DEF Tidy, Rules
  <2>. QED  BY <1>1, <2>1, <2>2
<1>4. ASSUME path = CodexFile, c.kind = "toml"
      PROVE  WellDefined(c.lines)
  <2>1. IsSeq(c.lines)
    <3>1. c # Absent
      BY <1>4, Outcomes
    <3>2. Ignore # CodexFile
      BY DEF Ignore, CodexFile
    <3>. QED  BY <1>4, <3>1, <3>2 DEF Holds, IsText
  <2>2. Hidden(c.lines) # {} \/ Definitions(c.lines) <= 1
    BY <1>4 DEF Tidy
  <2>. QED  BY <1>2, <2>1, <2>2 DEF WellDefined
<1>. QED  BY <1>3, <1>4 DEF TidyIn, TidyCodex

Written(path, c) ==
    /\ InstalledAt(path, c)
    /\ path = Ignore => c.kind = "lines" /\ \A rule \in Rules : Once(rule, c.lines)
    /\ path = Yaml => c.kind = "yaml"

LEMMA WrittenIsTidy ==
    ASSUME NEW path, NEW c, Written(path, c)
    PROVE  TidyIn(path, c)
<1>1. \A rule, s : Once(rule, s) => NotTwice(rule, s)
  BY DEF Once, NotTwice
<1>. QED  BY <1>1 DEF Written, TidyIn, TidyCodex, InstalledAt

LEMMA PathsApart ==
    /\ Yaml # Ignore /\ Yaml # CodexFile /\ Ignore # CodexFile
    /\ Yaml \notin JsonPaths \cup SkillPaths /\ Ignore \notin JsonPaths \cup SkillPaths
<1>1. Yaml # Ignore /\ Yaml # CodexFile /\ Ignore # CodexFile
  BY DEF Yaml, Ignore, CodexFile
<1>2. \A path \in JsonPaths : path \notin {Yaml, Ignore}
  <2>. SUFFICES ASSUME NEW t \in DOMAIN JsonMcpTargets, NEW g \in BOOLEAN, JsonPath(t, g) # ""
                PROVE  JsonPath(t, g) \notin {Yaml, Ignore}
    BY Zenon DEF JsonPaths
  <2>. QED  BY TargetsAgree
<1>. QED  BY <1>1, <1>2, SkillsApart

HasConfig(f) ==
    f.out = Done \/ f.pc \in {"ignore", "read"} \/ (f.pc \in {"write", "rename"} /\ f.path = Ignore)

Stands(f, job, F) ==
    ~f.edited =>
        /\ job.op \in {"mcp", "skills"} /\ f.out = Done
             => f.path \in About(job) /\ Written(f.path, F[f.path])
        /\ job.op = "init" /\ f.out = Done => Written(Ignore, F[Ignore])
        /\ job.op = "init" /\ HasConfig(f) => F[Yaml].kind # "absent"
        /\ job.op = "init" /\ f.made # Absent => F[Yaml].kind = "yaml"
DraftStands(f) == f.pc \in {"write", "rename"} => Written(f.path, f.draft)

WrittenInv ==
    /\ \A path \in DOMAIN files : TidyIn(path, files[path])
    /\ \A p \in Procs : DraftStands(procs[p]) /\ Stands(procs[p], jobs[p], files)

LEMMA WrittenStart ==
    ASSUME TidyFiles(Scenarios), Init
    PROVE  WrittenInv
<1>1. PICK s \in Scenarios :
        files = [path \in DOMAIN s.files \cup UNION {About(s.jobs[p]) : p \in Procs} |->
                       IF path \in DOMAIN s.files THEN s.files[path] ELSE Absent]
  BY DEF Init
<1>2. \A p \in Procs : procs[p] = Fresh
  BY DEF Init
<1>3. ASSUME NEW path \in DOMAIN files  PROVE TidyIn(path, files[path])
  <2>1. CASE path \in DOMAIN s.files
    <3>1. files[path] = s.files[path]
      BY <1>1, <2>1
    <3>2. Holds(path, files[path])
      BY FilesStart DEF FilesInv, ContentsFit
    <3>3. Tidy(path, files[path])
      BY <2>1, <3>1 DEF TidyFiles
    <3>. QED  BY <3>2, <3>3, TidyIsSo
  <2>2. CASE path \notin DOMAIN s.files
    <3>1. files[path].kind = "absent"
      BY <1>1, <2>2, Outcomes
    <3>. QED  BY <3>1 DEF TidyIn, TidyCodex
  <2>. QED  BY <2>1, <2>2
<1>4. DraftStands(Fresh)
  BY FreshIs DEF DraftStands
<1>5. \A job : Stands(Fresh, job, files)
  BY FreshIs, Outcomes DEF Stands, HasConfig
<1>. QED  BY <1>2, <1>3, <1>4, <1>5 DEF WrittenInv

(* Files that are as they were, or that asem has written.                  *)
LEMMA StandsOver ==
    ASSUME NEW f, NEW job \in Request, NEW F, NEW G, Stands(f, job, F),
           \A x \in About(job) : G[x] = F[x] \/ Written(x, G[x])
    PROVE  Stands(f, job, G)
<1>1. job.op = "init" => Yaml \in About(job) /\ Ignore \in About(job)
  BY AboutIs
<1>2. Written(Yaml, G[Yaml]) => G[Yaml].kind = "yaml"
  BY DEF Written
<1>. QED  BY <1>1, <1>2 DEF Stands

(* What a step of p does to its own part, the files being as they were.    *)
LEMMA StandsKept ==
    ASSUME NEW f, NEW g, NEW job, NEW F, DraftStands(f), Stands(f, job, F),
           KeepsFile(f, g), KeepsRest(f, g), KeepsInit(f, g),
           g.out = Done => f.out = Done,
           g.pc \in {"write", "rename"} => f.pc \in {"write", "rename"},
           g.pc \in {"ignore", "read"} => HasConfig(f) \/ F[Yaml].kind # "absent"
    PROVE  DraftStands(g) /\ Stands(g, job, F)
<1>1. DraftStands(g)
  BY DEF DraftStands, KeepsFile
<1>2. HasConfig(g) => HasConfig(f) \/ F[Yaml].kind # "absent"
  BY DEF HasConfig, KeepsFile
<1>3. Stands(g, job, F)
  BY <1>2 DEF Stands, KeepsFile, KeepsRest, KeepsInit
<1>. QED  BY <1>1, <1>3

OwnStands(p) == DraftStands(procs[p]) /\ Stands(procs[p], jobs[p], files)
OwnStandsThen(p) == DraftStands(procs'[p]) /\ Stands(procs'[p], jobs[p], files)

LEMMA StandsEnds ==
    ASSUME FilesInv, NEW p \in Procs, OwnStands(p), NEW out, Ends(p, out), out # Done
    PROVE  OwnStandsThen(p)
<1>1. /\ KeepsFile(procs[p], procs'[p]) /\ KeepsRest(procs[p], procs'[p])
      /\ KeepsInit(procs[p], procs'[p]) /\ procs'[p].pc = "done" /\ procs'[p].out = out
  BY Ending DEF FilesInv
<1>. QED  BY <1>1, StandsKept DEF OwnStands, OwnStandsThen

LEMMA StandsGoes ==
    ASSUME FilesInv, NEW p \in Procs, OwnStands(p), NEW pc, Goes(p, pc),
           pc \in {"write", "rename"} => procs[p].pc \in {"write", "rename"},
           pc \in {"ignore", "read"} => HasConfig(procs[p]) \/ files[Yaml].kind # "absent"
    PROVE  OwnStandsThen(p)
<1>1. /\ KeepsFile(procs[p], procs'[p]) /\ KeepsRest(procs[p], procs'[p])
      /\ KeepsInit(procs[p], procs'[p]) /\ procs'[p].pc = pc /\ procs'[p].out = procs[p].out
  BY Going DEF FilesInv
<1>. QED  BY <1>1, StandsKept DEF OwnStands, OwnStandsThen

LEMMA StandsDrafts ==
    ASSUME FilesInv, NEW p \in Procs, OwnStands(p), NEW path, NEW draft,
           Drafts(p, path, draft), Written(path, draft), procs[p].pc # "done",
           jobs[p].op = "init" /\ path = Ignore => HasConfig(procs[p])
    PROVE  OwnStandsThen(p)
<1>1. /\ KeepsRest(procs[p], procs'[p]) /\ KeepsInit(procs[p], procs'[p])
      /\ procs'[p].pc = "write" /\ procs'[p].out = procs[p].out
      /\ procs'[p].path = path /\ procs'[p].draft = draft
  BY Drafting DEF FilesInv
<1>2. procs'[p].out # Done
  BY <1>1, Outcomes DEF FilesInv, ProcFits
<1>3. DraftStands(procs'[p])
  BY <1>1 DEF DraftStands
<1>4. jobs[p].op = "init" /\ HasConfig(procs'[p]) => HasConfig(procs[p])
  BY <1>1, <1>2 DEF HasConfig
<1>5. Stands(procs'[p], jobs[p], files)
  BY <1>1, <1>2, <1>4 DEF OwnStands, Stands, KeepsRest, KeepsInit
<1>. QED  BY <1>3, <1>5 DEF OwnStandsThen

LEMMA StandsSelects ==
    ASSUME FilesInv, NEW p \in Procs, OwnStands(p), NEW sel, Selects(p, "init", sel)
    PROVE  OwnStandsThen(p)
<1>1. /\ KeepsRest(procs[p], procs'[p]) /\ procs'[p].made = procs[p].made
      /\ procs'[p].pc = "init" /\ procs'[p].out = procs[p].out
      /\ KeepsFile(procs[p], procs'[p])
  BY Selecting DEF FilesInv
<1>2. DraftStands(procs'[p])
  BY <1>1 DEF DraftStands
<1>3. HasConfig(procs'[p]) => HasConfig(procs[p])
  BY <1>1 DEF HasConfig
<1>4. Stands(procs'[p], jobs[p], files)
  BY <1>1, <1>3 DEF OwnStands, Stands, KeepsRest, KeepsFile
<1>. QED  BY <1>2, <1>4 DEF OwnStandsThen

LEMMA LinesAreWritten ==
    ASSUME NEW draft, draft.kind = "lines", \A rule \in Rules : Once(rule, draft.lines)
    PROVE  Written(Ignore, draft)
  BY PathsApart DEF Written, InstalledAt

LEMMA StandsInitStep ==
    ASSUME FilesInv, NEW p \in Procs, OwnStands(p), InitStep(p),
           \A path \in DOMAIN files : TidyIn(path, files[path])
    PROVE  OwnStandsThen(p)
<1>1. CASE RunInit(p)
  <2>1. \/ Goes(p, "init") \/ Goes(p, "wizard")
        \/ \E out : Ends(p, out) /\ IsRefused(out)
        \/ \E sel : Selects(p, "init", sel)
    BY <1>1, RunInitSteps
  <2>. QED  BY <2>1, StandsGoes, StandsEnds, StandsSelects, Outcomes
<1>2. CASE Wizard(p)
  <2>1. KnownIfGiven(jobs[p].agent, BuiltinAgents) /\ KnownIfGiven(jobs[p].mux, BuiltinMuxes)
    BY <1>2 DEF FilesInv, ProcFits, Wizard, At
  <2>. QED  BY <1>2, <2>1, WizardSteps, StandsSelects
<1>3. CASE WizardCancelled(p)
  <2>1. Ends(p, Result("cancelled"))
    BY <1>3 DEF WizardCancelled
  <2>2. Result("cancelled") # Done
    <3>1. Result("cancelled").kind = "cancelled"
      BY Outcomes
    <3>. QED  BY <3>1, Outcomes
  <2>. QED  BY <2>1, <2>2, StandsEnds
<1>4. CASE InitConfig(p)
  <2>1. procs[p].pc = "init" /\ jobs[p].op = "init"
    BY <1>4, InitConfigSteps DEF At
  <2>2. CASE files[Yaml].kind # "absent" /\ Goes(p, "ignore")
    BY <2>2, StandsGoes
  <2>3. ASSUME NEW out, Ends(p, out), IsRefused(out)  PROVE OwnStandsThen(p)
    BY <2>3, StandsEnds, Outcomes
  <2>4. CASE Drafts(p, Yaml, RenderOf(jobs[p], procs[p].selected))
    <3>1. procs[p].selected = Absent \/ IsConfig(procs[p].selected)
      BY <2>1 DEF FilesInv, ProcFits
    <3>2. Written(Yaml, RenderOf(jobs[p], procs[p].selected))
      BY <3>1, RenderedHolds, PathsApart DEF Written, InstalledAt
    <3>. QED  BY <2>1, <2>4, <3>2, PathsApart, StandsDrafts
  <2>. QED  BY <1>4, <2>2, <2>3, <2>4, InitConfigSteps
<1>5. CASE LookForIgnore(p)
  <2>1. procs[p].pc = "ignore" /\ HasConfig(procs[p])
    BY <1>5 DEF LookForIgnore, At, HasConfig
  <2>2. CASE Goes(p, "read")
    BY <2>1, <2>2, StandsGoes
  <2>3. PICK draft : draft = [kind |-> "lines", lines |-> EnsureGitignoreRules(<<>>)]
    OBVIOUS
  <2>4. CASE Drafts(p, Ignore, draft)
    <3>1. IsSeq(EnsureGitignoreRules(<<>>))
          /\ \A rule \in Rules : Once(rule, EnsureGitignoreRules(<<>>))
      <4>1. \A rule \in Rules : NotTwice(rule, <<>>)
        BY InOneElement DEF NotTwice, Never
      <4>. QED  BY <4>1, NoElement, RulesAreAdded
    <3>2. draft.kind = "lines" /\ draft.lines = EnsureGitignoreRules(<<>>)
      BY <2>3, <3>1, LinesHold
    <3>3. Written(Ignore, draft)
      BY <3>1, <3>2, LinesAreWritten
    <3>. QED  BY <2>1, <2>4, <3>3, StandsDrafts
  <2>5. Goes(p, "read") \/ Drafts(p, Ignore, draft)
    BY <1>5, <2>3 DEF LookForIgnore
  <2>. QED  BY <2>2, <2>4, <2>5
<1>6. CASE ReadIgnore(p)
  <2>1. procs[p].pc = "read" /\ jobs[p].op = "init" /\ HasConfig(procs[p])
    BY <1>6 DEF ReadIgnore, At, HasConfig
  <2>2. CASE Ends(p, Result("threw"))
    <3>1. Result("threw") # Done
      <4>1. Result("threw").kind = "threw"
        BY Outcomes
      <4>. QED  BY <4>1, Outcomes
    <3>. QED  BY <2>2, <3>1, StandsEnds
  <2>3. ASSUME files[Ignore].kind = "lines", IsSeq(files[Ignore].lines)
        PROVE  \A rule \in Rules : Once(rule, EnsureGitignoreRules(files[Ignore].lines))
    <3>1. Ignore \in DOMAIN files
      BY <2>1, AboutIs DEF FilesInv, WorldFits
    <3>2. \A rule \in Rules : NotTwice(rule, files[Ignore].lines)
      BY <2>3, <3>1 DEF TidyIn
    <3>. QED  BY <2>3, <3>2, RulesAreAdded
  <2>4. ASSUME files[Ignore].kind = "lines", IsSeq(files[Ignore].lines), Ends(p, Done),
               EnsureGitignoreRules(files[Ignore].lines) = files[Ignore].lines
        PROVE  OwnStandsThen(p)
    <3>1. /\ KeepsFile(procs[p], procs'[p]) /\ KeepsRest(procs[p], procs'[p])
          /\ KeepsInit(procs[p], procs'[p]) /\ procs'[p].pc = "done"
      BY <2>4, Ending DEF FilesInv
    <3>2. Written(Ignore, files[Ignore])
      BY <2>3, <2>4, LinesAreWritten
    <3>3. DraftStands(procs'[p])
      BY <3>1 DEF DraftStands
    <3>4. Stands(procs'[p], jobs[p], files)
      BY <2>1, <3>1, <3>2 DEF OwnStands, Stands, KeepsRest, KeepsInit
    <3>. QED  BY <3>3, <3>4 DEF OwnStandsThen
  <2>5. ASSUME files[Ignore].kind = "lines", IsSeq(files[Ignore].lines),
               NEW draft, Drafts(p, Ignore, draft), draft.kind = "lines",
               draft.lines = EnsureGitignoreRules(files[Ignore].lines)
        PROVE  OwnStandsThen(p)
    <3>1. Written(Ignore, draft)
      BY <2>3, <2>5, LinesAreWritten
    <3>. QED  BY <2>1, <2>5, <3>1, StandsDrafts
  <2>. QED  BY <1>6, <2>2, <2>4, <2>5, ReadIgnoreSteps
<1>. QED  BY <1>1, <1>2, <1>3, <1>4, <1>5, <1>6 DEF InitStep

LEMMA StandsInstall ==
    ASSUME FilesInv, NEW p \in Procs, OwnStands(p), Install(p) \/ ReadTarget(p),
           \A path \in DOMAIN files : TidyIn(path, files[path])
    PROVE  OwnStandsThen(p)
<1>1. procs[p].pc \in {"begin", "read"} /\ jobs[p].op # "init"
  BY InstallSteps
<1>2. ASSUME NEW out, Ends(p, out), out # Done  PROVE OwnStandsThen(p)
  BY <1>2, StandsEnds
<1>3. ASSUME Goes(p, "read"), jobs[p].op = "mcp"  PROVE OwnStandsThen(p)
  <2>1. /\ KeepsFile(procs[p], procs'[p]) /\ KeepsRest(procs[p], procs'[p])
        /\ procs'[p].pc = "read" /\ procs'[p].out = procs[p].out
    BY <1>3, Going DEF FilesInv
  <2>. QED  BY <1>3, <2>1 DEF OwnStands, OwnStandsThen, DraftStands, Stands, KeepsFile, KeepsRest
<1>4. ASSUME NEW path, NEW draft, Merges(p, path, draft), Drafts(p, path, draft)
      PROVE  OwnStandsThen(p)
  <2>1. /\ path \in DOMAIN files /\ path \in {CodexFile} \cup JsonPaths \cup SkillPaths
        /\ TidyCodex(path, files[path]) => InstalledAt(path, draft)
    BY <1>4, MergesWell DEF FilesInv, WorldFits
  <2>2. InstalledAt(path, draft)
    BY <2>1 DEF TidyIn
  <2>3. path # Yaml /\ path # Ignore
    BY <2>1, PathsApart
  <2>4. Written(path, draft)
    BY <2>2, <2>3 DEF Written
  <2>. QED  BY <1>1, <1>4, <2>4, StandsDrafts
<1>. QED  BY <1>2, <1>3, <1>4, InstallSteps

(* The other steps that leave the files alone.                             *)
LEMMA StandsOtherStep ==
    ASSUME FilesInv, NEW p \in Procs, OwnStands(p),
           WriteTemp(p) \/ FillTemp(p) \/ LaunchStep(p) \/ WriteFails(p) \/ Crash(p) \/ RunAgain(p)
    PROVE  OwnStandsThen(p)
<1>1. WholeProcs /\ ProcFits(procs[p], jobs[p], temps[p], DOMAIN files)
  BY DEF FilesInv
<1>2. CASE WriteTemp(p)
  BY <1>2, StandsGoes DEF WriteTemp
<1>3. CASE FillTemp(p)
  BY <1>3 DEF FillTemp, OwnStands, OwnStandsThen
<1>4. CASE LaunchStep(p)
  <2>1. jobs[p].op = "launch" /\ procs'[p].pc \notin {"write", "rename"}
    BY <1>4, LaunchReaches DEF Reaches
  <2>. QED  BY <2>1 DEF OwnStandsThen, DraftStands, Stands
<1>5. CASE WriteFails(p)
  <2>1. Ends(p, Result("threw"))
    BY <1>5 DEF WriteFails
  <2>2. Result("threw") # Done
    <3>1. Result("threw").kind = "threw"
      BY Outcomes
    <3>. QED  BY <3>1, Outcomes
  <2>. QED  BY <2>1, <2>2, StandsEnds
<1>6. CASE Crash(p)
  BY <1>6, StandsGoes DEF Crash
<1>7. CASE RunAgain(p)
  <2>1. procs'[p] = Fresh
    BY <1>1, <1>7, RunAgainSteps
  <2>. QED  BY <2>1, FreshIs, Outcomes DEF OwnStandsThen, DraftStands, Stands, HasConfig
<1>. QED  BY <1>2, <1>3, <1>4, <1>5, <1>6, <1>7

LEMMA SameFiles ==
    ASSUME NEW p \in Procs, StepOf(p), ~Rename(p)
    PROVE  files' = files
  BY DEF StepOf, InitStep, RunInit, Wizard, WizardCancelled, InitConfig, LookForIgnore, ReadIgnore,
         Install, ReadTarget, ReplaceStep, WriteTemp, FillTemp, LaunchStep, LookForConfig,
         LoadConfig, LookForProfiles, ListProfiles, ReadProfile, ResolveTemplates, WriteFails,
         Crash, RunAgain, Only

LEMMA WrittenNext ==
    ASSUME TidyFiles(Scenarios), FilesInv, WrittenInv, [Next]_vars
    PROVE  WrittenInv'
<1>1. CASE UNCHANGED vars
  BY <1>1 DEF vars, WrittenInv
<1>2. ASSUME NEW p \in Procs, StepOf(p), ~Rename(p)  PROVE WrittenInv'
  <2>1. Others(p) /\ jobs' = jobs /\ files' = files
    BY <1>2, StepsOfOne, SameFiles
  <2>2. OwnStands(p) /\ \A path \in DOMAIN files : TidyIn(path, files[path])
    BY DEF WrittenInv, OwnStands
  <2>3. OwnStandsThen(p)
    BY <1>2, <2>2, StandsInitStep, StandsInstall, StandsOtherStep DEF StepOf, ReplaceStep
  <2>. QED  BY <2>1, <2>3 DEF WrittenInv, OwnStandsThen, Others
<1>3. ASSUME NEW p \in Procs, Rename(p)  PROVE WrittenInv'
  <2>. DEFINE path == procs[p].path
              draft == procs[p].draft
  <2>1. /\ procs[p].pc = "rename" /\ path \in About(jobs[p]) /\ path \in DOMAIN files
        /\ DOMAIN files' = DOMAIN files /\ files'[path] = draft /\ jobs' = jobs
        /\ \A x \in DOMAIN files \ {path} : files'[x] = files[x]
    BY <1>3, RenameSteps
  <2>2. Written(path, draft)
    BY <2>1 DEF WrittenInv, DraftStands
  <2>3. WholeProcs /\ jobs[p] \in Request /\ Stands(procs[p], jobs[p], files)
        /\ ProcFits(procs[p], jobs[p], temps[p], DOMAIN files)
    BY DEF FilesInv, WorldFits, WrittenInv
  <2>4. /\ Others(p) /\ KeepsFile(procs[p], procs'[p]) /\ KeepsRest(procs[p], procs'[p])
        /\ IF jobs[p].op = "init" /\ path = Yaml
           THEN procs'[p].pc = "ignore" /\ procs'[p].out = Absent /\ procs'[p].made = draft
           ELSE procs'[p].pc = "done" /\ procs'[p].out = Done /\ procs'[p].made = procs[p].made
    BY <1>3, <2>3, Renaming
  <2>. HIDE DEF path, draft
  <2>5. \A x \in DOMAIN files : files'[x] = files[x] \/ Written(x, files'[x])
    BY <2>1, <2>2
  <2>6. ASSUME NEW q \in Procs  PROVE Stands(procs[q], jobs[q], files')
    <3>1. jobs[q] \in Request /\ About(jobs[q]) \subseteq DOMAIN files
      BY DEF FilesInv, WorldFits
    <3>2. Stands(procs[q], jobs[q], files)
      BY DEF WrittenInv
    <3>. QED  BY <2>5, <3>1, <3>2, StandsOver
  <2>7. DraftStands(procs'[p])
    BY <2>4 DEF DraftStands
  <2>8. Stands(procs'[p], jobs[p], files')
    <3>1. Stands(procs[p], jobs[p], files') /\ procs'[p].path = path
      BY <2>4, <2>6 DEF KeepsFile, path
    <3>2. Written(path, files'[path])
      BY <2>1, <2>2
    <3>3. CASE jobs[p].op = "init" /\ path = Yaml
      <4>1. files'[Yaml].kind = "yaml"
        BY <3>2, <3>3 DEF Written
      <4>. QED  BY <2>4, <3>3, <4>1, Outcomes DEF Stands
    <3>4. CASE jobs[p].op = "init" /\ path # Yaml
      <4>1. path = Ignore
        BY <2>1, <2>3, <3>4, AboutIs
      <4>2. HasConfig(procs[p])
        BY <2>1, <4>1 DEF HasConfig, path
      <4>. QED  BY <2>4, <3>1, <3>2, <3>4, <4>1, <4>2 DEF Stands, KeepsRest
    <3>5. CASE jobs[p].op # "init"
      BY <2>1, <2>4, <3>1, <3>2, <3>5 DEF Stands
    <3>. QED  BY <3>3, <3>4, <3>5
  <2>9. \A x \in DOMAIN files' : TidyIn(x, files'[x])
    BY <2>1, <2>5, WrittenIsTidy DEF WrittenInv
  <2>. QED  BY <2>1, <2>4, <2>6, <2>7, <2>8, <2>9 DEF WrittenInv, Others
<1>4. ASSUME NEW path \in DOMAIN files, Edit(path)  PROVE WrittenInv'
  <2>1. /\ jobs' = jobs /\ DOMAIN files' = DOMAIN files
        /\ \A x \in DOMAIN files \ {path} : files'[x] = files[x]
        /\ files'[path] \in EditsOf(path) /\ Holds(path, files'[path])
    BY <1>4, EditSteps
  <2>2. \A x \in DOMAIN files' : TidyIn(x, files'[x])
    <3>1. path \in Paths
      BY DEF FilesInv, WorldFits
    <3>2. Tidy(path, files'[path])
      BY <2>1, <3>1 DEF TidyFiles
    <3>3. TidyIn(path, files'[path])
      BY <2>1, <3>2, TidyIsSo
    <3>. QED  BY <2>1, <3>3 DEF WrittenInv
  <2>3. ASSUME NEW p \in Procs
        PROVE  DraftStands(procs'[p]) /\ Stands(procs'[p], jobs[p], files')
    <3>1. /\ KeepsFile(procs[p], procs'[p]) /\ KeepsInit(procs[p], procs'[p])
          /\ procs'[p].pc = procs[p].pc /\ procs'[p].out = procs[p].out
          /\ procs'[p].edited = (procs[p].edited \/ path \in About(jobs[p]))
      BY <1>4, Editing DEF FilesInv
    <3>2. DraftStands(procs[p]) /\ Stands(procs[p], jobs[p], files)
          /\ jobs[p] \in Request /\ About(jobs[p]) \subseteq DOMAIN files
      BY DEF WrittenInv, FilesInv, WorldFits
    <3>3. DraftStands(procs'[p])
      BY <3>1, <3>2 DEF DraftStands, KeepsFile
    <3>4. CASE procs'[p].edited
      BY <3>3, <3>4 DEF Stands
    <3>5. CASE ~procs'[p].edited
      <4>1. ~procs[p].edited /\ path \notin About(jobs[p])
        BY <3>1, <3>5
      <4>2. Stands(procs[p], jobs[p], files')
        BY <2>1, <3>2, <4>1, StandsOver
      <4>3. HasConfig(procs'[p]) => HasConfig(procs[p])
        BY <3>1 DEF HasConfig, KeepsFile
      <4>4. Stands(procs'[p], jobs[p], files')
        BY <3>1, <4>1, <4>2, <4>3 DEF Stands, KeepsFile, KeepsInit
      <4>. QED  BY <3>3, <4>4
    <3>. QED  BY <3>4, <3>5
  <2>. QED  BY <2>1, <2>2, <2>3 DEF WrittenInv
<1>. QED  BY <1>1, <1>2, <1>3, <1>4, NextIs

LEMMA InvCompletedInit == FilesInv /\ WrittenInv => CompletedInitHolds
<1>. SUFFICES ASSUME FilesInv, WrittenInv, NEW p \in Procs,
                     jobs[p].op = "init", procs[p].out = Done, ~procs[p].edited
              PROVE  /\ files[Ignore].kind = "lines"
                     /\ \A rule \in Range(RuntimeGitignoreRules) :
                          Times(rule, files[Ignore].lines) = 1
                     /\ files[Yaml].kind # "absent"
                     /\ procs[p].made # Absent => files[Yaml].kind = "yaml"
  BY DEF CompletedInitHolds
<1>1. /\ Written(Ignore, files[Ignore]) /\ files[Yaml].kind # "absent"
      /\ procs[p].made # Absent => files[Yaml].kind = "yaml"
  BY DEF WrittenInv, Stands, HasConfig
<1>2. files[Ignore].kind = "lines" /\ \A rule \in Rules : Once(rule, files[Ignore].lines)
  BY <1>1 DEF Written
<1>. QED  BY <1>1, <1>2, OneTime DEF Rules

LEMMA InvInstalled == FilesInv /\ WrittenInv => InstalledHolds
<1>. SUFFICES ASSUME FilesInv, WrittenInv, NEW p \in Procs,
                     jobs[p].op \in {"mcp", "skills"}, procs[p].out = Done, ~procs[p].edited
              PROVE  LET job == jobs[p]
                         found == files[procs[p].path]
                     IN  CASE job.op = "skills" -> found = [kind |-> "skill", current |-> TRUE]
                           [] job.op = "mcp" /\ job.target = "codex" ->
                                Hidden(found.lines) = {}
                                  => Definitions(found.lines) = 1
                           [] OTHER ->
                                LET adapter == JsonMcpTargets[job.target]
                                IN  {e \in found.at[adapter.key].has : e[1] = "asem"}
                                        = {<<"asem", adapter.shape>>}
  BY DEF InstalledHolds
<1>. DEFINE job == jobs[p]
            path == procs[p].path
            found == files[path]
<1>1. path \in About(job) /\ InstalledAt(path, found)
  BY DEF WrittenInv, Stands, Written
<1>2. job \in Request /\ job.global \in BOOLEAN
  BY DEF FilesInv, WorldFits, Request
<1>. HIDE DEF found
<1>3. CASE job.op = "skills"
  <2>1. path \in SkillPaths
    <3>1. ~IsRefused(ResolveTarget(SkillTargets, job.target, job.global))
      BY <1>1, <1>3 DEF About
    <3>. QED  BY <1>1, <1>2, <1>3, <3>1, AboutIs, SkillResolves
  <2>2. found = [kind |-> "skill", current |-> TRUE]
    BY <1>1, <2>1 DEF InstalledAt
  <2>. QED  BY <1>3, <2>2 DEF found
<1>4. CASE job.op = "mcp" /\ job.target = "codex"
  <2>1. path = CodexFile
    <3>1. ~IsRefused(ResolveMcp(job.target, job.global))
      BY <1>1, <1>4 DEF About
    <3>. QED  BY <1>1, <1>2, <1>4, <3>1, AboutIs, McpResolves
  <2>2. Hidden(found.lines) = {} => Definitions(found.lines) = 1
    BY <1>1, <2>1 DEF InstalledAt
  <2>. QED  BY <1>4, <2>2 DEF found
<1>5. CASE job.op = "mcp" /\ job.target # "codex"
  <2>1. /\ job.target \in DOMAIN JsonMcpTargets /\ path = JsonPath(job.target, job.global)
        /\ path \in JsonPaths
    <3>1. ~IsRefused(ResolveMcp(job.target, job.global))
      BY <1>1, <1>5 DEF About
    <3>. QED  BY <1>1, <1>2, <1>5, <3>1, AboutIs, McpResolves
  <2>2. path # ""
    BY <2>1 DEF JsonPaths
  <2>3. JsonMcpTargets[job.target].key = KeyIn(path) /\ JsonMcpTargets[job.target].shape = ShapeIn(path)
    BY <1>2, <2>1, <2>2, TargetsAgree
  <2>4. HasEntry(found, path)
    BY <1>1, <2>1 DEF InstalledAt
  <2>. QED  BY <1>5, <2>3, <2>4 DEF HasEntry, found
<1>. QED  BY <1>3, <1>4, <1>5

LEMMA WrittenHolds == TidyFiles(Scenarios) => (Spec => []WrittenInv)
<1>. SUFFICES ASSUME TidyFiles(Scenarios)  PROVE Spec => []WrittenInv
  OBVIOUS
<1>1. Init => WrittenInv
  BY WrittenStart
<1>2. FilesInv /\ WrittenInv /\ [Next]_vars => WrittenInv'
  BY WrittenNext
<1>. QED  BY <1>1, <1>2, FilesHold, PTL DEF Spec

(***************************************************************************)
(* After an init that ended well every rule is in .gitignore, once, and    *)
(* there is a config, one that an init wrote if this one wrote its own;    *)
(* after any crashes, failed writes and runs again, beside any other       *)
(* processes, until somebody else writes one of the two files              *)
(* (initProject).  No .gitignore that is met names a rule twice.           *)
(***************************************************************************)
THEOREM CompletedInitsHold == TidyFiles(Scenarios) => (Spec => []CompletedInitHolds)
  BY WrittenHolds, FilesHold, InvCompletedInit, PTL

(***************************************************************************)
(* What mcp add and skills add reported is what the client finds, its own  *)
(* entry under its own key, one definition in TOML, the current document,  *)
(* until somebody else writes the file; also when another target or        *)
(* another process of asem writes the same file.                           *)
(***************************************************************************)
THEOREM InstalledStands == TidyFiles(Scenarios) => (Spec => []InstalledHolds)
  BY WrittenHolds, FilesHold, InvInstalled, PTL

(***************************************************************************)
(* What is not asem's stays in the file that asem replaces.                *)
(***************************************************************************)
LEMMA OtherEntriesAre ==
    ASSUME NEW c, IsJson(c), NEW k \in ServerKeys
    PROVE  /\ c.at[k] = [is |-> c.at[k].is, has |-> c.at[k].has]
           /\ OtherEntries(c.at)[k]
                = [is |-> c.at[k].is, has |-> {e \in c.at[k].has : e[1] # "asem"}]
<1>1. PICK at : at = c.at
  OBVIOUS
<1>2. at = [j \in ServerKeys |-> [is |-> at[j].is, has |-> at[j].has]]
  BY <1>1 DEF IsJson
<1>3. PICK is, has : is = at[k].is /\ has = at[k].has
  OBVIOUS
<1>4. at[k] = [is |-> is, has |-> has]
  BY <1>2, <1>3
<1>5. OtherEntries(at)[k] = [at[k] EXCEPT !.has = {e \in @ : e[1] # "asem"}]
  BY DEF OtherEntries
<1>6. PICK kept : kept = {e \in has : e[1] # "asem"}
  OBVIOUS
<1>7. OtherEntries(at)[k] = [at[k] EXCEPT !.has = kept]
  BY <1>3, <1>5, <1>6
<1>8. OtherEntries(at)[k] = [is |-> is, has |-> kept]
  BY <1>4, <1>7
<1>. QED  BY <1>1, <1>3, <1>4, <1>6, <1>8

LEMMA EntryKeeps ==
    ASSUME NEW old, NEW new, IsJson(old), IsJson(new), NEW key, PutsEntry(old, new, key),
           NEW k \in ServerKeys
    PROVE  LET before == OtherEntries(old.at)[k]
               after == OtherEntries(new.at)[k]
           IN  after = before \/ (before = NoServers /\ after = ServerMap({}))
<1>1. CASE k # key
  <2>1. new.at[k] = old.at[k]
    BY <1>1 DEF PutsEntry
  <2>2. PICK is, kept : /\ is = old.at[k].is /\ kept = {e \in old.at[k].has : e[1] # "asem"}
    OBVIOUS
  <2>3. is = new.at[k].is /\ kept = {e \in new.at[k].has : e[1] # "asem"}
    BY <2>1, <2>2
  <2>4. OtherEntries(old.at)[k] = [is |-> is, has |-> kept]
    BY Zenon, <2>2, OtherEntriesAre
  <2>5. OtherEntries(new.at)[k] = [is |-> is, has |-> kept]
    BY Zenon, <2>3, OtherEntriesAre
  <2>. QED  BY <2>4, <2>5
<1>2. CASE k = key
  <2>1. /\ old.at[k].is # "other" /\ new.at[k].is = "map"
        /\ \E entry : /\ entry[1] = "asem"
                      /\ new.at[k].has = {e \in old.at[k].has : e[1] # "asem"} \cup {entry}
    BY <1>2 DEF PutsEntry
  <2>2. \/ old.at[k].is = "missing" /\ old.at[k].has = {}
        \/ old.at[k].is = "map"
    BY <2>1 DEF IsJson
  <2>3. {e \in new.at[k].has : e[1] # "asem"} = {e \in old.at[k].has : e[1] # "asem"}
    BY <2>1
  <2>4. PICK is, has, kept :
           /\ is = old.at[k].is /\ has = old.at[k].has
           /\ kept = {e \in has : e[1] # "asem"}
    OBVIOUS
  <2>5. PICK map : map = "map"
    OBVIOUS
  <2>6. OtherEntries(old.at)[k] = [is |-> is, has |-> kept]
    BY Zenon, <2>4, OtherEntriesAre
  <2>7. OtherEntries(new.at)[k] = [is |-> map, has |-> kept]
    <3>1. kept = {e \in new.at[k].has : e[1] # "asem"} /\ new.at[k].is = map
      BY <2>1, <2>3, <2>4, <2>5
    <3>. QED  BY Zenon, <3>1, OtherEntriesAre
  <2>8. CASE is = map
    BY <2>6, <2>7, <2>8
  <2>9. CASE is # map
    <3>1. is = "missing" /\ kept = {}
      BY <2>2, <2>4, <2>5, <2>9
    <3>2. [is |-> is, has |-> kept] = NoServers /\ [is |-> map, has |-> kept] = ServerMap({})
      BY <3>1, <2>5 DEF NoServers, ServerMap
    <3>. QED  BY <2>6, <2>7, <3>2
  <2>. QED  BY <2>8, <2>9
<1>. QED  BY <1>1, <1>2

LEMMA JsonKeeps ==
    ASSUME NEW t \in DOMAIN JsonMcpTargets, NEW g \in BOOLEAN, JsonPath(t, g) # "",
           NEW c, Holds(JsonPath(t, g), c), ~IsRefused(InstallJson(t, c))
    PROVE  Keeps(c, InstallJson(t, c))
<1>1. /\ InstallJson(t, c).kind = "json" /\ IsJson(InstallJson(t, c))
      /\ c.kind \in {"absent", "json"} /\ IsJson(ReadJsonObject(c))
      /\ PutsEntry(ReadJsonObject(c), InstallJson(t, c), JsonMcpTargets[t].key)
  BY JsonIsInstalled
<1>. QED  BY <1>1, EntryKeeps DEF Keeps

LEMMA CodexKeeps ==
    ASSUME NEW c, Holds(CodexFile, c), ~IsRefused(InstallCodex(c))
    PROVE  Keeps(c, InstallCodex(c))
<1>. DEFINE lines == IF c.kind = "absent" THEN <<>> ELSE c.lines
            new == UpsertCodexAsemTable(lines)
<1>1. IsSeq(lines)
  <2>1. CASE c.kind = "absent"
    BY <2>1, NoElement
  <2>2. CASE c.kind # "absent"
    <3>1. c # Absent /\ CodexFile # Ignore
      BY <2>2 DEF Absent, CodexFile, Ignore
    <3>2. IsText(c)
      BY <3>1 DEF Holds
    <3>. QED  BY <2>2, <3>2 DEF IsText
  <2>. QED  BY <2>1, <2>2
<1>2. InstallCodex(c) = [kind |-> "toml", lines |-> new]
  BY DEF InstallCodex, IsRefused, Refused
<1>3. PICK kind : kind = "toml" /\ InstallCodex(c) = [kind |-> kind, lines |-> new]
  BY <1>2
<1>. HIDE DEF new
<1>4. InstallCodex(c).kind = "toml" /\ InstallCodex(c).lines = new
  BY <1>3
<1>5. SameOtherLines(lines, new)
  <2>. HIDE DEF lines
  <2>. QED  BY <1>1, TableAppended, TableSpliced, AppendedKeeps, SplicedKeeps DEF new
<1>. QED  BY <1>4, <1>5 DEF Keeps

LEMMA SameSequence ==
    ASSUME NEW s, NEW t, IsSeq(s), IsSeq(t), Len(s) = Len(t),
           \A i \in 1 .. Len(s) : s[i] = t[i]
    PROVE  s = t
  BY DEF IsSeq

(* u begins with s.                                                        *)
Extends(u, s) == IsSeq(u) /\ Len(s) <= Len(u) /\ \A i \in 1 .. Len(s) : u[i] = s[i]

LEMMA MoreExtends ==
    ASSUME NEW s, NEW u, NEW t, IsSeq(s), Extends(u, s), IsSeq(t)
    PROVE  Extends(u \o t, s)
<1>1. Joins(u \o t, u, t) /\ Len(u) \in Nat /\ Len(t) \in Nat /\ Len(s) \in Nat
  BY Joined, Lengths DEF Extends
<1>. QED  BY <1>1 DEF Joins, Extends

LEMMA PrefixStays ==
    ASSUME NEW s, NEW u, IsSeq(s), Extends(u, s)
    PROVE  SubSeq(u, 1, Len(s)) = s
<1>. DEFINE n == Len(s)
<1>1. IsSeq(u) /\ n \in Nat /\ n <= Len(u) /\ 1 <= n + 1 /\ \A i \in 1 .. n : u[i] = s[i]
  BY Lengths DEF Extends
<1>. HIDE DEF n
<1>2. /\ IsSeq(SubSeq(u, 1, n)) /\ Len(SubSeq(u, 1, n)) = n + 1 - 1
      /\ \A i \in 1 .. n + 1 - 1 : SubSeq(u, 1, n)[i] = u[1 + i - 1]
  BY <1>1, Cut
<1>3. Len(SubSeq(u, 1, n)) = n /\ \A i \in 1 .. n : SubSeq(u, 1, n)[i] = s[i]
  BY <1>1, <1>2
<1>. QED  BY <1>2, <1>3, SameSequence DEF n

LEMMA RulesKeep ==
    ASSUME NEW old, NEW new, new.kind = "lines", IsSeq(old.lines),
           new.lines = EnsureGitignoreRules(old.lines)
    PROVE  Keeps(old, new)
<1>. DEFINE lines == old.lines
            gap == IF lines = <<>> THEN <<>> ELSE <<Blank>>
            unless(rule) == IF rule \in Range(lines) THEN <<>> ELSE <<rule>>
            missing == MissingRules(lines)
<1>1. IsSeq(missing) /\ IsSeq(gap) /\ IsSeq(<<RulesHeader>>)
  <2>1. \A rule : IsSeq(unless(rule))
    BY NoElement, OneElement
  <2>2. PICK one, two, three : missing = unless(one) \o unless(two) \o unless(three)
    BY Zenon DEF MissingRules
  <2>. HIDE DEF unless, missing
  <2>. QED  BY <2>1, <2>2, Joined, NoElement, OneElement DEF Joins
<1>2. EnsureGitignoreRules(lines)
        = IF missing = <<>> THEN lines ELSE lines \o gap \o <<RulesHeader>> \o missing
  BY DEF EnsureGitignoreRules
<1>3. lines = old.lines
  OBVIOUS
<1>. HIDE DEF lines, gap, missing
<1>4. Extends(lines, lines)
  BY <1>3, Lengths DEF Extends
<1>5. Extends(lines \o gap \o <<RulesHeader>> \o missing, lines)
  BY <1>1, <1>3, <1>4, MoreExtends
<1>6. SubSeq(EnsureGitignoreRules(lines), 1, Len(lines)) = lines
  BY <1>2, <1>3, <1>4, <1>5, PrefixStays
<1>. QED  BY <1>3, <1>6 DEF Keeps

(* Whatever is about to replace a file keeps what was read of it.          *)
KeptIn(f) == f.pc \in {"write", "rename"} => Keeps(f.read, f.draft)
KeptInv == \A p \in Procs : KeptIn(procs[p])

LEMMA KeptStart == Init => KeptInv
  BY FreshIs DEF Init, KeptInv, KeptIn

LEMMA KeptEnds ==
    ASSUME FilesInv, NEW p \in Procs, NEW out, Ends(p, out)
    PROVE  KeptIn(procs'[p])
  BY Ending DEF FilesInv, KeptIn

LEMMA KeptGoes ==
    ASSUME FilesInv, NEW p \in Procs, KeptIn(procs[p]), NEW pc, Goes(p, pc),
           pc \in {"write", "rename"} => procs[p].pc \in {"write", "rename"}
    PROVE  KeptIn(procs'[p])
  BY Going DEF FilesInv, KeptIn, KeepsFile

LEMMA KeptDrafts ==
    ASSUME FilesInv, NEW p \in Procs, NEW path, NEW draft, Drafts(p, path, draft),
           Keeps(files[path], draft)
    PROVE  KeptIn(procs'[p])
  BY Drafting DEF FilesInv, KeptIn

(* init: a config only where there was none, the rules behind the lines.   *)
LEMMA KeptInit ==
    ASSUME FilesInv, NEW p \in Procs, KeptIn(procs[p]), InitStep(p)
    PROVE  KeptIn(procs'[p])
<1>1. WholeProcs /\ ProcFits(procs[p], jobs[p], temps[p], DOMAIN files)
  BY DEF FilesInv
<1>2. CASE RunInit(p)
  BY <1>1, <1>2, RunInitSteps, KeptGoes, KeptEnds, Selecting DEF KeptIn
<1>3. CASE Wizard(p)
  <2>1. KnownIfGiven(jobs[p].agent, BuiltinAgents) /\ KnownIfGiven(jobs[p].mux, BuiltinMuxes)
    BY <1>1, <1>3 DEF ProcFits, Wizard, At
  <2>. QED  BY <1>1, <1>3, <2>1, WizardSteps, Selecting DEF KeptIn
<1>4. CASE WizardCancelled(p)
  BY <1>4, KeptEnds DEF WizardCancelled
<1>5. CASE InitConfig(p)
  <2>. DEFINE made == RenderOf(jobs[p], procs[p].selected)
  <2>1. \/ Goes(p, "ignore") \/ (\E out : Ends(p, out))
        \/ files[Yaml].kind = "absent" /\ Drafts(p, Yaml, made)
    BY <1>5 DEF InitConfig, IdOf, RenderOf
  <2>2. made.kind = "yaml"
    <3>1. procs[p].selected = Absent \/ IsConfig(procs[p].selected)
      BY <1>1, <1>5 DEF ProcFits, InitConfig, At
    <3>. QED  BY <3>1, RenderedHolds
  <2>. HIDE DEF made
  <2>3. files[Yaml].kind = "absent" => Keeps(files[Yaml], made)
    BY <2>2 DEF Keeps
  <2>4. CASE Goes(p, "ignore")
    BY <2>4, KeptGoes
  <2>. QED  BY <2>1, <2>3, <2>4, KeptEnds, KeptDrafts
<1>6. CASE LookForIgnore(p)
  <2>1. PICK draft : draft = [kind |-> "lines", lines |-> EnsureGitignoreRules(<<>>)]
    OBVIOUS
  <2>2. \/ files[Ignore].kind = "absent" /\ Drafts(p, Ignore, draft)
        \/ Goes(p, "read")
    BY <1>6, <2>1 DEF LookForIgnore
  <2>3. draft.kind = "lines"
    BY <2>1
  <2>4. files[Ignore].kind = "absent" => Keeps(files[Ignore], draft)
    BY <2>3 DEF Keeps
  <2>5. CASE Goes(p, "read")
    BY <2>5, KeptGoes
  <2>. QED  BY <2>2, <2>4, <2>5, KeptDrafts
<1>7. CASE ReadIgnore(p)
  BY <1>7, ReadIgnoreSteps, RulesKeep, KeptEnds, KeptDrafts
<1>. QED  BY <1>2, <1>3, <1>4, <1>5, <1>6, <1>7 DEF InitStep

(* mcp add and skills add: the merge keeps what is not asem's.             *)
LEMMA MergesKeep ==
    ASSUME FilesInv, NEW p \in Procs, NEW path, NEW draft, Merges(p, path, draft)
    PROVE  Keeps(files[path], draft)
<1>. DEFINE job == jobs[p]
<1>1. /\ job.op \in {"mcp", "skills"} /\ draft = Merged(job, files[path]) /\ ~IsRefused(draft)
      /\ job.op = "mcp" => ~IsRefused(ResolveMcp(job.target, job.global))
      /\ job.op = "mcp" => path = ResolveMcp(job.target, job.global).path
  BY DEF Merges, TargetOf
<1>2. /\ job.global \in BOOLEAN /\ About(job) \subseteq DOMAIN files /\ path \in About(job)
  BY MergesWell DEF FilesInv, WorldFits, Request
<1>3. Holds(path, files[path])
  BY <1>2 DEF FilesInv, ContentsFit
<1>4. CASE job.op = "skills"
  <2>1. draft = [kind |-> "skill", current |-> TRUE]
    BY <1>1, <1>4 DEF Merged
  <2>2. draft.kind = "skill"
    BY <2>1
  <2>. QED  BY <2>2 DEF Keeps
<1>5. CASE job.op = "mcp" /\ job.target = "codex"
  <2>1. path = CodexFile
    BY <1>1, <1>2, <1>5, McpResolves
  <2>2. draft = InstallCodex(files[path])
    BY <1>1, <1>5 DEF Merged
  <2>. QED  BY <1>1, <1>3, <2>1, <2>2, CodexKeeps
<1>6. CASE job.op = "mcp" /\ job.target # "codex"
  <2>1. /\ job.target \in DOMAIN JsonMcpTargets /\ path = JsonPath(job.target, job.global)
        /\ path \in JsonPaths
    BY <1>1, <1>2, <1>6, McpResolves
  <2>2. draft = InstallJson(job.target, files[path])
    BY <1>1, <1>6 DEF Merged
  <2>3. path # ""
    BY <2>1 DEF JsonPaths
  <2>. QED  BY <1>1, <1>2, <1>3, <2>1, <2>2, <2>3, JsonKeeps
<1>. QED  BY <1>1, <1>4, <1>5, <1>6

LEMMA KeptInstall ==
    ASSUME FilesInv, NEW p \in Procs, KeptIn(procs[p]), Install(p) \/ ReadTarget(p)
    PROVE  KeptIn(procs'[p])
<1>1. CASE Goes(p, "read")
  BY <1>1, KeptGoes
<1>. QED  BY <1>1, InstallSteps, MergesKeep, KeptEnds, KeptDrafts

LEMMA KeptOther ==
    ASSUME FilesInv, NEW p \in Procs, KeptIn(procs[p]), StepOf(p), ~InitStep(p), ~Install(p),
           ~ReadTarget(p)
    PROVE  KeptIn(procs'[p])
<1>1. WholeProcs
  BY DEF FilesInv
<1>2. CASE WriteTemp(p)
  BY <1>2, KeptGoes DEF WriteTemp
<1>3. CASE FillTemp(p)
  BY <1>3 DEF FillTemp
<1>4. CASE Rename(p)
  BY <1>1, <1>4, Renaming DEF KeptIn
<1>5. CASE LaunchStep(p)
  BY <1>5, LaunchReaches DEF KeptIn, Reaches
<1>6. CASE WriteFails(p)
  BY <1>6, KeptEnds DEF WriteFails
<1>7. CASE Crash(p)
  BY <1>7, KeptGoes DEF Crash
<1>8. CASE RunAgain(p)
  BY <1>1, <1>8, RunAgainSteps, FreshIs DEF KeptIn
<1>. QED  BY <1>2, <1>3, <1>4, <1>5, <1>6, <1>7, <1>8 DEF StepOf, ReplaceStep

LEMMA KeptNext ==
    ASSUME FilesInv, KeptInv, [Next]_vars
    PROVE  KeptInv'
<1>1. CASE UNCHANGED vars
  BY <1>1 DEF vars, KeptInv
<1>2. ASSUME NEW p \in Procs, StepOf(p)  PROVE KeptInv'
  <2>1. Others(p)
    BY <1>2, StepsOfOne
  <2>2. KeptIn(procs'[p])
    BY <1>2, KeptInit, KeptInstall, KeptOther DEF KeptInv
  <2>. QED  BY <2>1, <2>2 DEF KeptInv, Others
<1>3. ASSUME NEW path \in DOMAIN files, Edit(path)  PROVE KeptInv'
  <2>1. ASSUME NEW p \in Procs  PROVE KeptIn(procs'[p])
    <3>1. /\ KeepsFile(procs[p], procs'[p]) /\ procs'[p].pc = procs[p].pc
          /\ KeptIn(procs[p])
      BY <1>3, Editing DEF FilesInv, KeptInv
    <3>. QED  BY <3>1 DEF KeptIn, KeepsFile
  <2>. QED  BY <2>1 DEF KeptInv
<1>. QED  BY <1>1, <1>2, <1>3, NextIs

(* Only a rename takes a process from its write to the end of it and       *)
(* changes the file; a write that fails leaves the file alone.             *)
ReplacesWell(p) ==
    LET path == procs[p].path
    IN  /\ procs[p].pc = "rename" /\ procs'[p].pc \in {"ignore", "done"}
        /\ files[path] = procs[p].read
        => (files'[path] = files[path] \/ Keeps(files[path], files'[path]))

LEMMA StepReplacesWell ==
    ASSUME FilesInv, KeptInv, [Next]_vars, NEW p \in Procs
    PROVE  ReplacesWell(p)
<1>1. WholeProcs
  BY DEF FilesInv
<1>2. CASE UNCHANGED vars
  BY <1>2 DEF vars, ReplacesWell
<1>3. ASSUME NEW q \in Procs, StepOf(q), q # p  PROVE ReplacesWell(p)
  <2>1. procs'[p] = procs[p]
    BY <1>3, StepsOfOne DEF Others
  <2>. QED  BY <2>1 DEF ReplacesWell
<1>4. ASSUME StepOf(p), procs[p].pc = "rename"  PROVE ReplacesWell(p)
  <2>1. CASE Rename(p)
    <3>1. files'[procs[p].path] = procs[p].draft
      BY <2>1, RenameSteps
    <3>2. Keeps(procs[p].read, procs[p].draft)
      BY <1>4 DEF KeptInv, KeptIn
    <3>. QED  BY <3>1, <3>2 DEF ReplacesWell
  <2>2. CASE FillTemp(p)
    BY <2>2 DEF FillTemp, ReplacesWell
  <2>3. CASE WriteFails(p)
    BY <2>3 DEF WriteFails, ReplacesWell
  <2>4. CASE Crash(p)
    BY <2>4 DEF Crash, ReplacesWell
  <2>5. ~InitStep(p)
    BY <1>4 DEF InitStep, RunInit, Wizard, WizardCancelled, InitConfig, LookForIgnore,
                ReadIgnore, At
  <2>6. ~Install(p) /\ ~ReadTarget(p) /\ ~WriteTemp(p)
    BY <1>4 DEF Install, ReadTarget, WriteTemp, At
  <2>7. ~LaunchStep(p)
    BY <1>4, LaunchReaches
  <2>8. ~RunAgain(p)
    BY <1>4 DEF RunAgain
  <2>. QED  BY <1>4, <2>1, <2>2, <2>3, <2>4, <2>5, <2>6, <2>7, <2>8 DEF StepOf, ReplaceStep
<1>5. ASSUME NEW path \in DOMAIN files, Edit(path)  PROVE ReplacesWell(p)
  <2>1. procs'[p].pc = procs[p].pc
    BY <1>1, <1>5, Editing
  <2>. QED  BY <2>1 DEF ReplacesWell
<1>6. CASE procs[p].pc # "rename"
  BY <1>6 DEF ReplacesWell
<1>. QED  BY <1>2, <1>3, <1>4, <1>5, <1>6, NextIs

(***************************************************************************)
(* A process that replaces a file nobody changed since it read it keeps    *)
(* everything in it that is not asem's: the other servers of a JSON file,  *)
(* every other line of a TOML file, in its table and in order, and every   *)
(* line of .gitignore; and it never replaces a config or a file that it    *)
(* could not read.  For any contents, targets and processes                *)
(* (installJsonMcpServer, installCodexMcpServer, initProject).             *)
(***************************************************************************)
THEOREM ForeignIsKept == Spec => KeepsForeign
<1>1. KeptInv /\ FilesInv /\ [Next]_vars
        => [\A p \in Procs :
              LET path == procs[p].path
              IN  /\ procs[p].pc = "rename" /\ procs'[p].pc \in {"ignore", "done"}
                  /\ files[path] = procs[p].read
                  => (files'[path] = files[path] \/ Keeps(files[path], files'[path]))]_vars
  BY StepReplacesWell DEF ReplacesWell
<1>2. FilesInv /\ KeptInv /\ [Next]_vars => KeptInv'
  BY KeptNext
<1>. QED  BY <1>1, <1>2, KeptStart, FilesHold, PTL DEF Spec, KeepsForeign
=============================================================================
