------------------------------ MODULE CommandLine ------------------------------
(* The command line of the asem binary: how packages/cli/src/main.ts picks the  *)
(* dependencies and the route of an invocation, and how parse.ts turns the      *)
(* words into one command, a help page, the version or a usage error.           *)
EXTENDS Naturals, Sequences, FiniteSets, SequencesExt

(* A word of the command line. "dash": it begins with two dashes and names an   *)
(* option, "eq": it carries its value behind an equals sign. The words -h and   *)
(* -v begin with a single dash and are plain words to parseFlags.               *)
Word == [dash : BOOLEAN, name : STRING, eq : BOOLEAN, text : STRING]
W(text) == [dash |-> FALSE, name |-> "", eq |-> FALSE, text |-> text]
F(name) == [dash |-> TRUE, name |-> name, eq |-> FALSE, text |-> ""]
FE(name, text) == [dash |-> TRUE, name |-> name, eq |-> TRUE, text |-> text]

Empty == W("")
IsHelp(word) == word \in {W("help"), W("-h"), F("help")}
IsVersion(word) == word \in {W("-v"), F("version")}
LooksLikeAnOption(word) == word.dash \/ word \in {W("-h"), W("-v")}
Texts(words) == [i \in DOMAIN words |-> words[i].text]

--------------------------------------------------------------------------------
(* The commands and the options each of them declares.                          *)

Direct == {"init", "init-session", "doctor", "run"}

Subcommands ==
    [session |-> {"create", "list", "get", "peek", "attach", "close", "delete"},
     workspace |-> {"repo"}, profile |-> {"list", "get"},
     message |-> {"list", "wait", "send"}, report |-> {"parent"},
     mcp |-> {"add"}, skills |-> {"add"}]

(* The table --help is answered from.                                           *)
HelpSubcommands == [Subcommands EXCEPT !.session = @ \ {"peek"}]

(* The focused pages of usage.ts, by command path.                              *)
Pages == {<<c>> : c \in DOMAIN Subcommands \cup Direct \cup {"tui"}}
         \cup UNION {{<<g, s>> : s \in Subcommands[g]} :
                        g \in DOMAIN Subcommands \ {"report"}}

Takes(booleans, values) == [booleans |-> booleans, values |-> values]

Options(path) ==
    CASE path = <<"init">> ->
            Takes({"interactive"}, {"workspace", "id", "agent", "mux"})
      [] path = <<"init-session">> ->
            Takes({"root", "json"}, {"name", "agent", "mux", "mux-ref", "parent"})
      [] path = <<"run">> -> Takes({"no-attach"}, {"name", "prompt"})
      [] path = <<"session", "create">> ->
            Takes({"root", "json"}, {"name", "prompt", "agent", "mux", "model",
                                     "profile", "cwd", "repo", "parent"})
      [] path = <<"session", "list">> ->
            Takes({"refresh", "json"}, {"status", "parent"})
      [] path = <<"session", "get">> -> Takes({"refresh", "json"}, {})
      [] path = <<"session", "peek">> -> Takes({"json"}, {"source", "lines"})
      [] path = <<"session", "close">> -> Takes({"force", "json"}, {})
      [] path = <<"session", "delete">> -> Takes({"force", "yes", "json"}, {})
      [] path = <<"message", "list">> ->
            Takes({"inbox", "undelivered", "json"}, {"to", "cursor", "limit"})
      [] path = <<"message", "wait">> ->
            Takes({"json"}, {"cursor", "limit", "timeout-ms"})
      [] path = <<"message", "send">> -> Takes({"json"}, {"to", "body"})
      [] path = <<"report", "parent">> -> Takes({"json"}, {"body"})
      [] path \in {<<"mcp", "add">>, <<"skills", "add">>} ->
            Takes({"no-global"}, {"for"})
      [] OTHER -> Takes({"json"}, {})

--------------------------------------------------------------------------------
(* parseFlags: one pass over the words. "owed" is the option that waits for its *)
(* value; the word after it is that value whatever it looks like.               *)

NoOption == ""
Flags(values, booleans, positionals) ==
    [values |-> values, booleans |-> booleans, positionals |-> positionals]
NoFlags == Flags(<<>>, {}, <<>>)

With(values, name, value) ==
    [n \in DOMAIN values \cup {name} |-> IF n = name THEN value ELSE values[n]]

(* Mutant: a word that looks like an option is never a value.                   *)
ConsumesPlainWords(acc, word) == acc.owed # NoOption /\ ~word.dash
Consumes(acc, word) == acc.owed # NoOption

ReadWord(spec, acc, word) ==
    IF Consumes(acc, word)
    THEN [acc EXCEPT !.owed = NoOption,
                     !.flags.values = With(@, acc.owed, word)]
    ELSE IF ~word.dash
    THEN [acc EXCEPT !.flags.positionals = Append(@, word)]
    ELSE IF word.name \in spec.booleans /\ ~word.eq
    THEN [acc EXCEPT !.flags.booleans = @ \cup {word.name}]
    ELSE IF word.name \in spec.values /\ word.eq
    THEN [acc EXCEPT !.flags.values = With(@, word.name, W(word.text))]
    ELSE IF word.name \in spec.values
    THEN [acc EXCEPT !.owed = word.name]
    ELSE [acc EXCEPT !.ok = FALSE]

ParseFlags(args, spec) ==
    LET Step(acc, word) == IF acc.ok THEN ReadWord(spec, acc, word) ELSE acc
        end == FoldLeft(Step, [ok |-> TRUE, owed |-> NoOption, flags |-> NoFlags], args)
    IN  IF end.ok /\ end.owed = NoOption
        THEN [ok |-> TRUE, flags |-> end.flags]
        ELSE [ok |-> FALSE, flags |-> NoFlags]

(* What the words mean, word by word and without a pass over them. Word i is a  *)
(* value iff the unbroken run of bare value options right before it has odd     *)
(* length; every other word stands for itself, and the last one given wins.     *)
Owes(args, spec, i) == args[i].dash /\ ~args[i].eq /\ args[i].name \in spec.values
RunBefore(args, spec, i) ==
    LET runs == {k \in 0 .. i - 1 : \A j \in i - k .. i - 1 : Owes(args, spec, j)}
    IN  CHOOSE k \in runs : \A l \in runs : l <= k
IsValue(args, spec, i) == RunBefore(args, spec, i) % 2 = 1
Meant(args, spec) ==
    LET own == {i \in DOMAIN args : ~IsValue(args, spec, i)}
        given(n) == {i \in own : args[i].dash /\ args[i].name = n}
        named == {n \in spec.values : given(n) # {}}
        last(n) == CHOOSE i \in given(n) : \A j \in given(n) : j <= i
        value(i) == IF args[i].eq THEN W(args[i].text) ELSE args[i + 1]
        fits(i) == \/ ~args[i].dash
                   \/ args[i].name \in spec.booleans /\ ~args[i].eq
                   \/ args[i].name \in spec.values /\ (args[i].eq \/ i < Len(args))
        plain(i) == i \in own /\ ~args[i].dash
        places == {i \in own : plain(i)}
        nth(k) == CHOOSE i \in places : Cardinality({j \in places : j < i}) = k - 1
    IN  IF \E i \in own : ~fits(i) THEN [ok |-> FALSE, flags |-> NoFlags]
        ELSE [ok |-> TRUE,
              flags |-> Flags([n \in named |-> value(last(n))],
                              {n \in spec.booleans : given(n) # {}},
                              [k \in 1 .. Cardinality(places) |-> args[nth(k)]])]

--------------------------------------------------------------------------------
(* The checks of each command's own parser.                                     *)

Given(f, option) == option \in DOMAIN f.values
Filled(f, option) == Given(f, option) /\ f.values[option] # Empty
NotBoth(a, b) == ~(a /\ b)
AtMost(f, n) == Len(f.positionals) <= n
OneArgument(f) == Len(f.positionals) = 1 /\ f.positionals[1] # Empty
(* The option if it was given, else the first plain word.                       *)
FilledOrFirst(f, option) ==
    IF Given(f, option) THEN Filled(f, option) ELSE OneArgument(f)

(* The texts Number() reads as a positive integer, JSON.parse as an object.     *)
PositiveTexts == {"5"}
ObjectTexts == {"{}"}
Sources == {"visible", "recent", "recent-unwrapped"}
Positive(f, option) == Given(f, option) => f.values[option].text \in PositiveTexts

AcceptsInit(f) ==
    LET named == Given(f, "workspace") \/ Given(f, "id")
        id == IF Given(f, "workspace") THEN f.values["workspace"]
              ELSE IF Given(f, "id") THEN f.values["id"] ELSE f.positionals[1]
    IN  /\ (named \/ f.positionals # <<>>) => id # Empty
        /\ AtMost(f, 1)
        /\ "interactive" \in f.booleans \/ (Given(f, "agent") <=> Given(f, "mux"))

AcceptsInitSession(f) ==
    /\ Filled(f, "name")
    /\ Given(f, "mux-ref") /\ f.values["mux-ref"].text \in ObjectTexts
    /\ NotBoth("root" \in f.booleans, Given(f, "parent"))

AcceptsCreate(f) ==
    /\ FilledOrFirst(f, "name") /\ AtMost(f, 1)
    /\ Given(f, "prompt")
    /\ NotBoth("root" \in f.booleans, Given(f, "parent"))
    /\ NotBoth(Given(f, "repo"), Given(f, "cwd"))

AcceptsRun(f) == OneArgument(f) /\ (Given(f, "name") => Filled(f, "name"))

AcceptsPeek(f) ==
    /\ OneArgument(f) /\ Positive(f, "lines")
    /\ Given(f, "source") => f.values["source"].text \in Sources

AcceptsSession(sub, f) ==
    \/ sub = "create" /\ AcceptsCreate(f)
    \/ sub = "list"
    \/ sub \in {"get", "attach", "close", "delete"} /\ OneArgument(f)
    \/ sub = "peek" /\ AcceptsPeek(f)

AcceptsMessage(sub, f) ==
    \/ sub = "list" /\ Positive(f, "limit")
    \/ /\ sub = "wait"
       /\ AtMost(f, 0) /\ Filled(f, "cursor")
       /\ Positive(f, "limit") /\ Positive(f, "timeout-ms")
    \/ sub = "send" /\ FilledOrFirst(f, "to") /\ AtMost(f, 1) /\ Given(f, "body")

AcceptsProfile(sub, f) == IF sub = "get" THEN OneArgument(f) ELSE AtMost(f, 0)

Accepts(path, f) ==
    \/ path = <<"init">> /\ AcceptsInit(f)
    \/ path = <<"init-session">> /\ AcceptsInitSession(f)
    \/ path = <<"run">> /\ AcceptsRun(f)
    \/ path[1] = "session" /\ AcceptsSession(path[2], f)
    \/ path[1] = "message" /\ AcceptsMessage(path[2], f)
    \/ path[1] = "profile" /\ AcceptsProfile(path[2], f)
    \/ path = <<"report", "parent">> /\ Given(f, "body")
    \/ path \in {<<"mcp", "add">>, <<"skills", "add">>} /\ Filled(f, "for") /\ AtMost(f, 0)
    \/ path \in {<<"doctor">>, <<"workspace", "repo", "list">>} /\ AtMost(f, 0)

--------------------------------------------------------------------------------
(* parseArgs.                                                                   *)

Result(kind, path, f) == [kind |-> kind, path |-> path, flags |-> f]
UsageError == Result("error", <<>>, NoFlags)
HelpPage(topic) == Result("help", topic, NoFlags)

HelpResult(command, rest) ==
    IF command \in Direct \cup {"tui"}
    THEN IF LooksLikeAnOption(rest[1]) \/ IsHelp(rest[1])
         THEN HelpPage(<<command>>) ELSE UsageError
    ELSE IF command \notin DOMAIN HelpSubcommands THEN UsageError
    ELSE IF LooksLikeAnOption(rest[1]) \/ IsHelp(rest[1]) THEN HelpPage(<<command>>)
    ELSE IF rest[1].text \in HelpSubcommands[command]
         THEN HelpPage(<<command, rest[1].text>>) ELSE UsageError

ParseCommand(path, args) ==
    LET parsed == ParseFlags(args, Options(path))
    IN  IF parsed.ok /\ Accepts(path, parsed.flags)
        THEN Result("command", path, parsed.flags) ELSE UsageError

(* The command path of argv, or the empty one when it names no command.         *)
NoWord == ""
PathOf(argv) ==
    LET t == Texts(argv)
        at(n) == IF n <= Len(t) THEN t[n] ELSE NoWord
    IN  IF at(1) \in Direct \/ t = <<"mcp">> THEN SubSeq(t, 1, 1)
        ELSE IF at(1) \notin DOMAIN Subcommands THEN <<>>
        ELSE IF at(2) \notin Subcommands[at(1)] THEN <<>>
        ELSE IF at(1) # "workspace" THEN SubSeq(t, 1, 2)
        ELSE IF at(3) = "list" THEN SubSeq(t, 1, 3) ELSE <<>>

ParseArgs(argv) ==
    IF argv = <<>> \/ IsHelp(argv[1]) THEN HelpPage(<<>>)
    ELSE IF IsVersion(argv[1])
    THEN IF Len(argv) = 1 THEN Result("version", <<>>, NoFlags) ELSE UsageError
    ELSE IF Len(argv) > 1 /\ IsHelp(Last(argv)) THEN HelpResult(argv[1].text, Tail(argv))
    ELSE LET path == PathOf(argv)
         IN  CASE path = <<>> -> UsageError
               [] path = <<"mcp">> -> Result("command", path, NoFlags)
               [] OTHER -> ParseCommand(path, SubSeq(argv, Len(path) + 1, Len(argv)))

--------------------------------------------------------------------------------
(* main: which dependencies are assembled, and who handles the invocation.      *)

WantsHelp(argv) == \E i \in DOMAIN argv : IsHelp(argv[i])
Begins(argv, words) == Len(argv) >= Len(words) /\ Texts(SubSeq(argv, 1, Len(words))) = words

(* Mutant: the commands about profiles, which only read files, count as well.   *)
ReadsOnlyFiles(argv) ==
    \/ WantsHelp(argv)
    \/ argv # <<>> /\ IsVersion(argv[1])
    \/ \E words \in {<<"doctor">>, <<"skills">>, <<"mcp", "add">>, <<"workspace">>,
                     <<"profile">>} : Begins(argv, words)
IsReadOnlyCommand(argv) ==
    \/ WantsHelp(argv)
    \/ argv # <<>> /\ IsVersion(argv[1])
    \/ \E words \in {<<"doctor">>, <<"skills">>, <<"mcp", "add">>, <<"workspace">>} :
          Begins(argv, words)

Route(argv) ==
    IF Begins(argv, <<"mcp">>) /\ Len(argv) = 1 THEN "mcp"
    ELSE IF Begins(argv, <<"tui">>) /\ ~WantsHelp(argv) THEN "tui" ELSE "cli"

(* parseTuiScope: only --scope, with one of two values.                         *)
ScopeTexts == {W("worktree"), W("workspace")}
TuiArgsFit(args) ==
    LET spec == Takes({}, {"scope"})
        parsed == ParseFlags(args, spec)
    IN  /\ parsed.ok /\ parsed.flags.positionals = <<>>
        /\ \A i \in DOMAIN args :
              /\ args[i].eq => W(args[i].text) \in ScopeTexts
              /\ Owes(args, spec, i) => args[i + 1] \in ScopeTexts

(* The commands whose handlers reach none of the ports the read-only            *)
(* dependencies withhold (store, scope, templates, tokens, clock).              *)
Portless == {<<"doctor">>, <<"workspace", "repo", "list">>, <<"mcp">>,
             <<"mcp", "add">>, <<"skills", "add">>}
================================================================================
