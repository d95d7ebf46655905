------------------------------- MODULE Surfaces --------------------------------
(* One asem process from its first word to its exit: the command line           *)
(* (packages/cli: main.ts, parse.ts, run.ts) and the MCP stdio server           *)
(* (packages/mcp: server.ts, tools.ts), both in front of the one ladder that    *)
(* decides for whom an operation acts (packages/ops/src/context.ts over         *)
(* FileCurrentSessionResolver). Meanwhile other processes register and delete   *)
(* Sessions and people edit .asem.yaml.                                         *)
(*                                                                              *)
(* What an operation does once it knows its actor is the subject of Workspace,  *)
(* Inbox and Sequence; here it is one step with any outcome, which keeps of its *)
(* effects the rows and the pointer the ladder reads.                           *)
EXTENDS CommandLine

CONSTANTS
    Sessions,    \* the ids the Store can hand out
    Workspaces,  \* the ids workspace.id can have
    CommandLines, \* the argv's an invocation may have
    Worlds,      \* the surroundings a process may wake up in
    Credentials, \* what AS_SESSION_ID and AS_SESSION_TOKEN may hold
    Scripts,     \* what an MCP client may write, line by line
    MaxEdits,    \* bound: changes by other processes and people
    NoOne        \* no Session

(* A reference to a Session is found ("ref"), not there ("none"), unreadable     *)
(* ("bad") or without its token file ("lost").                                  *)
Reference == [kind : {"none", "bad", "ref", "lost"},
              id : Sessions \cup {NoOne}, token : Sessions \cup {NoOne},
              ws : Workspaces \cup {NoOne}]

World == [config : Workspaces \cup {"none", "invalid"}, pointer : Reference,
          rows : UNION {[S -> Workspaces] : S \in SUBSET Sessions}]

(* What the server tells of a line apart: see Line and Immediate.               *)
Lines == [method : STRING, json : BOOLEAN, id : BOOLEAN, params : STRING,
          op : [name : STRING, class : STRING]]

(* The file .asem/tokens/<id> was written once, with the token of Session id.   *)
OwnToken(w) == w.pointer.kind = "ref" => w.pointer.token = w.pointer.id

ASSUME SurfacesAssumption ==
    /\ NoOne \notin Sessions /\ NoOne \notin Workspaces
    /\ {"none", "invalid"} \cap Workspaces = {}
    /\ MaxEdits \in Nat
    /\ CommandLines \subseteq Seq(Word)
    /\ Worlds \subseteq {w \in World : OwnToken(w)}
    /\ Scripts \subseteq Seq(Lines) \ {<<>>}
    /\ Credentials \subseteq {ref \in Reference : ref.kind \in {"none", "ref"}}

VARIABLES
    argv,     \* the words of the invocation, until main has read them
    route,    \* who handles it: "none" (not read yet), "cli", "tui", "mcp"
    readonly, \* the dependencies withhold the store and its friends
    attach,   \* a successful answer is followed by an attach
    exit,     \* "running", or the way the process ended
    creds,    \* the Session the environment names, with its token
    world,    \* [config, pointer, rows] as they are on disk
    edits,    \* changes so far by others
    call,     \* the operation under way
    seen,     \* the worlds there were since the last call began
    verdict,  \* how the last call ended
    script,   \* the lines of the MCP client
    cut,      \* how many of its last fragments never get written
    pipe,     \* fragments the server has not read
    buffer,   \* fragments the server has not handled
    open,     \* stdin has not ended
    answers   \* the responses on stdout

cliVars == <<argv, route, readonly, attach, exit, creds>>
callVars == <<call, verdict>>
mcpVars == <<script, cut, pipe, buffer, open, answers>>
vars == <<cliVars, world, edits, callVars, seen, mcpVars>>

--------------------------------------------------------------------------------
(* The surroundings.                                                            *)

(* A reference to a Session: its id, a raw token (the token of Session s is s   *)
(* itself) and the Workspace it was registered in.                              *)
Ref(id, token, ws) == [kind |-> "ref", id |-> id, token |-> token, ws |-> ws]
NoRef == [kind |-> "none", id |-> NoOne, token |-> NoOne, ws |-> NoOne]
(* A pointer that is not JSON or lacks its strings; one whose token file is gone. *)
BadPointer == [NoRef EXCEPT !.kind = "bad"]
Lost(ref) == [ref EXCEPT !.kind = "lost"]

(* What FileCurrentSessionResolver.resolve makes of them: "none" is null,       *)
(* "lost" throws.                                                               *)
Resolved(w, ws) ==
    IF creds.kind = "ref" THEN [creds EXCEPT !.ws = ws]
    ELSE IF w.pointer.kind = "bad" THEN NoRef
    ELSE w.pointer

Fresh(w) == Sessions \ DOMAIN w.rows
Insert(w, s, ws) ==
    [w EXCEPT !.rows = [t \in DOMAIN @ \cup {s} |-> IF t = s THEN ws ELSE @[t]]]
Dropped(w, s) == [w EXCEPT !.rows = [t \in DOMAIN @ \ {s} |-> @[t]]]
Register(w, s, ws) == [Insert(w, s, ws) EXCEPT !.pointer = Ref(s, s, ws)]
InScope(w, s, ws) == s \in DOMAIN w.rows /\ w.rows[s] = ws

--------------------------------------------------------------------------------
(* The ladder. An operation's class says whom it has to prove it acts for, the  *)
(* origin who calls it: "agent" (MCP), "operator" (the cockpit), "human".       *)

Op(name, class) == [name |-> name, class |-> class]
NoOp == Op("none", "local")

(* The checks ahead of the operation's work: "peek" lets an anonymous human     *)
(* through, "verify" resolves a reference and compares its token with the row,  *)
(* "adopt" does the same to find the parent of a new Session.                   *)
Ladder(class, origin) ==
    LET ofAgent == IF origin = "agent" THEN <<"verify">> ELSE <<>>
    IN  CASE class = "mutate" ->
                IF origin = "human" THEN <<"peek", "verify">> ELSE ofAgent
          [] class \in {"read", "create"} -> ofAgent
          [] class = "inbox" -> ofAgent \o <<"verify">>
          [] class = "current" -> <<"verify">>
          [] class = "create-child" -> ofAgent \o <<"adopt">>
          [] OTHER -> <<>>

NoCall == [at |-> "none", op |-> NoOp, origin |-> "human", todo |-> <<>>,
           ref |-> NoRef, actor |-> NoOne, ws |-> NoOne, line |-> 0]
Begun(op, origin, line) ==
    [NoCall EXCEPT !.at = "load", !.op = op, !.origin = origin,
                   !.todo = Ladder(op.class, origin), !.line = line]
NoVerdict == [call |-> NoCall, code |-> "none"]

ExitOf(code) ==
    CASE code = "ok" -> "ok"
      [] code = "invalid_input" -> "usage"
      [] code \in {"port", "threw"} -> "threw"
      [] OTHER -> "error"

(* The attach goes through get_session; its command's status is the exit code.  *)
ExitsWith(code) ==
    IF code = "ok" /\ attach THEN {"ok", "error"} ELSE {ExitOf(code)}

Kind(code) ==
    CASE code = "ok" -> "result" [] code = "threw" -> "internal_error"
      [] OTHER -> "tool_error"
Response(id, kind) == [id |-> id, kind |-> kind]

(* The call ends: the process answers its line, goes on to attach, or exits.    *)
Ends(code) ==
    /\ verdict' = [call |-> call, code |-> code]
    /\ UNCHANGED <<argv, route, readonly, creds, script, cut, pipe, buffer, open>>
    /\ \/ /\ route = "mcp"
          /\ answers' = Append(answers, Response(call.line, Kind(code)))
          /\ call' = NoCall
          /\ UNCHANGED <<attach, exit>>
       \/ /\ route # "mcp" /\ call.op.name = "run" /\ attach /\ code = "ok"
          /\ call' = Begun(Op("get", "read"), "human", 0)
          /\ UNCHANGED <<attach, exit, answers>>
       \/ /\ route # "mcp" /\ ~(call.op.name = "run" /\ attach /\ code = "ok")
          /\ exit' \in ExitsWith(code)
          /\ call' = NoCall
          /\ UNCHANGED <<attach, answers>>

Goes(to) ==
    /\ call' = to
    /\ UNCHANGED <<verdict, cliVars, mcpVars>>

(* resolveContext, and the operations that need less of it or nothing.          *)
Load ==
    /\ call.at = "load"
    /\ UNCHANGED world
    /\ IF call.op.class = "local"
       THEN IF readonly /\ call.op.name = "init" THEN Ends("port")
            ELSE Goes([call EXCEPT !.at = "work"])
       ELSE IF world.config = "none" THEN Ends("config_not_found")
       ELSE IF world.config = "invalid" THEN Ends("invalid_config")
       ELSE IF call.op.class = "config" THEN Goes([call EXCEPT !.at = "work"])
       ELSE IF readonly THEN Ends("port")
       ELSE Goes([call EXCEPT !.at = "auth", !.ws = world.config])

Resolve ==
    LET ref == Resolved(world, call.ws)
        check == Head(call.todo)
    IN  /\ call.at = "auth" /\ call.todo # <<>>
        /\ UNCHANGED world
        /\ CASE ref.kind = "lost" -> Ends("threw")
             [] ref.kind = "none" /\ check = "peek" -> Goes([call EXCEPT !.todo = <<>>])
             [] ref.kind = "none" /\ check # "peek" -> Ends("current_session_not_found")
             [] ref.kind = "ref" /\ check = "peek" ->
                    Goes([call EXCEPT !.todo = Tail(@)])
             [] ref.kind = "ref" /\ check # "peek" /\ ref.ws \notin {NoOne, call.ws} ->
                    Ends("scope_mismatch")
             [] OTHER -> Goes([call EXCEPT !.at = "lookup", !.ref = ref])

(* Mutant: any token will do that comes with the id of a Session.               *)
TrustsTheId(ref, s) == s \in Sessions
Verifies(ref, s) == ref.token = s

Missing(check) ==
    IF check = "adopt" THEN "parent_session_not_found" ELSE "session_not_found"

LookUp ==
    LET s == call.ref.id
    IN  /\ call.at = "lookup"
        /\ UNCHANGED world
        /\ CASE ~InScope(world, s, call.ws) -> Ends(Missing(Head(call.todo)))
             [] InScope(world, s, call.ws) /\ ~Verifies(call.ref, s) ->
                    Ends("invalid_session_token")
             [] OTHER -> Goes([call EXCEPT !.at = "auth", !.actor = s,
                                           !.todo = Tail(@)])

Ready == call.at = "work" \/ (call.at = "auth" /\ call.todo = <<>>)

WorldAfter(w) ==
    CASE call.op = Op("init-session", "free") ->
            {Register(w, s, call.ws) : s \in Fresh(w)}
      [] call.op.class \in {"create", "create-child"} ->
            {Insert(w, s, call.ws) : s \in Fresh(w)}
      [] call.op = Op("delete", "mutate") ->
            {Dropped(w, s) : s \in {t \in DOMAIN w.rows : w.rows[t] = call.ws}}
      [] OTHER -> {w}

Work ==
    /\ Ready
    /\ \/ world' \in WorldAfter(world) /\ Ends("ok")
       \/ UNCHANGED world /\ Ends("failed")
       \/ UNCHANGED world /\ Ends("invalid_input")

CallStep == Load \/ Resolve \/ LookUp \/ Work

--------------------------------------------------------------------------------
(* The command line.                                                            *)

ClassOf(path, f) ==
    CASE path \in {<<"init">>, <<"doctor">>, <<"mcp", "add">>, <<"skills", "add">>} ->
            "local"
      [] path = <<"workspace", "repo", "list">> -> "config"
      [] path \in {<<"init-session">>, <<"profile", "list">>, <<"profile", "get">>} ->
            "free"
      [] path \in {<<"session", "close">>, <<"session", "delete">>,
                   <<"message", "send">>} -> "mutate"
      [] path \in {<<"report", "parent">>, <<"message", "wait">>} -> "current"
      [] path = <<"message", "list">> /\ "inbox" \in f.booleans -> "inbox"
      [] path = <<"session", "create">> ->
            IF "root" \in f.booleans \/ Given(f, "parent") THEN "create" ELSE "create-child"
      [] path = <<"run">> -> "create"
      [] OTHER -> "read"

Attaches(path, f) ==
    \/ path = <<"run">> /\ "no-attach" \notin f.booleans
    \/ path = <<"session", "attach">> /\ "json" \notin f.booleans

Exits(how) ==
    /\ exit' = how
    /\ UNCHANGED <<attach, call>>

Dispatch(path, f, tty) ==
    IF path = <<"mcp">> THEN Exits("usage")
    ELSE /\ call' = Begun(Op(Last(path), ClassOf(path, f)), "human", 0)
         /\ attach' = (Attaches(path, f) /\ (tty \/ path # <<"run">>))
         /\ UNCHANGED exit

RunCli(tty) ==
    LET parsed == ParseArgs(argv)
    IN  CASE parsed.kind \in {"help", "version"} -> Exits("ok")
          [] parsed.kind = "error" -> Exits("usage")
          [] OTHER -> Dispatch(parsed.path, parsed.flags, tty)

(* The cockpit runs until one of its operations; the rest of it is Cockpit.     *)
RunTui ==
    IF ~TuiArgsFit(Tail(argv)) THEN Exits("usage")
    ELSE \/ Exits("ok")
         \/ /\ \E name \in {"close", "delete", "send"} :
                 call' = Begun(Op(name, "mutate"), "operator", 0)
            /\ UNCHANGED <<attach, exit>>

(* What the client writes: each line in two pieces and its newline.             *)
Newline == [line |-> 0, half |-> 0]
Fragments(lines, i) ==
    IF lines[i].method = "blank" THEN <<Newline>>
    ELSE <<[line |-> i, half |-> 1], [line |-> i, half |-> 2], Newline>>
Written(lines, n) ==
    LET all == FlattenSeq([i \in DOMAIN lines |-> Fragments(lines, i)])
    IN  SubSeq(all, 1, Len(all) - n)

Serve ==
    /\ Exits("running")
    /\ script' \in Scripts
    /\ cut' \in (IF Last(script').method = "blank" THEN {0} ELSE 0 .. 2)
    /\ pipe' = Written(script', cut')

(* The first step of the process. Nothing has read the surroundings before, so  *)
(* they are chosen with it.                                                     *)
Main ==
    /\ route = "none"
    /\ route' = Route(argv) /\ readonly' = IsReadOnlyCommand(argv) /\ argv' = <<>>
    /\ \/ route' = "mcp" /\ Serve
       \/ route' = "tui" /\ RunTui /\ UNCHANGED <<script, cut, pipe>>
       \/ route' = "cli" /\ UNCHANGED <<script, cut, pipe>>
          /\ \E tty \in BOOLEAN : RunCli(tty)
    /\ IF exit' = "running" THEN world' \in Worlds /\ creds' \in Credentials
       ELSE UNCHANGED <<world, creds>>
    /\ UNCHANGED <<edits, verdict, buffer, open, answers>>

--------------------------------------------------------------------------------
(* The MCP server: a line is "json" (a JSON-RPC request object) or not, has an  *)
(* id or not, a method, and for tools/call how its parameters come out.         *)

Line(method, id, params, op) ==
    [method |-> method, json |-> TRUE, id |-> id, params |-> params, op |-> op]
Garbage == [Line("none", FALSE, "none", NoOp) EXCEPT !.json = FALSE]
Blank == [Garbage EXCEPT !.method = "blank"]

Assembled(fragments) ==
    IF fragments = <<>> THEN Blank
    ELSE IF Len(fragments) = 2 THEN script[fragments[1].line]
    ELSE Garbage
IdOf(fragments) == IF Assembled(fragments).json THEN fragments[1].line ELSE 0

HasNewline(fragments) == \E i \in DOMAIN fragments : fragments[i] = Newline
FirstNewline(fragments) ==
    CHOOSE i \in DOMAIN fragments :
        fragments[i] = Newline /\ \A j \in 1 .. i - 1 : fragments[j] # Newline

(* The answer a line gets without an operation, or "call".                      *)
Immediate(line) ==
    IF ~line.json THEN "parse_error"
    ELSE IF line.method \in {"initialize", "ping", "tools/list"} THEN "result"
    ELSE IF line.method # "tools/call" THEN "method_not_found"
    ELSE IF line.params \in {"not_object", "no_name"} THEN "invalid_params"
    ELSE IF line.params \in {"unknown_tool", "bad_args"} THEN "tool_error"
    ELSE "call"
(* Mutant: isNotification takes an id that is null or absent for an id.         *)
SilentBlank(line) == line.method = "blank"
Silent(line) == line.method = "blank" \/ (line.json /\ ~line.id)

Handle(fragments) ==
    LET line == Assembled(fragments)
    IN  IF Silent(line) THEN UNCHANGED <<call, answers>>
        ELSE IF Immediate(line) = "call"
        THEN /\ call' = Begun(line.op, "agent", IdOf(fragments))
             /\ UNCHANGED answers
        ELSE /\ answers' = Append(answers, Response(IdOf(fragments), Immediate(line)))
             /\ UNCHANGED call

Waiting == route = "mcp" /\ exit = "running" /\ call = NoCall
mcpRest == <<cliVars, world, edits, verdict, script, cut>>

Read ==
    /\ Waiting /\ open /\ ~HasNewline(buffer)
    /\ \E n \in 1 .. Len(pipe) :
          /\ buffer' = buffer \o SubSeq(pipe, 1, n)
          /\ pipe' = SubSeq(pipe, n + 1, Len(pipe))
    /\ UNCHANGED <<open, answers, call, mcpRest>>

NextLine ==
    LET n == FirstNewline(buffer)
    IN  /\ Waiting /\ HasNewline(buffer)
        /\ Handle(SubSeq(buffer, 1, n - 1))
        /\ buffer' = SubSeq(buffer, n + 1, Len(buffer))
        /\ UNCHANGED <<pipe, open, mcpRest>>

ClientCloses ==
    /\ Waiting /\ open /\ pipe = <<>> /\ ~HasNewline(buffer)
    /\ open' = FALSE
    /\ UNCHANGED <<pipe, buffer, answers, call, mcpRest>>

(* Mutant: what is left without a newline is dropped.                           *)
FinalLineDropped ==
    /\ Waiting /\ ~open /\ buffer # <<>>
    /\ buffer' = <<>>
    /\ UNCHANGED <<pipe, open, answers, call, mcpRest>>

(* What is left without a newline is a line too.                                *)
FinalLine ==
    /\ Waiting /\ ~open /\ buffer # <<>>
    /\ Handle(buffer)
    /\ buffer' = <<>>
    /\ UNCHANGED <<pipe, open, mcpRest>>

ServerExits ==
    /\ Waiting /\ ~open /\ buffer = <<>>
    /\ exit' = "ok"
    /\ UNCHANGED <<argv, route, readonly, attach, creds, world, edits, callVars, mcpVars>>

ServerStep == Read \/ NextLine \/ FinalLine \/ ServerExits

--------------------------------------------------------------------------------
(* Other processes and people.                                                  *)

EditedWorlds ==
    LET w == world
    IN  {Register(w, s, ws) : s \in Fresh(w), ws \in Workspaces}
        \cup {Dropped(w, s) : s \in DOMAIN w.rows}
        \cup {[w EXCEPT !.config = c] : c \in Workspaces \cup {"none", "invalid"}}
        \cup {[w EXCEPT !.pointer = NoRef]}
        \cup (IF w.pointer.kind = "ref"
              THEN {[w EXCEPT !.pointer = Lost(@)]} ELSE {})

Edit ==
    /\ route # "none" /\ exit = "running" /\ edits < MaxEdits
    /\ world' \in EditedWorlds \ {world}
    /\ edits' = edits + 1
    /\ UNCHANGED <<cliVars, callVars, mcpVars>>

(* The process has ended.                                                       *)
Ended == exit # "running" /\ UNCHANGED vars

--------------------------------------------------------------------------------

NoWorld == [config |-> "none", pointer |-> NoRef, rows |-> [s \in {} |-> NoOne]]

Init ==
    /\ argv \in CommandLines
    /\ route = "none" /\ readonly = FALSE /\ attach = FALSE /\ exit = "running"
    /\ creds = NoRef /\ world = NoWorld /\ edits = 0
    /\ call = NoCall /\ verdict = NoVerdict /\ seen = {}
    /\ script = <<>> /\ cut = 0 /\ pipe = <<>> /\ buffer = <<>>
    /\ open = TRUE /\ answers = <<>>

(* The worlds of a call: from the step that begins it to the step that ends it. *)
Remember ==
    seen' = IF call'.at = "none" /\ call.at = "none" THEN seen
            ELSE IF call.at = "none" \/ (call.op # call'.op /\ call'.at = "load")
            THEN {world'} ELSE seen \cup {world, world'}

Step ==
    \/ Main
    \/ UNCHANGED edits /\ CallStep
    \/ Read \/ NextLine \/ ClientCloses \/ FinalLine \/ ServerExits
    \/ Edit
Next == (Step /\ Remember) \/ Ended

(* Once under way the process keeps running and every await of an operation     *)
(* ends; nobody makes the client close stdin.                                   *)
Fairness == WF_vars(((UNCHANGED edits /\ CallStep) \/ ServerStep) /\ Remember)
Spec == Init /\ [][Next]_vars /\ Fairness

--------------------------------------------------------------------------------
(* Properties.                                                                  *)

TypeOK ==
    /\ route \in {"none", "cli", "tui", "mcp"}
    /\ exit \in {"running", "ok", "error", "usage", "threw"}
    /\ {readonly, attach, open} \subseteq BOOLEAN
    /\ world.config \in Workspaces \cup {"none", "invalid"}
    /\ DOMAIN world.rows \subseteq Sessions
    /\ call.at \in {"none", "load", "auth", "lookup", "work"}
    /\ call.actor \in Sessions \cup {NoOne} /\ call.ws \in Workspaces \cup {NoOne}
    /\ call.at = "lookup" => call.todo # <<>> /\ call.ref.kind = "ref"
    /\ edits \in 0 .. MaxEdits /\ cut \in 0 .. 2

(* parseFlags gives every word of a command line the one meaning the grammar    *)
(* has for it: a value is the word after its option even when it looks like an  *)
(* option, options may stand anywhere, the last of two wins (parse.ts).         *)
WordsMeanOneThing ==
    route = "none" =>
        LET path == PathOf(argv)
            args == SubSeq(argv, Len(path) + 1, Len(argv))
        IN  ParseFlags(args, Options(path)) = Meant(args, Options(path))

(* main.ts picks the dependencies from the raw words, parse.ts the command from *)
(* the same words by other rules. A command whose handler needs the store, the  *)
(* scope or the templates never finds them withheld unless some word asks for   *)
(* help.                                                                        *)
PortsSuffice ==
    route = "none" =>
        LET parsed == ParseArgs(argv)
        IN  parsed.kind = "command" /\ parsed.path \notin Portless /\ ~WantsHelp(argv)
                => ~IsReadOnlyCommand(argv)

(* Somebody who could read the Session's token offered it, for the Workspace    *)
(* the operation acts in, while the Session was registered there.               *)
Vouched(w, s, ws) ==
    /\ InScope(w, s, ws)
    /\ LET ref == Resolved(w, ws)
       IN  ref.kind = "ref" /\ ref.id = s /\ ref.token = s /\ ref.ws \in {NoOne, ws}

MustProve(c) ==
    \/ c.op.class \in {"current", "inbox", "create-child"}
    \/ c.origin = "agent" /\ c.op.class \in {"mutate", "read", "create"}

(* However the pointer, the rows and the config change between the awaits of an *)
(* operation, whoever it acts for was vouched for at some instant of it; an     *)
(* agent is never anonymous, a human only while no pointer could be read.       *)
ActsForAVouchedSession ==
    LET c == verdict.call
    IN  call = NoCall /\ verdict.code \in {"ok", "failed", "invalid_input"} =>
          /\ MustProve(c) => c.actor # NoOne
          /\ c.actor # NoOne => \E w \in seen : Vouched(w, c.actor, c.ws)
          /\ c.op.class = "mutate" /\ c.origin = "human" /\ c.actor = NoOne =>
                \E w \in seen : Resolved(w, c.ws).kind = "none"

(* A refusal names something that was the case during the operation: no config, *)
(* no pointer, a pointer of another Workspace, a Session that is gone, a token  *)
(* that is not the Session's. The cockpit's operations are never refused by the *)
(* ladder, whatever the pointer of the worktree says.                           *)
Offered(w, c) == Resolved(w, c.ws) = c.ref
RefusalsHaveACause ==
    LET c == verdict.call
        code == verdict.code
    IN  call = NoCall =>
          /\ code = "config_not_found" => \E w \in seen : w.config = "none"
          /\ code = "invalid_config" => \E w \in seen : w.config = "invalid"
          /\ code = "current_session_not_found" =>
                \E w \in seen : Resolved(w, c.ws).kind = "none"
          /\ code = "scope_mismatch" =>
                \E w \in seen : Resolved(w, c.ws).ws \notin {NoOne, c.ws}
          /\ code \in {"session_not_found", "parent_session_not_found"} =>
                /\ \E w \in seen : Offered(w, c)
                /\ \E w \in seen : ~InScope(w, c.ref.id, c.ws)
          /\ code = "invalid_session_token" =>
                \E w \in seen : Offered(w, c) /\ InScope(w, c.ref.id, c.ws)
                                /\ c.ref.token # c.ref.id
          /\ c.origin = "operator" =>
                code \in {"ok", "failed", "invalid_input",
                          "config_not_found", "invalid_config"}

(* The ladder lets nobody pass who was not vouched for, and turns nobody away   *)
(* without a cause.                                                             *)
VerdictsHaveACause == TypeOK /\ ActsForAVouchedSession /\ RefusalsHaveACause

(* The lines the client finished, or left unfinished at the end of its input.   *)
SentLine(i) == IF cut = 2 /\ i = Len(script) THEN Garbage ELSE script[i]
Answerable == {i \in DOMAIN script : ~Silent(SentLine(i))}
Admissible(line) ==
    IF Immediate(line) = "call" THEN {"result", "tool_error", "internal_error"}
    ELSE {Immediate(line)}
Answers(response, i) ==
    /\ response.id = IF SentLine(i).json THEN i ELSE 0
    /\ response.kind \in Admissible(SentLine(i))
(* The place of line i among the lines that get a response.                     *)
Turn(i) == Cardinality({j \in Answerable : j <= i})

(* However stdin is cut into chunks, the responses answer the request lines in  *)
(* their order, one each; a notification is neither answered nor executed, and  *)
(* what is not a request gets the parse error with a null id (server.ts).       *)
NotifiedIn(line) == line.json /\ ~line.id
AnswersFollowTheLines ==
    /\ Len(answers) <= Cardinality(Answerable)
    /\ \A i \in Answerable :
          Turn(i) \in DOMAIN answers => Answers(answers[Turn(i)], i)
    /\ route = "mcp" /\ call # NoCall =>
          /\ call.line \in Answerable /\ ~NotifiedIn(script[call.line])
          /\ Turn(call.line) = Len(answers) + 1

(* Every finished line is answered even while the client keeps stdin open; once *)
(* it closes, the unfinished last line too, and the process ends. A command     *)
(* line always ends.                                                            *)
Finished == Cardinality(IF cut = 0 THEN Answerable ELSE Answerable \ {Len(script)})
EveryRequestAnswered ==
    /\ [](route = "mcp" => <>(Len(answers) >= Finished))
    /\ [](~open => <>(exit = "ok" /\ Len(answers) = Cardinality(Answerable)))
    /\ [](route \in {"cli", "tui"} => <>(exit # "running"))

(* usage.ts:87, of the subcommands of session: "Run `asem session <subcommand>  *)
(* --help` for usage, options, and examples." Every focused page is the answer  *)
(* to its command path followed by --help.                                      *)
HelpReachesEveryPage ==
    route = "none" /\ Len(argv) \in {2, 3} /\ Last(argv) = F("help") =>
        LET path == Texts(Front(argv))
        IN  path \in Pages => ParseArgs(argv) = HelpPage(path)
================================================================================
