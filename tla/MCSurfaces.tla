------------------------------ MODULE MCSurfaces ------------------------------
(* Two Sessions, two Workspaces, short command lines and short MCP scripts.     *)
EXTENDS Surfaces, TLC

CONSTANTS s1, s2, w1, w2

Paths ==
    {<<c>> : c \in Direct} \cup {<<"workspace", "repo", "list">>}
    \cup UNION {{<<g, c>> : c \in Subcommands[g]} :
                   g \in DOMAIN Subcommands \ {"workspace"}}

TextsFor(option) ==
    CASE option \in {"limit", "lines", "timeout-ms"} -> {"5", "x"}
      [] option = "mux-ref" -> {"{}", "x"}
      [] option = "source" -> {"visible", "x"}
      [] option \in {"name", "to", "cursor", "for", "workspace"} -> {"x", ""}
      [] OTHER -> {"x"}

(* The words worth putting behind a command: each of its options, two of them   *)
(* without their value as well, plain words, a stray option and a call for help. *)
Bare(path) ==
    Options(path).values \cap {"name", "prompt", "workspace", "to", "body", "limit", "for"}
WordsFor(path) ==
    {F(b) : b \in Options(path).booleans} \cup {F(v) : v \in Bare(path)}
    \cup UNION {{FE(v, t) : t \in TextsFor(v)} : v \in Options(path).values}
    \cup {W("s1"), Empty, F("bogus"), W("help")}

SeqsUpTo(n, S) == UNION {[1 .. k -> S] : k \in 0 .. n}
AsWords(path) == [i \in DOMAIN path |-> W(path[i])]

Wide == {<<"session", "create">>, <<"init">>, <<"init-session">>}
McCommandLines ==
    UNION {{AsWords(p) \o t :
              t \in SeqsUpTo(IF p \in Wide THEN 2 ELSE 3, WordsFor(p))} : p \in Paths}
    \cup {<<W("session"), W("create"), W("n"), F("prompt"), F("json")>>,
          <<W("session"), W("create"), W("n"), FE("prompt", "x"), F("root")>>,
          <<W("session"), W("create"), W("n"), FE("prompt", "x"), FE("parent", "s1")>>}
    \cup {<<W("tui")>> \o t : t \in SeqsUpTo(2, {F("scope"), FE("scope", "workspace"),
                                              W("worktree"), W("help")})}
    \cup {<<W("mcp")>>}
    \cup SeqsUpTo(2, {W("session"), W("workspace"), W("repo"), W("mcp"), W("peek"),
                     W("bogus"), W("help"), W("-v"), F("help"), F("version")})
    \cup {AsWords(p) \o <<F("help")>> : p \in Pages \ {<<"session", "peek">>}}

McPointers == {NoRef, BadPointer, Ref(s1, s1, w1), Lost(Ref(s1, s1, w1)),
               Ref(s2, s2, w2), Ref(s1, s1, NoOne)}
McRows == {<<>>, s1 :> w1 @@ s2 :> w2}
McWorlds ==
    [config : {w1}, pointer : McPointers, rows : McRows]
    \cup [config : {"none", "invalid"}, pointer : {NoRef}, rows : {<<>>}]
McCredentials == {NoRef, Ref(s1, s1, NoOne), Ref(s1, s2, NoOne)}

Call(name, class) == Line("tools/call", TRUE, "ok", Op(name, class))
Calls == {Call("init-session", "free"), Call("send", "mutate"), Call("get", "read"),
          Call("list-inbox", "inbox"), Call("report", "current"),
          Call("create", "create"), Call("create", "create-child")}
Noise ==
    {Garbage, Blank, Line("initialize", TRUE, "none", NoOp),
     Line("initialized", FALSE, "none", NoOp),
     [Call("send", "mutate") EXCEPT !.id = FALSE],
     Line("resources/list", TRUE, "none", NoOp)}
    \cup {Line("tools/call", TRUE, p, NoOp) :
             p \in {"no_name", "unknown_tool", "bad_args"}}
McScripts ==
    {<<a>> : a \in Calls \cup Noise}
    \cup {<<a, b>> : a \in Noise, b \in {Line("initialize", TRUE, "none", NoOp)}}
    \cup {<<Call("init-session", "free"), b>> :
             b \in {Call("send", "mutate"), Call("create", "create-child")}}
    \cup {<<Garbage, Blank, Call("get", "read")>>}
================================================================================
