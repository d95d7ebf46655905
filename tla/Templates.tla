----------------------------- MODULE Templates -----------------------------
(***************************************************************************)
(* Command templates of @asem/runtime: what a step of a command sequence   *)
(* is, the builtin multiplexer templates, and which variables a sequence   *)
(* finds.  A command line is abstracted to the variables it interpolates   *)
(* and to what it does to the pane of the Session:                         *)
(*   open, kill      make the pane, end it                                 *)
(*   type, inject    put the text on the input line, at once or later      *)
(*   enter, submit   submit the input line; type and submit in one         *)
(*   look            nothing                                               *)
(***************************************************************************)
EXTENDS Naturals, Sequences, FiniteSets, Functions

Effects == {"open", "kill", "type", "inject", "enter", "submit", "look"}

Step(type, needs, does) ==
    [type |-> type, needs |-> needs, does |-> does, capture |-> {},
     ignore |-> FALSE, timed |-> FALSE, background |-> FALSE]

TemplateStep ==
    [type : {"run", "write_file", "wait_ms"}, needs : SUBSET STRING, does : Effects,
     capture : SUBSET STRING, ignore : BOOLEAN, timed : BOOLEAN, background : BOOLEAN]

Run(needs, does) == Step("run", needs, does)
WriteFile(needs) == Step("write_file", needs, "look")
Wait == Step("wait_ms", {}, "look")

Capturing(step, names) == [step EXCEPT !.capture = names]
Ignored(step) == [step EXCEPT !.ignore = TRUE]
Timed(step) == [step EXCEPT !.timed = TRUE]
Background(step) == [step EXCEPT !.background = TRUE]

(* The variables createSession gives to the create sequence.               *)
BaseNames ==
    {"session_id", "cwd", "cwd_kdl", "session_dir", "launch_script",
     "launch_script_kdl", "launch_cmd"}

(* The refs a template declares: they are interpolated from the base       *)
(* variables alone.                                                        *)
RefsOf(names) == [declared |-> names, from |-> {"session_id"}]

Template ==
    [refs : [declared : SUBSET STRING, from : SUBSET STRING],
     create : Seq(TemplateStep), run_in_pane : Seq(TemplateStep),
     send : Seq(TemplateStep), peek : Seq(TemplateStep),
     attach : Seq(TemplateStep), close : Seq(TemplateStep)]

----------------------------------------------------------------------------
(* The builtin templates.                                                  *)

(* mutant: Enter right after the text                                      *)
HerdrSendAtOnce ==
    <<Ignored(Run({"herdr_session", "pane_id"}, "look")),
      Run({"herdr_session", "pane_id", "message"}, "inject"),
      Run({"herdr_session", "pane_id"}, "enter")>>

HerdrSend ==
    <<Ignored(Run({"herdr_session", "pane_id"}, "look")),
      Run({"herdr_session", "pane_id", "message"}, "inject"),
      Wait,
      Run({"herdr_session", "pane_id"}, "enter")>>

Herdr ==
    [refs |-> RefsOf({}),
     create |->
        <<Capturing(Run({}, "look"), {"herdr_session"}),
          Capturing(Run({"herdr_session", "cwd", "session_id"}, "open"),
                    {"pane_id", "tab_id", "herdr_workspace_id"})>>,
     run_in_pane |->
        <<Run({"herdr_session", "pane_id", "launch_cmd"}, "submit")>>,
     send |-> HerdrSend,
     peek |-> <<Run({"herdr_session", "pane_id", "peek_source",
                     "peek_lines"}, "look")>>,
     attach |->
        <<Run({"herdr_session", "herdr_workspace_id", "tab_id"}, "look")>>,
     close |-> <<Run({"herdr_session", "herdr_workspace_id"}, "kill")>>]

TypeThenEnter(name, text) ==
    <<Run({name, text}, "type"), Wait, Run({name}, "enter")>>

(* tmux and rmux: one declared ref, the name of the multiplexer's session. *)
Keys(name, create) ==
    [refs |-> RefsOf({name}),
     create |-> create,
     run_in_pane |-> TypeThenEnter(name, "launch_cmd"),
     send |-> TypeThenEnter(name, "message"),
     peek |-> <<Run({name, "peek_source", "peek_lines"}, "look")>>,
     attach |-> <<Run({name}, "look")>>,
     close |-> <<Run({name}, "kill")>>]

Tmux == Keys("tmux_session_name",
             <<Capturing(Run({"session_id", "cwd"}, "open"), {"pane_id"})>>)

Rmux == Keys("rmux_session_name",
             <<Run({"session_id", "cwd"}, "open"),
               Capturing(Run({"session_id"}, "look"), {"pane_id"})>>)

Zellij ==
    [refs |-> RefsOf({"zellij_session_name"}),
     create |->
        <<WriteFile({"session_dir", "cwd_kdl", "launch_script_kdl"}),
          Run({"session_id", "cwd", "session_dir"}, "open")>>,
     run_in_pane |-> <<>>,
     send |-> TypeThenEnter("zellij_session_name", "message"),
     peek |-> <<Run({"zellij_session_name", "peek_source", "peek_lines"},
                    "look")>>,
     attach |-> <<Run({"zellij_session_name"}, "look")>>,
     close |-> <<Ignored(Run({"zellij_session_name"}, "kill")),
                 Ignored(Run({"zellij_session_name"}, "look"))>>]

BuiltinMux == {Herdr, Tmux, Rmux, Zellij}

----------------------------------------------------------------------------
(* Variables: a function from their names to where the value came from, 0  *)
(* for a value the caller gave and i for one that step i captured.         *)

Given(names) == [n \in names |-> 0]
Over(new, old) == [n \in DOMAIN new \cup DOMAIN old |->
                      IF n \in DOMAIN new THEN new[n] ELSE old[n]]

(* interpolate throws MissingVariableError.                                *)
Missing(step, variables) == ~(step.needs \subseteq DOMAIN variables)

(* interpolateValues(muxTemplate.refs, baseVars)                           *)
DeclaredRefs(template) ==
    IF template.refs.from \subseteq BaseNames
    THEN Given(template.refs.declared)
    ELSE Given({})

(* muxRefVars and what each operation adds to it.                          *)
SendVars(ref) == Over(Given({"message"}), ref)
PeekVars(ref) == Over(ref, Given({"session_id", "cwd", "peek_source",
                                  "peek_lines"}))
AttachVars(ref) == Over(ref, Given({"session_id", "cwd", "session_dir"}))

(* renderAttachHint: only run steps count, a missing variable means that   *)
(* there is no hint.                                                       *)
AttachHint(attach, variables) ==
    LET runs == {i \in DOMAIN attach : attach[i].type = "run"}
    IN  runs # {} /\ \A i \in runs : ~Missing(attach[i], variables)

(* hasForegroundRun                                                        *)
Peekable(template) ==
    \E i \in DOMAIN template.peek :
        template.peek[i].type = "run" /\ ~template.peek[i].background
=============================================================================
