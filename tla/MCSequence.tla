----------------------------- MODULE MCSequence -----------------------------
(* The callers of one Session, for each builtin template.                  *)
EXTENDS Sequence

CONSTANTS c1, c2

Work(kind, template) ==
    [kind |-> kind, template |-> template, paste |-> FALSE, steps |-> <<>>]
Pasting(template) == [Work("create", template) EXCEPT !.paste = TRUE]
Job(steps) == [Work("job", Tmux) EXCEPT !.steps = steps]

(* Sequences of a user's own template.                                     *)
Jobs ==
    {<<Capturing(Timed(Run({}, "look")), {"x", "y"}),
       Ignored(Capturing(Timed(Run({"x"}, "look")), {"x"})),
       Background(Run({"x"}, "look")),
       Timed(Run({"x", "y"}, "look"))>>,
     <<Ignored(Timed(Capturing(Run({}, "look"), {"x"}))),
       WriteFile({"cwd"}),
       Timed(Run({"x"}, "look"))>>}

McPlans ==
    UNION {{c1 :> a @@ c2 :> b : b \in
              {Work(k, t) : k \in {"send", "close", "peek"}}, a \in
              {Work("create", t), Pasting(t), Work("send", t)}} :
            t \in BuiltinMux}
    \cup {c1 :> Job(s) @@ c2 :> Work("peek", Tmux) : s \in Jobs}

ASSUME McPlansAssumption == BuiltinPlans /\ OneTemplate /\ JobsLook

(* What init-session stores for a herdr pane and for an unknown one.       *)
McRefs ==
    {Given({"asem_mux_owned"}),
     Given({"asem_mux_owned", "herdr_session", "herdr_workspace_id", "tab_id", "pane_id"}),
     Given({"asem_mux_owned", "tmux_session_name"})}
=============================================================================
