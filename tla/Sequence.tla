------------------------------ MODULE Sequence ------------------------------
(***************************************************************************)
(* SequenceEngine and NodeTemplateRunner, as the operations use them on    *)
(* one Session: create-session runs create, run_in_pane and, for an agent  *)
(* that wants its prompt pasted, before_paste and send, with close as      *)
(* cleanup; send-message, close-session and peek-session run one sequence  *)
(* with the variables of the stored mux ref.                               *)
(*                                                                         *)
(* A command is a child process.  It acts on the pane at some moment of    *)
(* its life, then exits with a code, or dies by a signal.  A timeout kills *)
(* the shell; what the shell had started may still act.                    *)
(***************************************************************************)
EXTENDS Templates, SequencesExt

CONSTANTS
    Caller,     \* the operations under way
    Plans,      \* bound: what the callers may be asked for, together
    Refs,       \* bound: the mux refs that init-session may have registered
    MaxFaults   \* bound: commands that go wrong in one behaviour

(* What an operation is asked for; only a job brings its own steps.        *)
Plan == [kind : {"create", "send", "close", "peek", "job"}, template : Template,
         paste : BOOLEAN, steps : Seq(TemplateStep)]

(* The id of a Session is generated by the one create-session that makes   *)
(* it.                                                                     *)
ASSUME PlansAssumption ==
    /\ Plans \subseteq [Caller -> Plan]
    /\ \A p \in Plans, c \in Caller : p[c].kind # "job" => p[c].steps = <<>>
    /\ \A p \in Plans, c, d \in Caller :
          p[c].kind = "create" /\ p[d].kind = "create" => c = d
    /\ MaxFaults \in Nat

VARIABLES
    plan,       \* what each caller does
    row,        \* who inserted the row of the Session, if there is one
    ref,        \* its mux_ref
    engine,     \* the sequence each caller is in
    log,        \* what came of the steps of that sequence so far
    did,        \* the running command has acted on the pane
    late,       \* effects still to come: injected text, orphans
    pane,       \* is it there; its input line; the lines submitted
    faults

vars == <<plan, row, ref, engine, log, did, late, pane, faults>>

Rows == {"none", "created", "registered"}
HasRow == row # "none"
Owned == row = "created"

Stages == {"create", "start", "boot", "paste", "cleanup", "send", "close",
           "peek", "job"}
Codes == {"", "ok", "sequence_step_failed", "timeout", "capture_failed",
          "unsupported"}
Outcomes == {"ok", "signal", "missing", "exit", "error", "timeout",
             "capture"}

(* The sequence a caller is in.                                            *)
Steps(c) ==
    LET t == plan[c].template
    IN  CASE engine[c].stage = "create" -> t.create
          [] engine[c].stage = "start" -> t.run_in_pane
          [] engine[c].stage = "boot" -> <<Wait>>
          [] engine[c].stage \in {"paste", "send"} -> t.send
          [] engine[c].stage \in {"cleanup", "close"} -> t.close
          [] engine[c].stage = "peek" -> t.peek
          [] engine[c].stage = "job" -> plan[c].steps

Current(c) == Steps(c)[engine[c].at]
Text(c) == IF engine[c].stage = "start" THEN "launch" ELSE c

At(c, pc) == engine[c].pc = pc
Busy(c) == engine[c].pc \in {"step", "child", "pause"}
HasStep(c) == At(c, "step") /\ engine[c].at <= Len(Steps(c))

Begin(stage, variables) ==
    [pc |-> "step", stage |-> stage, at |-> 1, vars |-> variables,
     captures |-> Given({}), handles |-> <<>>, stdout |-> 0, result |-> "",
     failed |-> ""]

Idle == [Begin("job", Given({})) EXCEPT !.pc = "idle"]

TypeOK ==
    /\ plan \in Plans
    /\ row \in Rows
    /\ \A c \in Caller :
          /\ engine[c].pc \in {"idle", "step", "child", "pause", "done", "over"}
          /\ engine[c].stage \in Stages
          /\ engine[c].result \in Codes
          /\ engine[c].at \in 1 .. Len(Steps(c)) + 1
          /\ Len(log[c]) <= Len(Steps(c))
          /\ Range(log[c]) \subseteq Outcomes
          /\ At(c, "child") => Current(c).type = "run"
          /\ engine[c].stdout \in 0 .. Len(Steps(c))
    /\ pane.open \in BOOLEAN
    /\ faults \in 0 .. MaxFaults

Init ==
    /\ plan \in Plans
    /\ \/ row = "none" /\ ref = Given({})
       \/ row = "registered" /\ ref \in Refs
    /\ engine = [c \in Caller |-> Idle]
    /\ log = [c \in Caller |-> <<>>]
    /\ did = [c \in Caller |-> FALSE]
    /\ late = {}
    /\ pane = [open |-> HasRow, line |-> <<>>, lines |-> <<>>]
    /\ faults = 0

----------------------------------------------------------------------------
(* What a command does to the pane.                                        *)

Typed(p, text) == [p EXCEPT !.line = Append(@, text)]
Submitted(p) == [p EXCEPT !.lines = Append(@, p.line), !.line = <<>>]

(* A command that addresses a pane needs it to be there.                   *)
CanAct(does) == does \in {"open", "look"} \/ pane.open

PaneAfter(does, text) ==
    CASE does = "open" -> [pane EXCEPT !.open = TRUE]
      [] does = "kill" -> [pane EXCEPT !.open = FALSE]
      [] does = "type" -> Typed(pane, text)
      [] does = "enter" -> Submitted(pane)
      [] does = "submit" -> Submitted(Typed(pane, text))
      [] OTHER -> pane

Later(text, does) == late' = late \cup {[by |-> text, does |-> does]}

Fault == faults < MaxFaults /\ faults' = faults + 1

----------------------------------------------------------------------------
(* The engine.                                                             *)

Goto(c, new) == engine' = [engine EXCEPT ![c] = new]
Logged(c, outcome) == log' = [log EXCEPT ![c] = Append(@, outcome)]

(* mutant: a failure that is ignored still hands its captures on           *)
FailedKeepsItsCaptures(c, code, outcome) ==
    LET found == [n \in Current(c).capture |-> engine[c].at]
    IN  /\ Logged(c, outcome)
        /\ Goto(c, IF Current(c).ignore
                   THEN [engine[c] EXCEPT
                           !.pc = "step", !.at = @ + 1,
                           !.vars = Over(found, @),
                           !.captures = Over(found, @)]
                   ELSE [engine[c] EXCEPT !.pc = "done", !.result = code])

(* The step of a caller's sequence failed: on_error "ignore" goes on.      *)
Failed(c, code, outcome) ==
    /\ Logged(c, outcome)
    /\ Goto(c, IF Current(c).ignore
               THEN [engine[c] EXCEPT !.pc = "step", !.at = @ + 1]
               ELSE [engine[c] EXCEPT !.pc = "done", !.result = code])

(* It succeeded: captures join the variables of the steps to come.         *)
Succeeded(c, outcome) ==
    LET step == Current(c)
        i == engine[c].at
        new == [n \in step.capture |-> i]
    IN  /\ Logged(c, outcome)
        /\ Goto(c, [engine[c] EXCEPT
              !.pc = "step",
              !.at = i + 1,
              !.vars = Over(new, @),
              !.captures = Over(new, @),
              !.handles = IF step.background THEN Append(@, i) ELSE @,
              !.stdout = IF step.type = "run" /\ ~step.background
                         THEN i ELSE @])

MissingVariable(c) ==
    /\ HasStep(c)
    /\ Missing(Current(c), engine[c].vars)
    /\ Failed(c, "sequence_step_failed", "missing")
    /\ UNCHANGED <<plan, row, ref, did, late, pane, faults>>

Spawn(c) ==
    /\ HasStep(c)
    /\ Current(c).type = "run"
    /\ ~Missing(Current(c), engine[c].vars)
    /\ did' = [did EXCEPT ![c] = FALSE]
    /\ IF Current(c).background
       THEN /\ Succeeded(c, "ok")
            /\ Later(Text(c), Current(c).does)
       ELSE /\ Goto(c, [engine[c] EXCEPT !.pc = "child"])
            /\ UNCHANGED <<log, late>>
    /\ UNCHANGED <<plan, row, ref, pane, faults>>

WriteStep(c) ==
    /\ HasStep(c)
    /\ Current(c).type = "write_file"
    /\ ~Missing(Current(c), engine[c].vars)
    /\ \/ Succeeded(c, "ok") /\ UNCHANGED faults
       \/ Failed(c, "sequence_step_failed", "error") /\ Fault
    /\ UNCHANGED <<plan, row, ref, did, late, pane>>

Pause(c) ==
    /\ HasStep(c)
    /\ Current(c).type = "wait_ms"
    /\ Goto(c, [engine[c] EXCEPT !.pc = "pause"])
    /\ UNCHANGED <<plan, row, ref, log, did, late, pane, faults>>

(* 200 ms: the text this caller injected has arrived by then.              *)
PauseEnds(c) ==
    /\ At(c, "pause")
    /\ \A e \in late : e.by # Text(c)
    /\ Succeeded(c, "ok")
    /\ UNCHANGED <<plan, row, ref, did, late, pane, faults>>

----------------------------------------------------------------------------
(* The child process of a run step.                                        *)

CommandActs(c) ==
    /\ At(c, "child")
    /\ ~did[c]
    /\ CanAct(Current(c).does)
    /\ pane' = PaneAfter(Current(c).does, Text(c))
    /\ IF Current(c).does = "inject"
       THEN Later(Text(c), "type") ELSE UNCHANGED late
    /\ did' = [did EXCEPT ![c] = TRUE]
    /\ UNCHANGED <<plan, row, ref, engine, log, faults>>

(* close with code 0; a capture may still not match what it printed.       *)
ExitsZero(c) ==
    /\ At(c, "child")
    /\ did[c]
    /\ \/ Succeeded(c, "ok") /\ UNCHANGED faults
       \/ /\ Current(c).capture # {}
          /\ Failed(c, "capture_failed", "capture")
          /\ Fault
    /\ UNCHANGED <<plan, row, ref, did, late, pane>>

(* mutant: every end of a command counts as exit 0                         *)
AnyExitWorks(c) ==
    /\ At(c, "child")
    /\ Succeeded(c, "ok")
    /\ Fault
    /\ UNCHANGED <<plan, row, ref, did, late, pane>>

(* close with another code.  A command that finds no pane says so.         *)
ExitsNonZero(c) ==
    /\ At(c, "child")
    /\ Failed(c, "sequence_step_failed", "exit")
    /\ IF did[c] \/ CanAct(Current(c).does) THEN Fault ELSE UNCHANGED faults
    /\ UNCHANGED <<plan, row, ref, did, late, pane>>

(* close with code null: `code ?? 0`.                                      *)
KilledBySignal(c) ==
    /\ At(c, "child")
    /\ \/ Succeeded(c, "signal")
       \/ /\ Current(c).capture # {}
          /\ Failed(c, "capture_failed", "capture")
    /\ Fault
    /\ UNCHANGED <<plan, row, ref, did, late, pane>>

SpawnFails(c) ==
    /\ At(c, "child")
    /\ ~did[c]
    /\ Failed(c, "sequence_step_failed", "error")
    /\ Fault
    /\ UNCHANGED <<plan, row, ref, did, late, pane>>

(* mutant: the timer is only set for steps whose failure matters           *)
HasTimerUnlessIgnored(step) == step.timed /\ ~step.ignore

HasTimer(step) == step.timed

(* SIGKILL for the shell; its own child may outlive it.                    *)
TimesOut(c) ==
    /\ At(c, "child")
    /\ HasTimer(Current(c))
    /\ Failed(c, "timeout", "timeout")
    /\ IF did[c] THEN UNCHANGED late ELSE Later(Text(c), Current(c).does)
    /\ UNCHANGED <<plan, row, ref, did, pane, faults>>

(* Injected text arrives, an orphan or a background command acts, or it    *)
(* dies without having acted.                                              *)
LateEffect(e) ==
    /\ e \in late
    /\ \/ CanAct(e.does) /\ pane' = PaneAfter(e.does, e.by)
       \/ UNCHANGED pane /\ (CanAct(e.does) => e.does # "type")
    /\ late' = late \ {e}
    /\ UNCHANGED <<plan, row, ref, engine, log, did, faults>>

----------------------------------------------------------------------------
(* The operations: which sequence comes next.                              *)

Finish(c, code) ==
    [engine[c] EXCEPT !.pc = "done", !.result = code]

Start(c) ==
    /\ At(c, "idle")
    /\ LET kind == plan[c].kind
       IN  \/ /\ kind = "create"
              /\ ~HasRow
              /\ Goto(c, Begin("create", Given(BaseNames)))
           \/ /\ kind = "send"
              /\ HasRow
              /\ Goto(c, Begin("send", SendVars(ref)))
           \/ /\ kind = "close"
              /\ HasRow
              /\ Goto(c, IF Owned THEN Begin("close", ref)
                         ELSE Finish(c, "ok"))
           \/ /\ kind = "peek"
              /\ HasRow
              /\ Goto(c, IF Peekable(plan[c].template)
                         THEN Begin("peek", PeekVars(ref))
                         ELSE Finish(c, "unsupported"))
           \/ /\ kind = "job"
              /\ Goto(c, Begin("job", Given(BaseNames)))
    /\ UNCHANGED <<plan, row, ref, log, did, late, pane, faults>>

EndOfSequence(c) ==
    /\ At(c, "step")
    /\ engine[c].at > Len(Steps(c))
    /\ Goto(c, Finish(c, "ok"))
    /\ UNCHANGED <<plan, row, ref, log, did, late, pane, faults>>

Next1(c, stage, variables) ==
    /\ Goto(c, Begin(stage, variables))
    /\ log' = [log EXCEPT ![c] = <<>>]

(* mutant: the declared refs are forgotten                                 *)
OnlyCaptures(c) == engine[c].captures

(* mux_ref: the declared refs, overridden by what create captured.         *)
MuxRef(c) == Over(engine[c].captures, DeclaredRefs(plan[c].template))
RunVars(c) == Over(MuxRef(c), Given(BaseNames))

(* attemptMuxCleanup; create-session then reports the error it had.        *)
CleanUp(c, variables) ==
    /\ Goto(c, [Begin("cleanup", variables) EXCEPT !.failed = engine[c].stage])
    /\ log' = [log EXCEPT ![c] = <<>>]

CreateGoesOn(c) ==
    /\ At(c, "done")
    /\ engine[c].stage = "create"
    /\ IF engine[c].result = "ok"
       THEN Next1(c, "start", RunVars(c))
       ELSE CleanUp(c, Given(BaseNames))
    /\ UNCHANGED <<plan, row, ref, did, late, pane, faults>>

InsertRow(c, r) ==
    /\ row' = "created"
    /\ ref' = r
    /\ Goto(c, [engine[c] EXCEPT !.pc = "over"])

RefIn(variables) == Restrict(variables, DOMAIN variables \ BaseNames)

StartGoesOn(c) ==
    /\ At(c, "done")
    /\ engine[c].stage \in {"start", "boot", "paste"}
    /\ LET kept == Restrict(engine[c].vars, DOMAIN engine[c].vars \ {"message"})
           more == engine[c].stage # "paste" /\ plan[c].paste
       IN  \/ /\ engine[c].result # "ok"
              /\ CleanUp(c, kept)
              /\ UNCHANGED <<row, ref>>
           \/ /\ engine[c].result = "ok" /\ more
              /\ IF engine[c].stage = "start"
                 THEN Next1(c, "boot", kept)
                 ELSE Next1(c, "paste", Over(Given({"message"}), kept))
              /\ UNCHANGED <<row, ref>>
           \/ /\ engine[c].result = "ok" /\ ~more
              /\ InsertRow(c, RefIn(kept))
              /\ UNCHANGED log
    /\ UNCHANGED <<plan, did, late, pane, faults>>

EngineStep(c) ==
    \/ Start(c) \/ MissingVariable(c) \/ Spawn(c) \/ WriteStep(c)
    \/ Pause(c) \/ PauseEnds(c) \/ TimesOut(c) \/ EndOfSequence(c)
    \/ CreateGoesOn(c) \/ StartGoesOn(c)

CommandStep(c) ==
    \/ CommandActs(c) \/ ExitsZero(c) \/ ExitsNonZero(c)
    \/ KilledBySignal(c) \/ SpawnFails(c)

Next ==
    \/ \E c \in Caller : EngineStep(c) \/ CommandStep(c)
    \/ \E e \in late : LateEffect(e)

(* asem and its timers run on; late effects land; no command has to end.   *)
Fairness ==
    /\ \A c \in Caller : WF_vars(EngineStep(c))
    /\ WF_vars(\E e \in late : LateEffect(e))

Spec == Init /\ [][Next]_vars
FairSpec == Spec /\ Fairness

----------------------------------------------------------------------------

(* What the theorems about the builtin templates assume of the plans:      *)
(* every Session uses a builtin template, no job opens a pane, and all     *)
(* callers use the template that the row of the Session names.             *)
BuiltinPlans ==
    \A p \in Plans, c \in Caller :
        /\ p[c].template \in BuiltinMux
        /\ \A i \in DOMAIN p[c].steps : p[c].steps[i].does # "open"

OneTemplate == \A p \in Plans, c, d \in Caller : p[c].template = p[d].template

(* The sequences a user brings do nothing to the pane.                     *)
JobsLook ==
    \A p \in Plans, c \in Caller :
        \A i \in DOMAIN p[c].steps : p[c].steps[i].does = "look"

Worked == {"ok", "signal"}
Good(c) == {i \in DOMAIN log[c] : log[c][i] \in Worked}
Fatal(c) == {i \in DOMAIN log[c] : i \notin Good(c) /\ ~Steps(c)[i].ignore}

CodeOf(outcome) ==
    CASE outcome = "timeout" -> "timeout"
      [] outcome = "capture" -> "capture_failed"
      [] OTHER -> "sequence_step_failed"

(* What SequenceEngine.run and runForFinalStdout return, told from what    *)
(* came of the steps: nothing runs after a failure that is not ignored;    *)
(* a variable holds what the last step that captured it saw; the final     *)
(* stdout is the one of the last foreground command that worked.           *)
ResultMeetsDefinition ==
    \A c \in Caller :
        At(c, "done") /\ engine[c].result # "unsupported" =>
          LET good == Good(c)
              steps == Steps(c)
          IN  /\ IF Fatal(c) = {}
                 THEN Len(log[c]) = Len(steps) /\ engine[c].result = "ok"
                 ELSE /\ Fatal(c) = {Len(log[c])}
                      /\ engine[c].result = CodeOf(Last(log[c]))
              /\ engine[c].captures =
                    [n \in UNION {steps[i].capture : i \in good} |->
                        Max({i \in good : n \in steps[i].capture})]
              /\ engine[c].stdout =
                    Max({0} \cup {i \in good : steps[i].type = "run"
                                            /\ ~steps[i].background})
              /\ Range(engine[c].handles) =
                    {i \in good : steps[i].background}

(* The four builtin templates fit together: every variable that send,      *)
(* close, peek, attach and the cleanup after a started pane name is in the *)
(* mux ref that create-session stores, whatever was ignored or captured on *)
(* the way.  (A ref that init-session registered may lack some.)           *)
RefsSuffice ==
    \A c \in Caller :
        /\ "missing" \in Range(log[c]) =>
              \/ plan[c].kind = "job"
              \/ engine[c].stage \in {"send", "close", "peek"} /\ ~Owned
              \/ engine[c].stage = "cleanup" /\ engine[c].failed = "create"
        /\ Owned => AttachHint(plan[c].template.attach, AttachVars(ref))

Sender(c) == plan[c].kind = "send"
OneSender == \A c, d \in Caller : Sender(c) /\ Sender(d) => c = d

(* While one Message is sent at a time and no command goes wrong, each     *)
(* line the agent gets is the whole of one text, with nothing of another:  *)
(* launch command, pasted prompt and Message.                              *)
LinesAreWhole ==
    faults = 0 /\ OneSender =>
        \A i \in DOMAIN pane.lines : Len(pane.lines[i]) = 1

(* A send that reports success, and so a Message marked delivered, had its *)
(* text submitted, also when two senders share the pane and their texts    *)
(* end up on one line.  A command that dies by a signal is the exception:  *)
(* the runner takes it for a success.                                      *)
DeliveredIsSubmitted ==
    \A c \in Caller :
        /\ At(c, "done")
        /\ engine[c].stage = "send"
        /\ engine[c].result = "ok"
        /\ "signal" \notin Range(log[c])
        => \E i \in DOMAIN pane.lines : c \in Range(pane.lines[i])

(* A create that fails once its pane is up, in run_in_pane, before_paste   *)
(* or the paste, ends without a pane when its cleanup commands work.       *)
FailedStartLeavesNoPane ==
    \A c \in Caller :
        /\ ~Busy(c)
        /\ engine[c].stage = "cleanup"
        /\ engine[c].failed # "create"
        /\ \A i \in Good(c) : log[c][i] = "ok"
        /\ "exit" \notin Range(log[c])
        /\ "error" \notin Range(log[c])
        => ~pane.open

(* The sequences of a builtin template fit together: what the later ones   *)
(* name the earlier ones leave, and cleanup takes back what they did.      *)
TemplatesFitTogether == TypeOK /\ RefsSuffice /\ FailedStartLeavesNoPane

(* A sequence whose commands all have timeout_ms ends, even when none of   *)
(* its commands does.                                                      *)
AllTimed(c) ==
    \A i \in DOMAIN Steps(c) :
        LET s == Steps(c)[i] IN s.type = "run" => s.timed \/ s.background

TimedSequencesEnd ==
    \A c \in Caller : Busy(c) /\ AllTimed(c) ~> ~Busy(c)
=============================================================================
