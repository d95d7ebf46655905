--------------------------- MODULE Sequence_Proofs ----------------------------
(***************************************************************************)
(* Theorems about Sequence, for any callers, templates, mux refs and       *)
(* faults.                                                                 *)
(***************************************************************************)
EXTENDS Sequence, TLAPS

(***************************************************************************)
(* The engine: what it has gathered is what the definition says of the     *)
(* outcomes so far.                                                        *)
(***************************************************************************)

(* The sequence an engine e is in, for a caller with plan p.               *)
StepsOf(e, p) ==
    LET t == p.template
    IN  CASE e.stage = "create" -> t.create
          [] e.stage = "start" -> t.run_in_pane
          [] e.stage = "boot" -> <<Wait>>
          [] e.stage \in {"paste", "send"} -> t.send
          [] e.stage \in {"cleanup", "close"} -> t.close
          [] e.stage = "peek" -> t.peek
          [] e.stage = "job" -> p.steps

WholeEngine(e) ==
    e = [pc |-> e.pc, stage |-> e.stage, at |-> e.at, vars |-> e.vars,
         captures |-> e.captures, handles |-> e.handles, stdout |-> e.stdout,
         result |-> e.result, failed |-> e.failed]

GoodIn(lg) == {i \in DOMAIN lg : lg[i] \in Worked}
FatalIn(lg, st) == {i \in DOMAIN lg : i \notin GoodIn(lg) /\ ~st[i].ignore}

CapturesOf(good, st) ==
    [n \in UNION {st[i].capture : i \in good} |-> Max({i \in good : n \in st[i].capture})]
StdoutOf(good, st) ==
    Max({0} \cup {i \in good : st[i].type = "run" /\ ~st[i].background})

Tells(e, good, st) ==
    /\ e.captures = CapturesOf(good, st)
    /\ e.stdout = StdoutOf(good, st)
    /\ Range(e.handles) = {i \in good : st[i].background}

Told(e, lg, st) ==
    /\ IF FatalIn(lg, st) = {}
       THEN Len(lg) = Len(st) /\ e.result = "ok"
       ELSE FatalIn(lg, st) = {Len(lg)} /\ e.result = CodeOf(Last(lg))
    /\ Tells(e, GoodIn(lg), st)

Sound(e, lg, p) ==
    LET st == StepsOf(e, p)
    IN  /\ WholeEngine(e) /\ e.stage \in Stages /\ e.result \in Codes
        /\ e.pc \in {"idle", "step", "child", "pause", "done", "over"}
        /\ e.at \in 1 .. Len(st) + 1 /\ e.stdout \in 0 .. Len(st)
        /\ e.handles \in Seq(Nat)
        /\ lg \in Seq(Outcomes) /\ Len(lg) <= Len(st)
        /\ e.pc = "idle" => e = Idle /\ lg = <<>>
        /\ e.pc \in {"step", "child", "pause"} =>
              /\ Len(lg) = e.at - 1 /\ FatalIn(lg, st) = {} /\ Tells(e, GoodIn(lg), st)
        /\ e.pc \in {"child", "pause"} => e.at <= Len(st)
        /\ e.pc = "child" => st[e.at].type = "run"
        /\ e.pc = "done" /\ e.result # "unsupported" => Told(e, lg, st)

EngineInv ==
    /\ plan \in Plans
    /\ engine = [c \in Caller |-> engine[c]]
    /\ log = [c \in Caller |-> log[c]]
    /\ \A c \in Caller : Sound(engine[c], log[c], plan[c])

-----------------------------------------------------------------------------
(***************************************************************************)
(* Sequences of steps and of outcomes.                                     *)
(***************************************************************************)

LEMMA Greatest ==
    ASSUME NEW S \in SUBSET Nat, NEW m \in S, \A i \in S : i <= m
    PROVE  Max(S) = m
<1>1. \A y \in S : m >= y
  OBVIOUS
<1>2. \A x \in S : (\A y \in S : x >= y) => x = m
  OBVIOUS
<1>. QED  BY <1>1, <1>2 DEF Max

LEMMA StepTypes ==
    /\ Wait \in TemplateStep
    /\ <<Wait>> \in Seq(TemplateStep)
<1>1. Wait = [type |-> "wait_ms", needs |-> {}, does |-> "look", capture |-> {},
              ignore |-> FALSE, timed |-> FALSE, background |-> FALSE]
  BY DEF Wait, Step
<1>2. Wait \in TemplateStep
  BY <1>1 DEF TemplateStep, Effects
<1>. QED  BY <1>2

LEMMA StepsTyped ==
    ASSUME NEW p \in Plan, NEW e, e.stage \in Stages
    PROVE  StepsOf(e, p) \in Seq(TemplateStep)
<1>1. p.template \in Template /\ p.steps \in Seq(TemplateStep)
  BY DEF Plan
<1>2. /\ p.template.create \in Seq(TemplateStep) /\ p.template.run_in_pane \in Seq(TemplateStep)
      /\ p.template.send \in Seq(TemplateStep) /\ p.template.peek \in Seq(TemplateStep)
      /\ p.template.close \in Seq(TemplateStep)
  BY <1>1 DEF Template
<1>. QED  BY <1>1, <1>2, StepTypes DEF StepsOf, Stages

(* One more outcome.                                                       *)
LEMMA OneMore ==
    ASSUME NEW lg \in Seq(Outcomes), NEW o \in Outcomes, NEW st
    PROVE  /\ Append(lg, o) \in Seq(Outcomes) /\ Len(Append(lg, o)) = Len(lg) + 1
           /\ Last(Append(lg, o)) = o
           /\ GoodIn(lg) \subseteq 1 .. Len(lg)
           /\ GoodIn(Append(lg, o)) =
                 GoodIn(lg) \cup (IF o \in Worked THEN {Len(lg) + 1} ELSE {})
           /\ FatalIn(Append(lg, o), st) =
                 FatalIn(lg, st) \cup (IF o \notin Worked /\ ~st[Len(lg) + 1].ignore
                                       THEN {Len(lg) + 1} ELSE {})
<1>. DEFINE n == Len(lg)
            more == Append(lg, o)
<1>1. /\ more \in Seq(Outcomes) /\ Len(more) = n + 1 /\ DOMAIN more = 1 .. n + 1
      /\ DOMAIN lg = 1 .. n /\ n \in Nat
      /\ \A i \in 1 .. n : more[i] = lg[i]
      /\ more[n + 1] = o
  OBVIOUS
<1>2. Last(more) = o
  BY <1>1 DEF Last
<1>. HIDE DEF n, more
<1>3. GoodIn(more) = GoodIn(lg) \cup (IF o \in Worked THEN {n + 1} ELSE {})
  BY <1>1 DEF GoodIn
<1>4. n + 1 \notin GoodIn(lg) /\ GoodIn(lg) \subseteq 1 .. n
  BY <1>1 DEF GoodIn
<1>5. FatalIn(more, st) =
          FatalIn(lg, st) \cup (IF o \notin Worked /\ ~st[n + 1].ignore THEN {n + 1} ELSE {})
  BY <1>1, <1>3, <1>4 DEF FatalIn
<1>. QED  BY <1>1, <1>2, <1>3, <1>4, <1>5 DEF n, more

LEMMA Nothing ==
    ASSUME NEW st, NEW e, e.captures = Given({}), e.handles = <<>>, e.stdout = 0
    PROVE  GoodIn(<<>>) = {} /\ FatalIn(<<>>, st) = {} /\ Tells(e, {}, st)
<1>1. GoodIn(<<>>) = {} /\ FatalIn(<<>>, st) = {}
  BY DEF GoodIn, FatalIn
<1>2. StdoutOf({}, st) = 0
  BY Greatest DEF StdoutOf
<1>3. CapturesOf({}, st) = Given({})
  <2>1. UNION {st[i].capture : i \in {}} = {}
    OBVIOUS
  <2>. QED  BY <2>1 DEF CapturesOf, Given
<1>4. Range(<<>>) = {}
  BY DEF Range
<1>. QED  BY <1>1, <1>2, <1>3, <1>4 DEF Tells

(* What the engine does with a success is what the definition says of one  *)
(* more good outcome.                                                      *)
LEMMA Gathers ==
    ASSUME NEW st \in Seq(TemplateStep), NEW i \in 1 .. Len(st),
           NEW good \in SUBSET (1 .. i - 1), NEW e, Tells(e, good, st),
           e.handles \in Seq(Nat),
           NEW f,
           f.captures = Over([n \in st[i].capture |-> i], e.captures),
           f.handles = (IF st[i].background THEN Append(e.handles, i) ELSE e.handles),
           f.stdout = (IF st[i].type = "run" /\ ~st[i].background THEN i ELSE e.stdout)
    PROVE  /\ Tells(f, good \cup {i}, st) /\ f.handles \in Seq(Nat)
           /\ f.stdout = i \/ f.stdout = e.stdout
<1>. DEFINE more == good \cup {i}
<1>0. i \in Nat /\ good \subseteq Nat /\ \A j \in good : j < i
  OBVIOUS
<1>1. f.captures = CapturesOf(more, st)
  <2>1. DOMAIN CapturesOf(more, st) = st[i].capture \cup DOMAIN e.captures
    BY DEF CapturesOf, Tells
  <2>2. ASSUME NEW n \in st[i].capture
        PROVE  CapturesOf(more, st)[n] = i
    <3>1. Max({j \in more : n \in st[j].capture}) = i
      BY <1>0, <2>2, Greatest
    <3>. QED  BY <3>1 DEF CapturesOf
  <2>3. ASSUME NEW n \in DOMAIN e.captures, n \notin st[i].capture
        PROVE  CapturesOf(more, st)[n] = e.captures[n]
    <3>1. {j \in more : n \in st[j].capture} = {j \in good : n \in st[j].capture}
      BY <2>3
    <3>2. n \in UNION {st[j].capture : j \in good}
      BY DEF Tells, CapturesOf
    <3>. QED  BY <3>1, <3>2 DEF Tells, CapturesOf
  <2>4. f.captures = [n \in st[i].capture \cup DOMAIN e.captures |->
                        IF n \in st[i].capture THEN i ELSE e.captures[n]]
    BY DEF Over
  <2>5. CapturesOf(more, st) = [n \in DOMAIN CapturesOf(more, st) |-> CapturesOf(more, st)[n]]
    BY DEF CapturesOf
  <2>. QED  BY <2>1, <2>2, <2>3, <2>4, <2>5
<1>2. f.stdout = StdoutOf(more, st)
  <2>1. CASE st[i].type = "run" /\ ~st[i].background
    <3>1. PICK S : S = {0} \cup {j \in more : st[j].type = "run" /\ ~st[j].background}
      OBVIOUS
    <3>2. S \in SUBSET Nat /\ i \in S /\ \A j \in S : j <= i
      <4>1. S \subseteq {0} \cup more /\ i \in S
        BY <2>1, <3>1
      <4>2. {0} \cup more \subseteq Nat /\ \A j \in {0} \cup more : j <= i
        BY <1>0
      <4>. QED  BY <4>1, <4>2
    <3>3. Max(S) = i
      BY <3>2, Greatest
    <3>. QED  BY <2>1, <3>1, <3>3 DEF StdoutOf
  <2>2. CASE ~(st[i].type = "run" /\ ~st[i].background)
    <3>1. {j \in more : st[j].type = "run" /\ ~st[j].background}
              = {j \in good : st[j].type = "run" /\ ~st[j].background}
      BY <2>2
    <3>. QED  BY <2>2, <3>1 DEF StdoutOf, Tells
  <2>. QED  BY <2>1, <2>2
<1>3. Range(f.handles) = {j \in more : st[j].background} /\ f.handles \in Seq(Nat)
  <2>1. Range(e.handles) = {j \in good : st[j].background}
    BY DEF Tells
  <2>2. CASE st[i].background
    <3>1. f.handles = Append(e.handles, i)
      BY <2>2
    <3>2. Range(Append(e.handles, i)) = Range(e.handles) \cup {i}
      <4>1. DOMAIN e.handles = 1 .. Len(e.handles) /\ Len(e.handles) \in Nat
        OBVIOUS
      <4>2. DOMAIN Append(e.handles, i) = 1 .. Len(e.handles) + 1
        BY <1>0
      <4>3. /\ \A j \in 1 .. Len(e.handles) : Append(e.handles, i)[j] = e.handles[j]
            /\ Append(e.handles, i)[Len(e.handles) + 1] = i
        BY <1>0
      <4>4. PICK h, n : h = Append(e.handles, i) /\ n = Len(e.handles)
        OBVIOUS
      <4>5. Range(h) \subseteq Range(e.handles) \cup {i}
        BY <4>1, <4>2, <4>3, <4>4 DEF Range
      <4>6. Range(e.handles) \cup {i} \subseteq Range(h)
        BY <4>1, <4>2, <4>3, <4>4 DEF Range
      <4>. QED  BY <4>4, <4>5, <4>6
    <3>. QED  BY <1>0, <2>1, <2>2, <3>1, <3>2
  <2>3. CASE ~st[i].background
    BY <2>1, <2>3
  <2>. QED  BY <2>2, <2>3
<1>. QED  BY <1>1, <1>2, <1>3 DEF Tells

-----------------------------------------------------------------------------
(***************************************************************************)
(* One engine takes a step.                                                *)
(***************************************************************************)

LEMMA EmptyFits ==
    /\ <<>> \in Seq(Nat) /\ <<>> \in Seq(Outcomes)
    /\ Len(<<>>) = 0
<1>1. \A S : <<>> \in Seq(S)
  OBVIOUS
<1>2. Len(<<>>) = 0
  OBVIOUS
<1>. QED  BY <1>1, <1>2

LEMMA BeginFits ==
    ASSUME NEW stage, NEW variables
    PROVE  Begin(stage, variables) =
               [pc |-> "step", stage |-> stage, at |-> 1, vars |-> variables,
                captures |-> Given({}), handles |-> <<>>, stdout |-> 0, result |-> "",
                failed |-> ""]
  BY DEF Begin

LEMMA FirstStep ==
    ASSUME NEW st \in Seq(TemplateStep)
    PROVE  1 \in 1 .. Len(st) + 1 /\ 0 \in 0 .. Len(st) /\ 0 <= Len(st)
  OBVIOUS

(* Nothing has run in it.                                                  *)
Fresh(f) ==
    /\ WholeEngine(f) /\ f.stage \in Stages /\ f.at = 1 /\ f.captures = Given({})
    /\ f.handles = <<>> /\ f.stdout = 0

LEMMA FreshFits ==
    ASSUME NEW p \in Plan, NEW f, Fresh(f)
    PROVE  /\ WholeEngine(f) /\ f.stage \in Stages
           /\ f.at \in 1 .. Len(StepsOf(f, p)) + 1 /\ f.stdout \in 0 .. Len(StepsOf(f, p))
           /\ f.handles \in Seq(Nat) /\ <<>> \in Seq(Outcomes)
           /\ Len(<<>>) <= Len(StepsOf(f, p)) /\ Len(<<>>) = f.at - 1
           /\ FatalIn(<<>>, StepsOf(f, p)) = {}
           /\ Tells(f, GoodIn(<<>>), StepsOf(f, p))
<1>1. StepsOf(f, p) \in Seq(TemplateStep)
  BY StepsTyped DEF Fresh
<1>2. PICK st : st = StepsOf(f, p)
  OBVIOUS
<1>3. PICK a, b : a = f.at /\ b = f.stdout
  OBVIOUS
<1>4. a = 1 /\ b = 0
  BY <1>3 DEF Fresh
<1>5. a \in 1 .. Len(st) + 1 /\ b \in 0 .. Len(st) /\ 0 <= Len(st) /\ 0 = a - 1
  BY <1>1, <1>2, <1>4, FirstStep
<1>6. GoodIn(<<>>) = {} /\ FatalIn(<<>>, st) = {} /\ Tells(f, {}, st)
  BY Nothing DEF Fresh
<1>7. WholeEngine(f) /\ f.stage \in Stages /\ f.handles \in Seq(Nat)
  BY EmptyFits DEF Fresh
<1>. QED  BY <1>2, <1>3, <1>5, <1>6, <1>7, EmptyFits

(* A sequence that has just begun.                                         *)
LEMMA BegunSound ==
    ASSUME NEW p \in Plan, NEW f, Fresh(f), f.pc = "step", f.result \in Codes
    PROVE  Sound(f, <<>>, p)
  BY FreshFits DEF Sound

LEMMA IdleFits ==
    Fresh(Idle) /\ Idle.pc = "idle" /\ Idle.stage = "job" /\ Idle.result = ""
<1>1. Idle = [Begin("job", Given({})) EXCEPT !.pc = "idle"]
  BY DEF Idle
<1>2. PICK b, g : b = Begin("job", Given({})) /\ g = Given({})
  OBVIOUS
<1>3. b = [pc |-> "step", stage |-> "job", at |-> 1, vars |-> g,
           captures |-> g, handles |-> <<>>, stdout |-> 0, result |-> "",
           failed |-> ""]
  BY <1>2, BeginFits
<1>4. Idle = [b EXCEPT !.pc = "idle"]
  BY <1>1, <1>2
<1>5. /\ WholeEngine(Idle) /\ Idle.pc = "idle" /\ Idle.stage = "job" /\ Idle.at = 1
      /\ Idle.captures = g /\ Idle.handles = <<>> /\ Idle.stdout = 0
      /\ Idle.result = ""
  BY <1>3, <1>4 DEF WholeEngine
<1>. QED  BY <1>2, <1>5 DEF Fresh, Stages

LEMMA IdleSound ==
    ASSUME NEW p \in Plan
    PROVE  Sound(Idle, <<>>, p)
<1>1. "" \in Codes
  BY DEF Codes
<1>. QED  BY <1>1, IdleFits, FreshFits DEF Sound

(* An operation that needs no sequence is done at once.                    *)
LEMMA AtOnceSound ==
    ASSUME NEW p \in Plan, p.steps = <<>>, NEW code \in {"ok", "unsupported"},
           NEW f, f = [Idle EXCEPT !.pc = "done", !.result = code]
    PROVE  Sound(f, <<>>, p)
<1>1. f.pc = "done" /\ f.result = code /\ f.stage = "job"
  BY IdleFits DEF Fresh, WholeEngine
<1>2. Fresh(f)
  BY IdleFits DEF Fresh, WholeEngine
<1>3. StepsOf(f, p) = <<>>
  BY <1>1 DEF StepsOf
<1>4. code = "ok" => Told(f, <<>>, StepsOf(f, p))
  BY <1>1, <1>2, <1>3, FreshFits DEF Told
<1>5. f.result \in Codes
  BY <1>1 DEF Codes
<1>. QED  BY <1>1, <1>2, <1>4, <1>5, FreshFits DEF Sound

LEMMA StageKeepsSteps ==
    ASSUME NEW e, NEW f, NEW p, f.stage = e.stage
    PROVE  StepsOf(f, p) = StepsOf(e, p)
  BY DEF StepsOf

(* The engine waits for a child or a timer, or closes the operation.       *)
LEMMA MovesSound ==
    ASSUME NEW p \in Plan, NEW lg, NEW e, Sound(e, lg, p),
           NEW pc \in {"child", "pause", "over"}, NEW f, f = [e EXCEPT !.pc = pc],
           pc # "over" => e.pc = "step" /\ e.at <= Len(StepsOf(e, p)),
           pc = "child" => StepsOf(e, p)[e.at].type = "run"
    PROVE  Sound(f, lg, p)
<1>1. /\ WholeEngine(f) /\ f.pc = pc /\ f.stage = e.stage /\ f.at = e.at
      /\ f.captures = e.captures /\ f.handles = e.handles /\ f.stdout = e.stdout
      /\ f.result = e.result
  BY DEF Sound, WholeEngine
<1>2. StepsOf(f, p) = StepsOf(e, p)
  BY <1>1, StageKeepsSteps
<1>. QED  BY <1>1, <1>2 DEF Sound, Tells

(* The engine after a success, and after a failure.                        *)
Advanced(e, step) ==
    [e EXCEPT
        !.pc = "step",
        !.at = e.at + 1,
        !.vars = Over([n \in step.capture |-> e.at], @),
        !.captures = Over([n \in step.capture |-> e.at], @),
        !.handles = IF step.background THEN Append(@, e.at) ELSE @,
        !.stdout = IF step.type = "run" /\ ~step.background THEN e.at ELSE @]
Stopped(e, step, code) ==
    IF step.ignore THEN [e EXCEPT !.pc = "step", !.at = @ + 1]
    ELSE [e EXCEPT !.pc = "done", !.result = code]

LEMMA SuccessSound ==
    ASSUME NEW p \in Plan, NEW lg, NEW e, Sound(e, lg, p),
           e.pc \in {"step", "child", "pause"}, e.at <= Len(StepsOf(e, p)),
           NEW o \in Worked, NEW step, step = StepsOf(e, p)[e.at],
           NEW f, f = Advanced(e, step)
    PROVE  Sound(f, Append(lg, o), p)
<1>0. PICK st : st = StepsOf(e, p)
  OBVIOUS
<1>1. /\ WholeEngine(e) /\ e.stage \in Stages /\ lg \in Seq(Outcomes)
      /\ Len(lg) = e.at - 1 /\ FatalIn(lg, st) = {} /\ Tells(e, GoodIn(lg), st)
      /\ e.at \in 1 .. Len(st) + 1 /\ e.handles \in Seq(Nat) /\ e.result \in Codes
      /\ e.stdout \in 0 .. Len(st) /\ e.at <= Len(st) /\ step = st[e.at]
  BY <1>0 DEF Sound
<1>2. st \in Seq(TemplateStep) /\ Len(st) \in Nat
  BY <1>0, <1>1, StepsTyped
<1>3. /\ WholeEngine(f) /\ f.pc = "step" /\ f.stage = e.stage /\ f.at = e.at + 1
      /\ f.captures = Over([n \in step.capture |-> e.at], e.captures)
      /\ f.handles = (IF step.background THEN Append(e.handles, e.at) ELSE e.handles)
      /\ f.stdout = (IF step.type = "run" /\ ~step.background THEN e.at ELSE e.stdout)
      /\ f.result = e.result
  BY <1>1 DEF WholeEngine, Advanced
<1>4. StepsOf(f, p) = st
  <2>1. f.stage = e.stage
    BY <1>3
  <2>. QED  BY <1>0, <2>1, StageKeepsSteps
<1>5. PICK i : i = e.at
  OBVIOUS
<1>6. i \in 1 .. Len(st) /\ Len(lg) + 1 = i /\ o \in Outcomes
  BY <1>1, <1>2, <1>5 DEF Worked, Outcomes
<1>7. /\ Append(lg, o) \in Seq(Outcomes) /\ Len(Append(lg, o)) = i
      /\ GoodIn(lg) \in SUBSET (1 .. i - 1)
      /\ GoodIn(Append(lg, o)) = GoodIn(lg) \cup {i}
      /\ FatalIn(Append(lg, o), st) = {}
  BY <1>1, <1>6, OneMore
<1>8. /\ Tells(f, GoodIn(lg) \cup {i}, st) /\ f.handles \in Seq(Nat)
      /\ f.stdout = i \/ f.stdout = e.stdout
  <2>1. PICK good : good = GoodIn(lg)
    OBVIOUS
  <2>2. /\ good \in SUBSET (1 .. i - 1) /\ Tells(e, good, st) /\ e.handles \in Seq(Nat)
    BY <1>1, <1>7, <2>1
  <2>3. /\ f.captures = Over([n \in st[i].capture |-> i], e.captures)
        /\ f.handles = (IF st[i].background THEN Append(e.handles, i) ELSE e.handles)
        /\ f.stdout = (IF st[i].type = "run" /\ ~st[i].background THEN i ELSE e.stdout)
    BY <1>1, <1>3, <1>5
  <2>4. i \in 1 .. Len(st)
    BY <1>6
  <2>. QED  BY <1>2, <2>1, <2>2, <2>3, <2>4, Gathers
<1>9. f.at \in 1 .. Len(st) + 1 /\ f.stdout \in 0 .. Len(st) /\ f.at - 1 = i
  BY <1>1, <1>2, <1>3, <1>5, <1>6, <1>8
<1>10. WholeEngine(f) /\ f.pc = "step" /\ f.stage \in Stages /\ f.result \in Codes
  BY <1>1, <1>3
<1>11. Len(Append(lg, o)) = f.at - 1 /\ Len(Append(lg, o)) <= Len(st)
  BY <1>2, <1>6, <1>7, <1>9
<1>12. Tells(f, GoodIn(Append(lg, o)), st) /\ f.handles \in Seq(Nat)
  BY <1>7, <1>8
<1>. QED  BY <1>4, <1>7, <1>9, <1>10, <1>11, <1>12 DEF Sound

LEMMA FailureSound ==
    ASSUME NEW p \in Plan, NEW lg, NEW e, Sound(e, lg, p),
           e.pc \in {"step", "child", "pause"}, e.at <= Len(StepsOf(e, p)),
           NEW o \in Outcomes \ Worked, NEW step, step = StepsOf(e, p)[e.at],
           NEW f, f = Stopped(e, step, CodeOf(o))
    PROVE  Sound(f, Append(lg, o), p)
<1>0. PICK st : st = StepsOf(e, p)
  OBVIOUS
<1>1. /\ WholeEngine(e) /\ e.stage \in Stages /\ lg \in Seq(Outcomes)
      /\ Len(lg) = e.at - 1 /\ FatalIn(lg, st) = {} /\ Tells(e, GoodIn(lg), st)
      /\ e.at \in 1 .. Len(st) + 1 /\ e.handles \in Seq(Nat) /\ e.result \in Codes
      /\ e.stdout \in 0 .. Len(st) /\ e.at <= Len(st) /\ step = st[e.at]
  BY <1>0 DEF Sound
<1>2. st \in Seq(TemplateStep) /\ Len(st) \in Nat
  BY <1>0, <1>1, StepsTyped
<1>3. /\ WholeEngine(f) /\ f.stage = e.stage
      /\ f.captures = e.captures /\ f.handles = e.handles /\ f.stdout = e.stdout
      /\ IF step.ignore THEN f.pc = "step" /\ f.at = e.at + 1 /\ f.result = e.result
         ELSE f.pc = "done" /\ f.at = e.at /\ f.result = CodeOf(o)
  BY <1>1 DEF WholeEngine, Stopped
<1>4. StepsOf(f, p) = st
  <2>1. f.stage = e.stage
    BY <1>3
  <2>. QED  BY <1>0, <2>1, StageKeepsSteps
<1>5. PICK i : i = e.at
  OBVIOUS
<1>6. i \in 1 .. Len(st) /\ Len(lg) + 1 = i
  BY <1>1, <1>2, <1>5
<1>7. step = st[i] /\ o \in Outcomes /\ o \notin Worked
  BY <1>1, <1>5
<1>8. /\ Append(lg, o) \in Seq(Outcomes) /\ Len(Append(lg, o)) = i
      /\ Last(Append(lg, o)) = o
      /\ GoodIn(Append(lg, o)) = GoodIn(lg)
      /\ FatalIn(Append(lg, o), st) = (IF step.ignore THEN {} ELSE {i})
  <2>1. PICK more : more = Append(lg, o)
    OBVIOUS
  <2>2. /\ more \in Seq(Outcomes) /\ Len(more) = Len(lg) + 1 /\ Last(more) = o
        /\ GoodIn(more) = GoodIn(lg) \cup (IF o \in Worked THEN {Len(lg) + 1} ELSE {})
        /\ FatalIn(more, st) =
              FatalIn(lg, st) \cup (IF o \notin Worked /\ ~st[Len(lg) + 1].ignore
                                    THEN {Len(lg) + 1} ELSE {})
    BY <1>1, <1>7, <2>1, OneMore
  <2>. QED  BY <1>1, <1>6, <1>7, <2>1, <2>2
<1>9. Tells(f, GoodIn(lg), st)
  BY <1>1, <1>3 DEF Tells
<1>10. CodeOf(o) \in Codes
  BY DEF CodeOf, Codes
<1>11. CASE step.ignore
  <2>1. f.at \in 1 .. Len(st) + 1 /\ f.at - 1 = i
    BY <1>2, <1>3, <1>5, <1>6, <1>11
  <2>. QED  BY <1>1, <1>3, <1>4, <1>6, <1>8, <1>9, <1>11, <2>1 DEF Sound
<1>12. CASE ~step.ignore
  <2>1. Told(f, Append(lg, o), st)
    BY <1>3, <1>8, <1>9, <1>12 DEF Told
  <2>. QED  BY <1>1, <1>3, <1>4, <1>6, <1>8, <1>9, <1>10, <1>12, <2>1 DEF Sound
<1>. QED  BY <1>11, <1>12

LEMMA EndSound ==
    ASSUME NEW p \in Plan, NEW lg, NEW e, Sound(e, lg, p),
           e.pc = "step", e.at > Len(StepsOf(e, p)),
           NEW f, f = [e EXCEPT !.pc = "done", !.result = "ok"]
    PROVE  Sound(f, lg, p)
<1>1. /\ WholeEngine(f) /\ f.pc = "done" /\ f.stage = e.stage /\ f.at = e.at
      /\ f.captures = e.captures /\ f.handles = e.handles /\ f.stdout = e.stdout
      /\ f.result = "ok"
  BY DEF Sound, WholeEngine
<1>2. PICK st : st = StepsOf(e, p)
  OBVIOUS
<1>3. StepsOf(f, p) = st
  BY <1>1, <1>2, StageKeepsSteps
<1>4. Len(lg) = Len(st) /\ FatalIn(lg, st) = {} /\ Tells(e, GoodIn(lg), st)
  <2>1. st \in Seq(TemplateStep) /\ Len(st) \in Nat
    BY <1>2, StepsTyped DEF Sound
  <2>. QED  BY <1>2, <2>1 DEF Sound
<1>5. Told(f, lg, st)
  BY <1>1, <1>4 DEF Told, Tells
<1>. QED  BY <1>1, <1>2, <1>3, <1>5 DEF Sound, Codes

-----------------------------------------------------------------------------
(***************************************************************************)
(* Every step of the system keeps EngineInv.                               *)
(***************************************************************************)

LEMMA PlanFits ==
    ASSUME EngineInv, NEW c \in Caller
    PROVE  /\ plan[c] \in Plan /\ (plan[c].kind # "job" => plan[c].steps = <<>>)
           /\ Sound(engine[c], log[c], plan[c])
           /\ Steps(c) = StepsOf(engine[c], plan[c])
<1>1. plan \in [Caller -> Plan] /\ (plan[c].kind # "job" => plan[c].steps = <<>>)
  BY PlansAssumption DEF EngineInv
<1>2. Sound(engine[c], log[c], plan[c])
  BY DEF EngineInv
<1>3. Steps(c) = StepsOf(engine[c], plan[c])
  BY DEF Steps, StepsOf
<1>. QED  BY <1>1, <1>2, <1>3

LEMMA EngineMoves ==
    ASSUME EngineInv, NEW c \in Caller, NEW f, NEW l,
           Goto(c, f), log' = [log EXCEPT ![c] = l], plan' = plan,
           Sound(f, l, plan[c])
    PROVE  EngineInv'
<1>1. /\ engine = [d \in Caller |-> engine[d]] /\ log = [d \in Caller |-> log[d]]
      /\ plan \in Plans
      /\ \A d \in Caller : Sound(engine[d], log[d], plan[d])
  BY DEF EngineInv
<1>2. /\ engine' = [d \in Caller |-> IF d = c THEN f ELSE engine[d]]
      /\ log' = [d \in Caller |-> IF d = c THEN l ELSE log[d]]
  BY <1>1 DEF Goto
<1>3. /\ engine' = [d \in Caller |-> engine'[d]] /\ log' = [d \in Caller |-> log'[d]]
  BY <1>2
<1>4. ASSUME NEW d \in Caller
      PROVE  Sound(engine'[d], log'[d], plan'[d])
  <2>1. CASE d = c
    BY <1>2, <2>1
  <2>2. CASE d # c
    <3>1. engine'[d] = engine[d] /\ log'[d] = log[d] /\ plan'[d] = plan[d]
      BY <1>2, <2>2
    <3>. QED  BY <1>1, <3>1
  <2>. QED  BY <2>1, <2>2
<1>. QED  BY <1>1, <1>3, <1>4 DEF EngineInv

LEMMA EngineMovesAlone ==
    ASSUME EngineInv, NEW c \in Caller, NEW f,
           Goto(c, f), log' = log, plan' = plan, Sound(f, log[c], plan[c])
    PROVE  EngineInv'
<1>1. log = [d \in Caller |-> log[d]]
  BY DEF EngineInv
<1>2. log = [log EXCEPT ![c] = log[c]]
  BY <1>1
<1>3. PICK l : l = log[c]
  OBVIOUS
<1>4. log' = [log EXCEPT ![c] = l] /\ Sound(f, l, plan[c])
  BY <1>2, <1>3
<1>. QED  BY <1>4, EngineMoves

LEMMA OthersMove ==
    ASSUME EngineInv, UNCHANGED <<plan, engine, log>>
    PROVE  EngineInv'
  BY DEF EngineInv

(* Where a step of the sequence can succeed or fail.                       *)
Running(c) == Busy(c) /\ engine[c].at <= Len(Steps(c))

LEMMA RunningFits ==
    ASSUME EngineInv, NEW c \in Caller
    PROVE  /\ HasStep(c) \/ At(c, "child") \/ At(c, "pause") => Running(c)
           /\ At(c, "child") => Current(c).type = "run"
<1>1. /\ Sound(engine[c], log[c], plan[c])
      /\ Steps(c) = StepsOf(engine[c], plan[c])
  BY PlanFits
<1>. QED  BY <1>1 DEF Sound, Running, Busy, HasStep, At, Current

LEMMA SuccessKeeps ==
    ASSUME EngineInv, NEW c \in Caller, Running(c), NEW o \in Worked,
           Succeeded(c, o), plan' = plan
    PROVE  EngineInv'
<1>1. PICK e, p, l : e = engine[c] /\ p = plan[c] /\ l = log[c]
  OBVIOUS
<1>2. /\ p \in Plan /\ Sound(e, l, p) /\ Steps(c) = StepsOf(e, p)
  BY <1>1, PlanFits
<1>3. PICK step : step = StepsOf(e, p)[e.at]
  OBVIOUS
<1>4. Current(c) = step
  BY <1>1, <1>2, <1>3 DEF Current
<1>5. Goto(c, Advanced(e, step)) /\ log' = [log EXCEPT ![c] = Append(l, o)]
  BY <1>1, <1>4 DEF Succeeded, Logged, Advanced
<1>6. e.pc \in {"step", "child", "pause"} /\ e.at <= Len(StepsOf(e, p))
  BY <1>1, <1>2 DEF Running, Busy
<1>7. PICK f : f = Advanced(e, step)
  OBVIOUS
<1>8. Sound(f, Append(l, o), p)
  BY <1>2, <1>3, <1>6, <1>7, SuccessSound
<1>9. PICK more : more = Append(l, o)
  OBVIOUS
<1>10. Goto(c, f) /\ log' = [log EXCEPT ![c] = more] /\ Sound(f, more, plan[c])
  BY <1>1, <1>5, <1>7, <1>8, <1>9
<1>. QED  BY <1>10, EngineMoves

LEMMA FailureKeeps ==
    ASSUME EngineInv, NEW c \in Caller, Running(c), NEW o \in Outcomes \ Worked,
           Failed(c, CodeOf(o), o), plan' = plan
    PROVE  EngineInv'
<1>1. PICK e, p, l : e = engine[c] /\ p = plan[c] /\ l = log[c]
  OBVIOUS
<1>2. /\ p \in Plan /\ Sound(e, l, p) /\ Steps(c) = StepsOf(e, p)
  BY <1>1, PlanFits
<1>3. PICK step : step = StepsOf(e, p)[e.at]
  OBVIOUS
<1>4. Current(c) = step
  BY <1>1, <1>2, <1>3 DEF Current
<1>5. Goto(c, Stopped(e, step, CodeOf(o))) /\ log' = [log EXCEPT ![c] = Append(l, o)]
  BY <1>1, <1>4 DEF Failed, Logged, Stopped
<1>6. e.pc \in {"step", "child", "pause"} /\ e.at <= Len(StepsOf(e, p))
  BY <1>1, <1>2 DEF Running, Busy
<1>7. PICK f : f = Stopped(e, step, CodeOf(o))
  OBVIOUS
<1>8. Sound(f, Append(l, o), p)
  BY <1>2, <1>3, <1>6, <1>7, FailureSound
<1>9. PICK more : more = Append(l, o)
  OBVIOUS
<1>10. Goto(c, f) /\ log' = [log EXCEPT ![c] = more] /\ Sound(f, more, plan[c])
  BY <1>1, <1>5, <1>7, <1>8, <1>9
<1>. QED  BY <1>10, EngineMoves

LEMMA OutcomeFits ==
    /\ "ok" \in Worked /\ "signal" \in Worked
    /\ \A o \in {"missing", "exit", "error", "timeout", "capture"} : o \in Outcomes \ Worked
    /\ CodeOf("missing") = "sequence_step_failed" /\ CodeOf("exit") = "sequence_step_failed"
    /\ CodeOf("error") = "sequence_step_failed" /\ CodeOf("timeout") = "timeout"
    /\ CodeOf("capture") = "capture_failed"
  BY DEF Worked, Outcomes, CodeOf

(* Another sequence of the same operation.                                 *)
LEMMA BeginKeeps ==
    ASSUME EngineInv, NEW c \in Caller, NEW stage \in Stages, NEW variables,
           Goto(c, Begin(stage, variables)), log' = [log EXCEPT ![c] = <<>>], plan' = plan
    PROVE  EngineInv'
<1>1. PICK f : f = Begin(stage, variables)
  OBVIOUS
<1>2. Fresh(f) /\ f.pc = "step" /\ f.result \in Codes
  BY <1>1, BeginFits DEF Fresh, WholeEngine, Codes
<1>3. Sound(f, <<>>, plan[c])
  BY <1>2, PlanFits, BegunSound
<1>. QED  BY <1>1, <1>3, EngineMoves

LEMMA CleanUpKeeps ==
    ASSUME EngineInv, NEW c \in Caller, NEW variables, CleanUp(c, variables), plan' = plan
    PROVE  EngineInv'
<1>1. PICK b : b = Begin("cleanup", variables)
  OBVIOUS
<1>2. PICK f, was : was = engine[c].stage /\ f = [b EXCEPT !.failed = was]
  OBVIOUS
<1>3. Fresh(f) /\ f.pc = "step" /\ f.result = ""
  BY <1>1, <1>2, BeginFits DEF Fresh, WholeEngine, Stages
<1>4. f.result \in Codes
  BY <1>3 DEF Codes
<1>5. Sound(f, <<>>, plan[c])
  BY <1>3, <1>4, PlanFits, BegunSound
<1>6. Goto(c, f) /\ log' = [log EXCEPT ![c] = <<>>]
  BY <1>1, <1>2 DEF CleanUp
<1>. QED  BY <1>5, <1>6, EngineMoves

LEMMA EngineInvInit == Init => EngineInv
<1>. SUFFICES ASSUME Init PROVE EngineInv
  OBVIOUS
<1>1. plan \in Plans /\ engine = [c \in Caller |-> Idle] /\ log = [c \in Caller |-> <<>>]
  BY DEF Init
<1>2. ASSUME NEW c \in Caller
      PROVE  Sound(engine[c], log[c], plan[c])
  <2>1. plan[c] \in Plan
    BY <1>1, PlansAssumption
  <2>2. engine[c] = Idle /\ log[c] = <<>>
    BY <1>1
  <2>. QED  BY <2>1, <2>2, IdleSound
<1>3. engine = [c \in Caller |-> engine[c]] /\ log = [c \in Caller |-> log[c]]
  BY <1>1
<1>. QED  BY <1>1, <1>2, <1>3 DEF EngineInv

LEMMA StartKeeps ==
    ASSUME EngineInv, NEW c \in Caller, Start(c)
    PROVE  EngineInv'
<1>1. /\ plan[c] \in Plan /\ (plan[c].kind # "job" => plan[c].steps = <<>>)
      /\ Sound(engine[c], log[c], plan[c])
  BY PlanFits
<1>2. engine[c] = Idle /\ log[c] = <<>> /\ log' = log /\ plan' = plan
  BY <1>1 DEF Start, At, Sound
<1>3. ASSUME NEW stage \in Stages, NEW variables, Goto(c, Begin(stage, variables))
      PROVE  EngineInv'
  <2>1. PICK f : f = Begin(stage, variables)
    OBVIOUS
  <2>2. Fresh(f) /\ f.pc = "step" /\ f.result \in Codes
    BY <2>1, BeginFits DEF Fresh, WholeEngine, Codes
  <2>3. Sound(f, log[c], plan[c])
    BY <1>1, <1>2, <2>2, BegunSound
  <2>. QED  BY <1>2, <1>3, <2>1, <2>3, EngineMovesAlone
<1>4. ASSUME NEW code \in {"ok", "unsupported"}, Goto(c, Finish(c, code)),
             plan[c].kind # "job"
      PROVE  EngineInv'
  <2>1. PICK f : f = [Idle EXCEPT !.pc = "done", !.result = code]
    OBVIOUS
  <2>2. Finish(c, code) = f
    BY <1>2, <2>1 DEF Finish
  <2>3. Sound(f, log[c], plan[c])
    BY <1>1, <1>2, <1>4, <2>1, AtOnceSound
  <2>. QED  BY <1>2, <1>4, <2>2, <2>3, EngineMovesAlone
<1>5. \/ Goto(c, Begin("create", Given(BaseNames)))
      \/ Goto(c, Begin("send", SendVars(ref)))
      \/ Goto(c, Begin("close", ref))
      \/ Goto(c, Begin("peek", PeekVars(ref)))
      \/ Goto(c, Begin("job", Given(BaseNames)))
      \/ Goto(c, Finish(c, "ok")) /\ plan[c].kind # "job"
      \/ Goto(c, Finish(c, "unsupported")) /\ plan[c].kind # "job"
  BY DEF Start
<1>6. {"create", "send", "close", "peek", "job"} \subseteq Stages
  BY DEF Stages
<1>. QED  BY <1>3, <1>4, <1>5, <1>6

LEMMA SpawnKeeps ==
    ASSUME EngineInv, NEW c \in Caller, Spawn(c)
    PROVE  EngineInv'
<1>1. HasStep(c) /\ Running(c) /\ plan' = plan
  BY RunningFits DEF Spawn
<1>2. CASE Current(c).background
  <2>1. Succeeded(c, "ok")
    BY <1>2 DEF Spawn
  <2>. QED  BY <1>1, <2>1, SuccessKeeps, OutcomeFits
<1>3. CASE ~Current(c).background
  <2>1. PICK e, p, l : e = engine[c] /\ p = plan[c] /\ l = log[c]
    OBVIOUS
  <2>2. /\ p \in Plan /\ Sound(e, l, p) /\ Steps(c) = StepsOf(e, p)
    BY <2>1, PlanFits
  <2>3. /\ e.pc = "step" /\ e.at <= Len(StepsOf(e, p)) /\ StepsOf(e, p)[e.at].type = "run"
    BY <2>1, <2>2 DEF Spawn, HasStep, At, Current
  <2>4. PICK f : f = [e EXCEPT !.pc = "child"]
    OBVIOUS
  <2>5. Sound(f, l, p)
    BY <2>2, <2>3, <2>4, MovesSound
  <2>6. Goto(c, f) /\ log' = log
    BY <1>3, <2>1, <2>4 DEF Spawn
  <2>. QED  BY <1>1, <2>1, <2>5, <2>6, EngineMovesAlone
<1>. QED  BY <1>2, <1>3

LEMMA PauseKeeps ==
    ASSUME EngineInv, NEW c \in Caller, Pause(c)
    PROVE  EngineInv'
<1>1. PICK e, p, l : e = engine[c] /\ p = plan[c] /\ l = log[c]
  OBVIOUS
<1>2. /\ p \in Plan /\ Sound(e, l, p) /\ Steps(c) = StepsOf(e, p)
  BY <1>1, PlanFits
<1>3. e.pc = "step" /\ e.at <= Len(StepsOf(e, p))
  BY <1>1, <1>2 DEF Pause, HasStep, At
<1>4. PICK f : f = [e EXCEPT !.pc = "pause"]
  OBVIOUS
<1>5. Sound(f, l, p)
  BY <1>2, <1>3, <1>4, MovesSound
<1>6. Goto(c, f) /\ log' = log /\ plan' = plan
  BY <1>1, <1>4 DEF Pause
<1>. QED  BY <1>1, <1>5, <1>6, EngineMovesAlone

LEMMA EndKeeps ==
    ASSUME EngineInv, NEW c \in Caller, EndOfSequence(c)
    PROVE  EngineInv'
<1>1. PICK e, p, l : e = engine[c] /\ p = plan[c] /\ l = log[c]
  OBVIOUS
<1>2. /\ p \in Plan /\ Sound(e, l, p) /\ Steps(c) = StepsOf(e, p)
  BY <1>1, PlanFits
<1>3. e.pc = "step" /\ e.at > Len(StepsOf(e, p))
  BY <1>1, <1>2 DEF EndOfSequence, At
<1>4. PICK f : f = [e EXCEPT !.pc = "done", !.result = "ok"]
  OBVIOUS
<1>5. Sound(f, l, p)
  BY <1>2, <1>3, <1>4, EndSound
<1>6. Goto(c, f) /\ log' = log /\ plan' = plan
  BY <1>1, <1>4 DEF EndOfSequence, Finish
<1>. QED  BY <1>1, <1>5, <1>6, EngineMovesAlone

LEMMA StartGoesOnKeeps ==
    ASSUME EngineInv, NEW c \in Caller, StartGoesOn(c)
    PROVE  EngineInv'
<1>1. PICK kept : kept = Restrict(engine[c].vars, DOMAIN engine[c].vars \ {"message"})
  OBVIOUS
<1>2. plan' = plan
  BY DEF StartGoesOn
<1>3. \/ CleanUp(c, kept)
      \/ Next1(c, "boot", kept)
      \/ Next1(c, "paste", Over(Given({"message"}), kept))
      \/ InsertRow(c, RefIn(kept)) /\ log' = log
  BY <1>1 DEF StartGoesOn
<1>4. CASE CleanUp(c, kept)
  BY <1>2, <1>4, CleanUpKeeps
<1>5. CASE Next1(c, "boot", kept)
  <2>1. "boot" \in Stages
    BY DEF Stages
  <2>. QED  BY <1>2, <1>5, <2>1, BeginKeeps DEF Next1
<1>6. CASE Next1(c, "paste", Over(Given({"message"}), kept))
  <2>1. "paste" \in Stages
    BY DEF Stages
  <2>. QED  BY <1>2, <1>6, <2>1, BeginKeeps DEF Next1
<1>7. CASE InsertRow(c, RefIn(kept)) /\ log' = log
  <2>1. PICK e, p, l : e = engine[c] /\ p = plan[c] /\ l = log[c]
    OBVIOUS
  <2>2. p \in Plan /\ Sound(e, l, p)
    BY <2>1, PlanFits
  <2>3. PICK f : f = [e EXCEPT !.pc = "over"]
    OBVIOUS
  <2>4. Sound(f, l, p)
    BY <2>2, <2>3, MovesSound
  <2>5. Goto(c, f)
    BY <1>7, <2>1, <2>3 DEF InsertRow
  <2>. QED  BY <1>2, <1>7, <2>1, <2>4, <2>5, EngineMovesAlone
<1>. QED  BY <1>3, <1>4, <1>5, <1>6, <1>7

LEMMA CreateGoesOnKeeps ==
    ASSUME EngineInv, NEW c \in Caller, CreateGoesOn(c)
    PROVE  EngineInv'
<1>1. plan' = plan /\ "start" \in Stages
  BY DEF CreateGoesOn, Stages
<1>2. Next1(c, "start", RunVars(c)) \/ CleanUp(c, Given(BaseNames))
  BY DEF CreateGoesOn
<1>. QED  BY <1>1, <1>2, BeginKeeps, CleanUpKeeps DEF Next1

LEMMA EngineInvNext == EngineInv /\ [Next]_vars => EngineInv'
<1>. SUFFICES ASSUME EngineInv, [Next]_vars PROVE EngineInv'
  OBVIOUS
<1>0. CASE UNCHANGED vars
  BY <1>0, OthersMove DEF vars
<1>1. ASSUME NEW c \in Caller, EngineStep(c)
      PROVE  EngineInv'
  <2>1. CASE MissingVariable(c)
    BY <2>1, RunningFits, FailureKeeps, OutcomeFits DEF MissingVariable
  <2>2. CASE WriteStep(c)
    BY <2>2, RunningFits, SuccessKeeps, FailureKeeps, OutcomeFits DEF WriteStep
  <2>3. CASE PauseEnds(c)
    BY <2>3, RunningFits, SuccessKeeps, OutcomeFits DEF PauseEnds
  <2>4. CASE TimesOut(c)
    BY <2>4, RunningFits, FailureKeeps, OutcomeFits DEF TimesOut
  <2>. QED  BY <1>1, <2>1, <2>2, <2>3, <2>4, StartKeeps, SpawnKeeps, PauseKeeps, EndKeeps,
               CreateGoesOnKeeps, StartGoesOnKeeps DEF EngineStep
<1>2. ASSUME NEW c \in Caller, CommandStep(c)
      PROVE  EngineInv'
  <2>1. CASE CommandActs(c)
    BY <2>1, OthersMove DEF CommandActs
  <2>2. CASE ExitsZero(c)
    BY <2>2, RunningFits, SuccessKeeps, FailureKeeps, OutcomeFits DEF ExitsZero
  <2>3. CASE ExitsNonZero(c)
    BY <2>3, RunningFits, FailureKeeps, OutcomeFits DEF ExitsNonZero
  <2>4. CASE KilledBySignal(c)
    BY <2>4, RunningFits, SuccessKeeps, FailureKeeps, OutcomeFits DEF KilledBySignal
  <2>5. CASE SpawnFails(c)
    BY <2>5, RunningFits, FailureKeeps, OutcomeFits DEF SpawnFails
  <2>. QED  BY <1>2, <2>1, <2>2, <2>3, <2>4, <2>5 DEF CommandStep
<1>3. ASSUME NEW e \in late, LateEffect(e)
      PROVE  EngineInv'
  BY <1>3, OthersMove DEF LateEffect
<1>. QED  BY <1>0, <1>1, <1>2, <1>3 DEF Next

LEMMA EngineHolds == Spec => []EngineInv
BY EngineInvInit, EngineInvNext, PTL DEF Spec

LEMMA EngineTells == EngineInv => ResultMeetsDefinition
<1>. SUFFICES ASSUME EngineInv, NEW c \in Caller, At(c, "done"),
                     engine[c].result # "unsupported"
              PROVE  LET good == Good(c)
                         steps == Steps(c)
                     IN  /\ IF Fatal(c) = {}
                            THEN Len(log[c]) = Len(steps) /\ engine[c].result = "ok"
                            ELSE /\ Fatal(c) = {Len(log[c])}
                                 /\ engine[c].result = CodeOf(Last(log[c]))
                         /\ engine[c].captures =
                               [n \in UNION {steps[i].capture : i \in good} |->
                                   Max({i \in good : n \in steps[i].capture})]
                         /\ engine[c].stdout =
                               Max({0} \cup {i \in good : steps[i].type = "run"
                                                       /\ ~steps[i].background})
                         /\ Range(engine[c].handles) =
                               {i \in good : steps[i].background}
  BY DEF ResultMeetsDefinition
<1>1. PICK e, l, p : e = engine[c] /\ l = log[c] /\ p = plan[c]
  OBVIOUS
<1>2. Sound(e, l, p) /\ Steps(c) = StepsOf(e, p)
  BY <1>1, PlanFits
<1>3. PICK st : st = StepsOf(e, p)
  OBVIOUS
<1>4. Told(e, l, st)
  BY <1>1, <1>2, <1>3 DEF Sound, At
<1>5. Good(c) = GoodIn(l) /\ Fatal(c) = FatalIn(l, st) /\ Steps(c) = st
  BY <1>1, <1>2, <1>3 DEF Good, GoodIn, Fatal, FatalIn
<1>. QED  BY <1>1, <1>4, <1>5 DEF Told, Tells, CapturesOf, StdoutOf

(* Whatever the steps of a sequence are and however they go, what          *)
(* SequenceEngine.run returns is what the definition says of their         *)
(* outcomes.                                                               *)
THEOREM EngineMeetsDefinition == Spec => []ResultMeetsDefinition
BY EngineHolds, EngineTells, PTL

-----------------------------------------------------------------------------
(***************************************************************************)
(* The builtin templates, as far as the pane is concerned.                 *)
(***************************************************************************)

(* A step that is neither timed nor in the background, and one that is not *)
(* the first to make a pane.                                               *)
Plain(s) == s.timed = FALSE /\ s.background = FALSE
Opens(s) == s.does = "open"
AllPlain(st) == \A i \in DOMAIN st : Plain(st[i])
NoneOpens(st) == \A i \in DOMAIN st : ~Opens(st[i])

(* The last three steps of a send: the text, the pause and Enter.          *)
Sends(st) ==
    LET n == Len(st)
    IN  /\ n \in {3, 4} /\ DOMAIN st = 1 .. n
        /\ \A i \in 1 .. n :
              /\ i # n - 1 => st[i].type = "run"
              /\ i >= n - 2 => st[i].ignore = FALSE
        /\ st[n - 2].does \in {"type", "inject"}
        /\ st[n - 1].type = "wait_ms"
        /\ st[n].does = "enter"

LEMMA RunIs ==
    ASSUME NEW needs, NEW does
    PROVE  /\ Run(needs, does).type = "run" /\ Run(needs, does).does = does
           /\ Run(needs, does).ignore = FALSE /\ Plain(Run(needs, does))
           /\ Ignored(Run(needs, does)).type = "run" /\ Ignored(Run(needs, does)).does = does
           /\ Plain(Ignored(Run(needs, does)))
           /\ \A names : Plain(Capturing(Run(needs, does), names))
  BY DEF Run, Step, Ignored, Capturing, Plain

LEMMA WaitIs ==
    /\ Wait.type = "wait_ms" /\ Wait.does = "look" /\ Wait.ignore = FALSE /\ Plain(Wait)
  BY DEF Wait, Step, Plain

LEMMA WriteIs ==
    ASSUME NEW needs
    PROVE  WriteFile(needs).does = "look" /\ Plain(WriteFile(needs))
  BY DEF WriteFile, Step, Plain

LEMMA OneStep ==
    ASSUME NEW a
    PROVE  /\ Plain(a) => AllPlain(<<a>>)
           /\ ~Opens(a) => NoneOpens(<<a>>)
<1>1. DOMAIN <<a>> = {1} /\ <<a>>[1] = a
  OBVIOUS
<1>. QED  BY <1>1 DEF AllPlain, NoneOpens

LEMMA TwoSteps ==
    ASSUME NEW a, NEW b
    PROVE  /\ Plain(a) /\ Plain(b) => AllPlain(<<a, b>>)
           /\ ~Opens(a) /\ ~Opens(b) => NoneOpens(<<a, b>>)
<1>1. DOMAIN <<a, b>> = {1, 2} /\ <<a, b>>[1] = a /\ <<a, b>>[2] = b
  OBVIOUS
<1>. QED  BY <1>1 DEF AllPlain, NoneOpens

LEMMA ThreeSteps ==
    ASSUME NEW a, NEW b, NEW d
    PROVE  /\ Plain(a) /\ Plain(b) /\ Plain(d) => AllPlain(<<a, b, d>>)
           /\ ~Opens(a) /\ ~Opens(b) /\ ~Opens(d) => NoneOpens(<<a, b, d>>)
           /\ /\ a.type = "run" /\ a.ignore = FALSE /\ a.does \in {"type", "inject"}
              /\ b.type = "wait_ms" /\ b.ignore = FALSE
              /\ d.type = "run" /\ d.ignore = FALSE /\ d.does = "enter"
              => Sends(<<a, b, d>>)
<1>1. PICK s : s = <<a, b, d>>
  OBVIOUS
<1>2. DOMAIN s = 1 .. 3 /\ Len(s) = 3 /\ s[1] = a /\ s[2] = b /\ s[3] = d
  BY <1>1
<1>3. \A i \in 1 .. 3 : i = 1 \/ i = 2 \/ i = 3
  OBVIOUS
<1>. QED  BY <1>1, <1>2, <1>3 DEF AllPlain, NoneOpens, Sends

LEMMA FourSteps ==
    ASSUME NEW l, NEW a, NEW b, NEW d
    PROVE  /\ Plain(l) /\ Plain(a) /\ Plain(b) /\ Plain(d) => AllPlain(<<l, a, b, d>>)
           /\ ~Opens(l) /\ ~Opens(a) /\ ~Opens(b) /\ ~Opens(d) => NoneOpens(<<l, a, b, d>>)
           /\ /\ l.type = "run"
              /\ a.type = "run" /\ a.ignore = FALSE /\ a.does \in {"type", "inject"}
              /\ b.type = "wait_ms" /\ b.ignore = FALSE
              /\ d.type = "run" /\ d.ignore = FALSE /\ d.does = "enter"
              => Sends(<<l, a, b, d>>)
<1>1. PICK s : s = <<l, a, b, d>>
  OBVIOUS
<1>2. DOMAIN s = 1 .. 4 /\ Len(s) = 4 /\ s[1] = l /\ s[2] = a /\ s[3] = b /\ s[4] = d
  BY <1>1
<1>3. \A i \in 1 .. 4 : i = 1 \/ i = 2 \/ i = 3 \/ i = 4
  OBVIOUS
<1>. QED  BY <1>1, <1>2, <1>3 DEF AllPlain, NoneOpens, Sends

(* A step that touches nothing of a pane, or ends it.                      *)
Harmless(s) == Plain(s) /\ ~Opens(s)
Texts(s) == s.type = "run" /\ s.ignore = FALSE /\ s.does \in {"type", "inject"} /\ Harmless(s)
Waits(s) == s.type = "wait_ms" /\ s.ignore = FALSE /\ Harmless(s)
Enters(s) == s.type = "run" /\ s.ignore = FALSE /\ s.does = "enter" /\ Harmless(s)

LEMMA BuiltinSteps ==
    /\ Waits(Wait)
    /\ \A needs : /\ Harmless(Run(needs, "look")) /\ Harmless(Run(needs, "kill"))
                  /\ Harmless(Ignored(Run(needs, "look"))) /\ Ignored(Run(needs, "look")).type = "run"
                  /\ Harmless(Ignored(Run(needs, "kill")))
                  /\ Texts(Run(needs, "type")) /\ Texts(Run(needs, "inject"))
                  /\ Enters(Run(needs, "enter"))
<1>1. Waits(Wait)
  BY WaitIs DEF Waits, Harmless, Opens
<1>2. ASSUME NEW needs
      PROVE  /\ Harmless(Run(needs, "look")) /\ Harmless(Run(needs, "kill"))
             /\ Harmless(Ignored(Run(needs, "look"))) /\ Ignored(Run(needs, "look")).type = "run"
             /\ Harmless(Ignored(Run(needs, "kill")))
             /\ Texts(Run(needs, "type")) /\ Texts(Run(needs, "inject"))
             /\ Enters(Run(needs, "enter"))
  <2>1. ASSUME NEW does, does # "open"
        PROVE  /\ Harmless(Run(needs, does)) /\ Harmless(Ignored(Run(needs, does)))
               /\ Run(needs, does).type = "run" /\ Run(needs, does).ignore = FALSE
               /\ Run(needs, does).does = does /\ Ignored(Run(needs, does)).type = "run"
    <3>1. PICK r : r = Run(needs, does)
      OBVIOUS
    <3>2. PICK g : g = Ignored(r)
      OBVIOUS
    <3>3. /\ r.type = "run" /\ r.does = does /\ r.ignore = FALSE /\ Plain(r)
          /\ g.type = "run" /\ g.does = does /\ Plain(g)
      BY <3>1, <3>2, RunIs
    <3>4. Harmless(r) /\ Harmless(g)
      BY <2>1, <3>3 DEF Harmless, Opens
    <3>. QED  BY <3>1, <3>2, <3>3, <3>4
  <2>2. "look" # "open" /\ "kill" # "open" /\ "type" # "open" /\ "inject" # "open" /\ "enter" # "open"
    OBVIOUS
  <2>3. Texts(Run(needs, "type")) /\ Texts(Run(needs, "inject"))
    BY <2>1, <2>2 DEF Texts
  <2>4. Enters(Run(needs, "enter"))
    BY <2>1, <2>2 DEF Enters
  <2>. QED  BY <2>1, <2>2, <2>3, <2>4
<1>. QED  BY <1>1, <1>2

LEMMA HarmlessSteps ==
    ASSUME NEW a, NEW b, Harmless(a), Harmless(b)
    PROVE  /\ AllPlain(<<a>>) /\ NoneOpens(<<a>>)
           /\ AllPlain(<<a, b>>) /\ NoneOpens(<<a, b>>)
  BY OneStep, TwoSteps DEF Harmless

LEMMA SendingSteps ==
    ASSUME NEW a, NEW b, NEW d, Texts(a), Waits(b), Enters(d)
    PROVE  /\ LET st == <<a, b, d>> IN AllPlain(st) /\ NoneOpens(st) /\ Sends(st)
           /\ \A l : Harmless(l) /\ l.type = "run" =>
                 LET st == <<l, a, b, d>> IN AllPlain(st) /\ NoneOpens(st) /\ Sends(st)
  BY ThreeSteps, FourSteps DEF Harmless, Texts, Waits, Enters

LEMMA KeysSend ==
    ASSUME NEW name, NEW text
    PROVE  LET st == TypeThenEnter(name, text)
           IN  AllPlain(st) /\ NoneOpens(st) /\ Sends(st)
<1>1. PICK a : a = Run({name, text}, "type")
  OBVIOUS
<1>2. PICK d : d = Run({name}, "enter")
  OBVIOUS
<1>3. Texts(a) /\ Enters(d) /\ Waits(Wait)
  BY <1>1, <1>2, BuiltinSteps
<1>4. TypeThenEnter(name, text) = <<a, Wait, d>>
  BY <1>1, <1>2 DEF TypeThenEnter
<1>. QED  BY <1>3, <1>4, SendingSteps

LEMMA KeysFit ==
    ASSUME NEW name, NEW create, AllPlain(create), NEW t, t = Keys(name, create)
    PROVE  /\ AllPlain(t.create) /\ AllPlain(t.run_in_pane) /\ AllPlain(t.send)
           /\ AllPlain(t.peek) /\ AllPlain(t.close)
           /\ NoneOpens(t.peek) /\ NoneOpens(t.close) /\ NoneOpens(t.send)
           /\ Sends(t.send)
<1>1. PICK look : look = Run({name, "peek_source", "peek_lines"}, "look")
  OBVIOUS
<1>2. PICK kill : kill = Run({name}, "kill")
  OBVIOUS
<1>3. Harmless(look) /\ Harmless(kill)
  BY <1>1, <1>2, BuiltinSteps
<1>4. /\ t.create = create /\ t.run_in_pane = TypeThenEnter(name, "launch_cmd")
      /\ t.send = TypeThenEnter(name, "message") /\ t.peek = <<look>>
      /\ t.close = <<kill>>
  BY <1>1, <1>2 DEF Keys
<1>5. /\ AllPlain(<<look>>) /\ NoneOpens(<<look>>)
      /\ AllPlain(<<kill>>) /\ NoneOpens(<<kill>>)
  BY <1>3, HarmlessSteps
<1>. QED  BY <1>4, <1>5, KeysSend

LEMMA BuiltinFit ==
    ASSUME NEW t \in BuiltinMux
    PROVE  /\ AllPlain(t.create) /\ AllPlain(t.run_in_pane) /\ AllPlain(t.send)
           /\ AllPlain(t.peek) /\ AllPlain(t.close)
           /\ NoneOpens(t.peek) /\ NoneOpens(t.close) /\ NoneOpens(t.send)
           /\ Sends(t.send)
<1>1. CASE t = Tmux
  BY <1>1, KeysFit, RunIs, OneStep DEF Tmux
<1>2. CASE t = Rmux
  BY <1>2, KeysFit, RunIs, TwoSteps DEF Rmux
<1>3. CASE t = Herdr
  <2>1. AllPlain(t.create)
    BY <1>3, RunIs, TwoSteps DEF Herdr
  <2>2. AllPlain(t.run_in_pane)
    BY <1>3, RunIs, OneStep DEF Herdr
  <2>3. AllPlain(t.send) /\ NoneOpens(t.send) /\ Sends(t.send)
    <3>1. PICK l : l = Ignored(Run({"herdr_session", "pane_id"}, "look"))
      OBVIOUS
    <3>2. PICK a : a = Run({"herdr_session", "pane_id", "message"}, "inject")
      OBVIOUS
    <3>3. PICK d : d = Run({"herdr_session", "pane_id"}, "enter")
      OBVIOUS
    <3>4. Harmless(l) /\ l.type = "run" /\ Texts(a) /\ Waits(Wait) /\ Enters(d)
      BY <3>1, <3>2, <3>3, BuiltinSteps
    <3>5. t.send = <<l, a, Wait, d>>
      BY <1>3, <3>1, <3>2, <3>3 DEF Herdr, HerdrSend
    <3>. QED  BY <3>4, <3>5, SendingSteps
  <2>4. AllPlain(t.peek) /\ NoneOpens(t.peek)
    <3>1. PICK look : look = Run({"herdr_session", "pane_id", "peek_source",
                                  "peek_lines"}, "look")
      OBVIOUS
    <3>2. t.peek = <<look>>
      BY <1>3, <3>1 DEF Herdr
    <3>. QED  BY <3>1, <3>2, BuiltinSteps, HarmlessSteps
  <2>5. AllPlain(t.close) /\ NoneOpens(t.close)
    <3>1. PICK kill : kill = Run({"herdr_session", "herdr_workspace_id"}, "kill")
      OBVIOUS
    <3>2. t.close = <<kill>>
      BY <1>3, <3>1 DEF Herdr
    <3>. QED  BY <3>1, <3>2, BuiltinSteps, HarmlessSteps
  <2>. QED  BY <2>1, <2>2, <2>3, <2>4, <2>5
<1>4. CASE t = Zellij
  <2>1. AllPlain(t.create)
    BY <1>4, RunIs, WriteIs, TwoSteps DEF Zellij
  <2>2. AllPlain(t.run_in_pane)
    BY <1>4 DEF Zellij, AllPlain
  <2>3. AllPlain(t.send) /\ NoneOpens(t.send) /\ Sends(t.send)
    <3>1. t.send = TypeThenEnter("zellij_session_name", "message")
      BY <1>4 DEF Zellij
    <3>. QED  BY <3>1, KeysSend
  <2>4. AllPlain(t.peek) /\ NoneOpens(t.peek)
    <3>1. PICK look : look = Run({"zellij_session_name", "peek_source", "peek_lines"}, "look")
      OBVIOUS
    <3>2. t.peek = <<look>>
      BY <1>4, <3>1 DEF Zellij
    <3>. QED  BY <3>1, <3>2, BuiltinSteps, HarmlessSteps
  <2>5. AllPlain(t.close) /\ NoneOpens(t.close)
    <3>1. PICK kill : kill = Ignored(Run({"zellij_session_name"}, "kill"))
      OBVIOUS
    <3>2. PICK look : look = Ignored(Run({"zellij_session_name"}, "look"))
      OBVIOUS
    <3>3. t.close = <<kill, look>>
      BY <1>4, <3>1, <3>2 DEF Zellij
    <3>. QED  BY <3>1, <3>2, <3>3, BuiltinSteps, HarmlessSteps
  <2>. QED  BY <2>1, <2>2, <2>3, <2>4, <2>5
<1>. QED  BY <1>1, <1>2, <1>3, <1>4 DEF BuiltinMux

-----------------------------------------------------------------------------
(***************************************************************************)
(* The pane: what is typed stays, on the input line or in a line that was  *)
(* submitted.                                                              *)
(***************************************************************************)
AllTexts == Caller \cup {"launch"}

WholePane(p) ==
    /\ p = [open |-> p.open, line |-> p.line, lines |-> p.lines]
    /\ p.open \in BOOLEAN /\ p.line \in Seq(AllTexts) /\ p.lines \in Seq(Seq(AllTexts))

Entered(p, text) == \E i \in DOMAIN p.lines : text \in Range(p.lines[i])
Shown(p, text) == text \in Range(p.line) \/ Entered(p, text)

(* Whatever was on pane p is on q.                                         *)
Holds(p, q) ==
    /\ \A text : Shown(p, text) => Shown(q, text)
    /\ \A text : Entered(p, text) => Entered(q, text)

LEMMA Appended ==
    ASSUME NEW S, NEW q \in Seq(S), NEW x \in S
    PROVE  Append(q, x) \in Seq(S) /\ Range(Append(q, x)) = Range(q) \cup {x}
<1>1. PICK h : h = Append(q, x)
  OBVIOUS
<1>2. PICK n : n = Len(q)
  OBVIOUS
<1>3. /\ h \in Seq(S) /\ DOMAIN h = 1 .. n + 1 /\ DOMAIN q = 1 .. n /\ n \in Nat
      /\ \A i \in 1 .. n : h[i] = q[i]
      /\ h[n + 1] = x
  BY <1>1, <1>2
<1>4. Range(h) \subseteq Range(q) \cup {x}
  BY <1>3 DEF Range
<1>5. Range(q) \cup {x} \subseteq Range(h)
  BY <1>3 DEF Range
<1>. QED  BY <1>1, <1>3, <1>4, <1>5

LEMMA TypedFits ==
    ASSUME NEW p, WholePane(p), NEW text \in AllTexts, NEW q, q = Typed(p, text)
    PROVE  /\ WholePane(q) /\ q.open = p.open /\ q.lines = p.lines
           /\ Holds(p, q) /\ Shown(q, text)
<1>1. /\ q = [open |-> q.open, line |-> q.line, lines |-> q.lines]
      /\ q.open = p.open /\ q.lines = p.lines /\ q.line = Append(p.line, text)
  BY DEF WholePane, Typed
<1>2. p.line \in Seq(AllTexts) /\ p.open \in BOOLEAN /\ p.lines \in Seq(Seq(AllTexts))
  BY DEF WholePane
<1>3. q.line \in Seq(AllTexts) /\ Range(q.line) = Range(p.line) \cup {text}
  BY <1>1, <1>2, Appended
<1>4. WholePane(q)
  BY <1>1, <1>2, <1>3 DEF WholePane
<1>5. \A t : Entered(p, t) <=> Entered(q, t)
  BY <1>1 DEF Entered
<1>. QED  BY <1>1, <1>3, <1>4, <1>5 DEF Holds, Shown

LEMMA SubmittedFits ==
    ASSUME NEW p, WholePane(p), NEW q, q = Submitted(p)
    PROVE  /\ WholePane(q) /\ q.open = p.open /\ Holds(p, q)
           /\ \A text : Shown(p, text) => Entered(q, text)
<1>1. /\ q = [open |-> q.open, line |-> q.line, lines |-> q.lines]
      /\ q.open = p.open /\ q.line = <<>>
  BY DEF WholePane, Submitted
<1>2. PICK l, k, m : l = p.line /\ k = p.lines /\ m = q.lines
  OBVIOUS
<1>3. m = Append(k, l)
  BY <1>2 DEF WholePane, Submitted
<1>4. k \in Seq(Seq(AllTexts)) /\ l \in Seq(AllTexts) /\ p.open \in BOOLEAN
  BY <1>2 DEF WholePane
<1>5. m \in Seq(Seq(AllTexts)) /\ Range(m) = Range(k) \cup {l}
  BY <1>3, <1>4, Appended
<1>6. <<>> \in Seq(AllTexts)
  OBVIOUS
<1>7. WholePane(q)
  BY <1>1, <1>2, <1>4, <1>5, <1>6 DEF WholePane
<1>8. \A t : Entered(p, t) <=> \E x \in Range(k) : t \in Range(x)
  BY <1>2 DEF Entered, Range
<1>9. \A t : Entered(q, t) <=> \E x \in Range(m) : t \in Range(x)
  BY <1>2 DEF Entered, Range
<1>10. \A t : Shown(p, t) => Entered(q, t)
  BY <1>2, <1>5, <1>8, <1>9 DEF Shown
<1>. QED  BY <1>1, <1>7, <1>10 DEF Holds, Shown

LEMMA OpenFits ==
    ASSUME NEW p, WholePane(p), NEW open \in BOOLEAN, NEW q, q = [p EXCEPT !.open = open]
    PROVE  WholePane(q) /\ Holds(p, q) /\ q.open = open
<1>1. /\ q = [open |-> q.open, line |-> q.line, lines |-> q.lines]
      /\ q.open = open /\ q.line = p.line /\ q.lines = p.lines
  BY DEF WholePane
<1>. QED  BY <1>1 DEF WholePane, Holds, Shown, Entered

(* What a command does to the pane.                                        *)
LEMMA PaneGrows ==
    ASSUME WholePane(pane), NEW does \in Effects, NEW text \in AllTexts,
           NEW q, q = PaneAfter(does, text)
    PROVE  /\ WholePane(q) /\ Holds(pane, q)
           /\ does # "open" /\ q.open => pane.open
           /\ does = "type" => Shown(q, text)
           /\ does = "enter" => \A t : Shown(pane, t) => Entered(q, t)
<1>1. CASE does = "open"
  BY <1>1, OpenFits DEF PaneAfter
<1>2. CASE does = "kill"
  BY <1>2, OpenFits DEF PaneAfter
<1>3. CASE does = "type"
  BY <1>3, TypedFits DEF PaneAfter
<1>4. CASE does = "enter"
  BY <1>4, SubmittedFits DEF PaneAfter
<1>5. CASE does = "submit"
  <2>1. PICK m : m = Typed(pane, text)
    OBVIOUS
  <2>2. WholePane(m) /\ m.open = pane.open /\ Holds(pane, m)
    BY <2>1, TypedFits
  <2>3. q = Submitted(m)
    BY <1>5, <2>1 DEF PaneAfter
  <2>. QED  BY <1>5, <2>2, <2>3, SubmittedFits DEF Holds
<1>6. CASE does \in {"inject", "look"}
  BY <1>6 DEF PaneAfter, Holds
<1>. QED  BY <1>1, <1>2, <1>3, <1>4, <1>5, <1>6 DEF Effects

-----------------------------------------------------------------------------
(***************************************************************************)
(* Who may act on the pane, and where the text of a send is.               *)
(***************************************************************************)
CreateStages == {"create", "start", "boot", "paste", "cleanup"}

WholeLate == late \subseteq [by : AllTexts, does : Effects \ {"open"}]
Pending(c) == [by |-> c, does |-> "type"] \in late

(* Once there is a row nobody creates a pane any more.                     *)
InItsStage(c) ==
    /\ engine[c].stage \in CreateStages => plan[c].kind = "create"
    /\ engine[c].stage = "send" => HasRow
    /\ plan[c].kind = "create" /\ HasRow => engine[c].pc \in {"idle", "over"}

(* The text of a send has been injected, has arrived, is submitted; or the *)
(* pane is gone.                                                           *)
TextArrives(c) ==
    LET n == Len(Steps(c))
        at == engine[c].at
        acted == At(c, "child") /\ did[c]
    IN  engine[c].stage = "send" /\ "signal" \notin Range(log[c]) =>
            /\ at >= n - 1 \/ (at = n - 2 /\ acted) =>
                  Shown(pane, c) \/ Pending(c) \/ ~pane.open
            /\ at >= n => Shown(pane, c) \/ ~pane.open
            /\ at = n + 1 \/ (at = n /\ acted) => Entered(pane, c)
            /\ At(c, "pause") => at = n - 1
            /\ At(c, "done") /\ engine[c].result = "ok" => at = n + 1

DeliveryInv ==
    /\ WholePane(pane) /\ WholeLate /\ did = [c \in Caller |-> did[c]]
    /\ \A c \in Caller : InItsStage(c) /\ TextArrives(c)

LEMMA BuiltinStages ==
    ASSUME EngineInv, BuiltinPlans, NEW c \in Caller
    PROVE  /\ engine[c].stage # "job" => AllPlain(Steps(c))
           /\ engine[c].stage \notin CreateStages => NoneOpens(Steps(c))
           /\ engine[c].stage = "send" => Sends(Steps(c))
<1>1. PICK t, e : t = plan[c].template /\ e = engine[c]
  OBVIOUS
<1>2. t \in BuiltinMux /\ NoneOpens(plan[c].steps)
  BY <1>1 DEF BuiltinPlans, EngineInv, NoneOpens, Opens
<1>3. AllPlain(<<Wait>>)
  BY WaitIs, OneStep
<1>4. e.stage \in Stages
  BY <1>1, PlanFits DEF Sound
<1>5. /\ AllPlain(t.create) /\ AllPlain(t.run_in_pane) /\ AllPlain(t.send)
      /\ AllPlain(t.peek) /\ AllPlain(t.close)
      /\ NoneOpens(t.peek) /\ NoneOpens(t.close) /\ NoneOpens(t.send)
      /\ Sends(t.send)
  BY <1>2, BuiltinFit
<1>. QED  BY <1>1, <1>2, <1>3, <1>4, <1>5 DEF Steps, Stages, CreateStages

LEMMA RunningStep ==
    ASSUME EngineInv, NEW c \in Caller, Running(c)
    PROVE  /\ Current(c) \in TemplateStep /\ Current(c).does \in Effects
           /\ Text(c) \in AllTexts /\ engine[c].at \in DOMAIN Steps(c)
<1>1. /\ Sound(engine[c], log[c], plan[c]) /\ plan[c] \in Plan
      /\ Steps(c) = StepsOf(engine[c], plan[c])
  BY PlanFits
<1>2. PICK st, i : st = Steps(c) /\ i = engine[c].at
  OBVIOUS
<1>3. st \in Seq(TemplateStep)
  BY <1>1, <1>2, StepsTyped DEF Sound
<1>4. i \in 1 .. Len(st)
  BY <1>1, <1>2, <1>3 DEF Running, Sound
<1>5. st[i] \in TemplateStep /\ i \in DOMAIN st
  BY <1>3, <1>4
<1>6. Current(c) \in TemplateStep /\ Current(c).does \in Effects
  BY <1>2, <1>5 DEF Current, TemplateStep
<1>. QED  BY <1>2, <1>5, <1>6 DEF Text, AllTexts

LEMMA NobodyOpens ==
    ASSUME EngineInv, BuiltinPlans, NEW c \in Caller, InItsStage(c), Running(c)
    PROVE  /\ HasRow => Current(c).does # "open"
           /\ Current(c).background \/ Current(c).timed => Current(c).does # "open"
<1>1. engine[c].stage \notin CreateStages => Current(c).does # "open"
  BY BuiltinStages, RunningStep DEF NoneOpens, Opens, Current
<1>2. engine[c].stage \in CreateStages => ~(Current(c).background \/ Current(c).timed)
  <2>1. engine[c].stage \in CreateStages => engine[c].stage # "job"
    BY DEF CreateStages
  <2>. QED  BY <2>1, BuiltinStages, RunningStep DEF AllPlain, Plain, Current
<1>3. engine[c].stage \in CreateStages => ~HasRow
  BY DEF InItsStage, Running, Busy
<1>. QED  BY <1>1, <1>2, <1>3

(* What a step does to the pane and to the effects still to come.          *)
Grows ==
    /\ WholePane(pane)' /\ WholeLate' /\ Holds(pane, pane')
    /\ HasRow => HasRow' /\ (pane'.open => pane.open)
    /\ \A c \in Caller :
          Pending(c) => Pending(c)' \/ Shown(pane', c) \/ ~pane'.open

LEMMA NothingHappens ==
    ASSUME DeliveryInv, UNCHANGED <<pane, late>>, row' = row \/ row' = "created"
    PROVE  Grows
<1>1. WholePane(pane) /\ WholeLate
  BY DEF DeliveryInv
<1>2. Holds(pane, pane')
  BY DEF Holds
<1>. QED  BY <1>1, <1>2 DEF Grows, WholeLate, Pending, HasRow

LEMMA MoreToCome ==
    ASSUME DeliveryInv, NEW text \in AllTexts, NEW does \in Effects, does # "open",
           Later(text, does), pane' = pane, row' = row
    PROVE  Grows
<1>1. WholePane(pane) /\ WholeLate
  BY DEF DeliveryInv
<1>2. Holds(pane, pane')
  BY DEF Holds
<1>3. WholeLate'
  BY <1>1 DEF WholeLate, Later
<1>. QED  BY <1>1, <1>2, <1>3 DEF Grows, Pending, HasRow, Later

LEMMA CommandGrows ==
    ASSUME EngineInv, DeliveryInv, BuiltinPlans, NEW c \in Caller, CommandActs(c)
    PROVE  Grows
<1>1. WholePane(pane) /\ WholeLate /\ InItsStage(c) /\ row' = row
  BY DEF DeliveryInv, CommandActs
<1>2. Running(c)
  BY RunningFits DEF CommandActs
<1>3. PICK does, text : does = Current(c).does /\ text = Text(c)
  OBVIOUS
<1>4. does \in Effects /\ text \in AllTexts /\ (HasRow => does # "open")
  BY <1>1, <1>2, <1>3, RunningStep, NobodyOpens
<1>5. PICK q : q = PaneAfter(does, text)
  OBVIOUS
<1>6. pane' = q /\ (late' = late \/ late' = late \cup {[by |-> text, does |-> "type"]})
  BY <1>3, <1>5 DEF CommandActs, Later
<1>7. WholePane(q) /\ Holds(pane, q) /\ (does # "open" /\ q.open => pane.open)
  BY <1>1, <1>4, <1>5, PaneGrows
<1>8. WholeLate'
  BY <1>1, <1>4, <1>6 DEF WholeLate, Effects
<1>. QED  BY <1>1, <1>4, <1>6, <1>7, <1>8 DEF Grows, HasRow, Pending

LEMMA LateGrows ==
    ASSUME DeliveryInv, NEW x \in late, LateEffect(x)
    PROVE  Grows
<1>1. WholePane(pane) /\ WholeLate /\ row' = row /\ late' = late \ {x}
  BY DEF DeliveryInv, LateEffect
<1>2. PICK does, text : does = x.does /\ text = x.by
  OBVIOUS
<1>3. does \in Effects /\ text \in AllTexts /\ does # "open"
      /\ x = [by |-> text, does |-> does]
  BY <1>1, <1>2 DEF WholeLate
<1>4. WholeLate'
  BY <1>1 DEF WholeLate
<1>5. CASE pane' = PaneAfter(does, text)
  <2>1. PICK q : q = PaneAfter(does, text)
    OBVIOUS
  <2>2. /\ WholePane(q) /\ Holds(pane, q) /\ (q.open => pane.open)
        /\ (does = "type" => Shown(q, text))
    BY <1>1, <1>3, <2>1, PaneGrows
  <2>3. ASSUME NEW c \in Caller, Pending(c)
        PROVE  Pending(c)' \/ Shown(q, c)
    <3>1. CASE x = [by |-> c, does |-> "type"]
      BY <1>2, <2>2, <3>1
    <3>2. CASE x # [by |-> c, does |-> "type"]
      BY <1>1, <2>3, <3>2 DEF Pending
    <3>. QED  BY <3>1, <3>2
  <2>. QED  BY <1>1, <1>4, <1>5, <2>1, <2>2, <2>3 DEF Grows, HasRow
<1>6. CASE pane' = pane /\ (CanAct(does) => does # "type")
  <2>1. Holds(pane, pane')
    BY <1>6 DEF Holds
  <2>2. ASSUME NEW c \in Caller, Pending(c)
        PROVE  Pending(c)' \/ ~pane'.open
    <3>1. CASE x = [by |-> c, does |-> "type"]
      BY <1>2, <1>6, <3>1 DEF CanAct
    <3>2. CASE x # [by |-> c, does |-> "type"]
      BY <1>1, <2>2, <3>2 DEF Pending
    <3>. QED  BY <3>1, <3>2
  <2>. QED  BY <1>1, <1>4, <1>6, <2>1, <2>2 DEF Grows, HasRow
<1>. QED  BY <1>2, <1>5, <1>6 DEF LateEffect

LEMMA EverythingGrows ==
    ASSUME EngineInv, DeliveryInv, BuiltinPlans, Next
    PROVE  Grows
<1>1. ASSUME NEW c \in Caller, Spawn(c)
      PROVE  Grows
  <2>1. InItsStage(c) /\ Running(c)
    BY <1>1, RunningFits DEF DeliveryInv, Spawn
  <2>2. PICK does, text : does = Current(c).does /\ text = Text(c)
    OBVIOUS
  <2>3. does \in Effects /\ text \in AllTexts
    BY <2>1, <2>2, RunningStep
  <2>4. CASE Current(c).background
    BY <1>1, <2>1, <2>2, <2>3, <2>4, NobodyOpens, MoreToCome DEF Spawn
  <2>5. CASE ~Current(c).background
    BY <1>1, <2>5, NothingHappens DEF Spawn
  <2>. QED  BY <2>4, <2>5
<1>2. ASSUME NEW c \in Caller, TimesOut(c)
      PROVE  Grows
  <2>1. InItsStage(c) /\ Running(c)
    BY <1>2, RunningFits DEF DeliveryInv, TimesOut
  <2>2. PICK does, text : does = Current(c).does /\ text = Text(c)
    OBVIOUS
  <2>3. does \in Effects /\ text \in AllTexts
    BY <2>1, <2>2, RunningStep
  <2>4. CASE did[c]
    BY <1>2, <2>4, NothingHappens DEF TimesOut
  <2>5. CASE ~did[c]
    BY <1>2, <2>1, <2>2, <2>3, <2>5, NobodyOpens, MoreToCome DEF TimesOut, HasTimer
  <2>. QED  BY <2>4, <2>5
<1>3. ASSUME NEW c \in Caller,
             \/ Start(c) \/ MissingVariable(c) \/ WriteStep(c) \/ Pause(c) \/ PauseEnds(c)
             \/ EndOfSequence(c) \/ CreateGoesOn(c) \/ StartGoesOn(c)
             \/ ExitsZero(c) \/ ExitsNonZero(c) \/ KilledBySignal(c) \/ SpawnFails(c)
      PROVE  Grows
  <2>1. UNCHANGED <<pane, late>> /\ (row' = row \/ row' = "created")
    BY <1>3 DEF Start, MissingVariable, WriteStep, Pause, PauseEnds, EndOfSequence,
                CreateGoesOn, StartGoesOn, InsertRow, ExitsZero, ExitsNonZero,
                KilledBySignal, SpawnFails
  <2>. QED  BY <2>1, NothingHappens
<1>. QED  BY <1>1, <1>2, <1>3, CommandGrows, LateGrows DEF Next, EngineStep, CommandStep

(* The engine of the caller that moves, and of the others.                 *)
LEMMA GoesTo ==
    ASSUME EngineInv, NEW c \in Caller, NEW f, Goto(c, f)
    PROVE  /\ engine'[c] = f
           /\ \A d \in Caller : d # c => engine'[d] = engine[d]
<1>1. engine = [d \in Caller |-> engine[d]]
  BY DEF EngineInv
<1>. QED  BY <1>1 DEF Goto

LEMMA LogGoesTo ==
    ASSUME EngineInv, NEW c \in Caller, NEW l, log' = [log EXCEPT ![c] = l]
    PROVE  /\ log'[c] = l
           /\ \A d \in Caller : d # c => log'[d] = log[d]
<1>1. log = [d \in Caller |-> log[d]]
  BY DEF EngineInv
<1>. QED  BY <1>1

(* Within a sequence.                                                      *)
Within(c) ==
    /\ Busy(c) /\ engine'[c].stage = engine[c].stage
    /\ engine'[c].pc \in {"step", "child", "pause", "done"}
    /\ plan' = plan /\ row' = row
    /\ Range(log[c]) \subseteq Range(log'[c])
    /\ \A d \in Caller : d # c => engine'[d] = engine[d] /\ log'[d] = log[d] /\ did'[d] = did[d]

(* The step of caller c failed, or worked.                                 *)
Fails(c) ==
    \/ Current(c).ignore /\ engine'[c].pc = "step" /\ engine'[c].at = engine[c].at + 1
    \/ /\ ~Current(c).ignore /\ engine'[c].pc = "done" /\ engine'[c].at = engine[c].at
       /\ engine'[c].result # "ok"
Works(c) == engine'[c].pc = "step" /\ engine'[c].at = engine[c].at + 1

LEMMA LogsMore ==
    ASSUME EngineInv, NEW c \in Caller, NEW o \in Outcomes, Logged(c, o)
    PROVE  /\ Range(log[c]) \subseteq Range(log'[c]) /\ o \in Range(log'[c])
           /\ \A d \in Caller : d # c => log'[d] = log[d]
<1>1. log[c] \in Seq(Outcomes)
  BY PlanFits DEF Sound
<1>2. PICK l : l = log[c]
  OBVIOUS
<1>3. PICK m : m = Append(l, o)
  OBVIOUS
<1>4. Range(m) = Range(l) \cup {o}
  BY <1>1, <1>2, <1>3, Appended
<1>5. log' = [log EXCEPT ![c] = m]
  BY <1>2, <1>3 DEF Logged
<1>. QED  BY <1>2, <1>4, <1>5, LogGoesTo

LEMMA FailsWithin ==
    ASSUME EngineInv, NEW c \in Caller, Running(c), NEW o \in Outcomes, NEW code, code # "ok",
           Failed(c, code, o), plan' = plan, row' = row, did' = did
    PROVE  Within(c) /\ Fails(c)
<1>1. WholeEngine(engine[c])
  BY PlanFits DEF Sound
<1>2. PICK e, f, step : e = engine[c] /\ step = Current(c) /\ f = Stopped(e, step, code)
  OBVIOUS
<1>3. Goto(c, f) /\ Logged(c, o)
  BY <1>2 DEF Failed, Stopped
<1>4. /\ f.stage = e.stage
      /\ IF step.ignore THEN f.pc = "step" /\ f.at = e.at + 1
         ELSE f.pc = "done" /\ f.at = e.at /\ f.result = code
  BY <1>1, <1>2 DEF WholeEngine, Stopped
<1>5. engine'[c] = f /\ \A d \in Caller : d # c => engine'[d] = engine[d]
  BY <1>3, GoesTo
<1>6. Fails(c)
  BY <1>2, <1>4, <1>5 DEF Fails
<1>7. /\ Range(log[c]) \subseteq Range(log'[c])
      /\ \A d \in Caller : d # c => log'[d] = log[d]
  BY <1>3, LogsMore
<1>. QED  BY <1>2, <1>4, <1>5, <1>6, <1>7 DEF Within, Running

LEMMA WorksWithin ==
    ASSUME EngineInv, NEW c \in Caller, Running(c), NEW o \in Worked,
           Succeeded(c, o), plan' = plan, row' = row,
           \A d \in Caller : d # c => did'[d] = did[d]
    PROVE  Within(c) /\ Works(c) /\ o \in Range(log'[c])
<1>1. WholeEngine(engine[c]) /\ o \in Outcomes
  BY PlanFits DEF Sound, Worked, Outcomes
<1>2. PICK e, f, step : e = engine[c] /\ step = Current(c) /\ f = Advanced(e, step)
  OBVIOUS
<1>3. Goto(c, f) /\ Logged(c, o)
  BY <1>2 DEF Succeeded, Advanced
<1>4. f.stage = e.stage /\ f.pc = "step" /\ f.at = e.at + 1
  BY <1>1, <1>2 DEF WholeEngine, Advanced
<1>5. engine'[c] = f /\ \A d \in Caller : d # c => engine'[d] = engine[d]
  BY <1>3, GoesTo
<1>6. Works(c)
  BY <1>2, <1>4, <1>5 DEF Works
<1>7. /\ Range(log[c]) \subseteq Range(log'[c]) /\ o \in Range(log'[c])
      /\ \A d \in Caller : d # c => log'[d] = log[d]
  BY <1>1, <1>3, LogsMore
<1>8. Within(c)
  BY <1>2, <1>4, <1>5, <1>7 DEF Within, Running
<1>. QED  BY <1>6, <1>7, <1>8

(* The engine goes to another place at the same step.                      *)
LEMMA StaysWithin ==
    ASSUME EngineInv, NEW c \in Caller, Busy(c), NEW pc \in {"child", "pause"},
           Goto(c, [engine[c] EXCEPT !.pc = pc]), log' = log, plan' = plan, row' = row,
           \A d \in Caller : d # c => did'[d] = did[d]
    PROVE  Within(c) /\ engine'[c].pc = pc /\ engine'[c].at = engine[c].at
<1>1. WholeEngine(engine[c])
  BY PlanFits DEF Sound
<1>2. PICK e, f : e = engine[c] /\ f = [e EXCEPT !.pc = pc]
  OBVIOUS
<1>3. f.stage = e.stage /\ f.pc = pc /\ f.at = e.at
  BY <1>1, <1>2 DEF WholeEngine
<1>4. engine'[c] = f /\ \A d \in Caller : d # c => engine'[d] = engine[d]
  BY <1>2, GoesTo
<1>. QED  BY <1>2, <1>3, <1>4 DEF Within

LEMMA EndsWithin ==
    ASSUME EngineInv, NEW c \in Caller, EndOfSequence(c)
    PROVE  /\ Within(c) /\ engine'[c].pc = "done" /\ engine'[c].at = engine[c].at
           /\ engine[c].at = Len(Steps(c)) + 1
<1>1. /\ Sound(engine[c], log[c], plan[c]) /\ plan[c] \in Plan
      /\ Steps(c) = StepsOf(engine[c], plan[c])
  BY PlanFits
<1>2. PICK e, f : e = engine[c] /\ f = [e EXCEPT !.pc = "done", !.result = "ok"]
  OBVIOUS
<1>3. f.stage = e.stage /\ f.pc = "done" /\ f.at = e.at
  BY <1>1, <1>2 DEF Sound, WholeEngine
<1>4. Goto(c, f)
  BY <1>2 DEF EndOfSequence, Finish
<1>5. engine'[c] = f /\ \A d \in Caller : d # c => engine'[d] = engine[d]
  BY <1>4, GoesTo
<1>6. Within(c)
  BY <1>2, <1>3, <1>5 DEF Within, EndOfSequence, At, Busy
<1>7. engine[c].at = Len(Steps(c)) + 1
  <2>1. PICK st : st = Steps(c)
    OBVIOUS
  <2>2. st \in Seq(TemplateStep)
    BY <1>1, <2>1, StepsTyped DEF Sound
  <2>3. e.at \in 1 .. Len(st) + 1 /\ e.at > Len(st)
    BY <1>1, <1>2, <2>1 DEF Sound, EndOfSequence
  <2>. QED  BY <1>2, <2>1, <2>2, <2>3
<1>. QED  BY <1>2, <1>3, <1>5, <1>6, <1>7

LEMMA WithinStages ==
    ASSUME DeliveryInv, NEW c \in Caller, Within(c)
    PROVE  \A d \in Caller : InItsStage(d)'
<1>1. \A d \in Caller : InItsStage(d)
  BY DEF DeliveryInv
<1>2. /\ engine'[c].stage = engine[c].stage /\ plan' = plan /\ row' = row /\ Busy(c)
      /\ \A d \in Caller : d # c => engine'[d] = engine[d]
  BY DEF Within
<1>3. ASSUME NEW d \in Caller, d # c
      PROVE  InItsStage(d)'
  BY <1>1, <1>2, <1>3 DEF InItsStage, HasRow
<1>4. InItsStage(c)'
  BY <1>1, <1>2 DEF InItsStage, HasRow, Busy
<1>. QED  BY <1>3, <1>4

(* What has arrived for a send stays, whoever moves.                       *)
LEMMA Carries ==
    ASSUME DeliveryInv, Grows, NEW c \in Caller, engine[c].stage = "send"
    PROVE  /\ Shown(pane, c) \/ Pending(c) \/ ~pane.open =>
                  Shown(pane', c) \/ Pending(c)' \/ ~pane'.open
           /\ Shown(pane, c) \/ ~pane.open => Shown(pane', c) \/ ~pane'.open
           /\ Entered(pane, c) => Entered(pane', c)
<1>1. HasRow
  BY DEF DeliveryInv, InItsStage
<1>. QED  BY <1>1 DEF Grows, Holds

LEMMA StepsKept ==
    ASSUME NEW c \in Caller, engine'[c].stage = engine[c].stage, plan' = plan
    PROVE  Steps(c)' = Steps(c)
  BY DEF Steps

LEMMA BystandersKeep ==
    ASSUME DeliveryInv, Grows, NEW c \in Caller, plan' = plan,
           engine'[c] = engine[c], log'[c] = log[c], did'[c] = did[c]
    PROVE  TextArrives(c)'
<1>1. CASE engine[c].stage # "send"
  BY <1>1 DEF TextArrives
<1>2. CASE engine[c].stage = "send"
  <2>1. Steps(c)' = Steps(c) /\ TextArrives(c)
    BY StepsKept DEF DeliveryInv
  <2>. QED  BY <1>2, <2>1, Carries DEF TextArrives, At
<1>. QED  BY <1>1, <1>2

LEMMA SendFacts ==
    ASSUME EngineInv, BuiltinPlans, NEW c \in Caller, engine[c].stage = "send"
    PROVE  /\ Sends(Steps(c)) /\ AllPlain(Steps(c))
           /\ engine[c].at \in 1 .. Len(Steps(c)) + 1
           /\ Len(Steps(c)) \in {3, 4} /\ DOMAIN Steps(c) = 1 .. Len(Steps(c))
           /\ Text(c) = c
<1>1. /\ Sound(engine[c], log[c], plan[c])
      /\ Steps(c) = StepsOf(engine[c], plan[c])
  BY PlanFits
<1>2. Sends(Steps(c)) /\ AllPlain(Steps(c))
  BY BuiltinStages
<1>. QED  BY <1>1, <1>2 DEF Sound, Sends, Text

LEMMA FailsKeeps ==
    ASSUME EngineInv, BuiltinPlans, DeliveryInv, Grows, NEW c \in Caller,
           Running(c), Within(c), Fails(c)
    PROVE  TextArrives(c)'
<1>1. CASE engine[c].stage # "send"
  BY <1>1 DEF TextArrives, Within
<1>2. CASE engine[c].stage = "send"
  <2>1. Steps(c)' = Steps(c) /\ TextArrives(c)
    BY StepsKept DEF DeliveryInv, Within
  <2>2. PICK n, at, st : n = Len(st) /\ at = engine[c].at /\ st = Steps(c)
    OBVIOUS
  <2>3. /\ n \in {3, 4} /\ at \in 1 .. n /\ Sends(st)
    <3>1. n \in {3, 4} /\ at \in 1 .. n + 1 /\ Sends(st) /\ Text(c) = c
      BY <1>2, <2>2, SendFacts
    <3>2. at <= n
      BY <2>1, <2>2 DEF Running
    <3>. QED  BY <3>1, <3>2
  <2>4. Current(c).ignore => at < n - 2
    BY <2>2, <2>3 DEF Sends, Current
  <2>5. \/ engine'[c].pc = "step" /\ engine'[c].at = at + 1 /\ at < n - 2
        \/ engine'[c].pc = "done" /\ engine'[c].at = at /\ engine'[c].result # "ok"
    BY <2>2, <2>4 DEF Fails
  <2>6. "signal" \notin Range(log'[c]) => "signal" \notin Range(log[c])
    BY DEF Within
  <2>. QED  BY <1>2, <2>1, <2>2, <2>3, <2>5, <2>6, Carries DEF TextArrives, At
<1>. QED  BY <1>1, <1>2

LEMMA WorksKeeps ==
    ASSUME EngineInv, BuiltinPlans, DeliveryInv, Grows, NEW c \in Caller,
           Running(c), Within(c), Works(c),
           \/ At(c, "child") /\ did[c]
           \/ (At(c, "pause") /\ ~Pending(c)) \/ engine[c].stage # "send"
    PROVE  TextArrives(c)'
<1>1. CASE engine[c].stage # "send"
  BY <1>1 DEF TextArrives, Within
<1>2. CASE engine[c].stage = "send"
  <2>1. Steps(c)' = Steps(c) /\ TextArrives(c)
    BY StepsKept DEF DeliveryInv, Within
  <2>2. PICK n, at, st : n = Len(st) /\ at = engine[c].at /\ st = Steps(c)
    OBVIOUS
  <2>3. /\ n \in {3, 4} /\ at \in 1 .. n /\ Sends(st)
    <3>1. n \in {3, 4} /\ at \in 1 .. n + 1 /\ Sends(st) /\ Text(c) = c
      BY <1>2, <2>2, SendFacts
    <3>2. at <= n
      BY <2>1, <2>2 DEF Running
    <3>. QED  BY <3>1, <3>2
  <2>4. At(c, "child") => at # n - 1
    BY <2>2, <2>3, RunningFits DEF Sends, Current
  <2>5. engine'[c].pc = "step" /\ engine'[c].at = at + 1
    BY <2>2 DEF Works
  <2>6. "signal" \notin Range(log'[c]) => "signal" \notin Range(log[c])
    BY DEF Within
  <2>7. CASE At(c, "child") /\ did[c]
    BY <1>2, <2>1, <2>2, <2>3, <2>4, <2>5, <2>6, <2>7, Carries DEF TextArrives, At
  <2>8. CASE At(c, "pause") /\ ~Pending(c)
    BY <1>2, <2>1, <2>2, <2>3, <2>5, <2>6, <2>8, Carries DEF TextArrives, At
  <2>. QED  BY <1>2, <2>7, <2>8
<1>. QED  BY <1>1, <1>2

LEMMA StaysKeeps ==
    ASSUME EngineInv, BuiltinPlans, DeliveryInv, Grows, NEW c \in Caller, Within(c),
           engine'[c].at = engine[c].at,
           \/ engine'[c].pc = "child" /\ ~did'[c]
           \/ engine'[c].pc = "pause" /\ Current(c).type = "wait_ms" /\ Running(c)
           \/ engine'[c].pc = "done" /\ engine[c].at = Len(Steps(c)) + 1
    PROVE  TextArrives(c)'
<1>1. CASE engine[c].stage # "send"
  BY <1>1 DEF TextArrives, Within
<1>2. CASE engine[c].stage = "send"
  <2>1. Steps(c)' = Steps(c) /\ TextArrives(c)
    BY StepsKept DEF DeliveryInv, Within
  <2>2. PICK n, at, st : n = Len(st) /\ at = engine[c].at /\ st = Steps(c)
    OBVIOUS
  <2>3. /\ n \in {3, 4} /\ at \in 1 .. n + 1 /\ Sends(st)
    BY <1>2, <2>2, SendFacts
  <2>4. Current(c).type = "wait_ms" /\ Running(c) => at = n - 1
    BY <2>2, <2>3 DEF Sends, Current, Running
  <2>5. "signal" \notin Range(log'[c]) => "signal" \notin Range(log[c])
    BY DEF Within
  <2>. QED  BY <1>2, <2>1, <2>2, <2>3, <2>4, <2>5, Carries DEF TextArrives, At
<1>. QED  BY <1>1, <1>2

LEMMA ActingKeeps ==
    ASSUME EngineInv, BuiltinPlans, DeliveryInv, Grows, NEW c \in Caller, CommandActs(c)
    PROVE  TextArrives(c)'
<1>0. /\ engine' = engine /\ plan' = plan /\ log' = log /\ At(c, "child")
      /\ CanAct(Current(c).does) /\ pane' = PaneAfter(Current(c).does, Text(c))
  BY DEF CommandActs
<1>1. CASE engine[c].stage # "send"
  BY <1>0, <1>1 DEF TextArrives
<1>2. CASE engine[c].stage = "send"
  <2>1. Steps(c)' = Steps(c) /\ TextArrives(c) /\ Running(c) /\ WholePane(pane)
    BY <1>0, StepsKept, RunningFits DEF DeliveryInv
  <2>2. PICK n, at, st : n = Len(st) /\ at = engine[c].at /\ st = Steps(c)
    OBVIOUS
  <2>3. /\ n \in {3, 4} /\ at \in 1 .. n /\ Sends(st) /\ Text(c) = c
    <3>1. n \in {3, 4} /\ at \in 1 .. n + 1 /\ Sends(st) /\ Text(c) = c
      BY <1>2, <2>2, SendFacts
    <3>2. at <= n
      BY <2>1, <2>2 DEF Running
    <3>. QED  BY <3>1, <3>2
  <2>4. at # n - 1
    BY <1>0, <2>2, <2>3, RunningFits DEF Sends, Current
  <2>5. PICK does : does = Current(c).does
    OBVIOUS
  <2>6. does \in Effects /\ c \in AllTexts
    BY <2>1, <2>5, RunningStep DEF AllTexts
  <2>7. PICK q : q = PaneAfter(does, c)
    OBVIOUS
  <2>8. pane' = q
    BY <1>0, <2>3, <2>5, <2>7
  <2>9. at = n - 2 => Shown(pane', c) \/ Pending(c)'
    <3>1. at = n - 2 => does \in {"type", "inject"}
      BY <2>2, <2>3, <2>5 DEF Sends, Current
    <3>2. does = "type" => Shown(q, c)
      BY <2>1, <2>6, <2>7, PaneGrows
    <3>3. does = "inject" => Pending(c)'
      BY <2>3, <2>5 DEF CommandActs, Later, Pending
    <3>. QED  BY <2>8, <3>1, <3>2, <3>3
  <2>10. at = n => does = "enter"
    BY <2>2, <2>3, <2>5 DEF Sends, Current
  <2>11. at = n /\ Shown(pane, c) => Entered(pane', c)
    <3>1. does = "enter" => \A t : Shown(pane, t) => Entered(q, t)
      BY <2>1, <2>6, <2>7, PaneGrows
    <3>. QED  BY <2>8, <2>10, <3>1
  <2>12. at = n => pane.open
    BY <1>0, <2>5, <2>10 DEF CanAct
  <2>. QED  BY <1>0, <1>2, <2>1, <2>2, <2>3, <2>4, <2>9, <2>11, <2>12, Carries DEF TextArrives, At
<1>. QED  BY <1>1, <1>2

-----------------------------------------------------------------------------
(***************************************************************************)
(* Every step of the system keeps DeliveryInv.                             *)
(***************************************************************************)

(* What each step leaves for the caller that takes it and for the others.  *)
Kept(c) ==
    /\ \A d \in Caller : InItsStage(d)'
    /\ TextArrives(c)'
    /\ plan' = plan
    /\ \A d \in Caller : d # c => engine'[d] = engine[d] /\ log'[d] = log[d] /\ did'[d] = did[d]

LEMMA OutcomesKeep ==
    ASSUME EngineInv, BuiltinPlans, DeliveryInv, Grows, NEW c \in Caller, Running(c),
           plan' = plan, row' = row, did' = did,
           \/ \E o \in Outcomes, code \in {"sequence_step_failed", "timeout", "capture_failed"} :
                 Failed(c, code, o)
           \/ /\ Succeeded(c, "ok")
              /\ \/ At(c, "child") /\ did[c]
                 \/ (At(c, "pause") /\ ~Pending(c)) \/ engine[c].stage # "send"
           \/ Succeeded(c, "signal")
    PROVE  Kept(c)
<1>1. CASE \E o \in Outcomes, code \in {"sequence_step_failed", "timeout", "capture_failed"} :
              Failed(c, code, o)
  <2>1. PICK o \in Outcomes, code \in {"sequence_step_failed", "timeout", "capture_failed"} :
               Failed(c, code, o)
    BY <1>1
  <2>2. code # "ok"
    OBVIOUS
  <2>3. Within(c) /\ Fails(c)
    BY <2>1, <2>2, FailsWithin
  <2>4. TextArrives(c)'
    BY <2>3, FailsKeeps
  <2>. QED  BY <2>3, <2>4, WithinStages DEF Kept, Within
<1>2. CASE /\ Succeeded(c, "ok")
           /\ \/ At(c, "child") /\ did[c]
              \/ (At(c, "pause") /\ ~Pending(c)) \/ engine[c].stage # "send"
  <2>1. "ok" \in Worked
    BY DEF Worked
  <2>2. Within(c) /\ Works(c)
    BY <1>2, <2>1, WorksWithin
  <2>3. TextArrives(c)'
    BY <1>2, <2>2, WorksKeeps
  <2>. QED  BY <2>2, <2>3, WithinStages DEF Kept, Within
<1>3. CASE Succeeded(c, "signal")
  <2>1. "signal" \in Worked
    BY DEF Worked
  <2>2. Within(c) /\ "signal" \in Range(log'[c])
    BY <1>3, <2>1, WorksWithin
  <2>3. TextArrives(c)'
    BY <2>2 DEF TextArrives
  <2>. QED  BY <2>2, <2>3, WithinStages DEF Kept, Within
<1>. QED  BY <1>1, <1>2, <1>3

LEMMA SpawnDelivers ==
    ASSUME EngineInv, BuiltinPlans, DeliveryInv, Grows, NEW c \in Caller, Spawn(c)
    PROVE  Kept(c)
<1>1. /\ Running(c) /\ Busy(c) /\ plan' = plan /\ row' = row
      /\ did' = [did EXCEPT ![c] = FALSE]
  BY RunningFits DEF Spawn, Running
<1>2. did = [d \in Caller |-> did[d]]
  BY DEF DeliveryInv
<1>3. ~did'[c] /\ \A d \in Caller : d # c => did'[d] = did[d]
  BY <1>1, <1>2
<1>4. CASE Current(c).background
  <2>1. "ok" \in Worked /\ Succeeded(c, "ok")
    BY <1>4 DEF Worked, Spawn
  <2>2. Within(c) /\ Works(c)
    BY <1>1, <1>3, <2>1, WorksWithin
  <2>3. engine[c].stage # "send"
    <3>1. engine[c].stage = "send" => AllPlain(Steps(c))
      BY SendFacts
    <3>2. engine[c].at \in DOMAIN Steps(c)
      BY <1>1, RunningStep
    <3>. QED  BY <1>4, <3>1, <3>2 DEF AllPlain, Plain, Current
  <2>4. TextArrives(c)'
    BY <2>2, <2>3 DEF TextArrives, Within
  <2>. QED  BY <1>1, <1>3, <2>2, <2>4, WithinStages DEF Kept, Within
<1>5. CASE ~Current(c).background
  <2>1. Goto(c, [engine[c] EXCEPT !.pc = "child"]) /\ log' = log
    BY <1>5 DEF Spawn
  <2>2. Within(c) /\ engine'[c].pc = "child" /\ engine'[c].at = engine[c].at
    BY <1>1, <1>3, <2>1, StaysWithin
  <2>3. TextArrives(c)'
    BY <1>3, <2>2, StaysKeeps
  <2>. QED  BY <1>1, <1>3, <2>2, <2>3, WithinStages DEF Kept, Within
<1>. QED  BY <1>4, <1>5

LEMMA PauseDelivers ==
    ASSUME EngineInv, BuiltinPlans, DeliveryInv, Grows, NEW c \in Caller, Pause(c)
    PROVE  Kept(c)
<1>1. /\ Running(c) /\ Busy(c) /\ plan' = plan /\ row' = row /\ did' = did /\ log' = log
      /\ Goto(c, [engine[c] EXCEPT !.pc = "pause"]) /\ Current(c).type = "wait_ms"
  BY RunningFits DEF Pause, Running
<1>2. Within(c) /\ engine'[c].pc = "pause" /\ engine'[c].at = engine[c].at
  BY <1>1, StaysWithin
<1>3. TextArrives(c)'
  BY <1>1, <1>2, StaysKeeps
<1>. QED  BY <1>1, <1>2, <1>3, WithinStages DEF Kept, Within

LEMMA EndDelivers ==
    ASSUME EngineInv, BuiltinPlans, DeliveryInv, Grows, NEW c \in Caller, EndOfSequence(c)
    PROVE  Kept(c)
<1>1. /\ Within(c) /\ engine'[c].pc = "done" /\ engine'[c].at = engine[c].at
      /\ engine[c].at = Len(Steps(c)) + 1
  BY EndsWithin
<1>2. TextArrives(c)'
  BY <1>1, StaysKeeps
<1>. QED  BY <1>1, <1>2, WithinStages DEF Kept, Within

(* Another sequence of one operation.                                      *)
LEMMA NextStageKeeps ==
    ASSUME EngineInv, DeliveryInv, NEW c \in Caller, NEW f, Goto(c, f), plan' = plan,
           engine[c].stage \in CreateStages, f.stage \in CreateStages, did' = did,
           engine[c].pc \notin {"idle", "over"},
           row' = row \/ f.pc = "over",
           \A d \in Caller : d # c => log'[d] = log[d]
    PROVE  Kept(c)
<1>1. engine'[c] = f /\ \A d \in Caller : d # c => engine'[d] = engine[d]
  BY GoesTo
<1>2. plan[c].kind = "create" /\ plan \in Plans
  BY DEF DeliveryInv, InItsStage, EngineInv
<1>3. \A d \in Caller : plan[d].kind = "create" => d = c
  BY <1>2, PlansAssumption
<1>4. \A d \in Caller : InItsStage(d)
  BY DEF DeliveryInv
<1>5. f.stage # "send"
  BY DEF CreateStages
<1>6. InItsStage(c)'
  <2>1. CASE row' = row
    <3>1. ~HasRow
      BY <1>2, <1>4 DEF InItsStage
    <3>. QED  BY <1>1, <1>2, <1>5, <2>1, <3>1 DEF InItsStage, HasRow
  <2>2. CASE f.pc = "over"
    BY <1>1, <1>2, <1>5, <2>2 DEF InItsStage, HasRow
  <2>. QED  BY <2>1, <2>2
<1>7. ~HasRow
  BY <1>2, <1>4 DEF InItsStage
<1>8. ASSUME NEW d \in Caller, d # c
      PROVE  InItsStage(d)'
  BY <1>1, <1>3, <1>4, <1>7, <1>8 DEF InItsStage
<1>9. TextArrives(c)'
  BY <1>1, <1>5 DEF TextArrives
<1>. QED  BY <1>1, <1>6, <1>8, <1>9 DEF Kept

LEMMA BegunStage ==
    ASSUME NEW stage, NEW variables, NEW was,
           NEW b, b = Begin(stage, variables), NEW f, f = [b EXCEPT !.failed = was]
    PROVE  b.stage = stage /\ b.pc = "step" /\ b.at = 1 /\ f.stage = stage
  BY DEF Begin

LEMMA CreateDelivers ==
    ASSUME EngineInv, DeliveryInv, NEW c \in Caller, CreateGoesOn(c) \/ StartGoesOn(c)
    PROVE  Kept(c)
<1>1. /\ engine[c].stage \in CreateStages /\ engine[c].pc = "done" /\ plan' = plan /\ did' = did
      /\ engine[c].stage # "send"
  BY DEF CreateGoesOn, StartGoesOn, CreateStages, At
<1>2. ASSUME NEW stage \in CreateStages, NEW variables, Next1(c, stage, variables), row' = row
      PROVE  Kept(c)
  <2>1. PICK f : f = Begin(stage, variables)
    OBVIOUS
  <2>2. f.stage = stage
    BY <2>1, BegunStage
  <2>3. Goto(c, f) /\ log' = [log EXCEPT ![c] = <<>>]
    BY <1>2, <2>1 DEF Next1
  <2>4. \A d \in Caller : d # c => log'[d] = log[d]
    BY <2>3, LogGoesTo
  <2>. QED  BY <1>1, <1>2, <2>2, <2>3, <2>4, NextStageKeeps
<1>3. ASSUME NEW variables, CleanUp(c, variables), row' = row
      PROVE  Kept(c)
  <2>0. PICK was, b : was = engine[c].stage /\ b = Begin("cleanup", variables)
    OBVIOUS
  <2>1. PICK f : f = [b EXCEPT !.failed = was]
    OBVIOUS
  <2>2. f.stage \in CreateStages
    <3>1. PICK stage : stage = "cleanup"
      OBVIOUS
    <3>2. b = Begin(stage, variables)
      BY <2>0, <3>1
    <3>3. f.stage = stage
      BY <2>1, <3>2 DEF Begin
    <3>. QED  BY <3>1, <3>3 DEF CreateStages
  <2>3. Goto(c, f) /\ log' = [log EXCEPT ![c] = <<>>]
    BY <1>3, <2>0, <2>1 DEF CleanUp
  <2>4. \A d \in Caller : d # c => log'[d] = log[d]
    BY <2>3, LogGoesTo
  <2>. QED  BY <1>1, <1>3, <2>2, <2>3, <2>4, NextStageKeeps
<1>4. ASSUME NEW r, InsertRow(c, r), log' = log
      PROVE  Kept(c)
  <2>1. WholeEngine(engine[c])
    BY PlanFits DEF Sound
  <2>2. PICK e, f : e = engine[c] /\ f = [e EXCEPT !.pc = "over"]
    OBVIOUS
  <2>3. f.stage = e.stage /\ f.pc = "over"
    BY <2>1, <2>2 DEF WholeEngine
  <2>4. Goto(c, f)
    BY <1>4, <2>2 DEF InsertRow
  <2>. QED  BY <1>1, <1>4, <2>2, <2>3, <2>4, NextStageKeeps
<1>5. {"start", "boot", "paste"} \subseteq CreateStages
  BY DEF CreateStages
<1>6. CASE CreateGoesOn(c)
  BY <1>2, <1>3, <1>5, <1>6 DEF CreateGoesOn
<1>7. CASE StartGoesOn(c)
  <2>1. PICK kept : kept = Restrict(engine[c].vars, DOMAIN engine[c].vars \ {"message"})
    OBVIOUS
  <2>2. \/ CleanUp(c, kept) /\ row' = row
        \/ Next1(c, "boot", kept) /\ row' = row
        \/ Next1(c, "paste", Over(Given({"message"}), kept)) /\ row' = row
        \/ InsertRow(c, RefIn(kept)) /\ log' = log
    BY <1>7, <2>1 DEF StartGoesOn
  <2>. QED  BY <1>2, <1>3, <1>4, <1>5, <2>2
<1>. QED  BY <1>6, <1>7

LEMMA StartDelivers ==
    ASSUME EngineInv, BuiltinPlans, DeliveryInv, NEW c \in Caller, Start(c)
    PROVE  Kept(c)
<1>1. /\ engine[c] = Idle /\ log' = log /\ plan' = plan /\ row' = row /\ did' = did
      /\ log[c] = <<>> /\ plan[c] \in Plan
  BY PlanFits DEF Start, At, Sound
<1>2. /\ \A d \in Caller : InItsStage(d)
      /\ WholeEngine(Idle)
  BY IdleFits DEF DeliveryInv, Fresh
<1>3. ASSUME NEW f, Goto(c, f), f.pc # "idle",
             f.stage \in CreateStages => plan[c].kind = "create",
             f.stage = "send" => HasRow /\ f.at = 1 /\ f.pc = "step",
             plan[c].kind = "create" => ~HasRow
      PROVE  Kept(c)
  <2>1. engine'[c] = f /\ \A d \in Caller : d # c => engine'[d] = engine[d]
    BY <1>3, GoesTo
  <2>2. InItsStage(c)'
    BY <1>1, <1>3, <2>1 DEF InItsStage, HasRow
  <2>3. ASSUME NEW d \in Caller, d # c
        PROVE  InItsStage(d)'
    BY <1>1, <1>2, <2>1, <2>3 DEF InItsStage, HasRow
  <2>4. TextArrives(c)'
    <3>1. CASE f.stage # "send"
      BY <2>1, <3>1 DEF TextArrives
    <3>2. CASE f.stage = "send"
      <4>1. Steps(c)' = plan[c].template.send
        BY <1>1, <2>1, <3>2 DEF Steps
      <4>2. plan[c].template \in BuiltinMux
        BY DEF BuiltinPlans, EngineInv
      <4>3. PICK st : st = plan[c].template.send
        OBVIOUS
      <4>4. Len(st) \in {3, 4}
        BY <4>2, <4>3, BuiltinFit DEF Sends
      <4>5. Steps(c)' = st
        BY <4>1, <4>3
      <4>6. engine'[c].at = 1 /\ engine'[c].pc = "step"
        BY <1>3, <2>1, <3>2
      <4>7. PICK n : n = Len(st)
        OBVIOUS
      <4>8. ~(1 >= n - 1) /\ ~(1 >= n) /\ ~(1 = n + 1) /\ n = Len(Steps(c))'
        BY <4>4, <4>5, <4>7
      <4>. QED  BY <4>6, <4>8 DEF TextArrives, At
    <3>. QED  BY <3>1, <3>2
  <2>. QED  BY <1>1, <2>1, <2>2, <2>3, <2>4 DEF Kept
<1>4. ASSUME NEW stage, NEW variables, Goto(c, Begin(stage, variables)),
             stage \in CreateStages => plan[c].kind = "create",
             stage = "send" => HasRow,
             plan[c].kind = "create" => ~HasRow
      PROVE  Kept(c)
  <2>1. PICK f : f = Begin(stage, variables)
    OBVIOUS
  <2>2. f.stage = stage /\ f.pc = "step" /\ f.at = 1
    BY <2>1 DEF Begin
  <2>. QED  BY <1>3, <1>4, <2>1, <2>2
<1>5. ASSUME NEW code, Goto(c, Finish(c, code)), plan[c].kind # "create"
      PROVE  Kept(c)
  <2>1. PICK f : f = Finish(c, code)
    OBVIOUS
  <2>2. f.stage = "job" /\ f.pc = "done"
    BY <1>1, <1>2, <2>1, IdleFits DEF Finish, WholeEngine
  <2>3. "job" \notin CreateStages
    BY DEF CreateStages
  <2>. QED  BY <1>3, <1>5, <2>1, <2>2, <2>3
<1>6. CASE plan[c].kind = "create"
  <2>1. ~HasRow /\ Goto(c, Begin("create", Given(BaseNames)))
    BY <1>6 DEF Start
  <2>. QED  BY <1>4, <1>6, <2>1
<1>7. CASE plan[c].kind = "send"
  <2>1. HasRow /\ Goto(c, Begin("send", SendVars(ref)))
    BY <1>7 DEF Start
  <2>. QED  BY <1>4, <1>7, <2>1 DEF CreateStages
<1>8. CASE plan[c].kind = "close"
  <2>1. Goto(c, Begin("close", ref)) \/ Goto(c, Finish(c, "ok"))
    BY <1>8 DEF Start
  <2>. QED  BY <1>4, <1>5, <1>8, <2>1 DEF CreateStages
<1>9. CASE plan[c].kind = "peek"
  <2>1. Goto(c, Begin("peek", PeekVars(ref))) \/ Goto(c, Finish(c, "unsupported"))
    BY <1>9 DEF Start
  <2>. QED  BY <1>4, <1>5, <1>9, <2>1 DEF CreateStages
<1>10. CASE plan[c].kind = "job"
  <2>1. Goto(c, Begin("job", Given(BaseNames)))
    BY <1>10 DEF Start
  <2>. QED  BY <1>4, <1>10, <2>1 DEF CreateStages
<1>. QED  BY <1>6, <1>7, <1>8, <1>9, <1>10 DEF Start

LEMMA DeliveryInvInit == EngineInv /\ Init => DeliveryInv
<1>. SUFFICES ASSUME EngineInv, Init PROVE DeliveryInv
  OBVIOUS
<1>1. /\ pane = [open |-> HasRow, line |-> <<>>, lines |-> <<>>] /\ late = {}
      /\ did = [c \in Caller |-> FALSE] /\ engine = [c \in Caller |-> Idle]
      /\ HasRow \in BOOLEAN
  BY DEF Init, HasRow
<1>2. \A S : <<>> \in Seq(S)
  OBVIOUS
<1>3. WholePane(pane)
  <2>1. pane.open = HasRow /\ pane.line = <<>> /\ pane.lines = <<>>
    BY <1>1
  <2>. QED  BY <1>1, <1>2, <2>1 DEF WholePane
<1>4. ASSUME NEW c \in Caller
      PROVE  InItsStage(c) /\ TextArrives(c)
  <2>1. engine[c].stage = "job" /\ engine[c].pc = "idle"
    BY <1>1, IdleFits
  <2>. QED  BY <2>1 DEF InItsStage, TextArrives, CreateStages
<1>5. did = [c \in Caller |-> did[c]] /\ WholeLate
  BY <1>1 DEF WholeLate
<1>. QED  BY <1>3, <1>4, <1>5 DEF DeliveryInv

LEMMA KeptAll ==
    ASSUME DeliveryInv, Grows, did' = [d \in Caller |-> did'[d]], NEW c \in Caller, Kept(c)
    PROVE  DeliveryInv'
<1>1. ASSUME NEW d \in Caller
      PROVE  TextArrives(d)'
  <2>1. CASE d = c
    BY <2>1 DEF Kept
  <2>2. CASE d # c
    BY <2>2, BystandersKeep DEF Kept
  <2>. QED  BY <2>1, <2>2
<1>. QED  BY <1>1 DEF DeliveryInv, Kept, Grows

LEMMA DeliveryInvNext ==
    ASSUME EngineInv, BuiltinPlans, DeliveryInv, [Next]_vars
    PROVE  DeliveryInv'
<1>1. CASE UNCHANGED vars
  <2>1. /\ engine' = engine /\ log' = log /\ plan' = plan /\ row' = row /\ did' = did
        /\ pane' = pane /\ late' = late
    BY <1>1 DEF vars
  <2>2. Grows
    BY <2>1, NothingHappens
  <2>3. \A d \in Caller : InItsStage(d)'
    BY <2>1 DEF DeliveryInv, InItsStage, HasRow
  <2>4. \A d \in Caller : TextArrives(d)'
    BY <2>1, <2>2, BystandersKeep
  <2>. QED  BY <2>1, <2>2, <2>3, <2>4 DEF DeliveryInv, Grows
<1>2. ASSUME Next
      PROVE  Grows
  BY <1>2, EverythingGrows
<1>3. ASSUME Next
      PROVE  did' = [d \in Caller |-> did'[d]]
  <2>1. did = [d \in Caller |-> did[d]]
    BY DEF DeliveryInv
  <2>2. \/ did' = did
        \/ \E c \in Caller, b \in BOOLEAN : did' = [did EXCEPT ![c] = b]
    BY <1>3 DEF Next, EngineStep, CommandStep, Start, MissingVariable, Spawn, WriteStep, Pause,
                PauseEnds, TimesOut, EndOfSequence, CreateGoesOn, StartGoesOn, CommandActs,
                ExitsZero, ExitsNonZero, KilledBySignal, SpawnFails, LateEffect
  <2>. QED  BY <2>1, <2>2
<1>4. ASSUME NEW c \in Caller, EngineStep(c), Grows
      PROVE  Kept(c)
  <2>1. CASE MissingVariable(c)
    BY <1>4, <2>1, RunningFits, OutcomesKeep DEF MissingVariable, Outcomes
  <2>2. CASE WriteStep(c)
    <3>1. /\ Running(c) /\ plan' = plan /\ row' = row /\ did' = did
          /\ Succeeded(c, "ok") \/ Failed(c, "sequence_step_failed", "error")
      BY <2>2, RunningFits DEF WriteStep
    <3>2. engine[c].stage # "send"
      <4>1. engine[c].at \in DOMAIN Steps(c) /\ Current(c).type = "write_file"
        BY <2>2, <3>1, RunningStep DEF WriteStep
      <4>2. engine[c].stage = "send" => Sends(Steps(c))
        BY SendFacts
      <4>. QED  BY <4>1, <4>2 DEF Sends, Current
    <3>3. "error" \in Outcomes
      BY DEF Outcomes
    <3>. QED  BY <1>4, <3>1, <3>2, <3>3, OutcomesKeep
  <2>3. CASE PauseEnds(c)
    <3>1. /\ Running(c) /\ plan' = plan /\ row' = row /\ did' = did
          /\ Succeeded(c, "ok") /\ At(c, "pause")
      BY <2>3, RunningFits DEF PauseEnds
    <3>2. engine[c].stage = "send" => ~Pending(c)
      BY <2>3, SendFacts DEF PauseEnds, Pending
    <3>. QED  BY <1>4, <3>1, <3>2, OutcomesKeep
  <2>4. CASE TimesOut(c)
    BY <1>4, <2>4, RunningFits, OutcomesKeep DEF TimesOut, Outcomes
  <2>. QED  BY <1>4, <2>1, <2>2, <2>3, <2>4, StartDelivers, SpawnDelivers, PauseDelivers,
               EndDelivers, CreateDelivers DEF EngineStep
<1>5. ASSUME NEW c \in Caller, CommandStep(c), Grows
      PROVE  DeliveryInv' \/ Kept(c)
  <2>1. CASE CommandActs(c)
    <3>1. engine' = engine /\ log' = log /\ plan' = plan /\ row' = row
      BY <2>1 DEF CommandActs
    <3>2. \A d \in Caller : InItsStage(d)'
      BY <3>1 DEF DeliveryInv, InItsStage, HasRow
    <3>3. \A d \in Caller : d # c => did'[d] = did[d]
      BY <2>1 DEF CommandActs, DeliveryInv
    <3>4. TextArrives(c)'
      BY <1>5, <2>1, ActingKeeps
    <3>. QED  BY <3>1, <3>2, <3>3, <3>4 DEF Kept
  <2>2. CASE ExitsZero(c)
    BY <1>5, <2>2, RunningFits, OutcomesKeep DEF ExitsZero, Outcomes
  <2>3. CASE ExitsNonZero(c)
    BY <1>5, <2>3, RunningFits, OutcomesKeep DEF ExitsNonZero, Outcomes
  <2>4. CASE KilledBySignal(c)
    BY <1>5, <2>4, RunningFits, OutcomesKeep DEF KilledBySignal, Outcomes
  <2>5. CASE SpawnFails(c)
    BY <1>5, <2>5, RunningFits, OutcomesKeep DEF SpawnFails, Outcomes
  <2>. QED  BY <1>5, <2>1, <2>2, <2>3, <2>4, <2>5 DEF CommandStep
<1>6. ASSUME NEW x \in late, LateEffect(x), Grows
      PROVE  DeliveryInv'
  <2>1. engine' = engine /\ log' = log /\ plan' = plan /\ row' = row /\ did' = did
    BY <1>6 DEF LateEffect
  <2>2. \A d \in Caller : InItsStage(d)'
    BY <2>1 DEF DeliveryInv, InItsStage, HasRow
  <2>3. \A d \in Caller : TextArrives(d)'
    BY <1>6, <2>1, BystandersKeep
  <2>. QED  BY <1>6, <2>1, <2>2, <2>3 DEF DeliveryInv, Grows
<1>. QED  BY <1>1, <1>2, <1>3, <1>4, <1>5, <1>6, KeptAll DEF Next

LEMMA DeliveredThen ==
    ASSUME EngineInv, BuiltinPlans, DeliveryInv
    PROVE  DeliveredIsSubmitted
<1>. SUFFICES ASSUME NEW c \in Caller, At(c, "done"), engine[c].stage = "send",
                     engine[c].result = "ok", "signal" \notin Range(log[c])
              PROVE  \E i \in DOMAIN pane.lines : c \in Range(pane.lines[i])
  BY DEF DeliveredIsSubmitted
<1>1. TextArrives(c) /\ Len(Steps(c)) \in {3, 4}
  BY SendFacts DEF DeliveryInv
<1>2. Entered(pane, c)
  BY <1>1 DEF TextArrives
<1>. QED  BY <1>2 DEF Entered

(* With the builtin templates a send that reports success, none of whose   *)
(* commands died by a signal, had its text submitted, however many others  *)
(* use the pane or end it meanwhile and whatever goes wrong.               *)
THEOREM DeliveryIsSubmission == BuiltinPlans => (Spec => []DeliveredIsSubmitted)
<1>. SUFFICES ASSUME BuiltinPlans PROVE Spec => []DeliveredIsSubmitted
  OBVIOUS
<1>1. EngineInv /\ Init => DeliveryInv
  BY DeliveryInvInit
<1>2. EngineInv /\ DeliveryInv /\ [Next]_vars => DeliveryInv'
  BY DeliveryInvNext
<1>3. EngineInv /\ DeliveryInv => DeliveredIsSubmitted
  BY DeliveredThen
<1>. QED  BY <1>1, <1>2, <1>3, EngineHolds, PTL DEF Spec

-----------------------------------------------------------------------------
(***************************************************************************)
(* The builtin templates, as far as variables are concerned.               *)
(***************************************************************************)

(* What create captures, what create-session then knows, what it stores.   *)
Caught(st) == UNION {st[i].capture : i \in DOMAIN st}
Known(t) == (BaseNames \cup t.refs.declared \cup Caught(t.create)) \ {"message"}
Stored(t) == Known(t) \ BaseNames

NeedsIn(st, names) == \A i \in DOMAIN st : st[i].needs \subseteq names
OnlyCommands(st) == \A i \in DOMAIN st : st[i].capture = {} /\ st[i].type = "run"
Chained(st) ==
    \A i \in DOMAIN st :
        /\ st[i].ignore = FALSE
        /\ st[i].needs \subseteq BaseNames \cup UNION {st[j].capture : j \in 1 .. i - 1}

MessageNames == {"message"}
PeekNames == {"session_id", "cwd", "peek_source", "peek_lines"}
AttachNames == {"session_id", "cwd", "session_dir"}

VariablesFit(t) ==
    /\ t.refs.from \subseteq BaseNames
    /\ Chained(t.create)
    /\ NeedsIn(t.run_in_pane, Known(t))
    /\ NeedsIn(t.send, Stored(t) \cup MessageNames)
    /\ NeedsIn(t.peek, Stored(t) \cup PeekNames)
    /\ NeedsIn(t.close, Stored(t))
    /\ \E step : t.attach = <<step>> /\ step.type = "run" /\ step.needs \subseteq Stored(t) \cup AttachNames
    /\ OnlyCommands(t.close) /\ Len(t.close) >= 1 /\ t.close[1].does = "kill"

LEMMA OneNeeds ==
    ASSUME NEW a, NEW names, a.needs \subseteq names
    PROVE  NeedsIn(<<a>>, names)
<1>1. PICK s : s = <<a>>
  OBVIOUS
<1>2. DOMAIN s = {1} /\ s[1] = a
  BY <1>1
<1>. QED  BY <1>1, <1>2 DEF NeedsIn

LEMMA OneIs ==
    ASSUME NEW a
    PROVE  /\ a.capture = {} /\ a.type = "run" => OnlyCommands(<<a>>)
           /\ a.ignore = FALSE /\ a.needs \subseteq BaseNames => Chained(<<a>>)
           /\ Len(<<a>>) = 1 /\ <<a>>[1] = a
<1>1. PICK s : s = <<a>>
  OBVIOUS
<1>2. DOMAIN s = {1} /\ s[1] = a /\ Len(s) = 1
  BY <1>1
<1>. QED  BY <1>1, <1>2 DEF OnlyCommands, Chained

LEMMA TwoNeed ==
    ASSUME NEW a, NEW b, NEW names, a.needs \subseteq names, b.needs \subseteq names
    PROVE  NeedsIn(<<a, b>>, names)
<1>1. PICK s : s = <<a, b>>
  OBVIOUS
<1>2. DOMAIN s = {1, 2} /\ s[1] = a /\ s[2] = b
  BY <1>1
<1>. QED  BY <1>1, <1>2 DEF NeedsIn

LEMMA TwoAre ==
    ASSUME NEW a, NEW b
    PROVE  /\ a.capture = {} /\ b.capture = {} /\ a.type = "run" /\ b.type = "run"
              => OnlyCommands(<<a, b>>)
           /\ /\ a.ignore = FALSE /\ a.needs \subseteq BaseNames
              /\ b.ignore = FALSE /\ b.needs \subseteq BaseNames \cup a.capture
              => Chained(<<a, b>>)
           /\ Caught(<<a, b>>) = a.capture \cup b.capture
           /\ Len(<<a, b>>) = 2 /\ <<a, b>>[1] = a
<1>1. PICK s : s = <<a, b>>
  OBVIOUS
<1>2. DOMAIN s = {1, 2} /\ s[1] = a /\ s[2] = b /\ Len(s) = 2
  BY <1>1
<1>3. {s[j].capture : j \in 1 .. 2 - 1} = {a.capture}
  <2>1. 1 .. 2 - 1 = {1}
    OBVIOUS
  <2>. QED  BY <1>2, <2>1
<1>4. {s[j].capture : j \in DOMAIN s} = {a.capture, b.capture}
  BY <1>2
<1>5. UNION {a.capture} = a.capture /\ UNION {a.capture, b.capture} = a.capture \cup b.capture
  OBVIOUS
<1>. QED  BY <1>1, <1>2, <1>3, <1>4, <1>5 DEF OnlyCommands, Chained, Caught

LEMMA TwoChained ==
    ASSUME NEW a, NEW b, a.ignore = FALSE, b.ignore = FALSE, a.needs \subseteq BaseNames,
           b.needs \subseteq BaseNames \cup a.capture, NEW s, s = <<a, b>>
    PROVE  Chained(s) /\ Caught(s) = a.capture \cup b.capture
<1>1. b.needs \subseteq BaseNames \cup a.capture
  OBVIOUS
<1>. QED  BY <1>1, TwoAre

LEMMA SendNeeds ==
    ASSUME NEW a, NEW b, NEW d, NEW names,
           a.needs \subseteq names, b.needs \subseteq names, d.needs \subseteq names
    PROVE  /\ NeedsIn(<<a, b, d>>, names)
           /\ \A l : l.needs \subseteq names => NeedsIn(<<l, a, b, d>>, names)
<1>1. NeedsIn(<<a, b, d>>, names)
  <2>1. PICK s : s = <<a, b, d>>
    OBVIOUS
  <2>2. DOMAIN s = {1, 2, 3} /\ s[1] = a /\ s[2] = b /\ s[3] = d
    BY <2>1
  <2>. QED  BY <2>1, <2>2 DEF NeedsIn
<1>2. ASSUME NEW l, l.needs \subseteq names
      PROVE  NeedsIn(<<l, a, b, d>>, names)
  <2>1. PICK s : s = <<l, a, b, d>>
    OBVIOUS
  <2>2. DOMAIN s = {1, 2, 3, 4} /\ s[1] = l /\ s[2] = a /\ s[3] = b /\ s[4] = d
    BY <2>1
  <2>. QED  BY <1>2, <2>1, <2>2 DEF NeedsIn
<1>. QED  BY <1>1, <1>2

LEMMA KeysNeed ==
    ASSUME NEW name, NEW text, NEW names, name \in names, text \in names
    PROVE  NeedsIn(TypeThenEnter(name, text), names)
<1>1. PICK a, d : a = Run({name, text}, "type") /\ d = Run({name}, "enter")
  OBVIOUS
<1>2. a.needs = {name, text} /\ d.needs = {name} /\ Wait.needs = {}
  BY <1>1 DEF Run, Step, Ignored, Capturing, WriteFile, Wait
<1>3. TypeThenEnter(name, text) = <<a, Wait, d>>
  BY <1>1 DEF TypeThenEnter
<1>. QED  BY <1>2, <1>3, SendNeeds

(* tmux and rmux.                                                          *)
LEMMA KeysVariables ==
    ASSUME NEW name, name \notin BaseNames, name # "message", NEW create, Chained(create),
           NEW t, t = Keys(name, create)
    PROVE  VariablesFit(t)
<1>1. /\ t.refs.declared = {name} /\ t.refs.from = {"session_id"}
      /\ t.create = create /\ t.run_in_pane = TypeThenEnter(name, "launch_cmd")
      /\ t.send = TypeThenEnter(name, "message")
  BY DEF Keys, RefsOf
<1>2. name \in Stored(t) /\ name \in Known(t) /\ BaseNames \subseteq Known(t)
  <2>1. "message" \notin BaseNames
    BY DEF BaseNames
  <2>. QED  BY <1>1, <2>1 DEF Stored, Known
<1>3. NeedsIn(t.run_in_pane, Known(t))
  <2>1. "launch_cmd" \in Known(t)
    BY <1>2 DEF BaseNames
  <2>. QED  BY <1>1, <1>2, <2>1, KeysNeed
<1>4. NeedsIn(t.send, Stored(t) \cup MessageNames)
  <2>1. PICK names : names = Stored(t) \cup MessageNames
    OBVIOUS
  <2>2. "message" \in names /\ name \in names
    BY <1>2, <2>1 DEF MessageNames
  <2>. QED  BY <1>1, <2>1, <2>2, KeysNeed
<1>5. NeedsIn(t.peek, Stored(t) \cup PeekNames)
  <2>1. PICK look : look = Run({name, "peek_source", "peek_lines"}, "look")
    OBVIOUS
  <2>2. t.peek = <<look>>
    BY <2>1 DEF Keys
  <2>3. look.needs = {name, "peek_source", "peek_lines"}
    BY <2>1 DEF Run, Step, Ignored, Capturing, WriteFile, Wait
  <2>4. look.needs \subseteq Stored(t) \cup PeekNames
    BY <1>2, <2>3 DEF PeekNames
  <2>. QED  BY <2>2, <2>4, OneNeeds, OneIs
<1>6. /\ NeedsIn(t.close, Stored(t)) /\ OnlyCommands(t.close)
      /\ Len(t.close) = 1 /\ t.close[1].does = "kill"
  <2>1. PICK kill : kill = Run({name}, "kill")
    OBVIOUS
  <2>2. t.close = <<kill>>
    BY <2>1 DEF Keys
  <2>3. kill.needs = {name} /\ kill.capture = {} /\ kill.does = "kill" /\ kill.type = "run"
    BY <2>1 DEF Run, Step, Ignored, Capturing, WriteFile, Wait
  <2>4. kill.needs \subseteq Stored(t)
    BY <1>2, <2>3
  <2>. QED  BY <2>2, <2>3, <2>4, OneNeeds, OneIs
<1>7. \E step : t.attach = <<step>> /\ step.type = "run" /\ step.needs \subseteq Stored(t) \cup AttachNames
  <2>1. PICK look : look = Run({name}, "look")
    OBVIOUS
  <2>2. t.attach = <<look>>
    BY <2>1 DEF Keys
  <2>3. look.needs = {name} /\ look.type = "run"
    BY <2>1 DEF Run, Step, Ignored, Capturing, WriteFile, Wait
  <2>. QED  BY <1>2, <2>2, <2>3
<1>8. t.refs.from \subseteq BaseNames
  BY <1>1 DEF BaseNames
<1>9. Chained(t.create) /\ Len(t.close) >= 1
  BY <1>1, <1>6
<1>. QED  BY <1>3, <1>4, <1>5, <1>6, <1>7, <1>8, <1>9 DEF VariablesFit

LEMMA TmuxVariables == VariablesFit(Tmux)
<1>1. PICK make : make = Capturing(Run({"session_id", "cwd"}, "open"), {"pane_id"})
  OBVIOUS
<1>2. make.needs = {"session_id", "cwd"} /\ make.ignore = FALSE
  BY <1>1 DEF Run, Step, Ignored, Capturing, WriteFile, Wait
<1>3. make.needs \subseteq BaseNames
  BY <1>2 DEF BaseNames
<1>4. Chained(<<make>>)
  BY <1>2, <1>3, OneNeeds, OneIs
<1>5. "tmux_session_name" \notin BaseNames /\ "tmux_session_name" # "message"
  BY DEF BaseNames
<1>6. Tmux = Keys("tmux_session_name", <<make>>)
  BY <1>1 DEF Tmux
<1>. QED  BY <1>4, <1>5, <1>6, KeysVariables

LEMMA RmuxVariables == VariablesFit(Rmux)
<1>1. PICK make : make = Run({"session_id", "cwd"}, "open")
  OBVIOUS
<1>2. PICK look : look = Capturing(Run({"session_id"}, "look"), {"pane_id"})
  OBVIOUS
<1>3. /\ make.needs = {"session_id", "cwd"} /\ make.ignore = FALSE
      /\ look.needs = {"session_id"} /\ look.ignore = FALSE
  BY <1>1, <1>2 DEF Run, Step, Ignored, Capturing, WriteFile, Wait
<1>4. make.needs \subseteq BaseNames /\ look.needs \subseteq BaseNames
  BY <1>3 DEF BaseNames
<1>5. Chained(<<make, look>>)
  BY <1>3, <1>4, TwoNeed, TwoAre
<1>6. "rmux_session_name" \notin BaseNames /\ "rmux_session_name" # "message"
  BY DEF BaseNames
<1>7. Rmux = Keys("rmux_session_name", <<make, look>>)
  BY <1>1, <1>2 DEF Rmux
<1>. QED  BY <1>5, <1>6, <1>7, KeysVariables

LEMMA HerdrVariables ==
    ASSUME NEW t, t = Herdr
    PROVE  VariablesFit(t)
<1>1. PICK first, made : first = {"herdr_session"} /\ made = {"pane_id", "tab_id", "herdr_workspace_id"}
  OBVIOUS
<1>2. Chained(t.create) /\ Caught(t.create) = first \cup made
  <2>1. PICK look : look = Capturing(Run({}, "look"), first)
    OBVIOUS
  <2>2. PICK make : make = Capturing(Run({"herdr_session", "cwd", "session_id"}, "open"), made)
    OBVIOUS
  <2>3. /\ look.needs = {} /\ look.ignore = FALSE /\ look.capture = first
        /\ make.needs = {"herdr_session", "cwd", "session_id"} /\ make.ignore = FALSE
        /\ make.capture = made
    BY <2>1, <2>2 DEF Run, Step, Ignored, Capturing, WriteFile, Wait
  <2>4. make.needs \subseteq BaseNames \cup look.capture
    BY <1>1, <2>3 DEF BaseNames
  <2>5. t.create = <<look, make>>
    BY <1>1, <2>1, <2>2 DEF Herdr
  <2>6. look.ignore = FALSE /\ make.ignore = FALSE /\ look.needs \subseteq BaseNames
    BY <2>3
  <2>7. Chained(t.create) /\ Caught(t.create) = look.capture \cup make.capture
    BY <2>4, <2>5, <2>6, TwoChained
  <2>. QED  BY <2>3, <2>7
<1>3. /\ t.refs.declared = {} /\ t.refs.from = {"session_id"}
  BY DEF Herdr, RefsOf
<1>4. /\ "herdr_session" \in Stored(t) /\ "pane_id" \in Stored(t) /\ "tab_id" \in Stored(t)
      /\ "herdr_workspace_id" \in Stored(t) /\ Stored(t) \subseteq Known(t)
      /\ "launch_cmd" \in Known(t)
  BY <1>1, <1>2, <1>3 DEF Stored, Known, BaseNames
<1>5. NeedsIn(t.run_in_pane, Known(t))
  <2>1. PICK type : type = Run({"herdr_session", "pane_id", "launch_cmd"}, "submit")
    OBVIOUS
  <2>2. type.needs = {"herdr_session", "pane_id", "launch_cmd"}
    BY <2>1 DEF Run, Step, Ignored, Capturing, WriteFile, Wait
  <2>3. t.run_in_pane = <<type>>
    BY <2>1 DEF Herdr
  <2>4. type.needs \subseteq Known(t)
    BY <1>4, <2>2
  <2>. QED  BY <2>3, <2>4, OneNeeds, OneIs
<1>6. NeedsIn(t.send, Stored(t) \cup MessageNames)
  <2>1. PICK l : l = Ignored(Run({"herdr_session", "pane_id"}, "look"))
    OBVIOUS
  <2>2. PICK a : a = Run({"herdr_session", "pane_id", "message"}, "inject")
    OBVIOUS
  <2>3. PICK d : d = Run({"herdr_session", "pane_id"}, "enter")
    OBVIOUS
  <2>4. /\ l.needs = {"herdr_session", "pane_id"} /\ a.needs = {"herdr_session", "pane_id", "message"}
        /\ d.needs = {"herdr_session", "pane_id"} /\ Wait.needs = {}
    BY <2>1, <2>2, <2>3 DEF Run, Step, Ignored, Capturing, WriteFile, Wait
  <2>5. PICK names : names = Stored(t) \cup MessageNames
    OBVIOUS
  <2>6. /\ l.needs \subseteq names /\ a.needs \subseteq names /\ d.needs \subseteq names
        /\ Wait.needs \subseteq names
    BY <1>4, <2>4, <2>5 DEF MessageNames
  <2>7. t.send = <<l, a, Wait, d>>
    BY <2>1, <2>2, <2>3 DEF Herdr, HerdrSend
  <2>. QED  BY <2>5, <2>6, <2>7, SendNeeds
<1>7. NeedsIn(t.peek, Stored(t) \cup PeekNames)
  <2>1. PICK look : look = Run({"herdr_session", "pane_id", "peek_source", "peek_lines"}, "look")
    OBVIOUS
  <2>2. t.peek = <<look>>
    BY <2>1 DEF Herdr
  <2>3. look.needs = {"herdr_session", "pane_id", "peek_source", "peek_lines"}
    BY <2>1 DEF Run, Step, Ignored, Capturing, WriteFile, Wait
  <2>4. look.needs \subseteq Stored(t) \cup PeekNames
    BY <1>4, <2>3 DEF PeekNames
  <2>. QED  BY <2>2, <2>4, OneNeeds, OneIs
<1>8. /\ NeedsIn(t.close, Stored(t)) /\ OnlyCommands(t.close)
      /\ Len(t.close) = 1 /\ t.close[1].does = "kill"
  <2>1. PICK kill : kill = Run({"herdr_session", "herdr_workspace_id"}, "kill")
    OBVIOUS
  <2>2. t.close = <<kill>>
    BY <2>1 DEF Herdr
  <2>3. kill.needs = {"herdr_session", "herdr_workspace_id"} /\ kill.capture = {} /\ kill.does = "kill" /\ kill.type = "run"
    BY <2>1 DEF Run, Step, Ignored, Capturing, WriteFile, Wait
  <2>4. kill.needs \subseteq Stored(t)
    BY <1>4, <2>3
  <2>5. kill.capture = {} /\ kill.does = "kill" /\ kill.type = "run"
    BY <2>3
  <2>6. NeedsIn(t.close, Stored(t))
    BY <2>2, <2>4, OneNeeds
  <2>7. OnlyCommands(t.close) /\ Len(t.close) = 1 /\ t.close[1] = kill
    BY <2>2, <2>5, OneIs
  <2>. QED  BY <2>5, <2>6, <2>7
<1>9. \E step : t.attach = <<step>> /\ step.type = "run" /\ step.needs \subseteq Stored(t) \cup AttachNames
  <2>1. PICK look : look = Run({"herdr_session", "herdr_workspace_id", "tab_id"}, "look")
    OBVIOUS
  <2>2. t.attach = <<look>>
    BY <2>1 DEF Herdr
  <2>3. look.needs = {"herdr_session", "herdr_workspace_id", "tab_id"} /\ look.type = "run"
    BY <2>1 DEF Run, Step, Ignored, Capturing, WriteFile, Wait
  <2>. QED  BY <1>4, <2>2, <2>3
<1>10. t.refs.from \subseteq BaseNames /\ Len(t.close) >= 1
  BY <1>3, <1>8 DEF BaseNames
<1>. QED  BY <1>2, <1>5, <1>6, <1>7, <1>8, <1>9, <1>10 DEF VariablesFit

LEMMA ZellijVariables ==
    ASSUME NEW t, t = Zellij
    PROVE  VariablesFit(t)
<1>1. PICK name : name = "zellij_session_name"
  OBVIOUS
<1>2. Chained(t.create)
  <2>1. PICK write : write = WriteFile({"session_dir", "cwd_kdl", "launch_script_kdl"})
    OBVIOUS
  <2>2. PICK make : make = Run({"session_id", "cwd", "session_dir"}, "open")
    OBVIOUS
  <2>3. /\ write.needs = {"session_dir", "cwd_kdl", "launch_script_kdl"} /\ write.ignore = FALSE
        /\ make.needs = {"session_id", "cwd", "session_dir"} /\ make.ignore = FALSE
    BY <2>1, <2>2 DEF Run, Step, Ignored, Capturing, WriteFile, Wait
  <2>4. write.needs \subseteq BaseNames /\ make.needs \subseteq BaseNames
    BY <2>3 DEF BaseNames
  <2>5. t.create = <<write, make>>
    BY <2>1, <2>2 DEF Zellij
  <2>6. write.ignore = FALSE /\ make.ignore = FALSE
    BY <2>3
  <2>7. make.needs \subseteq BaseNames \cup write.capture
    BY <2>4
  <2>. QED  BY <2>4, <2>5, <2>6, <2>7, TwoChained
<1>3. t.refs.declared = {name} /\ t.refs.from = {"session_id"} /\ t.run_in_pane = <<>>
  BY <1>1 DEF Zellij, RefsOf
<1>4. name \in Stored(t)
  BY <1>1, <1>3 DEF Stored, Known, BaseNames
<1>5. NeedsIn(t.run_in_pane, Known(t))
  BY <1>3 DEF NeedsIn
<1>6. NeedsIn(t.send, Stored(t) \cup MessageNames)
  <2>1. PICK names : names = Stored(t) \cup MessageNames
    OBVIOUS
  <2>2. "message" \in names /\ name \in names
    BY <1>4, <2>1 DEF MessageNames
  <2>3. t.send = TypeThenEnter(name, "message")
    BY <1>1 DEF Zellij
  <2>. QED  BY <2>1, <2>2, <2>3, KeysNeed
<1>7. NeedsIn(t.peek, Stored(t) \cup PeekNames)
  <2>1. PICK look : look = Run({name, "peek_source", "peek_lines"}, "look")
    OBVIOUS
  <2>2. t.peek = <<look>>
    BY <1>1, <2>1 DEF Zellij
  <2>3. look.needs = {name, "peek_source", "peek_lines"}
    BY <2>1 DEF Run, Step, Ignored, Capturing, WriteFile, Wait
  <2>4. look.needs \subseteq Stored(t) \cup PeekNames
    BY <1>4, <2>3 DEF PeekNames
  <2>. QED  BY <2>2, <2>4, OneNeeds, OneIs
<1>8. /\ NeedsIn(t.close, Stored(t)) /\ OnlyCommands(t.close)
      /\ Len(t.close) = 2 /\ t.close[1].does = "kill"
  <2>1. PICK kill : kill = Ignored(Run({name}, "kill"))
    OBVIOUS
  <2>2. PICK look : look = Ignored(Run({name}, "look"))
    OBVIOUS
  <2>3. t.close = <<kill, look>>
    BY <1>1, <2>1, <2>2 DEF Zellij
  <2>4. /\ kill.needs = {name} /\ kill.capture = {} /\ kill.does = "kill" /\ kill.type = "run"
        /\ look.needs = {name} /\ look.capture = {} /\ look.type = "run"
    BY <2>1, <2>2 DEF Run, Step, Ignored, Capturing, WriteFile, Wait
  <2>5. kill.needs \subseteq Stored(t) /\ look.needs \subseteq Stored(t)
    BY <1>4, <2>4
  <2>6. kill.capture = {} /\ kill.does = "kill" /\ kill.type = "run" /\ look.capture = {} /\ look.type = "run"
    BY <2>4
  <2>7. NeedsIn(t.close, Stored(t))
    BY <2>3, <2>5, TwoNeed
  <2>8. OnlyCommands(t.close) /\ Len(t.close) = 2 /\ t.close[1] = kill
    BY <2>3, <2>6, TwoAre
  <2>. QED  BY <2>6, <2>7, <2>8
<1>9. \E step : t.attach = <<step>> /\ step.type = "run" /\ step.needs \subseteq Stored(t) \cup AttachNames
  <2>1. PICK look : look = Run({name}, "look")
    OBVIOUS
  <2>2. t.attach = <<look>>
    BY <1>1, <2>1 DEF Zellij
  <2>3. look.needs = {name} /\ look.type = "run"
    BY <2>1 DEF Run, Step, Ignored, Capturing, WriteFile, Wait
  <2>. QED  BY <1>4, <2>2, <2>3
<1>10. t.refs.from \subseteq BaseNames /\ Len(t.close) >= 1
  BY <1>3, <1>8 DEF BaseNames
<1>. QED  BY <1>2, <1>5, <1>6, <1>7, <1>8, <1>9, <1>10 DEF VariablesFit

LEMMA BuiltinVariables == \A t \in BuiltinMux : VariablesFit(t)
BY TmuxVariables, RmuxVariables, HerdrVariables, ZellijVariables DEF BuiltinMux

-----------------------------------------------------------------------------
(***************************************************************************)
(* Which variables a sequence has.                                         *)
(***************************************************************************)

(* What the sequence of c has among its variables from the start.          *)
Owes(c) ==
    LET e == engine[c]
        t == plan[c].template
    IN  CASE e.stage = "create" -> BaseNames \cup DOMAIN e.captures
          [] e.stage \in {"start", "boot"} -> Known(t)
          [] e.stage = "paste" -> Known(t) \cup MessageNames
          [] e.stage = "cleanup" -> IF e.failed = "create" THEN {} ELSE Known(t)
          [] e.stage = "send" -> IF Owned THEN Stored(t) \cup MessageNames ELSE {}
          [] e.stage = "close" -> IF Owned THEN Stored(t) ELSE {}
          [] e.stage = "peek" -> IF Owned THEN Stored(t) \cup PeekNames ELSE {}
          [] OTHER -> {}

Excused(c) ==
    \/ plan[c].kind = "job"
    \/ engine[c].stage \in {"send", "close", "peek"} /\ ~Owned
    \/ engine[c].stage = "cleanup" /\ engine[c].failed = "create"

Provided(c) ==
    /\ Owes(c) \subseteq DOMAIN engine[c].vars
    /\ engine[c].stage \in {"send", "close", "peek"} => HasRow
    /\ "missing" \in Range(log[c]) => Excused(c)

RowKeepsRefs == Owned => \A c \in Caller : Stored(plan[c].template) \subseteq DOMAIN ref

VarsInv == row \in Rows /\ RowKeepsRefs /\ \A c \in Caller : Provided(c)

(* The step of caller c has one of the outcomes S, or is still under way.  *)
Gains(c, S) ==
    /\ engine'[c].failed = engine[c].failed
    /\ Range(log'[c]) \subseteq Range(log[c]) \cup S
    /\ \E names : /\ DOMAIN engine'[c].vars = DOMAIN engine[c].vars \cup names
                  /\ DOMAIN engine'[c].captures = DOMAIN engine[c].captures \cup names

LEMMA Domains ==
    /\ \A f, g : DOMAIN Over(f, g) = DOMAIN f \cup DOMAIN g
    /\ \A names : DOMAIN Given(names) = names
    /\ \A f, names : DOMAIN Restrict(f, names) = names
  BY DEF Over, Given, Restrict

LEMMA LogsOne ==
    ASSUME EngineInv, NEW c \in Caller, NEW o \in Outcomes, Logged(c, o)
    PROVE  Range(log'[c]) = Range(log[c]) \cup {o}
<1>1. log[c] \in Seq(Outcomes)
  BY PlanFits DEF Sound
<1>2. PICK l : l = log[c]
  OBVIOUS
<1>3. PICK m : m = Append(l, o)
  OBVIOUS
<1>4. Range(m) = Range(l) \cup {o}
  BY <1>1, <1>2, <1>3, Appended
<1>5. log' = [log EXCEPT ![c] = m]
  BY <1>2, <1>3 DEF Logged
<1>. QED  BY <1>2, <1>4, <1>5, LogGoesTo

LEMMA FailsGains ==
    ASSUME EngineInv, NEW c \in Caller, NEW o \in Outcomes, NEW code, Failed(c, code, o)
    PROVE  Gains(c, {o})
<1>1. WholeEngine(engine[c])
  BY PlanFits DEF Sound
<1>2. PICK e, f, step : e = engine[c] /\ step = Current(c) /\ f = Stopped(e, step, code)
  OBVIOUS
<1>3. Goto(c, f) /\ Logged(c, o)
  BY <1>2 DEF Failed, Stopped
<1>4. f.vars = e.vars /\ f.captures = e.captures /\ f.failed = e.failed
  BY <1>1, <1>2 DEF WholeEngine, Stopped
<1>5. engine'[c] = f
  BY <1>3, GoesTo
<1>6. Range(log'[c]) = Range(log[c]) \cup {o}
  BY <1>3, LogsOne
<1>7. PICK names : names = {}
  OBVIOUS
<1>8. /\ DOMAIN engine'[c].vars = DOMAIN engine[c].vars \cup names
      /\ DOMAIN engine'[c].captures = DOMAIN engine[c].captures \cup names
  BY <1>2, <1>4, <1>5, <1>7
<1>. QED  BY <1>2, <1>4, <1>5, <1>6, <1>8 DEF Gains

LEMMA WorksGains ==
    ASSUME EngineInv, NEW c \in Caller, NEW o \in Worked, Succeeded(c, o)
    PROVE  Gains(c, {o})
<1>1. WholeEngine(engine[c]) /\ o \in Outcomes
  BY PlanFits DEF Sound, Worked, Outcomes
<1>2. PICK e, f, step : e = engine[c] /\ step = Current(c) /\ f = Advanced(e, step)
  OBVIOUS
<1>3. Goto(c, f) /\ Logged(c, o)
  BY <1>2 DEF Succeeded, Advanced
<1>4. PICK new : new = [n \in step.capture |-> e.at]
  OBVIOUS
<1>5. f.vars = Over(new, e.vars) /\ f.captures = Over(new, e.captures) /\ f.failed = e.failed
  BY <1>1, <1>2, <1>4 DEF WholeEngine, Advanced
<1>6. engine'[c] = f
  BY <1>3, GoesTo
<1>7. Range(log'[c]) = Range(log[c]) \cup {o}
  BY <1>1, <1>3, LogsOne
<1>8. PICK names : names = DOMAIN new
  OBVIOUS
<1>9. /\ DOMAIN engine'[c].vars = DOMAIN engine[c].vars \cup names
      /\ DOMAIN engine'[c].captures = DOMAIN engine[c].captures \cup names
  <2>1. /\ DOMAIN Over(new, e.vars) = DOMAIN new \cup DOMAIN e.vars
        /\ DOMAIN Over(new, e.captures) = DOMAIN new \cup DOMAIN e.captures
    BY Domains
  <2>2. /\ DOMAIN f.vars = DOMAIN e.vars \cup names
        /\ DOMAIN f.captures = DOMAIN e.captures \cup names
    BY <1>5, <1>8, <2>1
  <2>. QED  BY <1>2, <1>6, <2>2
<1>. QED  BY <1>2, <1>5, <1>6, <1>7, <1>9 DEF Gains

LEMMA StaysGains ==
    ASSUME EngineInv, NEW c \in Caller, NEW pc, NEW result, log' = log,
           \/ Goto(c, [engine[c] EXCEPT !.pc = pc])
           \/ Goto(c, [engine[c] EXCEPT !.pc = pc, !.result = result])
    PROVE  Gains(c, {})
<1>1. WholeEngine(engine[c])
  BY PlanFits DEF Sound
<1>2. PICK e, f, g : /\ e = engine[c] /\ f = [e EXCEPT !.pc = pc]
                     /\ g = [e EXCEPT !.pc = pc, !.result = result]
  OBVIOUS
<1>3. /\ f.vars = e.vars /\ f.captures = e.captures /\ f.failed = e.failed
      /\ g.vars = e.vars /\ g.captures = e.captures /\ g.failed = e.failed
  BY <1>1, <1>2 DEF WholeEngine
<1>4. engine'[c] = f \/ engine'[c] = g
  BY <1>2, GoesTo
<1>5. PICK names : names = {}
  OBVIOUS
<1>6. /\ DOMAIN engine'[c].vars = DOMAIN engine[c].vars \cup names
      /\ DOMAIN engine'[c].captures = DOMAIN engine[c].captures \cup names
  BY <1>2, <1>3, <1>4, <1>5
<1>. QED  BY <1>2, <1>3, <1>4, <1>6 DEF Gains

(* A step under way has not seen a failure that counts.                    *)
LEMMA CreateCaptures ==
    ASSUME EngineInv, NEW c \in Caller, Chained(Steps(c)), Busy(c) \/ At(c, "done"),
           At(c, "done") => engine[c].result = "ok"
    PROVE  LET n == IF Busy(c) THEN engine[c].at - 1 ELSE Len(Steps(c))
           IN  /\ DOMAIN engine[c].captures = UNION {Steps(c)[i].capture : i \in 1 .. n}
               /\ n <= Len(Steps(c)) /\ DOMAIN Steps(c) = 1 .. Len(Steps(c))
<1>1. PICK e, st, lg : e = engine[c] /\ st = Steps(c) /\ lg = log[c]
  OBVIOUS
<1>2. /\ Sound(e, lg, plan[c]) /\ plan[c] \in Plan /\ st = StepsOf(e, plan[c])
  BY <1>1, PlanFits
<1>3. st \in Seq(TemplateStep) /\ lg \in Seq(Outcomes)
  BY <1>2, StepsTyped DEF Sound
<1>4. PICK n : n = IF Busy(c) THEN e.at - 1 ELSE Len(st)
  OBVIOUS
<1>5. FatalIn(lg, st) = {} /\ Tells(e, GoodIn(lg), st) /\ Len(lg) = n /\ n <= Len(st)
  <2>1. CASE Busy(c)
    <3>1. Len(lg) = e.at - 1 /\ FatalIn(lg, st) = {} /\ Tells(e, GoodIn(lg), st)
      BY <1>1, <1>2, <2>1 DEF Sound, Busy
    <3>2. Len(lg) <= Len(st)
      BY <1>2 DEF Sound
    <3>. QED  BY <1>4, <2>1, <3>1, <3>2
  <2>2. CASE ~Busy(c)
    <3>1. e.pc = "done" /\ e.result = "ok"
      BY <1>1, <2>2 DEF At
    <3>2. Told(e, lg, st)
      BY <1>2, <3>1 DEF Sound
    <3>3. FatalIn(lg, st) = {}
      BY <3>1, <3>2 DEF Told, CodeOf
    <3>. QED  BY <1>3, <1>4, <2>2, <3>2, <3>3 DEF Told
  <2>. QED  BY <2>1, <2>2
<1>6. GoodIn(lg) = 1 .. n
  <2>1. DOMAIN lg = 1 .. n /\ GoodIn(lg) \subseteq DOMAIN lg
    BY <1>3, <1>5 DEF GoodIn
  <2>2. ASSUME NEW i \in 1 .. n
        PROVE  i \in GoodIn(lg)
    <3>1. n \in Nat /\ i \in DOMAIN st
      BY <1>3, <1>5
    <3>2. st[i].ignore = FALSE
      BY <1>1, <3>1 DEF Chained
    <3>. QED  BY <1>5, <2>1, <2>2, <3>2 DEF FatalIn
  <2>. QED  BY <2>1, <2>2
<1>7. DOMAIN e.captures = UNION {st[i].capture : i \in 1 .. n}
  BY <1>5, <1>6 DEF Tells, CapturesOf
<1>. QED  BY <1>1, <1>3, <1>4, <1>5, <1>7

LEMMA TemplateFits ==
    ASSUME EngineInv, BuiltinPlans, NEW c \in Caller
    PROVE  VariablesFit(plan[c].template)
  BY BuiltinVariables DEF BuiltinPlans, EngineInv

LEMMA NothingMissing ==
    ASSUME EngineInv, BuiltinPlans, VarsInv, NEW c \in Caller, HasStep(c), ~Excused(c)
    PROVE  ~Missing(Current(c), engine[c].vars)
<1>1. PICK t, e, i : t = plan[c].template /\ e = engine[c] /\ i = e.at
  OBVIOUS
<1>2. VariablesFit(t) /\ Provided(c)
  BY <1>1, TemplateFits DEF VarsInv
<1>3. Running(c) /\ i \in DOMAIN Steps(c) /\ Current(c) = Steps(c)[i]
  BY <1>1, RunningFits, RunningStep DEF Current
<1>4. e.stage \in Stages /\ plan[c].kind # "job" /\ plan[c].steps = <<>>
  BY <1>1, PlanFits DEF Sound, Excused
<1>5. SUFFICES Current(c).needs \subseteq Owes(c)
  BY <1>2 DEF Provided, Missing
<1>6. CASE e.stage = "create"
  <2>1. Steps(c) = t.create /\ Owes(c) = BaseNames \cup DOMAIN e.captures
    BY <1>1, <1>6 DEF Steps, Owes
  <2>2. Chained(Steps(c)) /\ Busy(c) /\ ~At(c, "done")
    BY <1>2, <1>3, <2>1 DEF VariablesFit, Running, Busy, At
  <2>3. DOMAIN e.captures = UNION {Steps(c)[j].capture : j \in 1 .. i - 1}
    BY <1>1, <2>2, CreateCaptures
  <2>. QED  BY <1>3, <2>1, <2>2, <2>3 DEF Chained
<1>7. CASE e.stage = "start"
  <2>1. Steps(c) = t.run_in_pane /\ Owes(c) = Known(t)
    BY <1>1, <1>7 DEF Steps, Owes
  <2>. QED  BY <1>2, <1>3, <2>1 DEF VariablesFit, NeedsIn
<1>8. CASE e.stage = "boot"
  <2>1. Steps(c) = <<Wait>>
    BY <1>1, <1>8 DEF Steps
  <2>2. Current(c) = Wait
    BY <1>3, <2>1
  <2>. QED  BY <2>2 DEF Wait, Step
<1>9. CASE e.stage = "paste"
  <2>1. Steps(c) = t.send /\ Owes(c) = Known(t) \cup MessageNames
    BY <1>1, <1>9 DEF Steps, Owes
  <2>. QED  BY <1>2, <1>3, <2>1 DEF VariablesFit, NeedsIn, Stored
<1>10. CASE e.stage = "cleanup"
  <2>1. Steps(c) = t.close /\ Owes(c) = Known(t)
    BY <1>1, <1>10 DEF Steps, Owes, Excused
  <2>. QED  BY <1>2, <1>3, <2>1 DEF VariablesFit, NeedsIn, Stored
<1>11. CASE e.stage = "send"
  <2>1. Steps(c) = t.send /\ Owes(c) = Stored(t) \cup MessageNames
    BY <1>1, <1>11 DEF Steps, Owes, Excused
  <2>. QED  BY <1>2, <1>3, <2>1 DEF VariablesFit, NeedsIn
<1>12. CASE e.stage = "close"
  <2>1. Steps(c) = t.close /\ Owes(c) = Stored(t)
    BY <1>1, <1>12 DEF Steps, Owes, Excused
  <2>. QED  BY <1>2, <1>3, <2>1 DEF VariablesFit, NeedsIn
<1>13. CASE e.stage = "peek"
  <2>1. Steps(c) = t.peek /\ Owes(c) = Stored(t) \cup PeekNames
    BY <1>1, <1>13 DEF Steps, Owes, Excused
  <2>. QED  BY <1>2, <1>3, <2>1 DEF VariablesFit, NeedsIn
<1>14. CASE e.stage = "job"
  <2>1. Steps(c) = <<>>
    BY <1>1, <1>4, <1>14 DEF Steps
  <2>. QED  BY <1>3, <2>1
<1>. QED  BY <1>4, <1>6, <1>7, <1>8, <1>9, <1>10, <1>11, <1>12, <1>13, <1>14 DEF Stages

(* Within a sequence the variables only become more.                       *)
LEMMA WithinProvides ==
    ASSUME VarsInv, NEW c \in Caller, Within(c), NEW S, Gains(c, S),
           "missing" \in S => Excused(c)
    PROVE  Provided(c)'
<1>1. PICK e, f : e = engine[c] /\ f = engine'[c]
  OBVIOUS
<1>2. f.stage = e.stage /\ f.failed = e.failed /\ plan' = plan /\ row' = row
  BY <1>1 DEF Within, Gains
<1>3. Provided(c) /\ Excused(c)' = Excused(c) /\ Owned' = Owned /\ HasRow' = HasRow
  BY <1>1, <1>2 DEF VarsInv, Excused, Owned, HasRow
<1>4. PICK names : /\ DOMAIN f.vars = DOMAIN e.vars \cup names
                   /\ DOMAIN f.captures = DOMAIN e.captures \cup names
  BY <1>1 DEF Gains
<1>5. Owes(c)' \subseteq DOMAIN f.vars
  <2>1. CASE e.stage = "create"
    BY <1>1, <1>2, <1>3, <1>4, <2>1 DEF Owes, Provided
  <2>2. CASE e.stage # "create"
    <3>1. Owes(c)' = Owes(c)
      BY <1>1, <1>2, <1>3, <2>2 DEF Owes
    <3>. QED  BY <1>1, <1>3, <1>4, <3>1 DEF Provided
  <2>. QED  BY <2>1, <2>2
<1>6. "missing" \in Range(log'[c]) => Excused(c)'
  BY <1>3 DEF Gains, Provided
<1>7. f.stage \in {"send", "close", "peek"} => HasRow'
  BY <1>1, <1>2, <1>3 DEF Provided
<1>. QED  BY <1>1, <1>5, <1>6, <1>7 DEF Provided

(* The row of the Session appears once and stays.                          *)
RowStays == row' = row \/ (row = "none" /\ row' = "created")

LEMMA BystandersProvided ==
    ASSUME VarsInv, RowStays, NEW d \in Caller, plan' = plan,
           engine'[d] = engine[d], log'[d] = log[d]
    PROVE  Provided(d)'
<1>1. Provided(d)
  BY DEF VarsInv
<1>2. CASE row' = row
  BY <1>1, <1>2 DEF Provided, Owes, Excused, Owned, HasRow
<1>3. CASE row = "none" /\ row' = "created"
  <2>1. engine[d].stage \notin {"send", "close", "peek"}
    BY <1>1, <1>3 DEF Provided, HasRow
  <2>. QED  BY <1>1, <1>3, <2>1 DEF Provided, Owes, Excused, Owned, HasRow
<1>. QED  BY <1>2, <1>3 DEF RowStays

(* Caller c makes a step of its sequence.                                  *)
Progresses(c) ==
    /\ Within(c) /\ ref' = ref
    /\ \E S : Gains(c, S) /\ ("missing" \in S => Excused(c))

LEMMA FailureProgresses ==
    ASSUME EngineInv, NEW c \in Caller, Running(c), NEW o \in Outcomes,
           o = "missing" => Excused(c),
           NEW code \in {"sequence_step_failed", "timeout", "capture_failed"},
           Failed(c, code, o), plan' = plan, row' = row, did' = did, ref' = ref
    PROVE  Progresses(c)
<1>1. code # "ok"
  OBVIOUS
<1>2. Within(c) /\ Gains(c, {o})
  BY <1>1, FailsWithin, FailsGains
<1>. QED  BY <1>2 DEF Progresses

LEMMA SuccessProgresses ==
    ASSUME EngineInv, NEW c \in Caller, Running(c), NEW o \in Worked, Succeeded(c, o),
           plan' = plan, row' = row, ref' = ref,
           \A d \in Caller : d # c => did'[d] = did[d]
    PROVE  Progresses(c)
<1>1. Within(c) /\ Gains(c, {o})
  BY WorksWithin, WorksGains
<1>2. "missing" \notin {o}
  BY DEF Worked
<1>. QED  BY <1>1, <1>2 DEF Progresses

LEMMA StayProgresses ==
    ASSUME EngineInv, NEW c \in Caller, Busy(c), NEW pc \in {"child", "pause"},
           Goto(c, [engine[c] EXCEPT !.pc = pc]), log' = log, plan' = plan, row' = row, ref' = ref,
           \A d \in Caller : d # c => did'[d] = did[d]
    PROVE  Progresses(c)
<1>1. Within(c) /\ Gains(c, {})
  BY StaysWithin, StaysGains
<1>. QED  BY <1>1 DEF Progresses

LEMMA EngineProgresses ==
    ASSUME EngineInv, BuiltinPlans, VarsInv, DeliveryInv, NEW c \in Caller,
           \/ MissingVariable(c) \/ Spawn(c) \/ WriteStep(c) \/ Pause(c) \/ PauseEnds(c)
           \/ TimesOut(c) \/ EndOfSequence(c)
    PROVE  Progresses(c)
<1>1. CASE MissingVariable(c)
  <2>1. Excused(c) /\ Running(c)
    BY <1>1, NothingMissing, RunningFits DEF MissingVariable
  <2>. QED  BY <1>1, <2>1, FailureProgresses DEF MissingVariable, Outcomes
<1>2. CASE Spawn(c)
  <2>1. did = [d \in Caller |-> did[d]] /\ Running(c) /\ Busy(c)
    BY <1>2, RunningFits DEF DeliveryInv, Spawn, Running
  <2>2. /\ plan' = plan /\ row' = row /\ ref' = ref
        /\ \A d \in Caller : d # c => did'[d] = did[d]
    BY <1>2, <2>1 DEF Spawn
  <2>3. CASE Current(c).background
    <3>1. Succeeded(c, "ok") /\ "ok" \in Worked
      BY <1>2, <2>3 DEF Spawn, Worked
    <3>. QED  BY <2>1, <2>2, <3>1, SuccessProgresses
  <2>4. CASE ~Current(c).background
    <3>1. Goto(c, [engine[c] EXCEPT !.pc = "child"]) /\ log' = log
      BY <1>2, <2>4 DEF Spawn
    <3>. QED  BY <2>1, <2>2, <3>1, StayProgresses
  <2>. QED  BY <2>3, <2>4
<1>3. CASE WriteStep(c)
  <2>1. /\ Running(c) /\ plan' = plan /\ row' = row /\ did' = did /\ ref' = ref
        /\ Succeeded(c, "ok") \/ Failed(c, "sequence_step_failed", "error")
    BY <1>3, RunningFits DEF WriteStep
  <2>. QED  BY <2>1, SuccessProgresses, FailureProgresses DEF Worked, Outcomes
<1>4. CASE Pause(c)
  <2>1. Running(c) /\ Busy(c)
    BY <1>4, RunningFits DEF Pause, Running
  <2>. QED  BY <1>4, <2>1, StayProgresses DEF Pause
<1>5. CASE PauseEnds(c)
  BY <1>5, RunningFits, SuccessProgresses DEF PauseEnds, Worked
<1>6. CASE TimesOut(c)
  BY <1>6, RunningFits, FailureProgresses DEF TimesOut, Outcomes
<1>7. CASE EndOfSequence(c)
  <2>1. Goto(c, [engine[c] EXCEPT !.pc = "done", !.result = "ok"]) /\ log' = log /\ ref' = ref
    BY <1>7 DEF EndOfSequence, Finish
  <2>2. Gains(c, {})
    BY <2>1, StaysGains
  <2>. QED  BY <1>7, <2>1, <2>2, EndsWithin DEF Progresses
<1>. QED  BY <1>1, <1>2, <1>3, <1>4, <1>5, <1>6, <1>7

LEMMA CommandProgresses ==
    ASSUME EngineInv, NEW c \in Caller,
           ExitsZero(c) \/ ExitsNonZero(c) \/ KilledBySignal(c) \/ SpawnFails(c)
    PROVE  Progresses(c)
<1>1. /\ Running(c) /\ plan' = plan /\ row' = row /\ did' = did /\ ref' = ref
      /\ \/ Succeeded(c, "ok") \/ Succeeded(c, "signal")
         \/ Failed(c, "capture_failed", "capture") \/ Failed(c, "sequence_step_failed", "exit")
         \/ Failed(c, "sequence_step_failed", "error")
  BY RunningFits DEF ExitsZero, ExitsNonZero, KilledBySignal, SpawnFails
<1>2. CASE Succeeded(c, "ok") \/ Succeeded(c, "signal")
  BY <1>1, <1>2, SuccessProgresses DEF Worked
<1>3. CASE ~(Succeeded(c, "ok") \/ Succeeded(c, "signal"))
  BY <1>1, <1>3, FailureProgresses DEF Outcomes
<1>. QED  BY <1>2, <1>3

LEMMA ProgressProvides ==
    ASSUME VarsInv, NEW c \in Caller, Progresses(c)
    PROVE  VarsInv'
<1>1. /\ plan' = plan /\ row' = row /\ ref' = ref /\ Within(c)
      /\ \A d \in Caller : d # c => engine'[d] = engine[d] /\ log'[d] = log[d]
  BY DEF Progresses, Within
<1>2. Provided(c)'
  BY WithinProvides DEF Progresses
<1>3. \A d \in Caller : d # c => Provided(d)'
  BY <1>1, BystandersProvided DEF RowStays
<1>. QED  BY <1>1, <1>2, <1>3 DEF VarsInv, RowKeepsRefs, Owned

(* Another sequence of one operation, or the end of it.                    *)
LEMMA GoesOnProvides ==
    ASSUME EngineInv, VarsInv, NEW c \in Caller, NEW f, Goto(c, f), plan' = plan, RowStays,
           RowKeepsRefs', row' \in Rows,
           log'[c] = <<>> \/ (log' = log /\ f.stage \in {"start", "boot", "paste"}
                              /\ engine[c].stage \in {"start", "boot", "paste"}),
           \A d \in Caller : d # c => log'[d] = log[d],
           f.stage \in {"send", "close", "peek"} => HasRow',
           engine'[c] = f => Owes(c)' \subseteq DOMAIN f.vars
    PROVE  VarsInv'
<1>1. engine'[c] = f /\ \A d \in Caller : d # c => engine'[d] = engine[d]
  BY GoesTo
<1>2. \A d \in Caller : d # c => Provided(d)'
  BY <1>1, BystandersProvided
<1>3. "missing" \in Range(log'[c]) => Excused(c)'
  <2>1. CASE log'[c] = <<>>
    <3>1. PICK l : l = log'[c]
      OBVIOUS
    <3>2. DOMAIN l = {}
      BY <2>1, <3>1
    <3>. QED  BY <3>1, <3>2 DEF Range
  <2>2. CASE log' = log /\ f.stage \in {"start", "boot", "paste"}
             /\ engine[c].stage \in {"start", "boot", "paste"}
    BY <2>2 DEF VarsInv, Provided, Excused
  <2>. QED  BY <2>1, <2>2
<1>4. Provided(c)'
  BY <1>1, <1>3 DEF Provided
<1>. QED  BY <1>2, <1>4 DEF VarsInv

LEMMA BeginVars ==
    ASSUME NEW stage, NEW variables
    PROVE  /\ Begin(stage, variables).stage = stage
           /\ Begin(stage, variables).vars = variables
           /\ DOMAIN Begin(stage, variables).captures = {}
  BY DEF Begin, Given

LEMMA StartProvides ==
    ASSUME EngineInv, VarsInv, NEW c \in Caller, Start(c)
    PROVE  VarsInv'
<1>1. /\ engine[c] = Idle /\ log' = log /\ plan' = plan /\ row' = row /\ ref' = ref
      /\ log[c] = <<>>
  BY PlanFits DEF Start, At, Sound
<1>2. PICK t : t = plan[c].template
  OBVIOUS
<1>3. WholeEngine(Idle)
  BY IdleFits DEF Fresh
<1>4. /\ RowStays /\ RowKeepsRefs' /\ row' \in Rows
      /\ Owned' = Owned /\ HasRow' = HasRow
  BY <1>1 DEF RowStays, RowKeepsRefs, VarsInv, Owned, HasRow
<1>5. Owned => Stored(t) \subseteq DOMAIN ref
  BY <1>2 DEF VarsInv, RowKeepsRefs
<1>6. ASSUME NEW stage, NEW variables, Goto(c, Begin(stage, variables)),
             stage \in {"send", "close", "peek"} => HasRow,
             stage \in {"create", "send", "close", "peek", "job"},
             stage = "create" => BaseNames \subseteq DOMAIN variables,
             stage = "send" => MessageNames \cup DOMAIN ref \subseteq DOMAIN variables,
             stage = "close" => DOMAIN ref \subseteq DOMAIN variables,
             stage = "peek" => PeekNames \cup DOMAIN ref \subseteq DOMAIN variables
      PROVE  VarsInv'
  <2>1. PICK f : f = Begin(stage, variables)
    OBVIOUS
  <2>2. f.stage = stage /\ f.vars = variables /\ DOMAIN f.captures = {}
    BY <2>1, BeginVars
  <2>3. ASSUME engine'[c] = f
        PROVE  Owes(c)' \subseteq DOMAIN f.vars
    BY <1>1, <1>2, <1>4, <1>5, <1>6, <2>2, <2>3 DEF Owes
  <2>. QED  BY <1>1, <1>4, <1>6, <2>1, <2>2, <2>3, GoesOnProvides
<1>7. ASSUME NEW code, Goto(c, Finish(c, code))
      PROVE  VarsInv'
  <2>1. PICK f : f = Finish(c, code)
    OBVIOUS
  <2>2. f.stage = "job"
    BY <1>1, <1>3, <2>1, IdleFits DEF Finish, WholeEngine
  <2>3. ASSUME engine'[c] = f
        PROVE  Owes(c)' \subseteq DOMAIN f.vars
    BY <2>2, <2>3 DEF Owes
  <2>. QED  BY <1>1, <1>4, <1>7, <2>1, <2>2, <2>3, GoesOnProvides
<1>8. CASE plan[c].kind = "create"
  <2>1. Goto(c, Begin("create", Given(BaseNames))) /\ DOMAIN Given(BaseNames) = BaseNames
    BY <1>1, <1>8, Domains DEF Start
  <2>. QED  BY <1>6, <2>1
<1>9. CASE plan[c].kind = "send"
  <2>1. HasRow /\ Goto(c, Begin("send", SendVars(ref)))
    BY <1>9 DEF Start
  <2>2. DOMAIN SendVars(ref) = MessageNames \cup DOMAIN ref
    <3>1. PICK g : g = Given({"message"})
      OBVIOUS
    <3>2. DOMAIN g = MessageNames
      BY <3>1 DEF Given, MessageNames
    <3>3. DOMAIN Over(g, ref) = DOMAIN g \cup DOMAIN ref
      BY DEF Over
    <3>. QED  BY <3>1, <3>2, <3>3 DEF SendVars
  <2>. QED  BY <1>6, <2>1, <2>2
<1>10. CASE plan[c].kind = "close"
  <2>1. HasRow /\ (Goto(c, Begin("close", ref)) \/ Goto(c, Finish(c, "ok")))
    BY <1>10 DEF Start
  <2>. QED  BY <1>6, <1>7, <2>1
<1>11. CASE plan[c].kind = "peek"
  <2>1. HasRow /\ (Goto(c, Begin("peek", PeekVars(ref))) \/ Goto(c, Finish(c, "unsupported")))
    BY <1>11 DEF Start
  <2>2. DOMAIN PeekVars(ref) = PeekNames \cup DOMAIN ref
    <3>1. PICK g : g = Given({"session_id", "cwd", "peek_source", "peek_lines"})
      OBVIOUS
    <3>2. DOMAIN g = PeekNames
      BY <3>1 DEF Given, PeekNames
    <3>3. DOMAIN Over(ref, g) = DOMAIN ref \cup DOMAIN g
      BY DEF Over
    <3>. QED  BY <3>1, <3>2, <3>3 DEF PeekVars
  <2>. QED  BY <1>6, <1>7, <2>1, <2>2
<1>12. CASE plan[c].kind = "job"
  <2>1. Goto(c, Begin("job", Given(BaseNames)))
    BY <1>12 DEF Start
  <2>. QED  BY <1>6, <2>1
<1>. QED  BY <1>8, <1>9, <1>10, <1>11, <1>12 DEF Start

(* What create captured and the template declares is all that is known.    *)
LEMMA RunVarsKnow ==
    ASSUME EngineInv, BuiltinPlans, NEW c \in Caller, At(c, "done"),
           engine[c].stage = "create", engine[c].result = "ok"
    PROVE  Known(plan[c].template) \subseteq DOMAIN RunVars(c)
<1>1. PICK t : t = plan[c].template
  OBVIOUS
<1>2. VariablesFit(t) /\ Steps(c) = t.create
  BY <1>1, TemplateFits DEF Steps
<1>3. Chained(Steps(c)) /\ ~Busy(c)
  BY <1>2 DEF VariablesFit, Busy, At
<1>4. DOMAIN engine[c].captures = Caught(t.create)
  BY <1>2, <1>3, CreateCaptures DEF Caught
<1>5. DOMAIN DeclaredRefs(t) = t.refs.declared
  BY <1>2 DEF VariablesFit, DeclaredRefs, Given
<1>6. DOMAIN MuxRef(c) = Caught(t.create) \cup t.refs.declared
  BY <1>1, <1>4, <1>5 DEF MuxRef, Over
<1>7. DOMAIN RunVars(c) = DOMAIN MuxRef(c) \cup BaseNames
  BY DEF RunVars, Over, Given
<1>. QED  BY <1>1, <1>6, <1>7 DEF Known

LEMMA CreateProvides ==
    ASSUME EngineInv, BuiltinPlans, VarsInv, NEW c \in Caller, CreateGoesOn(c)
    PROVE  VarsInv'
<1>1. /\ engine[c].stage = "create" /\ At(c, "done") /\ plan' = plan /\ row' = row /\ ref' = ref
      /\ log' = [log EXCEPT ![c] = <<>>]
  BY DEF CreateGoesOn, Next1, CleanUp
<1>2. log'[c] = <<>> /\ \A d \in Caller : d # c => log'[d] = log[d]
  <2>1. PICK l : l = <<>>
    OBVIOUS
  <2>. QED  BY <1>1, <2>1, LogGoesTo
<1>3. RowStays /\ RowKeepsRefs' /\ row' \in Rows
  BY <1>1 DEF RowStays, RowKeepsRefs, VarsInv, Owned
<1>4. CASE engine[c].result = "ok"
  <2>1. PICK f : f = Begin("start", RunVars(c))
    OBVIOUS
  <2>2. Goto(c, f)
    BY <1>4, <2>1 DEF CreateGoesOn, Next1
  <2>3. f.stage = "start" /\ f.vars = RunVars(c)
    BY <2>1, BeginVars
  <2>4. ASSUME engine'[c] = f
        PROVE  Owes(c)' \subseteq DOMAIN f.vars
    BY <1>1, <1>4, <2>3, <2>4, RunVarsKnow DEF Owes
  <2>. QED  BY <1>1, <1>2, <1>3, <2>2, <2>3, <2>4, GoesOnProvides
<1>5. CASE engine[c].result # "ok"
  <2>1. PICK was, b : was = engine[c].stage /\ b = Begin("cleanup", Given(BaseNames))
    OBVIOUS
  <2>2. PICK f : f = [b EXCEPT !.failed = was]
    OBVIOUS
  <2>3. Goto(c, f)
    BY <1>5, <2>1, <2>2 DEF CreateGoesOn, CleanUp
  <2>4. f.stage = "cleanup" /\ f.failed = "create"
    <3>1. PICK stage, variables : stage = "cleanup" /\ variables = Given(BaseNames)
      OBVIOUS
    <3>2. b = Begin(stage, variables)
      BY <2>1, <3>1
    <3>3. f.stage = stage /\ f.failed = was
      BY <2>2, <3>2 DEF Begin
    <3>. QED  BY <1>1, <2>1, <3>1, <3>3
  <2>5. ASSUME engine'[c] = f
        PROVE  Owes(c)' \subseteq DOMAIN f.vars
    BY <2>4, <2>5 DEF Owes
  <2>. QED  BY <1>1, <1>2, <1>3, <2>3, <2>4, <2>5, GoesOnProvides
<1>. QED  BY <1>4, <1>5

LEMMA StartGoesOnProvides ==
    ASSUME EngineInv, DeliveryInv, OneTemplate, VarsInv, NEW c \in Caller, StartGoesOn(c)
    PROVE  VarsInv'
<1>1. /\ engine[c].stage \in {"start", "boot", "paste"} /\ engine[c].pc = "done" /\ plan' = plan
  BY DEF StartGoesOn, At
<1>2. PICK t, kept : /\ t = plan[c].template
                     /\ kept = Restrict(engine[c].vars, DOMAIN engine[c].vars \ {"message"})
  OBVIOUS
<1>3. DOMAIN kept = DOMAIN engine[c].vars \ {"message"}
  BY <1>2 DEF Restrict
<1>4. Known(t) \subseteq DOMAIN kept
  <2>1. Provided(c) /\ Known(t) \subseteq Owes(c)
    BY <1>1, <1>2 DEF VarsInv, Owes
  <2>2. "message" \notin Known(t)
    BY DEF Known
  <2>. QED  BY <1>3, <2>1, <2>2 DEF Provided
<1>5. row = "none"
  <2>1. InItsStage(c)
    BY DEF DeliveryInv
  <2>. QED  BY <1>1, <2>1 DEF InItsStage, CreateStages, HasRow
<1>6. ASSUME NEW f, Goto(c, f), row' = row, ref' = ref, log' = [log EXCEPT ![c] = <<>>],
             f.stage \in {"boot", "paste", "cleanup"}, Known(t) \subseteq DOMAIN f.vars,
             f.stage = "paste" => MessageNames \subseteq DOMAIN f.vars
      PROVE  VarsInv'
  <2>1. log'[c] = <<>> /\ \A d \in Caller : d # c => log'[d] = log[d]
    <3>1. PICK l : l = <<>>
      OBVIOUS
    <3>. QED  BY <1>6, <3>1, LogGoesTo
  <2>2. RowStays /\ RowKeepsRefs' /\ row' \in Rows
    BY <1>1, <1>6 DEF RowStays, RowKeepsRefs, VarsInv, Owned
  <2>3. ASSUME engine'[c] = f
        PROVE  Owes(c)' \subseteq DOMAIN f.vars
    BY <1>1, <1>2, <1>6, <2>3 DEF Owes
  <2>. QED  BY <1>1, <1>6, <2>1, <2>2, <2>3, GoesOnProvides
<1>7. CASE CleanUp(c, kept) /\ UNCHANGED <<row, ref>>
  <2>1. PICK was, b : was = engine[c].stage /\ b = Begin("cleanup", kept)
    OBVIOUS
  <2>2. PICK f : f = [b EXCEPT !.failed = was]
    OBVIOUS
  <2>3. Goto(c, f) /\ log' = [log EXCEPT ![c] = <<>>]
    BY <1>7, <2>1, <2>2 DEF CleanUp
  <2>4. f.stage = "cleanup" /\ f.vars = kept
    <3>1. PICK stage : stage = "cleanup"
      OBVIOUS
    <3>2. b = Begin(stage, kept)
      BY <2>1, <3>1
    <3>3. f.stage = stage /\ f.vars = kept
      BY <2>2, <3>2 DEF Begin
    <3>. QED  BY <3>1, <3>3
  <2>. QED  BY <1>4, <1>6, <1>7, <2>3, <2>4
<1>8. CASE Next1(c, "boot", kept) /\ UNCHANGED <<row, ref>>
  <2>1. PICK f : f = Begin("boot", kept)
    OBVIOUS
  <2>2. Goto(c, f) /\ log' = [log EXCEPT ![c] = <<>>]
    BY <1>8, <2>1 DEF Next1
  <2>3. f.stage = "boot" /\ f.vars = kept
    BY <2>1, BeginVars
  <2>. QED  BY <1>4, <1>6, <1>8, <2>2, <2>3
<1>9. CASE Next1(c, "paste", Over(Given({"message"}), kept)) /\ UNCHANGED <<row, ref>>
  <2>1. PICK g, variables : g = Given({"message"}) /\ variables = Over(g, kept)
    OBVIOUS
  <2>2. PICK f : f = Begin("paste", variables)
    OBVIOUS
  <2>3. Goto(c, f) /\ log' = [log EXCEPT ![c] = <<>>]
    BY <1>9, <2>1, <2>2 DEF Next1
  <2>4. f.stage = "paste" /\ f.vars = variables
    BY <2>2, BeginVars
  <2>5. DOMAIN variables = MessageNames \cup DOMAIN kept
    BY <2>1 DEF Over, Given, MessageNames
  <2>. QED  BY <1>4, <1>6, <1>9, <2>3, <2>4, <2>5
<1>10. CASE InsertRow(c, RefIn(kept)) /\ log' = log
  <2>1. row' = "created" /\ ref' = RefIn(kept)
    BY <1>10 DEF InsertRow
  <2>2. DOMAIN ref' = DOMAIN kept \ BaseNames
    BY <2>1 DEF RefIn, Restrict
  <2>3. \A d \in Caller : plan[d].template = t
    BY <1>2 DEF OneTemplate, EngineInv
  <2>4. RowStays /\ RowKeepsRefs' /\ row' \in Rows
    BY <1>1, <1>4, <1>5, <2>1, <2>2, <2>3 DEF RowStays, RowKeepsRefs, Stored, Rows
  <2>5. WholeEngine(engine[c])
    BY PlanFits DEF Sound
  <2>6. PICK e, f : e = engine[c] /\ f = [e EXCEPT !.pc = "over"]
    OBVIOUS
  <2>7. f.stage = e.stage /\ f.vars = e.vars
    BY <2>5, <2>6 DEF WholeEngine
  <2>8. Goto(c, f)
    BY <1>10, <2>6 DEF InsertRow
  <2>9. ASSUME engine'[c] = f
        PROVE  Owes(c)' \subseteq DOMAIN f.vars
    <3>1. Provided(c)
      BY DEF VarsInv
    <3>2. Owes(c)' = Owes(c)
      BY <1>1, <2>6, <2>7, <2>9 DEF Owes
    <3>. QED  BY <2>6, <2>7, <3>1, <3>2 DEF Provided
  <2>. QED  BY <1>1, <1>10, <2>4, <2>6, <2>7, <2>8, <2>9, GoesOnProvides
<1>. QED  BY <1>2, <1>7, <1>8, <1>9, <1>10 DEF StartGoesOn

LEMMA VarsInvInit == Init => VarsInv
<1>. SUFFICES ASSUME Init PROVE VarsInv
  OBVIOUS
<1>1. row \in Rows /\ ~Owned
  BY DEF Init, Rows, Owned
<1>2. ASSUME NEW c \in Caller
      PROVE  Provided(c)
  <2>1. engine[c].stage = "job" /\ log[c] = <<>>
    BY IdleFits DEF Init
  <2>2. PICK l : l = log[c]
    OBVIOUS
  <2>3. DOMAIN l = {}
    BY <2>1, <2>2
  <2>4. Range(l) = {}
    BY <2>3 DEF Range
  <2>. QED  BY <2>1, <2>2, <2>4 DEF Provided, Owes
<1>. QED  BY <1>1, <1>2 DEF VarsInv, RowKeepsRefs

LEMMA VarsInvStays ==
    ASSUME VarsInv, UNCHANGED <<plan, row, ref, engine, log>>
    PROVE  VarsInv'
<1>1. \A d \in Caller : Provided(d)'
  BY BystandersProvided DEF RowStays
<1>. QED  BY <1>1 DEF VarsInv, RowKeepsRefs, Owned

LEMMA VarsInvNext ==
    ASSUME EngineInv, DeliveryInv, BuiltinPlans, OneTemplate, VarsInv, [Next]_vars
    PROVE  VarsInv'
<1>1. CASE UNCHANGED vars
  BY <1>1, VarsInvStays DEF vars
<1>2. ASSUME NEW c \in Caller, EngineStep(c)
      PROVE  VarsInv'
  BY <1>2, EngineProgresses, ProgressProvides, StartProvides, CreateProvides,
     StartGoesOnProvides DEF EngineStep
<1>3. ASSUME NEW c \in Caller, CommandStep(c)
      PROVE  VarsInv'
  <2>1. CASE CommandActs(c)
    BY <2>1, VarsInvStays DEF CommandActs
  <2>. QED  BY <1>3, <2>1, CommandProgresses, ProgressProvides DEF CommandStep
<1>4. ASSUME NEW x \in late, LateEffect(x)
      PROVE  VarsInv'
  BY <1>4, VarsInvStays DEF LateEffect
<1>. QED  BY <1>1, <1>2, <1>3, <1>4 DEF Next

LEMMA VarsThen ==
    ASSUME EngineInv, BuiltinPlans, VarsInv
    PROVE  RefsSuffice
<1>1. ASSUME NEW c \in Caller, Owned
      PROVE  AttachHint(plan[c].template.attach, AttachVars(ref))
  <2>1. PICK t : t = plan[c].template
    OBVIOUS
  <2>2. VariablesFit(t)
    BY <2>1, TemplateFits
  <2>3. PICK step : /\ t.attach = <<step>> /\ step.type = "run"
                    /\ step.needs \subseteq Stored(t) \cup AttachNames
    BY <2>2 DEF VariablesFit
  <2>4. Stored(t) \subseteq DOMAIN ref
    BY <1>1, <2>1 DEF VarsInv, RowKeepsRefs
  <2>5. DOMAIN AttachVars(ref) = DOMAIN ref \cup AttachNames
    <3>1. PICK g : g = Given({"session_id", "cwd", "session_dir"})
      OBVIOUS
    <3>2. DOMAIN g = AttachNames
      BY <3>1 DEF Given, AttachNames
    <3>3. DOMAIN Over(ref, g) = DOMAIN ref \cup DOMAIN g
      BY DEF Over
    <3>. QED  BY <3>1, <3>2, <3>3 DEF AttachVars
  <2>6. ~Missing(step, AttachVars(ref))
    BY <2>3, <2>4, <2>5 DEF Missing
  <2>7. PICK attach : attach = t.attach
    OBVIOUS
  <2>8. DOMAIN attach = {1} /\ attach[1] = step
    BY <2>3, <2>7
  <2>9. AttachHint(attach, AttachVars(ref))
    BY <2>3, <2>6, <2>8 DEF AttachHint
  <2>. QED  BY <2>1, <2>7, <2>9
<1>2. \A c \in Caller : "missing" \in Range(log[c]) => Excused(c)
  BY DEF VarsInv, Provided
<1>. QED  BY <1>1, <1>2 DEF RefsSuffice, Excused

-----------------------------------------------------------------------------
(***************************************************************************)
(* What the cleanup of a started pane leaves.                              *)
(***************************************************************************)
Cleaning(c) == engine[c].stage = "cleanup" /\ engine[c].failed # "create"
Ended(c) == engine[c].at >= 2 \/ (engine[c].at = 1 /\ At(c, "child") /\ did[c])

Cleans(c) ==
    Cleaning(c) =>
        /\ engine[c].pc \in {"step", "child", "done"}
        /\ Range(log[c]) \subseteq {"ok", "signal", "exit", "error"}
        /\ Range(log[c]) \subseteq {"ok"} =>
              /\ Ended(c) => ~pane.open
              /\ At(c, "done") => engine[c].at >= 2

CleanInv == \A c \in Caller : Cleans(c)

(* Nobody makes a pane while the one creator cleans up.                    *)
LEMMA CleaningShuts ==
    ASSUME EngineInv, DeliveryInv, BuiltinPlans, NEW d \in Caller, engine[d].stage = "cleanup",
           Next
    PROVE  pane'.open => pane.open
<1>1. /\ WholePane(pane) /\ WholeLate /\ plan \in Plans
      /\ \A c \in Caller : InItsStage(c)
  BY DEF DeliveryInv, EngineInv
<1>2. ASSUME NEW c \in Caller, CommandActs(c)
      PROVE  pane'.open => pane.open
  <2>1. Running(c)
    BY <1>2, RunningFits DEF CommandActs
  <2>2. Current(c).does # "open"
    <3>1. CASE c = d
      <4>1. Steps(c) = plan[c].template.close
        BY <3>1 DEF Steps
      <4>2. NoneOpens(Steps(c))
        BY <4>1, BuiltinFit DEF BuiltinPlans, EngineInv
      <4>. QED  BY <2>1, <4>2, RunningStep DEF NoneOpens, Opens, Current
    <3>2. CASE c # d
      <4>1. plan[d].kind = "create"
        BY <1>1 DEF InItsStage, CreateStages
      <4>2. plan[c].kind # "create"
        BY <1>1, <3>2, <4>1, PlansAssumption
      <4>3. engine[c].stage \notin CreateStages
        BY <1>1, <4>2 DEF InItsStage
      <4>. QED  BY <2>1, <4>3, BuiltinStages, RunningStep DEF NoneOpens, Opens, Current
    <3>. QED  BY <3>1, <3>2
  <2>3. PICK does, text : does = Current(c).does /\ text = Text(c)
    OBVIOUS
  <2>4. does \in Effects /\ text \in AllTexts
    BY <2>1, <2>3, RunningStep
  <2>5. PICK q : q = PaneAfter(does, text)
    OBVIOUS
  <2>6. pane' = q
    BY <1>2, <2>3, <2>5 DEF CommandActs
  <2>. QED  BY <1>1, <2>2, <2>3, <2>4, <2>5, <2>6, PaneGrows
<1>3. ASSUME NEW x \in late, LateEffect(x)
      PROVE  pane'.open => pane.open
  <2>1. PICK does, text : does = x.does /\ text = x.by
    OBVIOUS
  <2>2. does \in Effects /\ text \in AllTexts /\ does # "open"
    BY <1>1, <2>1 DEF WholeLate
  <2>3. CASE pane' = pane
    BY <2>3
  <2>4. CASE pane' = PaneAfter(does, text)
    <3>1. PICK q : q = PaneAfter(does, text)
      OBVIOUS
    <3>. QED  BY <1>1, <2>2, <2>4, <3>1, PaneGrows
  <2>. QED  BY <1>3, <2>1, <2>3, <2>4 DEF LateEffect
<1>4. ASSUME NEW c \in Caller, ~CommandActs(c), EngineStep(c) \/ CommandStep(c)
      PROVE  pane' = pane
  BY <1>4 DEF EngineStep, CommandStep, Start, MissingVariable, Spawn, WriteStep, Pause, PauseEnds,
              TimesOut, EndOfSequence, CreateGoesOn, StartGoesOn, ExitsZero, ExitsNonZero,
              KilledBySignal, SpawnFails
<1>. QED  BY <1>2, <1>3, <1>4 DEF Next

LEMMA CleaningStep ==
    ASSUME EngineInv, DeliveryInv, BuiltinPlans, VarsInv, NEW c \in Caller, Cleaning(c), Running(c)
    PROVE  /\ Current(c).type = "run" /\ Current(c).capture = {}
           /\ ~Current(c).background /\ ~Current(c).timed
           /\ engine[c].at \in Nat \ {0}
           /\ engine[c].at = 1 => Current(c).does = "kill"
           /\ HasStep(c) => ~Missing(Current(c), engine[c].vars)
<1>1. PICK t, st, i : t = plan[c].template /\ st = Steps(c) /\ i = engine[c].at
  OBVIOUS
<1>2. st = t.close /\ Current(c) = st[i]
  BY <1>1 DEF Cleaning, Steps, Current
<1>3. OnlyCommands(st) /\ st[1].does = "kill"
  BY <1>1, <1>2, TemplateFits DEF VariablesFit
<1>4. AllPlain(st)
  BY <1>1, BuiltinStages DEF Cleaning
<1>5. i \in DOMAIN st
  BY <1>1, RunningStep
<1>6. i \in Nat \ {0}
  <2>1. st \in Seq(TemplateStep)
    BY <1>1, PlanFits, StepsTyped DEF Sound
  <2>. QED  BY <1>5, <2>1
<1>7. ~Excused(c)
  <2>1. InItsStage(c)
    BY DEF DeliveryInv
  <2>. QED  BY <2>1 DEF InItsStage, CreateStages, Cleaning, Excused
<1>. QED  BY <1>1, <1>2, <1>3, <1>4, <1>5, <1>6, <1>7, NothingMissing DEF OnlyCommands, AllPlain, Plain

LEMMA CleanBystanders ==
    ASSUME EngineInv, DeliveryInv, BuiltinPlans, CleanInv, Next, NEW d \in Caller,
           engine'[d] = engine[d], log'[d] = log[d], did'[d] = did[d]
    PROVE  Cleans(d)'
<1>1. Cleans(d)
  BY DEF CleanInv
<1>2. Cleaning(d) => (pane'.open => pane.open)
  BY CleaningShuts DEF Cleaning
<1>. QED  BY <1>1, <1>2 DEF Cleans, Cleaning, Ended, At

(* Another sequence of one operation.                                      *)
LEMMA GoesOnCleans ==
    ASSUME EngineInv, NEW c \in Caller, NEW f, Goto(c, f),
           \/ f.stage # "cleanup" \/ f.failed = "create"
           \/ f.pc = "step" /\ f.at = 1 /\ log'[c] = <<>>
    PROVE  Cleans(c)'
<1>1. engine'[c] = f
  BY GoesTo
<1>2. CASE f.stage # "cleanup" \/ f.failed = "create"
  BY <1>1, <1>2 DEF Cleans, Cleaning
<1>3. CASE f.pc = "step" /\ f.at = 1 /\ log'[c] = <<>>
  <2>1. PICK l : l = log'[c]
    OBVIOUS
  <2>2. DOMAIN l = {}
    BY <1>3, <2>1
  <2>3. Range(log'[c]) = {}
    BY <2>1, <2>2 DEF Range
  <2>. QED  BY <1>1, <1>3, <2>3 DEF Cleans, Ended, At
<1>. QED  BY <1>2, <1>3

LEMMA StartCleans ==
    ASSUME EngineInv, NEW c \in Caller, Start(c)
    PROVE  Cleans(c)'
<1>1. engine[c] = Idle /\ WholeEngine(Idle)
  BY PlanFits, IdleFits DEF Start, At, Sound, Fresh
<1>2. ASSUME NEW stage, NEW variables, Goto(c, Begin(stage, variables)), stage # "cleanup"
      PROVE  Cleans(c)'
  <2>1. PICK f : f = Begin(stage, variables)
    OBVIOUS
  <2>2. f.stage = stage
    BY <2>1, BeginVars
  <2>. QED  BY <1>2, <2>1, <2>2, GoesOnCleans
<1>3. ASSUME NEW code, Goto(c, Finish(c, code))
      PROVE  Cleans(c)'
  <2>1. PICK f : f = Finish(c, code)
    OBVIOUS
  <2>2. f.stage = "job"
    BY <1>1, <2>1, IdleFits DEF Finish, WholeEngine
  <2>. QED  BY <1>3, <2>1, <2>2, GoesOnCleans
<1>4. \/ Goto(c, Begin("create", Given(BaseNames))) \/ Goto(c, Begin("send", SendVars(ref)))
      \/ Goto(c, Begin("close", ref)) \/ Goto(c, Begin("peek", PeekVars(ref)))
      \/ Goto(c, Begin("job", Given(BaseNames)))
      \/ Goto(c, Finish(c, "ok")) \/ Goto(c, Finish(c, "unsupported"))
  BY DEF Start
<1>. QED  BY <1>2, <1>3, <1>4

LEMMA NextCleans ==
    ASSUME EngineInv, NEW c \in Caller, CreateGoesOn(c) \/ StartGoesOn(c)
    PROVE  Cleans(c)'
<1>1. ASSUME NEW stage, NEW variables, Next1(c, stage, variables), stage # "cleanup"
      PROVE  Cleans(c)'
  <2>1. PICK f : f = Begin(stage, variables)
    OBVIOUS
  <2>2. f.stage = stage /\ Goto(c, f)
    BY <1>1, <2>1, BeginVars DEF Next1
  <2>. QED  BY <1>1, <2>2, GoesOnCleans
<1>2. ASSUME NEW variables, CleanUp(c, variables)
      PROVE  Cleans(c)'
  <2>1. PICK was, b : was = engine[c].stage /\ b = Begin("cleanup", variables)
    OBVIOUS
  <2>2. PICK f : f = [b EXCEPT !.failed = was]
    OBVIOUS
  <2>3. Goto(c, f) /\ log' = [log EXCEPT ![c] = <<>>]
    BY <1>2, <2>1, <2>2 DEF CleanUp
  <2>4. f.pc = "step" /\ f.at = 1
    <3>1. PICK stage : stage = "cleanup"
      OBVIOUS
    <3>2. b = Begin(stage, variables)
      BY <2>1, <3>1
    <3>. QED  BY <2>2, <3>2 DEF Begin
  <2>5. log'[c] = <<>>
    <3>1. PICK l : l = <<>>
      OBVIOUS
    <3>. QED  BY <2>3, <3>1, LogGoesTo
  <2>. QED  BY <2>3, <2>4, <2>5, GoesOnCleans
<1>3. CASE CreateGoesOn(c)
  BY <1>1, <1>2, <1>3 DEF CreateGoesOn
<1>4. CASE StartGoesOn(c)
  <2>1. PICK kept : kept = Restrict(engine[c].vars, DOMAIN engine[c].vars \ {"message"})
    OBVIOUS
  <2>2. \/ CleanUp(c, kept)
        \/ Next1(c, "boot", kept)
        \/ Next1(c, "paste", Over(Given({"message"}), kept))
        \/ InsertRow(c, RefIn(kept))
    BY <1>4, <2>1 DEF StartGoesOn
  <2>3. CASE InsertRow(c, RefIn(kept))
    <3>1. WholeEngine(engine[c]) /\ engine[c].stage # "cleanup"
      BY <1>4, PlanFits DEF Sound, StartGoesOn
    <3>2. PICK e, f : e = engine[c] /\ f = [e EXCEPT !.pc = "over"]
      OBVIOUS
    <3>3. f.stage = e.stage
      BY <3>1, <3>2 DEF WholeEngine
    <3>4. Goto(c, f)
      BY <2>3, <3>2 DEF InsertRow
    <3>. QED  BY <3>1, <3>2, <3>3, <3>4, GoesOnCleans
  <2>. QED  BY <1>1, <1>2, <2>2, <2>3
<1>. QED  BY <1>3, <1>4

LEMMA CommandCleans ==
    ASSUME EngineInv, DeliveryInv, BuiltinPlans, VarsInv, CleanInv, NEW c \in Caller,
           ExitsZero(c) \/ ExitsNonZero(c) \/ KilledBySignal(c) \/ SpawnFails(c)
    PROVE  Cleans(c)'
<1>1. Progresses(c) /\ Running(c) /\ Cleans(c) /\ At(c, "child") /\ pane' = pane /\ did' = did
  BY CommandProgresses, RunningFits
     DEF CleanInv, ExitsZero, ExitsNonZero, KilledBySignal, SpawnFails
<1>2. Cleaning(c)' = Cleaning(c)
  BY <1>1 DEF Progresses, Within, Gains, Cleaning
<1>3. CASE ~Cleaning(c)
  BY <1>2, <1>3 DEF Cleans
<1>4. CASE Cleaning(c)
  <2>1. Current(c).capture = {} /\ engine[c].at \in Nat \ {0}
    BY <1>1, <1>4, CleaningStep
  <2>2. /\ Range(log[c]) \subseteq {"ok", "signal", "exit", "error"}
        /\ Range(log[c]) \subseteq {"ok"} /\ did[c] => ~pane.open
    BY <1>1, <1>4, <2>1 DEF Cleans, Ended
  <2>3. ASSUME NEW o \in {"signal", "exit", "error"}, Logged(c, o),
               engine'[c].pc \in {"step", "child", "done"}
        PROVE  Cleans(c)'
    <3>1. Range(log'[c]) = Range(log[c]) \cup {o}
      BY <2>3, LogsOne DEF Outcomes
    <3>. QED  BY <2>2, <2>3, <3>1 DEF Cleans
  <2>4. CASE ExitsZero(c)
    <3>1. Succeeded(c, "ok") /\ did[c]
      BY <2>1, <2>4 DEF ExitsZero
    <3>2. Works(c)
      <4>1. plan' = plan /\ row' = row /\ \A d \in Caller : d # c => did'[d] = did[d]
        BY <1>1 DEF Progresses, Within
      <4>. QED  BY <1>1, <3>1, <4>1, WorksWithin DEF Worked
    <3>3. Range(log'[c]) = Range(log[c]) \cup {"ok"}
      <4>1. PICK o : o = "ok"
        OBVIOUS
      <4>2. Logged(c, o) /\ o \in Outcomes
        BY <3>1, <4>1 DEF Succeeded, Outcomes
      <4>. QED  BY <4>1, <4>2, LogsOne
    <3>4. engine'[c].pc = "step"
      BY <3>2 DEF Works
    <3>. QED  BY <1>1, <2>2, <3>1, <3>3, <3>4 DEF Cleans, At
  <2>5. CASE ExitsNonZero(c) \/ SpawnFails(c)
    <3>1. PICK o \in {"exit", "error"} : Failed(c, "sequence_step_failed", o)
      BY <2>5 DEF ExitsNonZero, SpawnFails
    <3>2. Fails(c)
      <4>1. plan' = plan /\ row' = row /\ o \in Outcomes
        BY <1>1 DEF Progresses, Within, Outcomes
      <4>2. PICK code : code = "sequence_step_failed"
        OBVIOUS
      <4>. QED  BY <1>1, <3>1, <4>1, <4>2, FailsWithin
    <3>. QED  BY <2>3, <3>1, <3>2 DEF Failed, Fails
  <2>6. CASE KilledBySignal(c)
    <3>1. Succeeded(c, "signal")
      BY <2>1, <2>6 DEF KilledBySignal
    <3>2. Works(c)
      <4>1. plan' = plan /\ row' = row /\ \A d \in Caller : d # c => did'[d] = did[d]
        BY <1>1 DEF Progresses, Within
      <4>. QED  BY <1>1, <3>1, <4>1, WorksWithin DEF Worked
    <3>. QED  BY <2>3, <3>1, <3>2 DEF Succeeded, Works
  <2>. QED  BY <2>4, <2>5, <2>6
<1>. QED  BY <1>3, <1>4

LEMMA EngineCleans ==
    ASSUME EngineInv, DeliveryInv, BuiltinPlans, VarsInv, CleanInv, NEW c \in Caller,
           \/ MissingVariable(c) \/ Spawn(c) \/ WriteStep(c) \/ Pause(c) \/ PauseEnds(c)
           \/ TimesOut(c) \/ EndOfSequence(c)
    PROVE  Cleans(c)'
<1>1. Progresses(c) /\ Cleans(c) /\ pane' = pane
  BY EngineProgresses DEF CleanInv, MissingVariable, Spawn, WriteStep, Pause, PauseEnds, TimesOut,
                          EndOfSequence
<1>2. Cleaning(c)' = Cleaning(c)
  BY <1>1 DEF Progresses, Within, Gains, Cleaning
<1>3. CASE ~Cleaning(c)
  BY <1>2, <1>3 DEF Cleans
<1>4. CASE Cleaning(c)
  <2>1. CASE Running(c)
    <3>1. /\ Current(c).type = "run" /\ ~Current(c).background /\ ~Current(c).timed
          /\ engine[c].at \in Nat \ {0}
          /\ HasStep(c) => ~Missing(Current(c), engine[c].vars)
      BY <1>4, <2>1, CleaningStep
    <3>2. ~MissingVariable(c) /\ ~WriteStep(c) /\ ~Pause(c) /\ ~TimesOut(c)
      BY <3>1 DEF MissingVariable, WriteStep, Pause, TimesOut, HasTimer
    <3>3. ~PauseEnds(c)
      BY <1>1, <1>4 DEF PauseEnds, Cleans, At
    <3>4. CASE EndOfSequence(c)
      <4>1. PICK st : st = Steps(c)
        OBVIOUS
      <4>2. st \in Seq(TemplateStep)
        BY <4>1, PlanFits, StepsTyped DEF Sound
      <4>. QED  BY <2>1, <3>1, <3>4, <4>1, <4>2 DEF EndOfSequence, Running
    <3>5. CASE Spawn(c)
      <4>1. /\ Goto(c, [engine[c] EXCEPT !.pc = "child"]) /\ log' = log
            /\ did' = [did EXCEPT ![c] = FALSE] /\ did = [d \in Caller |-> did[d]]
            /\ plan' = plan /\ row' = row
        BY <3>1, <3>5 DEF Spawn, DeliveryInv
      <4>2. ~did'[c] /\ \A d \in Caller : d # c => did'[d] = did[d]
        BY <4>1
      <4>3. engine'[c].pc = "child" /\ engine'[c].at = engine[c].at
        BY <2>1, <4>1, <4>2, StaysWithin DEF Running
      <4>. QED  BY <1>1, <1>4, <3>1, <4>1, <4>2, <4>3 DEF Cleans, Ended, At
    <3>. QED  BY <3>2, <3>3, <3>4, <3>5
  <2>2. CASE ~Running(c)
    <3>1. EndOfSequence(c)
      BY <2>2, RunningFits DEF MissingVariable, Spawn, WriteStep, Pause, PauseEnds, TimesOut
    <3>2. /\ engine'[c].pc = "done" /\ engine'[c].at = engine[c].at
          /\ engine[c].at = Len(Steps(c)) + 1
      BY <3>1, EndsWithin
    <3>3. engine[c].at >= 2
      <4>1. PICK st : st = Steps(c)
        OBVIOUS
      <4>2. st \in Seq(TemplateStep)
        BY <4>1, PlanFits, StepsTyped DEF Sound
      <4>3. st = plan[c].template.close
        BY <1>4, <4>1 DEF Cleaning, Steps
      <4>4. Len(st) >= 1
        BY <4>3, TemplateFits DEF VariablesFit
      <4>. QED  BY <3>2, <4>1, <4>2, <4>4
    <3>4. log' = log
      BY <3>1 DEF EndOfSequence
    <3>. QED  BY <1>1, <1>4, <3>2, <3>3, <3>4 DEF Cleans, Ended, At
  <2>. QED  BY <2>1, <2>2
<1>. QED  BY <1>3, <1>4

LEMMA ActingCleans ==
    ASSUME EngineInv, DeliveryInv, BuiltinPlans, VarsInv, CleanInv, NEW c \in Caller,
           CommandActs(c), Next
    PROVE  Cleans(c)'
<1>1. engine' = engine /\ log' = log /\ Cleans(c) /\ Running(c) /\ At(c, "child")
  BY RunningFits DEF CommandActs, CleanInv
<1>2. CASE ~Cleaning(c)
  BY <1>1, <1>2 DEF Cleans, Cleaning
<1>3. CASE Cleaning(c)
  <2>1. engine[c].at \in Nat \ {0} /\ (engine[c].at = 1 => Current(c).does = "kill")
    BY <1>1, <1>3, CleaningStep
  <2>2. CASE engine[c].at = 1
    <3>1. pane' = [pane EXCEPT !.open = FALSE]
      BY <2>1, <2>2 DEF CommandActs, PaneAfter
    <3>2. ~pane'.open
      BY <3>1 DEF DeliveryInv, WholePane
    <3>. QED  BY <1>1, <3>2 DEF Cleans, Cleaning, At
  <2>3. CASE engine[c].at # 1
    <3>1. pane'.open => pane.open
      BY <1>3, CleaningShuts DEF Cleaning
    <3>. QED  BY <1>1, <2>1, <2>3, <3>1 DEF Cleans, Cleaning, Ended, At
  <2>. QED  BY <2>2, <2>3
<1>. QED  BY <1>2, <1>3

LEMMA CleanInvInit == Init => CleanInv
<1>. SUFFICES ASSUME Init, NEW c \in Caller PROVE Cleans(c)
  BY DEF CleanInv
<1>1. engine[c].stage = "job"
  BY IdleFits DEF Init
<1>. QED  BY <1>1 DEF Cleans, Cleaning

LEMMA CleanInvNext ==
    ASSUME EngineInv, DeliveryInv, BuiltinPlans, VarsInv, CleanInv, [Next]_vars
    PROVE  CleanInv'
<1>1. CASE UNCHANGED vars
  BY <1>1 DEF vars, CleanInv, Cleans, Cleaning, Ended, At
<1>2. ASSUME NEW c \in Caller, Next, Cleans(c)',
             \A d \in Caller : d # c => /\ engine'[d] = engine[d] /\ log'[d] = log[d]
                                        /\ did'[d] = did[d]
      PROVE  CleanInv'
  BY <1>2, CleanBystanders DEF CleanInv
<1>3. ASSUME NEW c \in Caller, Progresses(c)
      PROVE  \A d \in Caller : d # c => /\ engine'[d] = engine[d] /\ log'[d] = log[d]
                                        /\ did'[d] = did[d]
  BY <1>3 DEF Progresses, Within
<1>4. ASSUME NEW c \in Caller, Kept(c)
      PROVE  \A d \in Caller : d # c => /\ engine'[d] = engine[d] /\ log'[d] = log[d]
                                        /\ did'[d] = did[d]
  BY <1>4 DEF Kept
<1>5. ASSUME NEW c \in Caller, EngineStep(c)
      PROVE  CleanInv'
  <2>0. Next
    BY <1>5 DEF Next
  <2>1. CASE Start(c)
    BY <1>2, <1>4, <2>0, <2>1, StartDelivers, StartCleans
  <2>2. CASE CreateGoesOn(c) \/ StartGoesOn(c)
    BY <1>2, <1>4, <2>0, <2>2, CreateDelivers, NextCleans
  <2>3. CASE \/ MissingVariable(c) \/ Spawn(c) \/ WriteStep(c) \/ Pause(c) \/ PauseEnds(c)
             \/ TimesOut(c) \/ EndOfSequence(c)
    <3>1. Progresses(c) /\ Cleans(c)'
      BY <2>3, EngineProgresses, EngineCleans
    <3>. QED  BY <1>2, <1>3, <2>0, <3>1
  <2>. QED  BY <1>5, <2>1, <2>2, <2>3 DEF EngineStep
<1>6. ASSUME NEW c \in Caller, CommandStep(c)
      PROVE  CleanInv'
  <2>0. Next
    BY <1>6 DEF Next
  <2>1. CASE CommandActs(c)
    <3>1. \A d \in Caller : d # c => /\ engine'[d] = engine[d] /\ log'[d] = log[d]
                                     /\ did'[d] = did[d]
      BY <2>1 DEF CommandActs, DeliveryInv
    <3>. QED  BY <1>2, <2>0, <2>1, <3>1, ActingCleans
  <2>2. CASE ExitsZero(c) \/ ExitsNonZero(c) \/ KilledBySignal(c) \/ SpawnFails(c)
    <3>1. Progresses(c) /\ Cleans(c)'
      BY <2>2, CommandProgresses, CommandCleans
    <3>. QED  BY <1>2, <1>3, <2>0, <3>1
  <2>. QED  BY <1>6, <2>1, <2>2 DEF CommandStep
<1>7. ASSUME NEW x \in late, LateEffect(x)
      PROVE  CleanInv'
  <2>1. engine' = engine /\ log' = log /\ did' = did /\ Next
    BY <1>7 DEF LateEffect, Next
  <2>. QED  BY <2>1, CleanBystanders DEF CleanInv
<1>. QED  BY <1>1, <1>5, <1>6, <1>7 DEF Next

LEMMA CleanThen ==
    ASSUME EngineInv, CleanInv
    PROVE  FailedStartLeavesNoPane
<1>. SUFFICES ASSUME NEW c \in Caller, ~Busy(c), engine[c].stage = "cleanup",
                     engine[c].failed # "create", \A i \in Good(c) : log[c][i] = "ok",
                     "exit" \notin Range(log[c]), "error" \notin Range(log[c])
              PROVE  ~pane.open
  BY DEF FailedStartLeavesNoPane
<1>1. Cleans(c) /\ Cleaning(c)
  BY DEF CleanInv, Cleaning
<1>2. At(c, "done")
  BY <1>1 DEF Cleans, Busy, At
<1>3. "signal" \notin Range(log[c])
  <2>1. SUFFICES ASSUME NEW i \in DOMAIN log[c], log[c][i] = "signal" PROVE FALSE
    BY DEF Range
  <2>2. i \in Good(c)
    BY <2>1 DEF Good, Worked
  <2>. QED  BY <2>1, <2>2
<1>4. Range(log[c]) \subseteq {"ok"}
  BY <1>1, <1>3 DEF Cleans
<1>. QED  BY <1>1, <1>2, <1>4 DEF Cleans, Ended

LEMMA FaultsFit == Init => faults \in 0 .. MaxFaults
  BY PlansAssumption DEF Init

LEMMA FaultsStay ==
    ASSUME faults \in 0 .. MaxFaults, [Next]_vars
    PROVE  faults' \in 0 .. MaxFaults
<1>1. faults' = faults \/ Fault
  BY DEF vars, Next, EngineStep, CommandStep, Start, MissingVariable, Spawn, WriteStep, Pause,
         PauseEnds, TimesOut, EndOfSequence, CreateGoesOn, StartGoesOn, CommandActs, ExitsZero,
         ExitsNonZero, KilledBySignal, SpawnFails, LateEffect
<1>. QED  BY <1>1, PlansAssumption DEF Fault

LEMMA TypesFit ==
    ASSUME EngineInv, DeliveryInv, VarsInv, faults \in 0 .. MaxFaults
    PROVE  TypeOK
<1>1. plan \in Plans /\ row \in Rows /\ pane.open \in BOOLEAN
  BY DEF EngineInv, VarsInv, DeliveryInv, WholePane
<1>2. ASSUME NEW c \in Caller
      PROVE  /\ engine[c].pc \in {"idle", "step", "child", "pause", "done", "over"}
             /\ engine[c].stage \in Stages
             /\ engine[c].result \in Codes
             /\ engine[c].at \in 1 .. Len(Steps(c)) + 1
             /\ Len(log[c]) <= Len(Steps(c))
             /\ At(c, "child") => Current(c).type = "run"
             /\ engine[c].stdout \in 0 .. Len(Steps(c))
  BY PlanFits, RunningFits DEF Sound
<1>3. ASSUME NEW c \in Caller
      PROVE  Range(log[c]) \subseteq Outcomes
  <2>1. PICK l : l = log[c]
    OBVIOUS
  <2>2. l \in Seq(Outcomes)
    BY <2>1, PlanFits DEF Sound
  <2>. QED  BY <2>1, <2>2 DEF Range
<1>. QED  BY <1>1, <1>2, <1>3 DEF TypeOK

(* For every Session that one create-session made with a builtin template: *)
(* whatever fails, is ignored, is killed or times out on the way, every    *)
(* variable that send, close, peek, attach and the cleanup of a started    *)
(* pane name is there, and a create that fails once its pane is up leaves  *)
(* no pane when its cleanup commands work.                                 *)
THEOREM TemplatesHold == BuiltinPlans /\ OneTemplate => (Spec => []TemplatesFitTogether)
<1>. SUFFICES ASSUME BuiltinPlans, OneTemplate PROVE Spec => []TemplatesFitTogether
  OBVIOUS
<1>. DEFINE Fits == DeliveryInv /\ VarsInv /\ CleanInv /\ faults \in 0 .. MaxFaults
<1>1. EngineInv /\ Init => Fits
  BY DeliveryInvInit, VarsInvInit, CleanInvInit, FaultsFit
<1>2. EngineInv /\ Fits /\ [Next]_vars => Fits'
  BY DeliveryInvNext, VarsInvNext, CleanInvNext, FaultsStay
<1>3. EngineInv /\ Fits => TemplatesFitTogether
  BY TypesFit, VarsThen, CleanThen DEF TemplatesFitTogether
<1>. HIDE DEF Fits
<1>. QED  BY <1>1, <1>2, <1>3, EngineHolds, PTL DEF Spec

-----------------------------------------------------------------------------
(***************************************************************************)
(* What the builtin templates put on the input line, step by step.         *)
(***************************************************************************)
Does(st, effects) == \A i \in DOMAIN st : st[i].does \in effects

(* A text, a pause and Enter, and what Enter names the text named before.  *)
LinesUp(st) ==
    LET n == Len(st)
    IN  /\ Sends(st)
        /\ \A i \in 1 .. n : i < n - 2 => st[i].does = "look"
        /\ st[n - 1].needs = {}
        /\ st[n].needs \subseteq st[n - 2].needs

Typing(st) == LinesUp(st) \/ Does(st, {"submit"})

TypingFits(t) ==
    /\ Does(t.create, {"open", "look"})
    /\ Typing(t.run_in_pane) /\ LinesUp(t.send)
    /\ Does(t.peek, {"look"}) /\ Does(t.close, {"kill", "look"})

LEMMA OneDoes ==
    ASSUME NEW a, NEW effects
    PROVE  a.does \in effects => Does(<<a>>, effects)
<1>1. DOMAIN <<a>> = {1} /\ <<a>>[1] = a
  OBVIOUS
<1>. QED  BY <1>1 DEF Does

LEMMA TwoDo ==
    ASSUME NEW a, NEW b, NEW effects
    PROVE  a.does \in effects /\ b.does \in effects => Does(<<a, b>>, effects)
<1>1. DOMAIN <<a, b>> = {1, 2} /\ <<a, b>>[1] = a /\ <<a, b>>[2] = b
  OBVIOUS
<1>. QED  BY <1>1 DEF Does

LEMMA ThreeLineUp ==
    ASSUME NEW a, NEW b, NEW d, Texts(a), Waits(b), Enters(d), b.needs = {}, d.needs \subseteq a.needs
    PROVE  LinesUp(<<a, b, d>>)
<1>1. PICK s : s = <<a, b, d>>
  OBVIOUS
<1>2. Len(s) = 3 /\ s[1] = a /\ s[2] = b /\ s[3] = d
  BY <1>1
<1>3. Sends(s)
  BY <1>1, SendingSteps
<1>. QED  BY <1>1, <1>2, <1>3 DEF LinesUp

LEMMA FourLineUp ==
    ASSUME NEW l, NEW a, NEW b, NEW d, Harmless(l), l.type = "run", l.does = "look",
           Texts(a), Waits(b), Enters(d), b.needs = {}, d.needs \subseteq a.needs
    PROVE  LinesUp(<<l, a, b, d>>)
<1>1. PICK s : s = <<l, a, b, d>>
  OBVIOUS
<1>2. Len(s) = 4 /\ s[1] = l /\ s[2] = a /\ s[3] = b /\ s[4] = d
  BY <1>1
<1>3. Sends(s)
  BY <1>1, SendingSteps
<1>4. \A i \in 1 .. 4 : i < 2 => i = 1
  OBVIOUS
<1>. QED  BY <1>1, <1>2, <1>3, <1>4 DEF LinesUp

LEMMA RunDoes ==
    ASSUME NEW needs, NEW does
    PROVE  /\ Run(needs, does).needs = needs /\ Run(needs, does).does = does
           /\ Ignored(Run(needs, does)).does = does
           /\ \A names : Capturing(Run(needs, does), names).does = does
           /\ WriteFile(needs).does = "look" /\ Wait.needs = {}
  BY DEF Run, Step, Ignored, Capturing, WriteFile, Wait

LEMMA KeysLineUp ==
    ASSUME NEW name, NEW text
    PROVE  LinesUp(TypeThenEnter(name, text))
<1>1. PICK a : a = Run({name, text}, "type")
  OBVIOUS
<1>2. PICK d : d = Run({name}, "enter")
  OBVIOUS
<1>3. Texts(a) /\ Enters(d) /\ Waits(Wait)
  BY <1>1, <1>2, BuiltinSteps
<1>4. a.needs = {name, text} /\ d.needs = {name} /\ Wait.needs = {}
  BY <1>1, <1>2, RunDoes
<1>5. TypeThenEnter(name, text) = <<a, Wait, d>>
  BY <1>1, <1>2 DEF TypeThenEnter
<1>. QED  BY <1>3, <1>4, <1>5, ThreeLineUp

LEMMA KeysType ==
    ASSUME NEW name, NEW create, Does(create, {"open", "look"}), NEW t, t = Keys(name, create)
    PROVE  TypingFits(t)
<1>1. PICK look : look = Run({name, "peek_source", "peek_lines"}, "look")
  OBVIOUS
<1>2. PICK kill : kill = Run({name}, "kill")
  OBVIOUS
<1>3. look.does = "look" /\ kill.does = "kill"
  BY <1>1, <1>2, RunDoes
<1>4. /\ t.create = create /\ t.run_in_pane = TypeThenEnter(name, "launch_cmd")
      /\ t.send = TypeThenEnter(name, "message") /\ t.peek = <<look>>
      /\ t.close = <<kill>>
  BY <1>1, <1>2 DEF Keys
<1>5. Does(<<look>>, {"look"}) /\ Does(<<kill>>, {"kill", "look"})
  BY <1>3, OneDoes
<1>. QED  BY <1>4, <1>5, KeysLineUp DEF TypingFits, Typing

LEMMA BuiltinType == \A t \in BuiltinMux : TypingFits(t)
<1>1. TypingFits(Tmux)
  <2>1. PICK a : a = Capturing(Run({"session_id", "cwd"}, "open"), {"pane_id"})
    OBVIOUS
  <2>2. a.does \in {"open", "look"}
    BY <2>1, RunDoes
  <2>. QED  BY <2>1, <2>2, OneDoes, KeysType DEF Tmux
<1>2. TypingFits(Rmux)
  <2>1. PICK a : a = Run({"session_id", "cwd"}, "open")
    OBVIOUS
  <2>2. PICK b : b = Capturing(Run({"session_id"}, "look"), {"pane_id"})
    OBVIOUS
  <2>3. a.does \in {"open", "look"} /\ b.does \in {"open", "look"}
    BY <2>1, <2>2, RunDoes
  <2>. QED  BY <2>1, <2>2, <2>3, TwoDo, KeysType DEF Rmux
<1>3. ASSUME NEW t, t = Herdr
      PROVE  TypingFits(t)
  <2>1. Does(t.create, {"open", "look"})
    <3>1. PICK a : a = Capturing(Run({}, "look"), {"herdr_session"})
      OBVIOUS
    <3>2. PICK b : b = Capturing(Run({"herdr_session", "cwd", "session_id"}, "open"),
                                 {"pane_id", "tab_id", "herdr_workspace_id"})
      OBVIOUS
    <3>3. a.does \in {"open", "look"} /\ b.does \in {"open", "look"}
      BY <3>1, <3>2, RunDoes
    <3>4. t.create = <<a, b>>
      BY <1>3, <3>1, <3>2 DEF Herdr
    <3>. QED  BY <3>3, <3>4, TwoDo
  <2>2. Typing(t.run_in_pane)
    <3>1. PICK a : a = Run({"herdr_session", "pane_id", "launch_cmd"}, "submit")
      OBVIOUS
    <3>2. a.does \in {"submit"}
      BY <3>1, RunDoes
    <3>3. t.run_in_pane = <<a>>
      BY <1>3, <3>1 DEF Herdr
    <3>. QED  BY <3>2, <3>3, OneDoes DEF Typing
  <2>3. LinesUp(t.send)
    <3>1. PICK l : l = Ignored(Run({"herdr_session", "pane_id"}, "look"))
      OBVIOUS
    <3>2. PICK a : a = Run({"herdr_session", "pane_id", "message"}, "inject")
      OBVIOUS
    <3>3. PICK d : d = Run({"herdr_session", "pane_id"}, "enter")
      OBVIOUS
    <3>4. Harmless(l) /\ l.type = "run" /\ Texts(a) /\ Waits(Wait) /\ Enters(d)
      BY <3>1, <3>2, <3>3, BuiltinSteps
    <3>5. l.does = "look" /\ Wait.needs = {} /\ d.needs \subseteq a.needs
      BY <3>1, <3>2, <3>3, RunDoes
    <3>6. t.send = <<l, a, Wait, d>>
      BY <1>3, <3>1, <3>2, <3>3 DEF Herdr, HerdrSend
    <3>. QED  BY <3>4, <3>5, <3>6, FourLineUp
  <2>4. Does(t.peek, {"look"})
    <3>1. PICK look : look = Run({"herdr_session", "pane_id", "peek_source",
                                  "peek_lines"}, "look")
      OBVIOUS
    <3>2. t.peek = <<look>>
      BY <1>3, <3>1 DEF Herdr
    <3>. QED  BY <3>1, <3>2, RunDoes, OneDoes
  <2>5. Does(t.close, {"kill", "look"})
    <3>1. PICK kill : kill = Run({"herdr_session", "herdr_workspace_id"}, "kill")
      OBVIOUS
    <3>2. t.close = <<kill>>
      BY <1>3, <3>1 DEF Herdr
    <3>. QED  BY <3>1, <3>2, RunDoes, OneDoes
  <2>. QED  BY <2>1, <2>2, <2>3, <2>4, <2>5 DEF TypingFits
<1>4. ASSUME NEW t, t = Zellij
      PROVE  TypingFits(t)
  <2>1. Does(t.create, {"open", "look"})
    <3>1. PICK a : a = WriteFile({"session_dir", "cwd_kdl", "launch_script_kdl"})
      OBVIOUS
    <3>2. PICK b : b = Run({"session_id", "cwd", "session_dir"}, "open")
      OBVIOUS
    <3>3. a.does \in {"open", "look"} /\ b.does \in {"open", "look"}
      BY <3>1, <3>2, RunDoes
    <3>4. t.create = <<a, b>>
      BY <1>4, <3>1, <3>2 DEF Zellij
    <3>. QED  BY <3>3, <3>4, TwoDo
  <2>2. Typing(t.run_in_pane)
    BY <1>4 DEF Zellij, Typing, Does
  <2>3. LinesUp(t.send)
    BY <1>4, KeysLineUp DEF Zellij
  <2>4. Does(t.peek, {"look"})
    <3>1. PICK look : look = Run({"zellij_session_name", "peek_source", "peek_lines"}, "look")
      OBVIOUS
    <3>2. t.peek = <<look>>
      BY <1>4, <3>1 DEF Zellij
    <3>. QED  BY <3>1, <3>2, RunDoes, OneDoes
  <2>5. Does(t.close, {"kill", "look"})
    <3>1. PICK kill : kill = Ignored(Run({"zellij_session_name"}, "kill"))
      OBVIOUS
    <3>2. PICK look : look = Ignored(Run({"zellij_session_name"}, "look"))
      OBVIOUS
    <3>3. t.close = <<kill, look>>
      BY <1>4, <3>1, <3>2 DEF Zellij
    <3>. QED  BY <3>1, <3>2, <3>3, RunDoes, TwoDo
  <2>. QED  BY <2>1, <2>2, <2>3, <2>4, <2>5 DEF TypingFits
<1>. QED  BY <1>1, <1>2, <1>3, <1>4 DEF BuiltinMux

-----------------------------------------------------------------------------
(***************************************************************************)
(* Whose text is on the input line.                                        *)
(***************************************************************************)
Typist(c) == Busy(c) /\ engine[c].stage \in {"start", "paste", "send"}
Acted(c) == At(c, "child") /\ did[c]

(* The text is on the way or on the line, and Enter is still to come.      *)
Half(c) ==
    LET n == Len(Steps(c))
        at == engine[c].at
    IN  /\ Typist(c) /\ Sends(Steps(c))
        /\ (at = n - 2 /\ Acted(c)) \/ at = n - 1 \/ (at = n /\ ~Acted(c))

Quiet == \A x \in late : x.does = "look"
Clear == pane.line = <<>> /\ Quiet

(* One text is on the line; or the line is empty, and one text on the way. *)
Awaits(c) ==
    LET text == [by |-> Text(c), does |-> "type"]
    IN  \/ Len(pane.line) = 1 /\ Quiet
        \/ /\ pane.line = <<>> /\ engine[c].at < Len(Steps(c))
           /\ text \in late /\ \A x \in late : x.does = "look" \/ x = text

(* What Enter names was there for the text already.                        *)
NamesEnter(c) ==
    LET n == Len(Steps(c))
        at == engine[c].at
    IN  Typist(c) /\ Sends(Steps(c)) /\ (at >= n - 1 \/ (at = n - 2 /\ At(c, "child"))) =>
            Steps(c)[n].needs \subseteq DOMAIN engine[c].vars

(* The one creator has not made the pane yet.                              *)
MayOpen(c) ==
    /\ plan[c].kind = "create"
    /\ \/ At(c, "idle") /\ ~HasRow
       \/ engine[c].stage = "create" /\ ~At(c, "over")

Pauses(c) == At(c, "pause") => Current(c).type = "wait_ms"

LineInv ==
    /\ \A i \in DOMAIN pane.lines : Len(pane.lines[i]) = 1
    /\ \A c \in Caller : MayOpen(c) => Clear
    /\ pane.open => \/ Clear /\ \A c \in Caller : ~Half(c)
                    \/ \E c \in Caller : Half(c) /\ Awaits(c)
    /\ \A c \in Caller :
          NamesEnter(c) /\ Pauses(c) /\ (engine[c].stage = "send" => Sender(c))


(* No two type at once, and nobody before there is a pane.                 *)
LEMMA OneTypist ==
    ASSUME EngineInv, DeliveryInv, LineInv, OneSender, NEW c \in Caller, Typist(c)
    PROVE  /\ \A d \in Caller : Typist(d) => d = c
           /\ \A d \in Caller : ~MayOpen(d)
<1>1. plan \in Plans /\ \A d \in Caller : InItsStage(d)
  BY DEF EngineInv, DeliveryInv
<1>2. \A d \in Caller : plan[d].kind = "create" /\ plan[c].kind = "create" => d = c
  BY <1>1, PlansAssumption
<1>3. \A d \in Caller : Typist(d) =>
          \/ plan[d].kind = "create" /\ ~HasRow
          \/ engine[d].stage = "send" /\ Sender(d) /\ HasRow
  <2>1. SUFFICES ASSUME NEW d \in Caller, Typist(d)
                 PROVE  \/ plan[d].kind = "create" /\ ~HasRow
                        \/ engine[d].stage = "send" /\ Sender(d) /\ HasRow
    OBVIOUS
  <2>2. InItsStage(d) /\ (engine[d].stage = "send" => Sender(d))
    BY <1>1 DEF LineInv
  <2>3. engine[d].stage = "send" \/ engine[d].stage \in CreateStages
    BY <2>1 DEF Typist, CreateStages
  <2>4. ~At(d, "idle") /\ ~At(d, "over") /\ engine[d].pc \notin {"idle", "over"}
    BY <2>1 DEF Typist, Busy, At
  <2>. QED  BY <2>2, <2>3, <2>4 DEF InItsStage
<1>4. \A d \in Caller : Typist(d) => d = c
  BY <1>2, <1>3 DEF OneSender
<1>5. ASSUME NEW d \in Caller, MayOpen(d)
      PROVE  FALSE
  <2>1. CASE plan[c].kind = "create" /\ ~HasRow
    <3>1. d = c
      BY <1>2, <1>5, <2>1 DEF MayOpen
    <3>. QED  BY <1>5, <3>1 DEF MayOpen, Typist, Busy, At
  <2>2. CASE HasRow
    <3>1. engine[d].stage = "create" /\ ~At(d, "over") /\ At(d, "idle")
      BY <1>1, <1>5, <2>2 DEF MayOpen, InItsStage, At
    <3>2. engine[d].stage = "job"
      BY <3>1, PlanFits, IdleFits DEF Sound, At
    <3>. QED  BY <3>1, <3>2
  <2>. QED  BY <1>3, <2>1, <2>2
<1>. QED  BY <1>4, <1>5

(* What a command does, told by the stage it runs in.                      *)
LEMMA StageDoes ==
    ASSUME EngineInv, BuiltinPlans, JobsLook, NEW c \in Caller
    PROVE  /\ engine[c].stage = "create" => Does(Steps(c), {"open", "look"})
           /\ engine[c].stage \in {"start", "paste", "send"} => Typing(Steps(c))
           /\ engine[c].stage \notin {"create", "start", "paste", "send"} =>
                 Does(Steps(c), {"kill", "look"})
<1>1. PICK t, e : t = plan[c].template /\ e = engine[c]
  OBVIOUS
<1>2. t \in BuiltinMux /\ plan \in Plans
  BY <1>1 DEF BuiltinPlans, EngineInv
<1>3. TypingFits(t)
  BY <1>2, BuiltinType
<1>4. Does(plan[c].steps, {"kill", "look"})
  BY <1>2 DEF JobsLook, Does
<1>5. Does(<<Wait>>, {"kill", "look"})
  BY WaitIs, OneDoes
<1>6. e.stage \in Stages
  BY <1>1, PlanFits DEF Sound
<1>7. Does(t.peek, {"kill", "look"})
  BY <1>3 DEF TypingFits, Does
<1>. QED  BY <1>1, <1>3, <1>4, <1>5, <1>6, <1>7 DEF Steps, Stages, TypingFits, Typing

(* A sequence that types is one of the two kinds.                          *)
LEMMA TypistFacts ==
    ASSUME EngineInv, BuiltinPlans, JobsLook, NEW c \in Caller, Typist(c)
    PROVE  /\ Sends(Steps(c)) => LinesUp(Steps(c)) /\ Len(Steps(c)) \in {3, 4}
           /\ ~Sends(Steps(c)) => Does(Steps(c), {"submit"})
           /\ AllPlain(Steps(c)) /\ engine[c].at \in 1 .. Len(Steps(c)) + 1
           /\ Len(Steps(c)) \in Nat
           /\ Running(c) => engine[c].at \in 1 .. Len(Steps(c))
<1>1. PICK st : st = Steps(c)
  OBVIOUS
<1>2. st \in Seq(TemplateStep) /\ engine[c].at \in 1 .. Len(st) + 1
  BY <1>1, PlanFits, StepsTyped DEF Sound
<1>3. Typing(st) /\ AllPlain(st)
  BY <1>1, StageDoes, BuiltinStages DEF Typist
<1>4. Sends(st) => LinesUp(st)
  <2>1. SUFFICES ASSUME Sends(st), Does(st, {"submit"}) PROVE FALSE
    BY <1>3 DEF Typing
  <2>. QED  BY <2>1 DEF Sends, Does
<1>5. ~Sends(st) => Does(st, {"submit"})
  BY <1>3 DEF Typing, LinesUp
<1>6. Sends(st) => Len(st) \in {3, 4}
  BY DEF Sends
<1>. QED  BY <1>1, <1>2, <1>3, <1>4, <1>5, <1>6 DEF Running


-----------------------------------------------------------------------------
(***************************************************************************)
(* Steps that leave the pane alone.                                        *)
(***************************************************************************)
MoreLooks == late' = late \/ \E x : x.does = "look" /\ late' = late \cup {x}

HalfKept(c) ==
    /\ pane.open => (Half(c)' <=> Half(c)) /\ (Half(c) /\ Awaits(c) => Awaits(c)')
    /\ NamesEnter(c)' /\ Pauses(c)' /\ (MayOpen(c)' => MayOpen(c))
    /\ engine'[c].stage = "send" => Sender(c)

LEMMA KeepsLines ==
    ASSUME LineInv, NEW c \in Caller, HalfKept(c), pane' = pane, MoreLooks, plan' = plan,
           HasRow => HasRow',
           \A d \in Caller : d # c => engine'[d] = engine[d] /\ did'[d] = did[d]
    PROVE  LineInv'
<1>1. ASSUME NEW d \in Caller, d # c
      PROVE  /\ Half(d)' = Half(d) /\ (MayOpen(d)' => MayOpen(d)) /\ (Awaits(d) => Awaits(d)')
             /\ NamesEnter(d)' /\ Pauses(d)' /\ (engine'[d].stage = "send" => Sender(d)')
  <2>1. engine'[d] = engine[d] /\ did'[d] = did[d] /\ Steps(d)' = Steps(d) /\ Text(d)' = Text(d)
    BY <1>1, StepsKept DEF Text
  <2>2. Half(d)' = Half(d)
    BY <2>1 DEF Half, Typist, Busy, Acted, At
  <2>3. MayOpen(d)' => MayOpen(d)
    BY <2>1 DEF MayOpen, At
  <2>4. Awaits(d) => Awaits(d)'
    BY <2>1 DEF Awaits, Quiet, MoreLooks
  <2>5. NamesEnter(d) /\ Pauses(d) /\ (engine[d].stage = "send" => Sender(d))
    BY DEF LineInv
  <2>6. NamesEnter(d)' /\ Pauses(d)'
    BY <2>1, <2>5 DEF NamesEnter, Pauses, Typist, Busy, At, Current
  <2>. QED  BY <2>1, <2>2, <2>3, <2>4, <2>5, <2>6 DEF Sender
<1>2. Clear => Clear'
  BY DEF Clear, Quiet, MoreLooks
<1>3. \A d \in Caller : MayOpen(d)' => Clear'
  BY <1>1, <1>2 DEF LineInv, HalfKept
<1>4. pane.open => \/ Clear' /\ \A d \in Caller : ~Half(d)'
                   \/ \E d \in Caller : Half(d)' /\ Awaits(d)'
  <2>1. CASE Clear /\ \A d \in Caller : ~Half(d)
    BY <1>1, <1>2, <2>1 DEF HalfKept
  <2>2. CASE \E d \in Caller : Half(d) /\ Awaits(d)
    BY <1>1, <2>2 DEF HalfKept
  <2>. QED  BY <2>1, <2>2 DEF LineInv
<1>5. \A d \in Caller : NamesEnter(d)' /\ Pauses(d)' /\ (engine'[d].stage = "send" => Sender(d)')
  BY <1>1 DEF HalfKept, Sender
<1>. QED  BY <1>3, <1>4, <1>5 DEF LineInv

(* A step of a sequence that has no text to submit.                        *)
LEMMA OtherHalf ==
    ASSUME LineInv, NEW c \in Caller, Within(c), ~(Typist(c) /\ Sends(Steps(c))), Pauses(c)'
    PROVE  HalfKept(c)
<1>1. /\ engine'[c].stage = engine[c].stage /\ plan' = plan /\ row' = row /\ Busy(c)
      /\ engine'[c].pc \in {"step", "child", "pause", "done"}
  BY DEF Within
<1>2. Steps(c)' = Steps(c)
  BY <1>1, StepsKept
<1>3. ~(Typist(c) /\ Sends(Steps(c)))'
  BY <1>1, <1>2 DEF Typist
<1>4. ~Half(c) /\ ~Half(c)' /\ NamesEnter(c)'
  BY <1>3 DEF Half, NamesEnter
<1>5. MayOpen(c)' => MayOpen(c)
  BY <1>1 DEF MayOpen, At, Busy
<1>. QED  BY <1>1, <1>4, <1>5 DEF HalfKept, LineInv

(* A step of a sequence that submits a text, other than a command's acting *)
(* on the pane.                                                            *)
LEMMA SendingHalf ==
    ASSUME EngineInv, BuiltinPlans, JobsLook, LineInv, NEW c \in Caller,
           Typist(c), Sends(Steps(c)), Within(c), NEW S, Gains(c, S), pane' = pane, MoreLooks,
           Pauses(c)',
           NEW n, n = Len(Steps(c)), NEW at, at = engine[c].at,
           \/ /\ Running(c) /\ Works(c)
              /\ \/ Acted(c)
                 \/ At(c, "pause") /\ [by |-> Text(c), does |-> "type"] \notin late
           \/ /\ Running(c) /\ Fails(c)
              /\ at < n - 2 \/ (at = n - 2 /\ ~Acted(c)) \/ ~pane.open
           \/ /\ At(c, "step") /\ engine'[c].at = at
              /\ \/ /\ engine'[c].pc = "child" /\ ~did'[c]
                    /\ ~Missing(Current(c), engine[c].vars)
                 \/ engine'[c].pc = "pause" /\ Running(c)
                 \/ engine'[c].pc = "done" /\ at = n + 1
    PROVE  HalfKept(c)
<1>1. PICK st : st = Steps(c)
  OBVIOUS
<1>2. /\ LinesUp(st) /\ Sends(st) /\ n \in {3, 4} /\ at \in 1 .. n + 1
      /\ (Running(c) => at \in 1 .. n) /\ n = Len(st) /\ Current(c) = st[at]
  BY <1>1, TypistFacts DEF Current
<1>3. /\ engine'[c].stage = engine[c].stage /\ plan' = plan /\ row' = row
      /\ Steps(c)' = st /\ Text(c)' = Text(c)
  BY <1>1, StepsKept DEF Within, Text
<1>4. /\ st[n].type = "run" /\ st[n - 2].type = "run" /\ st[n - 1].type = "wait_ms"
      /\ st[n].ignore = FALSE /\ st[n - 1].ignore = FALSE /\ st[n - 2].ignore = FALSE
      /\ st[n].needs \subseteq st[n - 2].needs
      /\ \A i \in 1 .. n : i # n - 1 => st[i].type = "run"
      /\ \A i \in 1 .. n : i >= n - 2 => st[i].ignore = FALSE
  BY <1>2 DEF LinesUp, Sends
<1>5. NamesEnter(c) /\ Pauses(c) /\ (engine[c].stage = "send" => Sender(c))
  BY DEF LineInv
<1>6. Running(c) /\ Acted(c) => at # n - 1
  BY <1>2, <1>4, RunningFits DEF Acted
<1>7. Running(c) /\ At(c, "pause") => at = n - 1
  BY <1>2, <1>4, <1>5 DEF Pauses
<1>8. engine'[c].pc = "pause" /\ Running(c) /\ engine'[c].at = at => at = n - 1
  <2>1. Current(c)' = st[engine'[c].at]
    BY <1>3 DEF Current
  <2>. QED  BY <1>2, <1>4, <2>1 DEF Pauses, At
<1>9. DOMAIN engine[c].vars \subseteq DOMAIN engine'[c].vars
  BY DEF Gains
<1>10. ~MayOpen(c)'
  BY <1>3 DEF MayOpen, Typist, Within, At
<1>11. Half(c) <=> (at = n - 2 /\ Acted(c)) \/ at = n - 1 \/ (at = n /\ ~Acted(c))
  BY <1>1, <1>2 DEF Half
<1>12. Half(c)' <=> /\ engine'[c].pc \in {"step", "child", "pause"}
                    /\ \/ engine'[c].at = n - 2 /\ Acted(c)'
                       \/ engine'[c].at = n - 1 \/ (engine'[c].at = n /\ ~Acted(c)')
  BY <1>2, <1>3 DEF Half, Typist, Busy
<1>13. Acted(c)' <=> engine'[c].pc = "child" /\ did'[c]
  BY DEF Acted, At
<1>14. st[n].needs \subseteq DOMAIN engine'[c].vars => NamesEnter(c)'
  BY <1>2, <1>3 DEF NamesEnter
<1>15. at >= n - 1 \/ (at = n - 2 /\ At(c, "child")) => st[n].needs \subseteq DOMAIN engine[c].vars
  BY <1>1, <1>2, <1>5 DEF NamesEnter
<1>16. /\ engine'[c].pc = "done" => NamesEnter(c)'
       /\ /\ engine'[c].at \in Nat /\ engine'[c].pc = "step"
          /\ engine'[c].at < n - 2 \/ engine'[c].at = n - 2
          => NamesEnter(c)'
       /\ engine'[c].at \in Nat /\ engine'[c].at < n - 2 => NamesEnter(c)'
  <2>1. engine'[c].pc = "done" => NamesEnter(c)'
    BY DEF NamesEnter, Typist, Busy
  <2>2. NamesEnter(c)' <=>
            (Typist(c)' /\ Sends(st) /\ (engine'[c].at >= n - 1
                                        \/ (engine'[c].at = n - 2 /\ engine'[c].pc = "child")) =>
                st[n].needs \subseteq DOMAIN engine'[c].vars)
    BY <1>2, <1>3 DEF NamesEnter, At
  <2>. QED  BY <1>2, <2>1, <2>2
<1>17. /\ Half(c) /\ Awaits(c) /\ engine'[c].at < n => Awaits(c)'
       /\ Awaits(c) /\ [by |-> Text(c), does |-> "type"] \notin late => Awaits(c)'
       /\ Awaits(c) /\ at = n => Awaits(c)'
  BY <1>1, <1>2, <1>3 DEF Awaits, Quiet, MoreLooks
<1>18. CASE Running(c) /\ Works(c) /\ Acted(c)
  <2>1. engine'[c].pc = "step" /\ engine'[c].at = at + 1 /\ at \in 1 .. n /\ at # n - 1
    BY <1>2, <1>6, <1>18 DEF Works
  <2>2. Half(c)' <=> Half(c)
    BY <1>2, <1>11, <1>12, <1>13, <1>18, <2>1
  <2>3. Half(c) /\ Awaits(c) => Awaits(c)'
    BY <1>2, <1>11, <1>17, <1>18, <2>1
  <2>4. NamesEnter(c)'
    BY <1>2, <1>9, <1>14, <1>15, <1>16, <1>18, <2>1 DEF Acted
  <2>. QED  BY <1>3, <1>5, <1>10, <2>2, <2>3, <2>4 DEF HalfKept
<1>19. CASE /\ Running(c) /\ Works(c) /\ At(c, "pause")
            /\ [by |-> Text(c), does |-> "type"] \notin late
  <2>1. engine'[c].pc = "step" /\ engine'[c].at = at + 1 /\ at = n - 1
    BY <1>7, <1>19 DEF Works
  <2>2. Half(c)' <=> Half(c)
    BY <1>2, <1>11, <1>12, <1>13, <2>1
  <2>3. NamesEnter(c)'
    BY <1>2, <1>9, <1>14, <1>15, <2>1
  <2>. QED  BY <1>3, <1>5, <1>10, <1>17, <1>19, <2>2, <2>3 DEF HalfKept
<1>20. CASE /\ Running(c) /\ Fails(c)
            /\ at < n - 2 \/ (at = n - 2 /\ ~Acted(c)) \/ ~pane.open
  <2>1. \/ engine'[c].pc = "step" /\ engine'[c].at = at + 1 /\ at < n - 2
        \/ engine'[c].pc = "done" /\ engine'[c].at = at
    BY <1>2, <1>4, <1>20 DEF Fails
  <2>2. ~Half(c)' /\ NamesEnter(c)'
    BY <1>2, <1>12, <1>13, <1>16, <2>1
  <2>3. pane.open => ~Half(c)
    BY <1>2, <1>11, <1>20
  <2>. QED  BY <1>3, <1>5, <1>10, <2>2, <2>3 DEF HalfKept
<1>21. CASE /\ At(c, "step") /\ engine'[c].at = at
            /\ engine'[c].pc = "child" /\ ~did'[c] /\ ~Missing(Current(c), engine[c].vars)
  <2>1. ~Acted(c) /\ ~Acted(c)'
    BY <1>21 DEF Acted, At
  <2>2. Half(c)' <=> Half(c)
    BY <1>2, <1>11, <1>12, <1>21, <2>1
  <2>3. Half(c) /\ Awaits(c) => Awaits(c)'
    BY <1>2, <1>11, <1>17, <1>21, <2>1
  <2>4. NamesEnter(c)'
    BY <1>2, <1>4, <1>9, <1>14, <1>15, <1>16, <1>21 DEF Missing
  <2>. QED  BY <1>3, <1>5, <1>10, <2>2, <2>3, <2>4 DEF HalfKept
<1>22. CASE At(c, "step") /\ engine'[c].at = at /\ engine'[c].pc = "pause" /\ Running(c)
  <2>1. at = n - 1
    BY <1>8, <1>22
  <2>2. Half(c)' /\ Half(c)
    BY <1>2, <1>11, <1>12, <1>22, <2>1
  <2>3. NamesEnter(c)' /\ (Awaits(c) => Awaits(c)')
    BY <1>2, <1>9, <1>14, <1>15, <1>17, <1>22, <2>1, <2>2
  <2>. QED  BY <1>3, <1>5, <1>10, <2>2, <2>3 DEF HalfKept
<1>23. CASE engine'[c].pc = "done" /\ at = n + 1
  <2>1. ~Half(c) /\ ~Half(c)' /\ NamesEnter(c)'
    BY <1>2, <1>11, <1>12, <1>16, <1>23
  <2>. QED  BY <1>3, <1>5, <1>10, <2>1 DEF HalfKept
<1>. QED  BY <1>18, <1>19, <1>20, <1>21, <1>22, <1>23


(* Only the steps of a job run in the background or have a timer.          *)
LEMMA UnplainLooks ==
    ASSUME EngineInv, BuiltinPlans, JobsLook, NEW c \in Caller, Running(c),
           Current(c).background \/ Current(c).timed
    PROVE  engine[c].stage = "job" /\ Current(c).does = "look"
<1>1. engine[c].at \in DOMAIN Steps(c)
  BY RunningStep
<1>2. engine[c].stage = "job"
  BY <1>1, BuiltinStages DEF AllPlain, Plain, Current
<1>3. Steps(c) = plan[c].steps
  BY <1>2 DEF Steps
<1>. QED  BY <1>1, <1>2, <1>3 DEF JobsLook, EngineInv, Current

(* The pause names nothing, and Enter only what the text named.            *)
LEMMA MissingBefore ==
    ASSUME EngineInv, BuiltinPlans, JobsLook, LineInv, NEW c \in Caller,
           Typist(c), Sends(Steps(c)), MissingVariable(c)
    PROVE  engine[c].at <= Len(Steps(c)) - 2
<1>1. PICK st, n, at : st = Steps(c) /\ n = Len(st) /\ at = engine[c].at
  OBVIOUS
<1>2. LinesUp(st) /\ n \in {3, 4} /\ at \in 1 .. n /\ NamesEnter(c)
  BY <1>1, TypistFacts, RunningFits DEF LineInv, MissingVariable
<1>3. ~(st[at].needs \subseteq DOMAIN engine[c].vars)
  BY <1>1 DEF MissingVariable, Missing, Current
<1>4. at # n - 1
  <2>1. st[n - 1].needs = {}
    BY <1>1, <1>2 DEF LinesUp
  <2>2. SUFFICES ASSUME at = n - 1 PROVE FALSE
    OBVIOUS
  <2>3. st[at].needs = {}
    BY <2>1, <2>2
  <2>. QED  BY <1>3, <2>3
<1>5. at # n
  BY <1>1, <1>2, <1>3 DEF NamesEnter
<1>. QED  BY <1>1, <1>2, <1>4, <1>5

(* What a step of a sequence leaves alone.                                 *)
Spares(c) == Within(c) /\ pane' = pane /\ MoreLooks

LEMMA EngineHalf ==
    ASSUME EngineInv, DeliveryInv, BuiltinPlans, JobsLook, LineInv, faults = 0, faults' = 0,
           NEW c \in Caller,
           \/ MissingVariable(c) \/ Spawn(c) \/ WriteStep(c) \/ Pause(c) \/ PauseEnds(c)
           \/ TimesOut(c) \/ EndOfSequence(c)
    PROVE  Spares(c) /\ HalfKept(c)
<1>1. PICK n, at : n = Len(Steps(c)) /\ at = engine[c].at
  OBVIOUS
<1>2. Typist(c) /\ Sends(Steps(c)) =>
          /\ n \in {3, 4} /\ at \in 1 .. n + 1 /\ (Running(c) => at \in 1 .. n)
          /\ \A i \in 1 .. n : Steps(c)[i].type # "write_file"
  <2>1. SUFFICES ASSUME Typist(c), Sends(Steps(c))
                 PROVE  /\ n \in {3, 4} /\ at \in 1 .. n + 1 /\ (Running(c) => at \in 1 .. n)
                        /\ \A i \in 1 .. n : Steps(c)[i].type # "write_file"
    OBVIOUS
  <2>. QED  BY <1>1, <2>1, TypistFacts DEF Sends
<1>3. did = [d \in Caller |-> did[d]]
  BY DEF DeliveryInv
<1>4. CASE MissingVariable(c)
  <2>1. /\ Running(c) /\ Failed(c, "sequence_step_failed", "missing") /\ ~Acted(c)
        /\ plan' = plan /\ row' = row /\ did' = did /\ pane' = pane /\ late' = late
    BY <1>4, RunningFits DEF MissingVariable, HasStep, Acted, At
  <2>2. Within(c) /\ Fails(c) /\ Gains(c, {"missing"})
    <3>1. PICK code, o : code = "sequence_step_failed" /\ o = "missing"
      OBVIOUS
    <3>2. code # "ok" /\ o \in Outcomes
      BY <3>1 DEF Outcomes
    <3>. QED  BY <2>1, <3>1, <3>2, FailsWithin, FailsGains
  <2>3. Pauses(c)'
    BY <2>2 DEF Fails, Pauses, At
  <2>4. CASE Typist(c) /\ Sends(Steps(c))
    <3>1. at < n - 2 \/ at = n - 2
      BY <1>1, <1>2, <1>4, <2>1, <2>4, MissingBefore
    <3>. QED  BY <1>1, <2>1, <2>2, <2>3, <2>4, <3>1, SendingHalf DEF Spares, MoreLooks
  <2>5. CASE ~(Typist(c) /\ Sends(Steps(c)))
    BY <2>1, <2>2, <2>3, <2>5, OtherHalf DEF Spares, MoreLooks
  <2>. QED  BY <2>4, <2>5
<1>5. CASE Spawn(c)
  <2>1. /\ Running(c) /\ Busy(c) /\ At(c, "step") /\ ~Missing(Current(c), engine[c].vars)
        /\ plan' = plan /\ row' = row /\ pane' = pane /\ did' = [did EXCEPT ![c] = FALSE]
    BY <1>5, RunningFits DEF Spawn, Running, HasStep
  <2>2. ~did'[c] /\ \A d \in Caller : d # c => did'[d] = did[d]
    BY <1>3, <2>1
  <2>3. CASE Current(c).background
    <3>1. engine[c].stage = "job" /\ Current(c).does = "look"
      BY <2>1, <2>3, UnplainLooks
    <3>2. Succeeded(c, "ok") /\ "ok" \in Worked /\ Later(Text(c), "look")
      BY <1>5, <2>3, <3>1 DEF Spawn, Worked
    <3>3. Within(c) /\ Works(c)
      BY <2>1, <2>2, <3>2, WorksWithin
    <3>4. MoreLooks
      BY <3>2 DEF Later, MoreLooks
    <3>5. ~Typist(c) /\ Pauses(c)'
      BY <3>1, <3>3 DEF Typist, Works, Pauses, At
    <3>. QED  BY <2>1, <3>3, <3>4, <3>5, OtherHalf DEF Spares
  <2>4. CASE ~Current(c).background
    <3>1. Goto(c, [engine[c] EXCEPT !.pc = "child"]) /\ log' = log /\ late' = late
      BY <1>5, <2>4 DEF Spawn
    <3>2. Within(c) /\ engine'[c].pc = "child" /\ engine'[c].at = at /\ Gains(c, {})
      BY <1>1, <2>1, <2>2, <3>1, StaysWithin, StaysGains
    <3>3. Pauses(c)' /\ MoreLooks
      BY <3>1, <3>2 DEF Pauses, At, MoreLooks
    <3>4. CASE Typist(c) /\ Sends(Steps(c))
      BY <1>1, <2>1, <2>2, <3>2, <3>3, <3>4, SendingHalf DEF Spares
    <3>5. CASE ~(Typist(c) /\ Sends(Steps(c)))
      BY <2>1, <3>2, <3>3, <3>5, OtherHalf DEF Spares
    <3>. QED  BY <3>4, <3>5
  <2>. QED  BY <2>3, <2>4
<1>6. CASE WriteStep(c)
  <2>1. /\ Running(c) /\ plan' = plan /\ row' = row /\ did' = did /\ pane' = pane /\ late' = late
        /\ Succeeded(c, "ok") /\ Current(c).type = "write_file" /\ "ok" \in Worked
    BY <1>6, RunningFits DEF WriteStep, Fault, Worked
  <2>2. Within(c) /\ Works(c)
    BY <2>1, WorksWithin
  <2>3. ~(Typist(c) /\ Sends(Steps(c)))
    BY <1>1, <1>2, <2>1 DEF Current
  <2>4. Pauses(c)' /\ MoreLooks
    BY <2>1, <2>2 DEF Works, Pauses, At, MoreLooks
  <2>. QED  BY <2>1, <2>2, <2>3, <2>4, OtherHalf DEF Spares
<1>7. CASE Pause(c)
  <2>1. /\ Running(c) /\ Busy(c) /\ At(c, "step") /\ Current(c).type = "wait_ms"
        /\ plan' = plan /\ row' = row /\ did' = did /\ pane' = pane /\ late' = late /\ log' = log
        /\ Goto(c, [engine[c] EXCEPT !.pc = "pause"])
    BY <1>7, RunningFits DEF Pause, Running, HasStep
  <2>2. Within(c) /\ engine'[c].pc = "pause" /\ engine'[c].at = at /\ Gains(c, {})
    BY <1>1, <2>1, StaysWithin, StaysGains
  <2>3. Pauses(c)' /\ MoreLooks
    <3>1. Steps(c)' = Steps(c)
      BY <2>2, StepsKept DEF Within
    <3>. QED  BY <1>1, <2>1, <2>2, <3>1 DEF Pauses, Current, MoreLooks
  <2>4. CASE Typist(c) /\ Sends(Steps(c))
    BY <1>1, <2>1, <2>2, <2>3, <2>4, SendingHalf DEF Spares
  <2>5. CASE ~(Typist(c) /\ Sends(Steps(c)))
    BY <2>1, <2>2, <2>3, <2>5, OtherHalf DEF Spares
  <2>. QED  BY <2>4, <2>5
<1>8. CASE PauseEnds(c)
  <2>1. /\ Running(c) /\ plan' = plan /\ row' = row /\ did' = did /\ pane' = pane /\ late' = late
        /\ Succeeded(c, "ok") /\ "ok" \in Worked /\ At(c, "pause")
        /\ [by |-> Text(c), does |-> "type"] \notin late
    BY <1>8, RunningFits DEF PauseEnds, Worked
  <2>2. Within(c) /\ Works(c) /\ Gains(c, {"ok"})
    BY <2>1, WorksWithin, WorksGains
  <2>3. Pauses(c)' /\ MoreLooks
    BY <2>1, <2>2 DEF Works, Pauses, At, MoreLooks
  <2>4. CASE Typist(c) /\ Sends(Steps(c))
    BY <1>1, <2>1, <2>2, <2>3, <2>4, SendingHalf DEF Spares
  <2>5. CASE ~(Typist(c) /\ Sends(Steps(c)))
    BY <2>1, <2>2, <2>3, <2>5, OtherHalf DEF Spares
  <2>. QED  BY <2>4, <2>5
<1>9. CASE TimesOut(c)
  <2>1. /\ Running(c) /\ plan' = plan /\ row' = row /\ did' = did /\ pane' = pane
        /\ Failed(c, "timeout", "timeout") /\ Current(c).timed
    BY <1>9, RunningFits DEF TimesOut, HasTimer
  <2>2. engine[c].stage = "job" /\ Current(c).does = "look"
    BY <2>1, UnplainLooks
  <2>3. MoreLooks
    BY <1>9, <2>2 DEF TimesOut, Later, MoreLooks
  <2>4. Within(c) /\ Fails(c)
    <3>1. PICK code : code = "timeout"
      OBVIOUS
    <3>. QED  BY <2>1, <3>1, FailsWithin DEF Outcomes
  <2>5. ~Typist(c) /\ Pauses(c)'
    BY <2>2, <2>4 DEF Typist, Fails, Pauses, At
  <2>. QED  BY <2>1, <2>3, <2>4, <2>5, OtherHalf DEF Spares
<1>10. CASE EndOfSequence(c)
  <2>1. /\ Goto(c, [engine[c] EXCEPT !.pc = "done", !.result = "ok"]) /\ log' = log
        /\ pane' = pane /\ late' = late /\ At(c, "step")
    BY <1>10 DEF EndOfSequence, Finish
  <2>2. Within(c) /\ engine'[c].pc = "done" /\ engine'[c].at = at /\ at = n + 1
    BY <1>1, <1>10, EndsWithin
  <2>3. Gains(c, {})
    BY <2>1, StaysGains
  <2>4. Pauses(c)' /\ MoreLooks
    BY <2>1, <2>2 DEF Pauses, At, MoreLooks
  <2>5. CASE Typist(c) /\ Sends(Steps(c))
    BY <1>1, <2>1, <2>2, <2>3, <2>4, <2>5, SendingHalf DEF Spares
  <2>6. CASE ~(Typist(c) /\ Sends(Steps(c)))
    BY <2>1, <2>2, <2>4, <2>6, OtherHalf DEF Spares
  <2>. QED  BY <2>5, <2>6
<1>. QED  BY <1>4, <1>5, <1>6, <1>7, <1>8, <1>9, <1>10

LEMMA CommandHalf ==
    ASSUME EngineInv, DeliveryInv, BuiltinPlans, JobsLook, LineInv, faults = 0, faults' = 0,
           NEW c \in Caller,
           ExitsZero(c) \/ ExitsNonZero(c) \/ KilledBySignal(c) \/ SpawnFails(c)
    PROVE  Spares(c) /\ HalfKept(c)
<1>1. PICK n, at : n = Len(Steps(c)) /\ at = engine[c].at
  OBVIOUS
<1>2. /\ Running(c) /\ plan' = plan /\ row' = row /\ did' = did /\ pane' = pane /\ late' = late
      /\ At(c, "child")
      /\ \/ Succeeded(c, "ok") /\ did[c]
         \/ /\ Failed(c, "sequence_step_failed", "exit")
            /\ ~did[c] /\ ~CanAct(Current(c).does)
  BY RunningFits DEF ExitsZero, ExitsNonZero, KilledBySignal, SpawnFails, Fault
<1>3. MoreLooks
  BY <1>2 DEF MoreLooks
<1>4. CASE Succeeded(c, "ok") /\ did[c]
  <2>1. Within(c) /\ Works(c) /\ Gains(c, {"ok"})
    BY <1>2, <1>4, WorksWithin, WorksGains DEF Worked
  <2>2. Pauses(c)' /\ Acted(c)
    BY <1>2, <1>4, <2>1 DEF Works, Pauses, At, Acted
  <2>3. CASE Typist(c) /\ Sends(Steps(c))
    BY <1>1, <1>2, <1>3, <2>1, <2>2, <2>3, SendingHalf DEF Spares
  <2>4. CASE ~(Typist(c) /\ Sends(Steps(c)))
    BY <1>2, <1>3, <2>1, <2>2, <2>4, OtherHalf DEF Spares
  <2>. QED  BY <2>3, <2>4
<1>5. CASE /\ Failed(c, "sequence_step_failed", "exit")
           /\ ~did[c] /\ ~CanAct(Current(c).does)
  <2>1. Within(c) /\ Fails(c) /\ Gains(c, {"exit"})
    <3>1. PICK code, o : code = "sequence_step_failed" /\ o = "exit"
      OBVIOUS
    <3>2. code # "ok" /\ o \in Outcomes
      BY <3>1 DEF Outcomes
    <3>. QED  BY <1>2, <1>5, <3>1, <3>2, FailsWithin, FailsGains
  <2>2. Pauses(c)' /\ ~pane.open
    BY <1>5, <2>1 DEF Fails, Pauses, At, CanAct
  <2>3. CASE Typist(c) /\ Sends(Steps(c))
    BY <1>1, <1>2, <1>3, <2>1, <2>2, <2>3, SendingHalf DEF Spares
  <2>4. CASE ~(Typist(c) /\ Sends(Steps(c)))
    BY <1>2, <1>3, <2>1, <2>2, <2>4, OtherHalf DEF Spares
  <2>. QED  BY <2>3, <2>4
<1>. QED  BY <1>2, <1>4, <1>5


(* Another sequence, or the end of the operation.                          *)
LEMMA FreshHalf ==
    ASSUME EngineInv, LineInv, NEW c \in Caller, ~Busy(c), NEW f, Goto(c, f), plan' = plan,
           f.pc = "step" => f.at = 1,
           f.pc \in {"step", "done", "over"},
           f.stage = "send" => Sender(c),
           f.stage = "create" /\ f.pc # "over" => MayOpen(c)
    PROVE  HalfKept(c)
<1>1. engine'[c] = f
  BY GoesTo
<1>2. ~Half(c) /\ ~At(c, "idle")'
  BY <1>1 DEF Half, Typist, At
<1>3. ASSUME Typist(c)', Sends(Steps(c))'
      PROVE  engine'[c].at = 1 /\ At(c, "step")' /\ Len(Steps(c))' \in {3, 4}
  BY <1>1, <1>3 DEF Typist, Busy, At, Sends
<1>4. ~Half(c)' /\ NamesEnter(c)'
  <2>1. CASE ~(Typist(c) /\ Sends(Steps(c)))'
    BY <2>1 DEF Half, NamesEnter
  <2>2. CASE (Typist(c) /\ Sends(Steps(c)))'
    <3>1. PICK n : n = Len(Steps(c))'
      OBVIOUS
    <3>2. n \in {3, 4} /\ engine'[c].at = 1 /\ engine'[c].pc = "step"
      BY <1>3, <2>2, <3>1 DEF At
    <3>3. ~(1 = n - 1) /\ ~(1 = n) /\ ~(1 >= n - 1)
      BY <3>2
    <3>. QED  BY <3>1, <3>2, <3>3 DEF Half, NamesEnter, Acted, At
  <2>. QED  BY <2>1, <2>2
<1>5. Pauses(c)' /\ (MayOpen(c)' => MayOpen(c))
  BY <1>1, <1>2 DEF Pauses, At, MayOpen
<1>. QED  BY <1>1, <1>2, <1>4, <1>5 DEF HalfKept

LEMMA StartHalf ==
    ASSUME EngineInv, LineInv, NEW c \in Caller, Start(c)
    PROVE  HalfKept(c)
<1>1. engine[c] = Idle /\ WholeEngine(Idle) /\ plan' = plan /\ ~Busy(c)
  BY PlanFits, IdleFits DEF Start, At, Sound, Fresh, Busy
<1>2. ASSUME NEW stage, NEW variables, Goto(c, Begin(stage, variables)),
             stage = "send" => Sender(c), stage = "create" => MayOpen(c)
      PROVE  HalfKept(c)
  <2>1. PICK f : f = Begin(stage, variables)
    OBVIOUS
  <2>2. f.stage = stage /\ f.pc = "step" /\ f.at = 1
    BY <2>1 DEF Begin
  <2>. QED  BY <1>1, <1>2, <2>1, <2>2, FreshHalf
<1>3. ASSUME NEW code, Goto(c, Finish(c, code))
      PROVE  HalfKept(c)
  <2>1. PICK f : f = Finish(c, code)
    OBVIOUS
  <2>2. f.stage = "job" /\ f.pc = "done"
    BY <1>1, <2>1, IdleFits DEF Finish, WholeEngine
  <2>. QED  BY <1>1, <1>3, <2>1, <2>2, FreshHalf
<1>4. \/ Goto(c, Begin("create", Given(BaseNames))) /\ MayOpen(c)
      \/ Goto(c, Begin("send", SendVars(ref))) /\ Sender(c)
      \/ Goto(c, Begin("close", ref)) \/ Goto(c, Begin("peek", PeekVars(ref)))
      \/ Goto(c, Begin("job", Given(BaseNames)))
      \/ Goto(c, Finish(c, "ok")) \/ Goto(c, Finish(c, "unsupported"))
  BY DEF Start, MayOpen, Sender
<1>. QED  BY <1>2, <1>3, <1>4

LEMMA GoesOnHalf ==
    ASSUME EngineInv, LineInv, NEW c \in Caller, CreateGoesOn(c) \/ StartGoesOn(c)
    PROVE  HalfKept(c)
<1>1. plan' = plan /\ ~Busy(c) /\ WholeEngine(engine[c])
  BY PlanFits DEF CreateGoesOn, StartGoesOn, At, Busy, Sound
<1>2. ASSUME NEW stage, NEW variables, Next1(c, stage, variables), stage \notin {"send", "create"}
      PROVE  HalfKept(c)
  <2>1. PICK f : f = Begin(stage, variables)
    OBVIOUS
  <2>2. f.stage = stage /\ f.pc = "step" /\ f.at = 1 /\ Goto(c, f)
    BY <1>2, <2>1 DEF Begin, Next1
  <2>. QED  BY <1>1, <1>2, <2>2, FreshHalf
<1>3. ASSUME NEW variables, CleanUp(c, variables)
      PROVE  HalfKept(c)
  <2>1. PICK stage, was : stage = "cleanup" /\ was = engine[c].stage
    OBVIOUS
  <2>2. PICK b : b = Begin(stage, variables)
    OBVIOUS
  <2>3. PICK f : f = [b EXCEPT !.failed = was]
    OBVIOUS
  <2>4. Goto(c, f)
    BY <1>3, <2>1, <2>2, <2>3 DEF CleanUp
  <2>5. f.pc = "step" /\ f.at = 1 /\ f.stage = stage
    BY <2>2, <2>3 DEF Begin
  <2>. QED  BY <1>1, <2>1, <2>4, <2>5, FreshHalf
<1>4. CASE CreateGoesOn(c)
  BY <1>2, <1>3, <1>4 DEF CreateGoesOn
<1>5. CASE StartGoesOn(c)
  <2>1. PICK kept : kept = Restrict(engine[c].vars, DOMAIN engine[c].vars \ {"message"})
    OBVIOUS
  <2>2. \/ CleanUp(c, kept)
        \/ Next1(c, "boot", kept)
        \/ Next1(c, "paste", Over(Given({"message"}), kept))
        \/ InsertRow(c, RefIn(kept))
    BY <1>5, <2>1 DEF StartGoesOn
  <2>3. CASE InsertRow(c, RefIn(kept))
    <3>1. PICK e, f : e = engine[c] /\ f = [e EXCEPT !.pc = "over"]
      OBVIOUS
    <3>2. f.stage = e.stage /\ f.pc = "over" /\ e.stage \in {"start", "boot", "paste"}
      BY <1>1, <1>5, <3>1 DEF WholeEngine, StartGoesOn
    <3>3. Goto(c, f)
      BY <2>3, <3>1 DEF InsertRow
    <3>. QED  BY <1>1, <3>2, <3>3, FreshHalf
  <2>. QED  BY <1>2, <1>3, <2>2, <2>3
<1>. QED  BY <1>4, <1>5

(* A step of the engine or the end of a command.                           *)
LEMMA MovesLines ==
    ASSUME EngineInv, DeliveryInv, BuiltinPlans, JobsLook, LineInv, faults = 0, faults' = 0,
           NEW c \in Caller, EngineStep(c) \/ CommandStep(c), ~CommandActs(c)
    PROVE  LineInv'
<1>1. CASE Spares(c) /\ HalfKept(c)
  BY <1>1, KeepsLines DEF Spares, Within, HasRow
<1>2. CASE Start(c) \/ CreateGoesOn(c) \/ StartGoesOn(c)
  <2>1. HalfKept(c) /\ Kept(c)
    BY <1>2, StartHalf, GoesOnHalf, StartDelivers, CreateDelivers
  <2>2. pane' = pane /\ late' = late /\ (row' = row \/ row' = "created")
    BY <1>2 DEF Start, CreateGoesOn, StartGoesOn, InsertRow
  <2>. QED  BY <2>1, <2>2, KeepsLines DEF Kept, MoreLooks, HasRow
<1>. QED  BY <1>1, <1>2, EngineHalf, CommandHalf DEF EngineStep, CommandStep


-----------------------------------------------------------------------------
(***************************************************************************)
(* Steps that act on the pane.                                             *)
(***************************************************************************)

LEMMA Submission ==
    ASSUME NEW lines \in Seq(Seq(AllTexts)), \A i \in DOMAIN lines : Len(lines[i]) = 1,
           NEW l \in Seq(AllTexts), Len(l) = 1, NEW more, more = Append(lines, l)
    PROVE  \A i \in DOMAIN more : Len(more[i]) = 1
<1>1. PICK n : n = Len(lines)
  OBVIOUS
<1>2. n \in Nat /\ DOMAIN lines = 1 .. n /\ DOMAIN more = 1 .. n + 1 /\ more[n + 1] = l
      /\ \A i \in 1 .. n : more[i] = lines[i]
  BY <1>1
<1>. QED  BY <1>2

LEMMA FirstText ==
    ASSUME NEW text \in AllTexts, NEW l, l = Append(<<>>, text)
    PROVE  l \in Seq(AllTexts) /\ Len(l) = 1
  OBVIOUS

(* A command that is not of a sequence that types.                         *)
LEMMA LooksOn ==
    ASSUME EngineInv, DeliveryInv, BuiltinPlans, JobsLook, LineInv, NEW c \in Caller,
           CommandActs(c), ~Typist(c)
    PROVE  LineInv'
<1>1. /\ engine' = engine /\ plan' = plan /\ row' = row /\ At(c, "child") /\ Running(c)
      /\ pane' = PaneAfter(Current(c).does, Text(c)) /\ WholePane(pane)
      /\ did = [d \in Caller |-> did[d]] /\ did' = [did EXCEPT ![c] = TRUE]
  BY RunningFits DEF CommandActs, DeliveryInv
<1>2. engine[c].stage \notin {"start", "paste", "send"} /\ engine[c].at \in DOMAIN Steps(c)
  BY <1>1, RunningStep DEF Typist, Running
<1>3. /\ Current(c).does \in {"open", "kill", "look"}
      /\ Current(c).does = "open" => engine[c].stage = "create"
  BY <1>2, StageDoes DEF Does, Current
<1>4. /\ pane'.line = pane.line /\ pane'.lines = pane.lines /\ late' = late
      /\ Current(c).does # "open" => (pane'.open => pane.open)
  BY <1>1, <1>3 DEF PaneAfter, WholePane, CommandActs
<1>5. \A d \in Caller : /\ MayOpen(d)' = MayOpen(d) /\ NamesEnter(d)' = NamesEnter(d)
                        /\ Pauses(d)' = Pauses(d) /\ Sender(d)' = Sender(d)
                        /\ Steps(d)' = Steps(d) /\ Text(d)' = Text(d)
  <2>1. \A d \in Caller : Steps(d)' = Steps(d) /\ Text(d)' = Text(d)
    BY <1>1, StepsKept DEF Text
  <2>. QED  BY <1>1, <2>1 DEF MayOpen, NamesEnter, Pauses, Sender, At, HasRow, Typist, Busy, Current
<1>6. \A d \in Caller : Half(d)' <=> Half(d)
  <2>1. ~Half(c) /\ ~Half(c)'
    BY <1>1 DEF Half, Typist, Busy
  <2>2. ASSUME NEW d \in Caller, d # c
        PROVE  Half(d)' <=> Half(d)
    <3>1. did'[d] = did[d]
      BY <1>1, <2>2
    <3>. QED  BY <1>1, <1>5, <3>1 DEF Half, Typist, Busy, Acted, At
  <2>. QED  BY <2>1, <2>2
<1>7. Clear' = Clear /\ \A d \in Caller : Awaits(d)' = Awaits(d)
  BY <1>1, <1>4, <1>5 DEF Clear, Quiet, Awaits
<1>8. pane'.open => \/ Clear /\ \A d \in Caller : ~Half(d)
                    \/ \E d \in Caller : Half(d) /\ Awaits(d)
  <2>1. CASE Current(c).does # "open"
    BY <1>4, <2>1 DEF LineInv
  <2>2. CASE Current(c).does = "open"
    <3>1. engine[c].stage = "create" /\ plan[c].kind = "create" /\ ~HasRow
      BY <1>1, <1>3, <2>2 DEF DeliveryInv, InItsStage, CreateStages, At
    <3>2. MayOpen(c)
      BY <1>1, <3>1 DEF MayOpen, At
    <3>3. \A d \in Caller : ~Typist(d)
      <4>1. SUFFICES ASSUME NEW d \in Caller, Typist(d) PROVE FALSE
        OBVIOUS
      <4>2. engine[d].stage # "send"
        BY <3>1 DEF DeliveryInv, InItsStage
      <4>3. plan[d].kind = "create"
        BY <4>1, <4>2 DEF DeliveryInv, InItsStage, Typist, CreateStages
      <4>4. d = c
        BY <3>1, <4>3, PlansAssumption DEF EngineInv
      <4>. QED  BY <3>1, <4>1, <4>4 DEF Typist
    <3>. QED  BY <3>2, <3>3 DEF LineInv, Half
  <2>. QED  BY <2>1, <2>2
<1>. QED  BY <1>1, <1>4, <1>5, <1>6, <1>7, <1>8 DEF LineInv

(* A command that types, submits, or looks before that.                    *)
LEMMA TypesOn ==
    ASSUME EngineInv, DeliveryInv, BuiltinPlans, JobsLook, LineInv, OneSender, NEW c \in Caller,
           CommandActs(c), Typist(c)
    PROVE  LineInv'
<1>1. /\ engine' = engine /\ plan' = plan /\ row' = row /\ At(c, "child") /\ Running(c)
      /\ ~did[c] /\ CanAct(Current(c).does)
      /\ pane' = PaneAfter(Current(c).does, Text(c)) /\ WholePane(pane)
      /\ did = [d \in Caller |-> did[d]] /\ did' = [did EXCEPT ![c] = TRUE]
  BY RunningFits DEF CommandActs, DeliveryInv
<1>2. ~Acted(c) /\ Acted(c)'
  BY <1>1 DEF Acted, At
<1>3. /\ \A d \in Caller : Typist(d) => d = c
      /\ \A d \in Caller : ~MayOpen(d)
  BY OneTypist
<1>4. \A d \in Caller : /\ MayOpen(d)' = MayOpen(d) /\ NamesEnter(d)' = NamesEnter(d)
                        /\ Pauses(d)' = Pauses(d) /\ Sender(d)' = Sender(d)
                        /\ Steps(d)' = Steps(d) /\ Text(d)' = Text(d) /\ Typist(d)' = Typist(d)
  <2>1. \A d \in Caller : Steps(d)' = Steps(d) /\ Text(d)' = Text(d)
    BY <1>1, StepsKept DEF Text
  <2>. QED  BY <1>1, <2>1 DEF MayOpen, NamesEnter, Pauses, Sender, At, HasRow, Typist, Busy, Current
<1>5. /\ \A d \in Caller : d # c => ~Half(d) /\ ~Half(d)'
      /\ pane.open => (Clear /\ ~Half(c)) \/ (Half(c) /\ Awaits(c))
  BY <1>3, <1>4 DEF Half, LineInv
<1>6. SUFFICES /\ \A i \in DOMAIN pane'.lines : Len(pane'.lines[i]) = 1
               /\ pane'.open => (Clear' /\ ~Half(c)') \/ (Half(c)' /\ Awaits(c)')
  BY <1>1, <1>3, <1>4, <1>5 DEF LineInv
<1>7. PICK st, n, at, text : st = Steps(c) /\ n = Len(st) /\ at = engine[c].at /\ text = Text(c)
  OBVIOUS
<1>8. /\ pane.line \in Seq(AllTexts) /\ pane.lines \in Seq(Seq(AllTexts)) /\ text \in AllTexts
      /\ \A i \in DOMAIN pane.lines : Len(pane.lines[i]) = 1
  BY <1>1, <1>7, RunningStep DEF WholePane, LineInv
<1>9. CASE ~Sends(st)
  <2>1. Current(c).does = "submit"
    BY <1>1, <1>7, <1>9, TypistFacts, RunningStep DEF Does, Current
  <2>2. pane.open /\ ~Half(c) /\ ~Half(c)' /\ Clear
    BY <1>1, <1>4, <1>5, <1>7, <1>9, <2>1 DEF CanAct, Half
  <2>3. PICK l, p, q : l = Append(pane.line, text) /\ p = Typed(pane, text) /\ q = Submitted(p)
    OBVIOUS
  <2>4. pane' = q /\ late' = late
    BY <1>1, <1>7, <2>1, <2>3 DEF PaneAfter, CommandActs
  <2>5. p.line = l /\ p.lines = pane.lines
    BY <1>1, <2>3 DEF Typed, WholePane
  <2>6. q.line = <<>> /\ q.lines = Append(pane.lines, l)
    <3>1. WholePane(p)
      BY <1>1, <1>8, <2>3, TypedFits
    <3>. QED  BY <2>3, <2>5, <3>1 DEF Submitted, WholePane
  <2>7. l \in Seq(AllTexts) /\ Len(l) = 1
    BY <1>8, <2>2, <2>3, FirstText DEF Clear
  <2>8. PICK more : more = Append(pane.lines, l)
    OBVIOUS
  <2>9. \A i \in DOMAIN more : Len(more[i]) = 1
    BY <1>8, <2>7, <2>8, Submission
  <2>. QED  BY <2>2, <2>4, <2>6, <2>8, <2>9 DEF Clear, Quiet
<1>10. CASE Sends(st)
  <2>1. LinesUp(st) /\ n \in {3, 4} /\ at \in 1 .. n
    BY <1>1, <1>7, <1>10, TypistFacts
  <2>2. at # n - 1
    BY <1>1, <1>7, <1>10, <2>1, RunningFits DEF Sends, Current
  <2>3. Half(c) <=> at = n
    BY <1>2, <1>7, <1>10, <2>1, <2>2 DEF Half
  <2>4. Half(c)' <=> at = n - 2
    BY <1>1, <1>2, <1>4, <1>7, <1>10, <2>1, <2>2 DEF Half
  <2>5. CASE at < n - 2
    <3>1. Current(c).does = "look"
      BY <1>7, <2>1, <2>5 DEF LinesUp, Current
    <3>2. pane' = pane /\ late' = late
      BY <1>1, <3>1 DEF PaneAfter, CommandActs
    <3>3. ~Half(c) /\ ~Half(c)'
      BY <2>1, <2>3, <2>4, <2>5
    <3>. QED  BY <1>5, <1>8, <3>2, <3>3 DEF Clear, Quiet
  <2>6. CASE at = n - 2
    <3>1. Current(c).does \in {"type", "inject"}
      BY <1>7, <1>10, <2>6 DEF Sends, Current
    <3>2. pane.open /\ ~Half(c) /\ Clear /\ Half(c)'
      BY <1>1, <1>5, <2>1, <2>3, <2>4, <2>6, <3>1 DEF CanAct
    <3>3. CASE Current(c).does = "type"
      <4>1. PICK l : l = Append(pane.line, text)
        OBVIOUS
      <4>2. pane'.line = l /\ pane'.lines = pane.lines /\ late' = late
        BY <1>1, <1>7, <3>3, <4>1 DEF PaneAfter, Typed, WholePane, CommandActs
      <4>3. Len(l) = 1
        BY <1>8, <3>2, <4>1, FirstText DEF Clear
      <4>4. Awaits(c)'
        BY <3>2, <4>2, <4>3 DEF Awaits, Clear, Quiet
      <4>. QED  BY <1>8, <3>2, <4>2, <4>4
    <3>4. CASE Current(c).does = "inject"
      <4>1. pane' = pane /\ late' = late \cup {[by |-> text, does |-> "type"]}
        BY <1>1, <1>7, <3>4 DEF PaneAfter, CommandActs, Later
      <4>2. engine'[c].at < Len(Steps(c)')
        BY <1>1, <1>4, <1>7, <2>1, <2>6
      <4>3. Awaits(c)'
        BY <1>4, <1>7, <3>2, <4>1, <4>2 DEF Awaits, Clear, Quiet
      <4>. QED  BY <1>8, <3>2, <4>1, <4>3
    <3>. QED  BY <3>1, <3>3, <3>4
  <2>7. CASE at = n
    <3>1. Current(c).does = "enter"
      BY <1>7, <1>10, <2>7 DEF Sends, Current
    <3>2. pane.open /\ Awaits(c) /\ ~Half(c)'
      BY <1>1, <1>5, <2>1, <2>3, <2>4, <2>7, <3>1 DEF CanAct
    <3>3. Len(pane.line) = 1 /\ Quiet
      BY <1>7, <2>1, <2>7, <3>2 DEF Awaits
    <3>4. PICK l, more : l = pane.line /\ more = Append(pane.lines, l)
      OBVIOUS
    <3>5. pane'.line = <<>> /\ pane'.lines = more /\ late' = late
      BY <1>1, <3>1, <3>4 DEF PaneAfter, Submitted, WholePane, CommandActs
    <3>6. \A i \in DOMAIN more : Len(more[i]) = 1
      BY <1>8, <3>3, <3>4, Submission
    <3>. QED  BY <3>2, <3>3, <3>5, <3>6 DEF Clear, Quiet
  <2>. QED  BY <2>1, <2>2, <2>5, <2>6, <2>7
<1>. QED  BY <1>9, <1>10


(* An effect that comes late: the injected text, or nothing to the pane.   *)
LEMMA LateLines ==
    ASSUME DeliveryInv, LineInv, OneSender, EngineInv, NEW x \in late, LateEffect(x)
    PROVE  LineInv'
<1>1. /\ engine' = engine /\ plan' = plan /\ row' = row /\ did' = did /\ late' = late \ {x}
      /\ WholePane(pane)
      /\ \/ CanAct(x.does) /\ pane' = PaneAfter(x.does, x.by)
         \/ pane' = pane /\ (CanAct(x.does) => x.does # "type")
  BY DEF LateEffect, DeliveryInv
<1>2. \A d \in Caller : /\ MayOpen(d)' = MayOpen(d) /\ NamesEnter(d)' = NamesEnter(d)
                        /\ Pauses(d)' = Pauses(d) /\ Sender(d)' = Sender(d)
                        /\ Steps(d)' = Steps(d) /\ Text(d)' = Text(d) /\ (Half(d)' <=> Half(d))
  <2>1. \A d \in Caller : Steps(d)' = Steps(d) /\ Text(d)' = Text(d)
    BY <1>1, StepsKept DEF Text
  <2>. QED  BY <1>1, <2>1 DEF MayOpen, NamesEnter, Pauses, Sender, At, HasRow, Typist, Busy, Current,
                              Half, Acted
<1>3. CASE x.does = "look"
  <2>1. pane' = pane
    BY <1>1, <1>3 DEF PaneAfter
  <2>2. Clear => Clear'
    BY <1>1, <2>1 DEF Clear, Quiet
  <2>3. ASSUME NEW d \in Caller, Awaits(d)
        PROVE  Awaits(d)'
    <3>1. PICK e : e = [by |-> Text(d), does |-> "type"]
      OBVIOUS
    <3>2. x # e
      BY <1>3, <3>1
    <3>. QED  BY <1>1, <1>2, <2>1, <2>3, <3>1, <3>2 DEF Awaits, Quiet
  <2>. QED  BY <1>1, <1>2, <2>1, <2>2, <2>3 DEF LineInv
<1>4. CASE x.does # "look"
  <2>1. ~Quiet /\ ~Clear
    BY <1>4 DEF Quiet, Clear
  <2>2. \A d \in Caller : ~MayOpen(d)
    BY <2>1 DEF LineInv
  <2>3. CASE ~pane.open
    <3>1. x.does # "open"
      BY DEF DeliveryInv, WholeLate
    <3>2. pane' = pane
      BY <1>1, <1>4, <2>3, <3>1 DEF CanAct
    <3>. QED  BY <1>1, <1>2, <2>2, <2>3, <3>2 DEF LineInv
  <2>4. CASE pane.open
    <3>1. PICK c \in Caller : Half(c) /\ Awaits(c)
      BY <2>1, <2>4 DEF LineInv
    <3>2. PICK text : text = Text(c)
      OBVIOUS
    <3>3. /\ pane.line = <<>> /\ engine[c].at < Len(Steps(c))
          /\ \A y \in late : y.does = "look" \/ y = [by |-> text, does |-> "type"]
      BY <2>1, <3>1, <3>2 DEF Awaits
    <3>4. x = [by |-> text, does |-> "type"] /\ x.does = "type" /\ x.by = text
      BY <1>4, <3>3
    <3>5. pane' = Typed(pane, text)
      BY <1>1, <2>4, <3>4 DEF CanAct, PaneAfter
    <3>6. PICK l : l = Append(pane.line, text)
      OBVIOUS
    <3>7. pane'.line = l /\ pane'.lines = pane.lines
      BY <1>1, <3>5, <3>6 DEF Typed, WholePane
    <3>8. Len(l) = 1
      <4>1. text \in AllTexts
        BY <3>2 DEF Text, AllTexts
      <4>. QED  BY <3>3, <3>6, <4>1, FirstText
    <3>9. Quiet'
      BY <1>1, <3>3, <3>4 DEF Quiet
    <3>10. Awaits(c)'
      BY <3>7, <3>8, <3>9 DEF Awaits
    <3>. QED  BY <1>1, <1>2, <2>2, <3>1, <3>7, <3>10 DEF LineInv
  <2>. QED  BY <2>3, <2>4
<1>. QED  BY <1>3, <1>4

LinesInv == faults = 0 /\ OneSender => LineInv

LEMMA LinesInvInit == EngineInv /\ Init => LinesInv
<1>. SUFFICES ASSUME EngineInv, Init PROVE LineInv
  BY DEF LinesInv
<1>1. pane.line = <<>> /\ pane.lines = <<>> /\ late = {}
  BY DEF Init
<1>2. Clear
  BY <1>1 DEF Clear, Quiet
<1>3. ASSUME NEW c \in Caller
      PROVE  ~Half(c) /\ NamesEnter(c) /\ Pauses(c) /\ engine[c].stage # "send"
  <2>1. engine[c].stage = "job" /\ engine[c].pc = "idle"
    BY IdleFits DEF Init
  <2>. QED  BY <2>1 DEF Half, NamesEnter, Pauses, Typist, At
<1>4. \A i \in DOMAIN pane.lines : Len(pane.lines[i]) = 1
  <2>1. PICK l : l = pane.lines
    OBVIOUS
  <2>2. DOMAIN l = {}
    BY <1>1, <2>1
  <2>. QED  BY <2>1, <2>2
<1>. QED  BY <1>2, <1>3, <1>4 DEF LineInv

LEMMA LinesInvNext ==
    ASSUME EngineInv, DeliveryInv, BuiltinPlans, JobsLook, faults \in 0 .. MaxFaults, LinesInv,
           [Next]_vars
    PROVE  LinesInv'
<1>1. plan' = plan /\ (faults' = faults \/ faults' = faults + 1)
  BY DEF vars, Next, EngineStep, CommandStep, Start, MissingVariable, Spawn, WriteStep, Pause,
         PauseEnds, TimesOut, EndOfSequence, CreateGoesOn, StartGoesOn, CommandActs, ExitsZero,
         ExitsNonZero, KilledBySignal, SpawnFails, LateEffect, Fault
<1>2. SUFFICES ASSUME faults' = 0, OneSender'
               PROVE  LineInv'
  BY DEF LinesInv
<1>3. faults = 0 /\ OneSender
  BY <1>1, <1>2, PlansAssumption DEF OneSender, Sender
<1>4. LineInv
  BY <1>3 DEF LinesInv
<1>5. CASE UNCHANGED vars
  <2>1. /\ plan' = plan /\ row' = row /\ engine' = engine /\ did' = did /\ late' = late
        /\ pane' = pane
    BY <1>5 DEF vars
  <2>2. \A c \in Caller : Steps(c)' = Steps(c) /\ Text(c)' = Text(c)
    BY <2>1, StepsKept DEF Text
  <2>3. \A c \in Caller : (Typist(c)' <=> Typist(c)) /\ (Acted(c)' <=> Acted(c))
    BY <2>1 DEF Typist, Busy, Acted, At
  <2>4. \A c \in Caller : Half(c)' <=> Half(c)
    BY <2>1, <2>2, <2>3 DEF Half
  <2>5. \A c \in Caller : NamesEnter(c)' <=> NamesEnter(c)
    BY <2>1, <2>2, <2>3 DEF NamesEnter, At
  <2>6. \A c \in Caller : (MayOpen(c)' <=> MayOpen(c)) /\ (Sender(c)' <=> Sender(c))
    BY <2>1 DEF MayOpen, Sender, At, HasRow
  <2>7. \A c \in Caller : Pauses(c)' <=> Pauses(c)
    BY <2>1, <2>2 DEF Pauses, At, Current
  <2>8. (Clear' <=> Clear) /\ \A c \in Caller : Awaits(c)' <=> Awaits(c)
    BY <2>1, <2>2 DEF Clear, Quiet, Awaits
  <2>. QED  BY <1>4, <2>1, <2>4, <2>5, <2>6, <2>7, <2>8 DEF LineInv
<1>6. ASSUME NEW c \in Caller, EngineStep(c) \/ CommandStep(c)
      PROVE  LineInv'
  BY <1>2, <1>3, <1>4, <1>6, MovesLines, LooksOn, TypesOn
<1>7. ASSUME NEW x \in late, LateEffect(x)
      PROVE  LineInv'
  BY <1>3, <1>4, <1>7, LateLines
<1>. QED  BY <1>5, <1>6, <1>7 DEF Next

(* With the builtin templates, one Message at a time and no command that   *)
(* goes wrong, whoever creates, closes or looks at the Session meanwhile:  *)
(* the launch command, the pasted prompt and the Message are each          *)
(* submitted as a line of their own.                                       *)
THEOREM LinesStayWhole == BuiltinPlans /\ JobsLook => (Spec => []LinesAreWhole)
<1>. SUFFICES ASSUME BuiltinPlans, JobsLook PROVE Spec => []LinesAreWhole
  OBVIOUS
<1>. DEFINE Lines == DeliveryInv /\ LinesInv /\ faults \in 0 .. MaxFaults
<1>1. EngineInv /\ Init => Lines
  BY DeliveryInvInit, LinesInvInit, FaultsFit
<1>2. EngineInv /\ Lines /\ [Next]_vars => Lines'
  BY DeliveryInvNext, LinesInvNext, FaultsStay
<1>3. EngineInv /\ Lines => LinesAreWhole
  BY DEF LinesInv, LineInv, LinesAreWhole
<1>. HIDE DEF Lines
<1>. QED  BY <1>1, <1>2, <1>3, EngineHolds, PTL DEF Spec
=============================================================================
