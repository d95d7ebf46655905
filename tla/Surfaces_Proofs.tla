--------------------------- MODULE Surfaces_Proofs ---------------------------
(***************************************************************************)
(* Theorems about Surfaces, for any Sessions, Workspaces, command lines,   *)
(* surroundings and MCP scripts, and any number of edits by others.        *)
(***************************************************************************)
EXTENDS Surfaces, MessagePage_Proofs, SequenceTheorems, TLAPS

(***************************************************************************)
(* The call under way.                                                     *)
(***************************************************************************)

(* What is left of a ladder.                                               *)
Ladders == {<<>>, <<"verify">>, <<"adopt">>, <<"peek", "verify">>,
            <<"verify", "verify">>, <<"verify", "adopt">>}

Whole(c) ==
    c = [at |-> c.at, op |-> c.op, origin |-> c.origin, todo |-> c.todo,
         ref |-> c.ref, actor |-> c.actor, ws |-> c.ws, line |-> c.line]

(* Whom a call that climbs the ladder acts for so far, and what it still   *)
(* has to climb.                                                           *)
Climbs(c) ==
    /\ c.todo \in Ladders /\ c.ws \in Workspaces
    /\ c.actor # NoOne => \E w \in seen : Vouched(w, c.actor, c.ws)
    /\ MustProve(c) => /\ c.actor # NoOne \/ c.todo # <<>>
                       /\ c.todo # <<>> => Head(c.todo) # "peek"
    /\ c.op.class = "mutate" /\ c.origin = "human" /\ c.actor = NoOne
           /\ c.todo = <<>> => \E w \in seen : Resolved(w, c.ws).kind = "none"
    /\ c.origin = "operator" => c.todo = <<>>

(* A reference that was read and not yet compared with its row: one that   *)
(* agrees with the row, should the row be there when it is compared, was   *)
(* vouched for at some instant since; one that does not comes from the     *)
(* environment, which offers the same at any time.                         *)
Compares(c) ==
    /\ c.todo # <<>> /\ Head(c.todo) # "peek"
    /\ c.ref.kind = "ref" /\ c.ref.ws \in {NoOne, c.ws}
    /\ \E w \in seen : Offered(w, c)
    /\ c.ref.token # c.ref.id => creds.kind = "ref"
    /\ c.ref.token = c.ref.id /\ InScope(world, c.ref.id, c.ws) =>
           \E w \in seen : Vouched(w, c.ref.id, c.ws)

CallInv ==
    /\ Whole(call)
    /\ call.at \in {"none", "load", "auth", "lookup", "work"}
    /\ call.origin \in {"human", "agent", "operator"}
    /\ call.at = "none" <=> call = NoCall
    /\ call.actor \in Sessions \cup {NoOne} /\ call.ws \in Workspaces \cup {NoOne}
    /\ call.at # "none" => world \in seen
    /\ call.at = "load" => call = Begun(call.op, call.origin, call.line)
    /\ call.at \in {"auth", "lookup"} => Climbs(call)
    /\ call.at = "lookup" => Compares(call)
    /\ call.at = "work" => call.actor = NoOne /\ call.op.class \in {"local", "config"}
    /\ call.origin = "operator" => call.op.class = "mutate" /\ ~readonly

WorldInv ==
    /\ world \in World /\ OwnToken(world)
    /\ creds \in Reference /\ creds.kind \in {"none", "ref"}

(* Before main nothing has been called.                                    *)
FirstInv ==
    route = "none" => /\ argv \in Seq(Word) /\ exit = "running"
                      /\ call = NoCall /\ verdict = NoVerdict

(* What the two properties say of a call that ended, of the worlds there    *)
(* were during it.                                                         *)
Acted(c, code) ==
    code \in {"ok", "failed", "invalid_input"} =>
        /\ MustProve(c) => c.actor # NoOne
        /\ c.actor # NoOne => \E w \in seen : Vouched(w, c.actor, c.ws)
        /\ c.op.class = "mutate" /\ c.origin = "human" /\ c.actor = NoOne =>
              \E w \in seen : Resolved(w, c.ws).kind = "none"

Refused(c, code) ==
    /\ code = "config_not_found" => \E w \in seen : w.config = "none"
    /\ code = "invalid_config" => \E w \in seen : w.config = "invalid"
    /\ code = "current_session_not_found" =>
          \E w \in seen : Resolved(w, c.ws).kind = "none"
    /\ code = "scope_mismatch" =>
          \E w \in seen : Resolved(w, c.ws).ws \notin {NoOne, c.ws}
    /\ code \in {"session_not_found", "parent_session_not_found"} =>
          /\ \E w \in seen : Offered(w, c)
          /\ \E w \in seen : ~InScope(w, c.ref.id, c.ws)
    /\ code = "invalid_session_token" =>
          \E w \in seen : Offered(w, c) /\ InScope(w, c.ref.id, c.ws)
                          /\ c.ref.token # c.ref.id
    /\ c.origin = "operator" =>
          code \in {"ok", "failed", "invalid_input",
                    "config_not_found", "invalid_config"}

Caused(c, code) == Acted(c, code) /\ Refused(c, code)

VerdictInv == call = NoCall => Caused(verdict.call, verdict.code)

SurfaceInv == TypeOK /\ CallInv /\ WorldInv /\ FirstInv /\ VerdictInv

-----------------------------------------------------------------------------
(***************************************************************************)
(* The operators.                                                          *)
(***************************************************************************)

LEMMA Pairs ==
    ASSUME NEW a, NEW b
    PROVE  /\ Head(<<a, b>>) = a /\ Tail(<<a, b>>) = <<b>>
           /\ Head(<<a>>) = a /\ Tail(<<a>>) = <<>>
           /\ <<a>> \o <<b>> = <<a, b>>
<1>. DEFINE S == {a, b}
<1>1. a \in S /\ b \in S
  OBVIOUS
<1>. HIDE DEF S
<1>2. <<a>> \in Seq(S) /\ <<b>> \in Seq(S) /\ <<a, b>> \in Seq(S)
  BY <1>1
<1>3. Len(<<a>> \o <<b>>) = 2 /\ <<a>> \o <<b>> \in Seq(S)
  BY <1>2, ConcatProperties
<1>4. \A i \in 1 .. 2 : (<<a>> \o <<b>>)[i] = <<a, b>>[i]
  BY <1>2, ConcatProperties
<1>5. <<a>> \o <<b>> = <<a, b>>
  BY <1>2, <1>3, <1>4, SeqEqual
<1>6. Head(<<a, b>>) = a /\ Tail(<<a, b>>) = <<b>>
  BY <1>2
<1>7. Head(<<a>>) = a /\ Tail(<<a>>) = <<>>
  BY <1>2
<1>. QED  BY <1>5, <1>6, <1>7

(* Climbing keeps a ladder one of the six, and "peek" is only ever the     *)
(* first rung, with another one above it.                                  *)
LEMMA Rungs ==
    ASSUME NEW t \in Ladders, t # <<>>
    PROVE  /\ Tail(t) \in Ladders
           /\ Tail(t) # <<>> => Head(Tail(t)) # "peek"
           /\ Head(t) = "peek" => Tail(t) # <<>>
<1>1. t \in {<<"verify">>, <<"adopt">>} => Tail(t) = <<>> /\ Head(t) # "peek"
  BY Pairs
<1>2. t \in {<<"peek", "verify">>, <<"verify", "verify">>} => Tail(t) = <<"verify">>
  BY Pairs
<1>3. t = <<"verify", "adopt">> => Tail(t) = <<"adopt">>
  BY Pairs
<1>4. Head(<<"verify">>) # "peek" /\ Head(<<"adopt">>) # "peek"
  BY Pairs
<1>5. <<"verify">> # <<>> /\ <<"adopt">> # <<>>
  OBVIOUS
<1>. QED  BY <1>1, <1>2, <1>3, <1>4, <1>5 DEF Ladders

LEMMA LadderFits ==
    ASSUME NEW c, NEW o \in {"human", "agent", "operator"}
    PROVE  /\ Ladder(c, o) \in Ladders
           /\ \/ c \in {"current", "inbox", "create-child"}
              \/ o = "agent" /\ c \in {"mutate", "read", "create"}
              => Ladder(c, o) # <<>> /\ Head(Ladder(c, o)) # "peek"
           /\ c = "mutate" /\ o = "human" => Ladder(c, o) # <<>>
           /\ c = "mutate" /\ o = "operator" => Ladder(c, o) = <<>>
<1>. DEFINE ofAgent == IF o = "agent" THEN <<"verify">> ELSE <<>>
<1>1. ofAgent \o <<"verify">> \in {<<"verify">>, <<"verify", "verify">>}
  <2>1. <<>> \o <<"verify">> = <<"verify">>
    OBVIOUS
  <2>. QED  BY <2>1, Pairs
<1>2. ofAgent \o <<"adopt">> \in {<<"adopt">>, <<"verify", "adopt">>}
  <2>1. <<>> \o <<"adopt">> = <<"adopt">>
    OBVIOUS
  <2>. QED  BY <2>1, Pairs
<1>3. \A t \in {<<"verify">>, <<"adopt">>, <<"verify", "verify">>, <<"verify", "adopt">>} :
          t # <<>> /\ Head(t) # "peek"
  BY Pairs
<1>4. Ladder(c, o) =
          CASE c = "mutate" -> IF o = "human" THEN <<"peek", "verify">> ELSE ofAgent
            [] c \in {"read", "create"} -> ofAgent
            [] c = "inbox" -> ofAgent \o <<"verify">>
            [] c = "current" -> <<"verify">>
            [] c = "create-child" -> ofAgent \o <<"adopt">>
            [] OTHER -> <<>>
  BY DEF Ladder
<1>5. <<"peek", "verify">> # <<>>
  OBVIOUS
<1>. HIDE DEF ofAgent
<1>6. CASE c = "mutate"
  <2>1. Ladder(c, o) = IF o = "human" THEN <<"peek", "verify">> ELSE ofAgent
    BY <1>4, <1>6
  <2>. QED  BY <1>3, <1>5, <1>6, <2>1 DEF Ladders, ofAgent
<1>7. CASE c \in {"read", "create"}
  <2>1. Ladder(c, o) = ofAgent
    BY <1>4, <1>7
  <2>. QED  BY <1>3, <1>7, <2>1 DEF Ladders, ofAgent
<1>8. CASE c = "inbox"
  <2>1. Ladder(c, o) = ofAgent \o <<"verify">>
    BY <1>4, <1>8
  <2>. QED  BY <1>1, <1>3, <1>8, <2>1 DEF Ladders
<1>9. CASE c = "current"
  <2>1. Ladder(c, o) = <<"verify">>
    BY <1>4, <1>9
  <2>. QED  BY <1>3, <1>9, <2>1 DEF Ladders
<1>10. CASE c = "create-child"
  <2>1. Ladder(c, o) = ofAgent \o <<"adopt">>
    BY <1>4, <1>10
  <2>. QED  BY <1>2, <1>3, <1>10, <2>1 DEF Ladders
<1>11. CASE c \notin {"mutate", "read", "create", "inbox", "current", "create-child"}
  <2>1. Ladder(c, o) = <<>>
    BY <1>4, <1>11
  <2>. QED  BY <1>11, <2>1 DEF Ladders
<1>. QED  BY <1>6, <1>7, <1>8, <1>9, <1>10, <1>11

(* What a reference resolves to.                                           *)
LEMMA ResolvedFits ==
    ASSUME WorldInv, NEW w \in World, OwnToken(w), NEW ws \in Workspaces
    PROVE  /\ Resolved(w, ws) \in Reference
           /\ Resolved(w, ws).kind \in {"none", "ref", "lost"}
           /\ creds.kind = "ref" => Resolved(w, ws) = [creds EXCEPT !.ws = ws]
           /\ creds.kind # "ref" => /\ OwnToken([w EXCEPT !.pointer = Resolved(w, ws)])
                                    /\ w.pointer.kind = "ref" => Resolved(w, ws) = w.pointer
<1>1. w.pointer \in Reference
  BY DEF World
<1>2. CASE creds.kind = "ref"
  BY <1>2 DEF WorldInv, Reference, Resolved
<1>3. CASE creds.kind # "ref"
  BY <1>1, <1>3 DEF WorldInv, Reference, Resolved, OwnToken, NoRef, World
<1>. QED  BY <1>2, <1>3

(* Others keep the world what it is, and put a Session in a Workspace only *)
(* by registering it there.                                                *)
LEMMA RegisterFits ==
    ASSUME NEW w \in World, OwnToken(w), NEW s \in Sessions, NEW ws \in Workspaces
    PROVE  /\ Insert(w, s, ws) \in World /\ OwnToken(Insert(w, s, ws))
           /\ Register(w, s, ws) \in World /\ OwnToken(Register(w, s, ws))
           /\ Register(w, s, ws).pointer = Ref(s, s, ws)
           /\ \A t, v : InScope(Register(w, s, ws), t, v) =>
                            InScope(w, t, v) \/ (t = s /\ v = ws)
<1>1. PICK S \in SUBSET Sessions : w.rows \in [S -> Workspaces]
  BY DEF World
<1>. DEFINE rs == [t \in DOMAIN w.rows \cup {s} |-> IF t = s THEN ws ELSE w.rows[t]]
<1>2. rs \in [S \cup {s} -> Workspaces]
  BY <1>1
<1>3. rs \in UNION {[T -> Workspaces] : T \in SUBSET Sessions}
  BY <1>2
<1>4. Insert(w, s, ws) = [w EXCEPT !.rows = rs]
  BY DEF Insert
<1>5. \A t, v : t \in DOMAIN rs /\ rs[t] = v =>
          (t \in DOMAIN w.rows /\ w.rows[t] = v) \/ (t = s /\ v = ws)
  OBVIOUS
<1>. HIDE DEF rs
<1>6. /\ Insert(w, s, ws) \in World /\ OwnToken(Insert(w, s, ws))
      /\ Insert(w, s, ws).rows = rs
  BY <1>3, <1>4 DEF World, OwnToken
<1>7. Ref(s, s, ws) \in Reference
  BY DEF Ref, Reference
<1>8. /\ Register(w, s, ws) \in World /\ OwnToken(Register(w, s, ws))
      /\ Register(w, s, ws).pointer = Ref(s, s, ws)
      /\ Register(w, s, ws).rows = rs
  BY <1>6, <1>7 DEF Register, World, OwnToken, Ref
<1>9. \A t, v : InScope(Register(w, s, ws), t, v) =>
                    InScope(w, t, v) \/ (t = s /\ v = ws)
  BY <1>5, <1>8 DEF InScope
<1>. QED  BY <1>6, <1>8, <1>9

LEMMA DroppedFits ==
    ASSUME NEW w \in World, OwnToken(w), NEW s
    PROVE  /\ Dropped(w, s) \in World /\ OwnToken(Dropped(w, s))
           /\ \A t, v : InScope(Dropped(w, s), t, v) => InScope(w, t, v)
<1>1. PICK S \in SUBSET Sessions : w.rows \in [S -> Workspaces]
  BY DEF World
<1>. DEFINE rs == [t \in DOMAIN w.rows \ {s} |-> w.rows[t]]
<1>2. rs \in [S \ {s} -> Workspaces]
  BY <1>1
<1>3. rs \in UNION {[T -> Workspaces] : T \in SUBSET Sessions}
  BY <1>2
<1>4. Dropped(w, s) = [w EXCEPT !.rows = rs]
  BY DEF Dropped
<1>5. \A t : t \in DOMAIN rs => t \in DOMAIN w.rows /\ rs[t] = w.rows[t]
  OBVIOUS
<1>. HIDE DEF rs
<1>. QED  BY <1>3, <1>4, <1>5 DEF World, OwnToken, InScope

LEMMA EditsFit ==
    ASSUME WorldInv, world' \in EditedWorlds
    PROVE  /\ world' \in World /\ OwnToken(world')
           /\ \A s, ws : InScope(world', s, ws) =>
                  InScope(world, s, ws) \/ world'.pointer = Ref(s, s, ws)
<1>. DEFINE Fits(v) ==
         /\ v \in World /\ OwnToken(v)
         /\ \A s, ws : InScope(v, s, ws) =>
                InScope(world, s, ws) \/ v.pointer = Ref(s, s, ws)
<1>0. world \in World /\ OwnToken(world) /\ world.pointer \in Reference
  BY DEF WorldInv, World
<1>1. ASSUME NEW s \in Sessions \ DOMAIN world.rows, NEW ws \in Workspaces
      PROVE  Fits(Register(world, s, ws))
  BY <1>0, RegisterFits
<1>2. ASSUME NEW s
      PROVE  Fits(Dropped(world, s))
  BY <1>0, DroppedFits
<1>3. ASSUME NEW c \in Workspaces \cup {"none", "invalid"}
      PROVE  Fits([world EXCEPT !.config = c])
  BY <1>0 DEF World, OwnToken, InScope
<1>4. NoRef \in Reference /\ NoRef.kind # "ref"
  BY DEF NoRef, Reference
<1>5. Lost(world.pointer) \in Reference /\ Lost(world.pointer).kind # "ref"
  BY <1>0 DEF Lost, Reference
<1>6. ASSUME NEW r \in Reference, r.kind # "ref"
      PROVE  Fits([world EXCEPT !.pointer = r])
  BY <1>0, <1>6 DEF World, OwnToken, InScope
<1>7. Fits(world')
  <2>1. \/ \E s \in Sessions \ DOMAIN world.rows, ws \in Workspaces :
               world' = Register(world, s, ws)
        \/ \E s : world' = Dropped(world, s)
        \/ \E c \in Workspaces \cup {"none", "invalid"} :
               world' = [world EXCEPT !.config = c]
        \/ world' = [world EXCEPT !.pointer = NoRef]
        \/ world' = [world EXCEPT !.pointer = Lost(world.pointer)]
    BY DEF EditedWorlds, Fresh
  <2>. HIDE DEF Fits
  <2>. QED  BY <1>1, <1>2, <1>3, <1>4, <1>5, <1>6, <2>1
<1>. QED  BY <1>7

LEMMA WorkFits ==
    ASSUME WorldInv, world' \in WorldAfter(world),
           call.ws \in Workspaces \/ call.op.class \in {"local", "config"}
    PROVE  world' \in World /\ OwnToken(world')
<1>. DEFINE First == call.op = Op("init-session", "free")
            Second == call.op.class \in {"create", "create-child"}
            Third == call.op = Op("delete", "mutate")
<1>0. world \in World /\ OwnToken(world)
  BY DEF WorldInv
<1>1. CASE First
  <2>1. WorldAfter(world) = {Register(world, s, call.ws) : s \in Fresh(world)}
    BY <1>1 DEF WorldAfter, Op
  <2>2. PICK s \in Fresh(world) : world' = Register(world, s, call.ws)
    BY <2>1
  <2>3. call.ws \in Workspaces /\ s \in Sessions
    BY <1>1 DEF Op, Fresh
  <2>. QED  BY <1>0, <2>2, <2>3, RegisterFits
<1>2. CASE ~First /\ Second
  <2>1. WorldAfter(world) = {Insert(world, s, call.ws) : s \in Fresh(world)}
    BY <1>2 DEF WorldAfter, Op
  <2>2. PICK s \in Fresh(world) : world' = Insert(world, s, call.ws)
    BY <2>1
  <2>3. call.ws \in Workspaces /\ s \in Sessions
    BY <1>2 DEF Fresh
  <2>. QED  BY <1>0, <2>2, <2>3, RegisterFits
<1>3. CASE ~First /\ ~Second /\ Third
  <2>1. WorldAfter(world) =
            {Dropped(world, s) : s \in {t \in DOMAIN world.rows : world.rows[t] = call.ws}}
    BY <1>3 DEF WorldAfter
  <2>2. PICK s : world' = Dropped(world, s)
    BY <2>1
  <2>. QED  BY <1>0, <2>2, DroppedFits
<1>4. CASE ~First /\ ~Second /\ ~Third
  <2>1. WorldAfter(world) = {world}
    BY <1>4 DEF WorldAfter
  <2>. QED  BY <1>0, <2>1
<1>. QED  BY <1>1, <1>2, <1>3, <1>4

(* Nobody but main changes what the environment offers.                    *)
LEMMA SameOffers ==
    ASSUME creds' = creds
    PROVE  /\ \A w, ws : Resolved(w, ws)' = Resolved(w, ws)
           /\ \A w, s, ws : Vouched(w, s, ws)' <=> Vouched(w, s, ws)
           /\ \A w, c : Offered(w, c)' <=> Offered(w, c)
<1>1. \A w, ws : Resolved(w, ws)' = Resolved(w, ws)
  BY DEF Resolved
<1>2. \A w, s, ws : Vouched(w, s, ws)' <=> Vouched(w, s, ws)
  BY <1>1 DEF Vouched
<1>3. \A w, c : Offered(w, c)' <=> Offered(w, c)
  BY <1>1 DEF Offered
<1>. QED  BY <1>1, <1>2, <1>3

(* A cause stays a cause while worlds are added to those seen.             *)
LEMMA CauseStays ==
    ASSUME creds' = creds, seen \subseteq seen', NEW c, NEW code, Caused(c, code)
    PROVE  Caused(c, code)'
<1>1. Acted(c, code)'
  BY SameOffers DEF Caused, Acted
<1>2. Refused(c, code)'
  BY SameOffers DEF Caused, Refused
<1>. QED  BY <1>1, <1>2 DEF Caused

LEMMA BegunFits ==
    ASSUME NEW op, NEW origin, NEW line
    PROVE  /\ Whole(Begun(op, origin, line))
           /\ Begun(op, origin, line).at = "load"
           /\ Begun(op, origin, line).op = op
           /\ Begun(op, origin, line).origin = origin
           /\ Begun(op, origin, line).todo = Ladder(op.class, origin)
           /\ Begun(op, origin, line).actor = NoOne
           /\ Begun(op, origin, line).ws = NoOne
           /\ Begun(op, origin, line).line = line
           /\ Begun(op, origin, line) # NoCall
<1>1. Begun(op, origin, line) =
          [at |-> "load", op |-> op, origin |-> origin, todo |-> Ladder(op.class, origin),
           ref |-> NoRef, actor |-> NoOne, ws |-> NoOne, line |-> line]
  <2>1. PICK t : t = Ladder(op.class, origin)
    OBVIOUS
  <2>2. PICK e : e = NoCall.todo
    OBVIOUS
  <2>3. NoCall = [at |-> "none", op |-> NoOp, origin |-> "human", todo |-> e,
                  ref |-> NoRef, actor |-> NoOne, ws |-> NoOne, line |-> 0]
    BY <2>2 DEF NoCall
  <2>4. Begun(op, origin, line) =
            [NoCall EXCEPT !.at = "load", !.op = op, !.origin = origin,
                           !.todo = t, !.line = line]
    BY <2>1 DEF Begun
  <2>. QED  BY <2>1, <2>3, <2>4
<1>2. NoCall.at = "none"
  BY DEF NoCall
<1>. QED  BY <1>1, <1>2 DEF Whole

(* A call that has just begun.                                             *)
LEMMA BeginsWell ==
    ASSUME NEW op, NEW origin \in {"human", "agent", "operator"}, NEW line,
           call' = Begun(op, origin, line), world' \in seen',
           origin = "operator" => op.class = "mutate" /\ ~readonly'
    PROVE  CallInv'
  BY BegunFits DEF CallInv

-----------------------------------------------------------------------------
(***************************************************************************)
(* The steps.                                                              *)
(***************************************************************************)

(* A call ends with a cause.                                               *)
LEMMA EndsStep ==
    ASSUME SurfaceInv, Remember, call.at # "none", UNCHANGED edits,
           NEW code, Ends(code), Caused(call, code),
           world' \in World, OwnToken(world')
    PROVE  SurfaceInv'
<1>1. route' = route /\ creds' = creds /\ readonly' = readonly /\ cut' = cut /\ open' = open
  BY DEF Ends
<1>2. WorldInv'
  BY <1>1 DEF SurfaceInv, WorldInv, OwnToken
<1>3. route # "none" /\ FirstInv'
  BY <1>1 DEF SurfaceInv, FirstInv, NoCall
<1>4. \/ call' = NoCall
      \/ call' = Begun(Op("get", "read"), "human", 0) /\ call.op.name = "run"
  BY DEF Ends
<1>5. TypeOK'
  <2>1. exit' \in {"running", "ok", "error", "usage", "threw"} /\ attach' = attach
    BY DEF Ends, ExitsWith, ExitOf, SurfaceInv, TypeOK
  <2>2. world'.config \in Workspaces \cup {"none", "invalid"}
        /\ DOMAIN world'.rows \subseteq Sessions
    BY DEF World
  <2>3. /\ call'.at \in {"none", "load"}
        /\ call'.actor = NoOne /\ call'.ws = NoOne
    BY <1>4, BegunFits DEF NoCall
  <2>. QED  BY <1>1, <2>1, <2>2, <2>3 DEF SurfaceInv, TypeOK
<1>6. CASE call' = NoCall
  <2>1. seen' = seen \cup {world, world'}
    BY <1>6 DEF Remember, NoCall
  <2>2. CallInv'
    BY <1>6 DEF CallInv, NoCall, Whole, NoOp, Op
  <2>3. PICK c : c = call
    OBVIOUS
  <2>4. Caused(c, code)'
    BY <1>1, <2>1, <2>3, CauseStays
  <2>5. verdict'.call = c /\ verdict'.code = code
    BY <2>3 DEF Ends
  <2>6. VerdictInv'
    BY <2>4, <2>5 DEF VerdictInv
  <2>. QED  BY <1>2, <1>3, <1>5, <2>2, <2>6 DEF SurfaceInv
<1>7. CASE call' = Begun(Op("get", "read"), "human", 0) /\ call.op.name = "run"
  <2>1. call'.at = "load" /\ call'.op # call.op /\ call' # NoCall
    BY <1>7, BegunFits DEF Op
  <2>2. seen' = {world'}
    BY <2>1 DEF Remember
  <2>3. CallInv'
    BY <1>7, <2>2, BeginsWell
  <2>4. VerdictInv'
    BY <2>1 DEF VerdictInv
  <2>. QED  BY <1>2, <1>3, <1>5, <2>3, <2>4 DEF SurfaceInv
<1>. QED  BY <1>4, <1>6, <1>7

(* A call goes on.                                                         *)
LEMMA GoesStep ==
    ASSUME SurfaceInv, Remember, call.at # "none", UNCHANGED <<edits, world>>,
           NEW c, Goes(c), c.at # "none", c.op = call.op,
           c.at \in {"auth", "lookup", "work"},
           Whole(c), c.origin = call.origin,
           c.actor \in Sessions \cup {NoOne}, c.ws \in Workspaces \cup {NoOne},
           c.at \in {"auth", "lookup"} => Climbs(c),
           c.at = "lookup" => Compares(c),
           c.at = "work" => c.actor = NoOne /\ c.op.class \in {"local", "config"}
    PROVE  SurfaceInv'
<1>1. /\ UNCHANGED <<argv, route, readonly, attach, exit, creds, cut, open, verdict>>
      /\ call' = c
  BY DEF Goes, cliVars, mcpVars
<1>2. seen' = seen \cup {world}
  BY <1>1 DEF Remember
<1>3. WorldInv'
  BY <1>1 DEF SurfaceInv, WorldInv, OwnToken
<1>4. FirstInv' /\ call' # NoCall
  BY <1>1 DEF SurfaceInv, FirstInv, NoCall
<1>5. \A w, ws : Resolved(w, ws)' = Resolved(w, ws)
  BY <1>1, SameOffers
<1>6. \A w, s, ws : Vouched(w, s, ws)' <=> Vouched(w, s, ws)
  BY <1>1, SameOffers
<1>7. \A w, d : Offered(w, d)' <=> Offered(w, d)
  BY <1>1, SameOffers
<1>8. Climbs(c) => Climbs(c)'
  BY <1>2, <1>5, <1>6 DEF Climbs
<1>9. Compares(c) => Compares(c)'
  BY <1>1, <1>2, <1>6, <1>7 DEF Compares
<1>10. CallInv'
  <2>1. world' \in seen'
    BY <1>2
  <2>2. call.origin = "operator" => call.op.class = "mutate" /\ ~readonly
    BY DEF SurfaceInv, CallInv
  <2>3. call.origin \in {"human", "agent", "operator"}
    BY DEF SurfaceInv, CallInv
  <2>4. (c.at \in {"auth", "lookup"} => Climbs(call)') /\ (c.at = "lookup" => Compares(call)')
    BY <1>1, <1>8, <1>9
  <2>. QED  BY <1>1, <1>4, <2>1, <2>2, <2>3, <2>4 DEF CallInv
<1>11. TypeOK'
  <2>1. c.at = "lookup" => c.todo # <<>> /\ c.ref.kind = "ref"
    BY DEF Compares
  <2>. QED  BY <1>1, <2>1 DEF SurfaceInv, TypeOK
<1>. QED  BY <1>3, <1>4, <1>10, <1>11 DEF SurfaceInv, VerdictInv

LEMMA LoadStep ==
    ASSUME SurfaceInv, Remember, UNCHANGED edits, Load
    PROVE  SurfaceInv'
<1>. DEFINE c == call
<1>1. /\ call.at = "load" /\ world' = world /\ world \in seen
      /\ call = Begun(call.op, call.origin, call.line)
      /\ call.origin \in {"human", "agent", "operator"}
      /\ call.origin = "operator" => call.op.class = "mutate" /\ ~readonly
  BY DEF Load, SurfaceInv, CallInv
<1>2. /\ call.actor = NoOne /\ call.ws = NoOne /\ Whole(call)
      /\ call.todo = Ladder(call.op.class, call.origin)
  BY <1>1, BegunFits
<1>3. world' \in World /\ OwnToken(world')
  BY <1>1 DEF SurfaceInv, WorldInv
<1>4. ASSUME NEW code, Ends(code), code \notin {"ok", "failed", "invalid_input"},
             Refused(call, code)
      PROVE  SurfaceInv'
  <2>1. Caused(call, code)
    BY <1>4 DEF Caused, Acted
  <2>. QED  BY <1>1, <1>3, <1>4, <2>1, EndsStep
<1>5. CASE call.op.class = "local" /\ Ends("port")
  BY <1>1, <1>4, <1>5 DEF Refused
<1>6. CASE world.config = "none" /\ Ends("config_not_found")
  BY <1>1, <1>4, <1>6 DEF Refused
<1>7. CASE world.config = "invalid" /\ Ends("invalid_config")
  BY <1>1, <1>4, <1>7 DEF Refused
<1>8. CASE readonly /\ Ends("port")
  BY <1>1, <1>4, <1>8 DEF Refused
<1>9. CASE call.op.class \in {"local", "config"} /\ Goes([call EXCEPT !.at = "work"])
  <2>1. PICK d : d = [call EXCEPT !.at = "work"]
    OBVIOUS
  <2>2. /\ d.at = "work" /\ d.op = call.op /\ d.origin = call.origin /\ Whole(d)
        /\ d.actor = NoOne /\ d.ws = NoOne
    BY <1>2, <2>1 DEF Whole
  <2>3. Goes(d)
    BY <1>9, <2>1
  <2>. QED  BY <1>1, <1>9, <2>2, <2>3, GoesStep
<1>10. CASE /\ world.config \in Workspaces
            /\ Goes([call EXCEPT !.at = "auth", !.ws = world.config])
  <2>1. PICK d : d = [call EXCEPT !.at = "auth", !.ws = world.config]
    OBVIOUS
  <2>2. /\ d.at = "auth" /\ d.op = call.op /\ d.origin = call.origin /\ Whole(d)
        /\ d.actor = NoOne /\ d.ws \in Workspaces /\ d.todo = call.todo
    BY <1>2, <1>10, <2>1 DEF Whole
  <2>3. Goes(d)
    BY <1>10, <2>1
  <2>4. /\ d.todo \in Ladders
        /\ MustProve(d) => d.todo # <<>> /\ Head(d.todo) # "peek"
        /\ d.op.class = "mutate" /\ d.origin = "human" => d.todo # <<>>
        /\ d.op.class = "mutate" /\ d.origin = "operator" => d.todo = <<>>
    BY <1>1, <1>2, <2>2, LadderFits DEF MustProve
  <2>5. Climbs(d)
    BY <1>1, <2>2, <2>4 DEF Climbs
  <2>. QED  BY <1>1, <2>2, <2>3, <2>5, GoesStep
<1>11. world.config \in Workspaces \cup {"none", "invalid"}
  BY DEF SurfaceInv, TypeOK
<1>12. \/ call.op.class = "local" /\ Ends("port")
       \/ world.config = "none" /\ Ends("config_not_found")
       \/ world.config = "invalid" /\ Ends("invalid_config")
       \/ readonly /\ Ends("port")
       \/ call.op.class \in {"local", "config"} /\ Goes([call EXCEPT !.at = "work"])
       \/ /\ world.config \in Workspaces
          /\ Goes([call EXCEPT !.at = "auth", !.ws = world.config])
  BY <1>11 DEF Load
<1>. QED  BY <1>5, <1>6, <1>7, <1>8, <1>9, <1>10, <1>12

LEMMA ResolveStep ==
    ASSUME SurfaceInv, Remember, UNCHANGED edits, Resolve
    PROVE  SurfaceInv'
<1>. DEFINE ref == Resolved(world, call.ws)
            check == Head(call.todo)
<1>1. /\ call.at = "auth" /\ call.todo # <<>> /\ world' = world /\ world \in seen
      /\ Climbs(call) /\ Whole(call) /\ call.actor \in Sessions \cup {NoOne}
      /\ call.ws \in Workspaces /\ call.todo \in Ladders /\ call.origin # "operator"
  BY DEF Resolve, SurfaceInv, CallInv, Climbs
<1>2. world \in World /\ OwnToken(world)
  BY DEF SurfaceInv, WorldInv
<1>3. world' \in World /\ OwnToken(world')
  BY <1>1, <1>2
<1>4. /\ ref \in Reference /\ ref.kind \in {"none", "ref", "lost"}
      /\ ref.kind = "ref" /\ creds.kind # "ref" => ref.token = ref.id
  BY <1>1, <1>2, ResolvedFits DEF SurfaceInv, OwnToken
<1>5. ASSUME NEW code, Ends(code), code \notin {"ok", "failed", "invalid_input"},
             Refused(call, code)
      PROVE  SurfaceInv'
  <2>1. Caused(call, code)
    BY <1>5 DEF Caused, Acted
  <2>. QED  BY <1>1, <1>3, <1>5, <2>1, EndsStep
<1>6. CASE ref.kind = "lost" /\ Ends("threw")
  BY <1>1, <1>5, <1>6 DEF Refused
<1>7. CASE ref.kind = "none" /\ Ends("current_session_not_found")
  BY <1>1, <1>5, <1>7 DEF Refused
<1>8. CASE ref.ws \notin {NoOne, call.ws} /\ Ends("scope_mismatch")
  BY <1>1, <1>5, <1>8 DEF Refused
<1>9. CASE ref.kind = "none" /\ check = "peek" /\ Goes([call EXCEPT !.todo = <<>>])
  <2>1. PICK d : d = [call EXCEPT !.todo = <<>>]
    OBVIOUS
  <2>2. /\ d.at = "auth" /\ d.op = call.op /\ d.origin = call.origin /\ Whole(d)
        /\ d.actor = call.actor /\ d.ws = call.ws /\ d.todo = <<>>
    BY <1>1, <2>1 DEF Whole
  <2>3. Goes(d)
    BY <1>9, <2>1
  <2>4. ~MustProve(d)
    BY <1>1, <1>9, <2>2 DEF Climbs, MustProve
  <2>5. Climbs(d)
    BY <1>1, <1>9, <2>2, <2>4 DEF Climbs, Ladders
  <2>. QED  BY <1>1, <2>2, <2>3, <2>5, GoesStep
<1>10. CASE check = "peek" /\ Goes([call EXCEPT !.todo = Tail(@)])
  <2>1. PICK d : d = [call EXCEPT !.todo = Tail(@)]
    OBVIOUS
  <2>2. /\ d.at = "auth" /\ d.op = call.op /\ d.origin = call.origin /\ Whole(d)
        /\ d.actor = call.actor /\ d.ws = call.ws /\ d.todo = Tail(call.todo)
    BY <1>1, <2>1 DEF Whole
  <2>3. Goes(d)
    BY <1>10, <2>1
  <2>4. ~MustProve(d)
    BY <1>1, <1>10, <2>2 DEF Climbs, MustProve
  <2>5. d.todo \in Ladders /\ d.todo # <<>>
    BY <1>1, <1>10, <2>2, Rungs
  <2>6. Climbs(d)
    BY <1>1, <2>2, <2>4, <2>5 DEF Climbs
  <2>. QED  BY <1>1, <2>2, <2>3, <2>6, GoesStep
<1>11. CASE /\ ref.kind = "ref" /\ check # "peek" /\ ref.ws \in {NoOne, call.ws}
            /\ Goes([call EXCEPT !.at = "lookup", !.ref = ref])
  <2>1. PICK d : d = [call EXCEPT !.at = "lookup", !.ref = ref]
    OBVIOUS
  <2>2. /\ d.at = "lookup" /\ d.op = call.op /\ d.origin = call.origin /\ Whole(d)
        /\ d.actor = call.actor /\ d.ws = call.ws /\ d.todo = call.todo /\ d.ref = ref
    BY <1>1, <2>1 DEF Whole
  <2>3. Goes(d)
    BY <1>11, <2>1
  <2>4. Climbs(d)
    BY <1>1, <2>2 DEF Climbs, MustProve
  <2>5. Offered(world, d)
    BY <2>2 DEF Offered
  <2>6. ref.token = ref.id /\ InScope(world, ref.id, call.ws) => Vouched(world, ref.id, call.ws)
    BY <1>11 DEF Vouched
  <2>7. Compares(d)
    BY <1>1, <1>4, <1>11, <2>2, <2>5, <2>6 DEF Compares
  <2>. QED  BY <1>1, <2>2, <2>3, <2>4, <2>7, GoesStep
<1>12. \/ ref.kind = "lost" /\ Ends("threw")
       \/ ref.kind = "none" /\ check = "peek" /\ Goes([call EXCEPT !.todo = <<>>])
       \/ ref.kind = "none" /\ Ends("current_session_not_found")
       \/ check = "peek" /\ Goes([call EXCEPT !.todo = Tail(@)])
       \/ ref.ws \notin {NoOne, call.ws} /\ Ends("scope_mismatch")
       \/ /\ ref.kind = "ref" /\ check # "peek" /\ ref.ws \in {NoOne, call.ws}
          /\ Goes([call EXCEPT !.at = "lookup", !.ref = ref])
  BY <1>4 DEF Resolve
<1>. QED  BY <1>6, <1>7, <1>8, <1>9, <1>10, <1>11, <1>12

LEMMA LookUpStep ==
    ASSUME SurfaceInv, Remember, UNCHANGED edits, LookUp
    PROVE  SurfaceInv'
<1>. DEFINE s == call.ref.id
<1>1. /\ call.at = "lookup" /\ world' = world /\ world \in seen
      /\ Climbs(call) /\ Compares(call) /\ Whole(call)
      /\ call.ws \in Workspaces /\ call.todo \in Ladders
      /\ call.todo # <<>> /\ call.origin # "operator"
  BY DEF LookUp, SurfaceInv, CallInv, Climbs, Compares
<1>2. world \in World /\ OwnToken(world)
  BY DEF SurfaceInv, WorldInv
<1>3. world' \in World /\ OwnToken(world')
  BY <1>1, <1>2
<1>4. ASSUME NEW code, Ends(code), code \notin {"ok", "failed", "invalid_input"},
             Refused(call, code)
      PROVE  SurfaceInv'
  <2>1. Caused(call, code)
    BY <1>4 DEF Caused, Acted
  <2>. QED  BY <1>1, <1>3, <1>4, <2>1, EndsStep
<1>5. CASE ~InScope(world, s, call.ws) /\ Ends(Missing(Head(call.todo)))
  <2>1. PICK code : code = Missing(Head(call.todo))
    OBVIOUS
  <2>2. code \in {"session_not_found", "parent_session_not_found"}
    BY <2>1 DEF Missing
  <2>3. Refused(call, code)
    BY <1>1, <1>5, <2>2 DEF Refused, Compares
  <2>. QED  BY <1>4, <1>5, <2>1, <2>2, <2>3
<1>6. CASE /\ InScope(world, s, call.ws) /\ call.ref.token # s
           /\ Ends("invalid_session_token")
  <2>1. creds.kind = "ref"
    BY <1>1, <1>6 DEF Compares
  <2>2. Offered(world, call)
    BY <1>1, <2>1 DEF Compares, Offered, Resolved
  <2>3. Refused(call, "invalid_session_token")
    BY <1>1, <1>6, <2>2 DEF Refused
  <2>. QED  BY <1>4, <1>6, <2>3
<1>7. CASE /\ InScope(world, s, call.ws) /\ call.ref.token = s
           /\ Goes([call EXCEPT !.at = "auth", !.actor = s, !.todo = Tail(@)])
  <2>1. PICK d : d = [call EXCEPT !.at = "auth", !.actor = s, !.todo = Tail(@)]
    OBVIOUS
  <2>2. /\ d.at = "auth" /\ d.op = call.op /\ d.origin = call.origin /\ Whole(d)
        /\ d.actor = s /\ d.ws = call.ws /\ d.todo = Tail(call.todo)
    BY <1>1, <2>1 DEF Whole
  <2>3. Goes(d)
    BY <1>7, <2>1
  <2>4. s \in Sessions /\ s # NoOne
    BY <1>7, SurfacesAssumption DEF InScope, SurfaceInv, TypeOK
  <2>5. d.todo \in Ladders /\ (d.todo # <<>> => Head(d.todo) # "peek")
    BY <1>1, <2>2, Rungs
  <2>6. \E w \in seen : Vouched(w, s, call.ws)
    BY <1>1, <1>7 DEF Compares
  <2>7. Climbs(d)
    BY <1>1, <2>2, <2>4, <2>5, <2>6 DEF Climbs
  <2>. QED  BY <1>1, <2>2, <2>3, <2>4, <2>7, GoesStep
<1>8. \/ ~InScope(world, s, call.ws) /\ Ends(Missing(Head(call.todo)))
      \/ /\ InScope(world, s, call.ws) /\ call.ref.token # s
         /\ Ends("invalid_session_token")
      \/ /\ InScope(world, s, call.ws) /\ call.ref.token = s
         /\ Goes([call EXCEPT !.at = "auth", !.actor = s, !.todo = Tail(@)])
  BY DEF LookUp, Verifies
<1>. QED  BY <1>5, <1>6, <1>7, <1>8

LEMMA WorkStep ==
    ASSUME SurfaceInv, Remember, UNCHANGED edits, Work
    PROVE  SurfaceInv'
<1>1. /\ call.at = "work" \/ (call.at = "auth" /\ call.todo = <<>>)
      /\ call.at = "work" => call.actor = NoOne /\ call.op.class \in {"local", "config"}
      /\ call.at = "auth" => Climbs(call)
  BY DEF Work, Ready, SurfaceInv, CallInv
<1>2. PICK code \in {"ok", "failed", "invalid_input"} :
          Ends(code) /\ (world' = world \/ world' \in WorldAfter(world))
  BY DEF Work
<1>3. world' \in World /\ OwnToken(world')
  BY <1>1, <1>2, WorkFits DEF SurfaceInv, WorldInv, Climbs
<1>4. Acted(call, code)
  BY <1>1 DEF Acted, Climbs, MustProve
<1>5. Refused(call, code)
  BY <1>2 DEF Refused
<1>. QED  BY <1>1, <1>2, <1>3, <1>4, <1>5, EndsStep DEF Caused

(* The server reads, answers or begins a call.                             *)
LEMMA HandleStep ==
    ASSUME SurfaceInv, Remember, Waiting,
           UNCHANGED <<argv, route, readonly, attach, creds, world, edits, verdict, cut>>,
           exit' \in {exit, "ok"}, open' \in BOOLEAN,
           call' = call \/ \E op, line : call' = Begun(op, "agent", line)
    PROVE  SurfaceInv'
<1>1. call = NoCall /\ call.at = "none" /\ route = "mcp" /\ exit' \in {"running", "ok"}
  BY DEF Waiting, NoCall
<1>2. WorldInv' /\ FirstInv'
  BY <1>1 DEF SurfaceInv, WorldInv, FirstInv, OwnToken
<1>3. CASE call' = call
  <2>1. seen' = seen
    BY <1>1, <1>3 DEF Remember
  <2>2. CallInv'
    BY <1>1, <1>3 DEF CallInv, NoCall, Whole, NoOp, Op
  <2>3. PICK c, code : c = verdict.call /\ code = verdict.code
    OBVIOUS
  <2>4. Caused(c, code)
    BY <1>1, <2>3 DEF SurfaceInv, VerdictInv
  <2>5. Caused(c, code)'
    BY <2>1, <2>4, CauseStays
  <2>6. verdict'.call = c /\ verdict'.code = code
    BY <2>3
  <2>7. VerdictInv'
    BY <2>5, <2>6 DEF VerdictInv
  <2>8. TypeOK'
    BY <1>1, <1>3 DEF SurfaceInv, TypeOK
  <2>. QED  BY <1>2, <2>2, <2>7, <2>8 DEF SurfaceInv
<1>4. CASE \E op, line : call' = Begun(op, "agent", line)
  <2>1. PICK op, line : call' = Begun(op, "agent", line)
    BY <1>4
  <2>2. seen' = {world'} /\ call' # NoCall
    BY <1>1, <2>1, BegunFits DEF Remember
  <2>3. CallInv'
    BY <2>1, <2>2, BeginsWell
  <2>4. call'.at = "load" /\ call'.actor = NoOne /\ call'.ws = NoOne
    BY <2>1, BegunFits
  <2>5. TypeOK'
    BY <1>1, <2>4 DEF SurfaceInv, TypeOK
  <2>. QED  BY <1>2, <2>2, <2>3, <2>5 DEF SurfaceInv, VerdictInv
<1>. QED  BY <1>3, <1>4

LEMMA ServerSteps ==
    ASSUME SurfaceInv, Remember, Read \/ NextLine \/ ClientCloses \/ FinalLine \/ ServerExits
    PROVE  SurfaceInv'
<1>1. open \in BOOLEAN
  BY DEF SurfaceInv, TypeOK
<1>2. \A fragments : Handle(fragments) =>
          call' = call \/ \E op, line : call' = Begun(op, "agent", line)
  BY DEF Handle
<1>3. CASE Read
  BY <1>1, <1>3, HandleStep DEF Read, mcpRest, cliVars
<1>4. CASE NextLine
  BY <1>1, <1>2, <1>4, HandleStep DEF NextLine, mcpRest, cliVars
<1>5. CASE ClientCloses
  BY <1>5, HandleStep DEF ClientCloses, mcpRest, cliVars
<1>6. CASE FinalLine
  BY <1>1, <1>2, <1>6, HandleStep DEF FinalLine, mcpRest, cliVars
<1>7. CASE ServerExits
  BY <1>1, <1>7, HandleStep DEF ServerExits, callVars, mcpVars
<1>. QED  BY <1>3, <1>4, <1>5, <1>6, <1>7

(* Others change the world under a call. A row that appears under a        *)
(* reference the call has read was registered with the very pointer that   *)
(* offers it.                                                              *)
LEMMA EditStep ==
    ASSUME SurfaceInv, Remember, Edit
    PROVE  SurfaceInv'
<1>1. /\ route # "none" /\ world' \in EditedWorlds /\ edits' = edits + 1
      /\ edits < MaxEdits
      /\ UNCHANGED <<argv, route, readonly, attach, exit, creds, call, verdict, cut, open>>
  BY DEF Edit, cliVars, callVars, mcpVars
<1>2. /\ world' \in World /\ OwnToken(world')
      /\ \A s, ws : InScope(world', s, ws) =>
             InScope(world, s, ws) \/ world'.pointer = Ref(s, s, ws)
  BY <1>1, EditsFit DEF SurfaceInv
<1>3. WorldInv' /\ FirstInv'
  BY <1>1, <1>2 DEF SurfaceInv, WorldInv, FirstInv, OwnToken
<1>4. TypeOK'
  <2>1. world'.config \in Workspaces \cup {"none", "invalid"}
        /\ DOMAIN world'.rows \subseteq Sessions
    BY <1>2 DEF World
  <2>2. edits' \in 0 .. MaxEdits
    BY <1>1, SurfacesAssumption DEF SurfaceInv, TypeOK
  <2>. QED  BY <1>1, <2>1, <2>2 DEF SurfaceInv, TypeOK
<1>5. \A w, ws : Resolved(w, ws)' = Resolved(w, ws)
  BY <1>1, SameOffers
<1>6. \A w, s, ws : Vouched(w, s, ws)' <=> Vouched(w, s, ws)
  BY <1>1, SameOffers
<1>7. \A w, d : Offered(w, d)' <=> Offered(w, d)
  BY <1>1, SameOffers
<1>8. CASE call = NoCall
  <2>1. seen' = seen
    BY <1>1, <1>8 DEF Remember, NoCall
  <2>2. CallInv'
    BY <1>1, <1>8 DEF CallInv, NoCall, Whole, NoOp, Op
  <2>3. PICK c, code : c = verdict.call /\ code = verdict.code
    OBVIOUS
  <2>4. Caused(c, code)
    BY <1>8, <2>3 DEF SurfaceInv, VerdictInv
  <2>5. Caused(c, code)'
    BY <1>1, <2>1, <2>4, CauseStays
  <2>6. verdict'.call = c /\ verdict'.code = code
    BY <1>1, <2>3
  <2>7. VerdictInv'
    BY <2>5, <2>6 DEF VerdictInv
  <2>. QED  BY <1>3, <1>4, <2>2, <2>7 DEF SurfaceInv
<1>9. CASE call # NoCall
  <2>1. PICK c : c = call
    OBVIOUS
  <2>2. c.at # "none" /\ call' = c /\ CallInv
    BY <1>1, <1>9, <2>1 DEF SurfaceInv, CallInv
  <2>3. seen' = seen \cup {world, world'}
    BY <2>1, <2>2 DEF Remember
  <2>4. Climbs(c) => Climbs(c)'
    BY <2>3, <1>5, <1>6 DEF Climbs
  <2>5. ASSUME Climbs(c), Compares(c)
        PROVE  Compares(c)'
    <3>1. CASE c.ref.token = c.ref.id /\ InScope(world', c.ref.id, c.ws)
      <4>1. CASE InScope(world, c.ref.id, c.ws)
        BY <1>1, <1>6, <1>7, <2>3, <2>5, <3>1, <4>1 DEF Compares
      <4>2. CASE creds.kind # "ref" /\ world'.pointer = Ref(c.ref.id, c.ref.id, c.ws)
        <5>1. Resolved(world', c.ws) = Ref(c.ref.id, c.ref.id, c.ws)
          BY <4>2 DEF Resolved, Ref
        <5>2. Vouched(world', c.ref.id, c.ws)
          BY <3>1, <5>1 DEF Vouched, Ref
        <5>. QED  BY <1>1, <1>6, <1>7, <2>3, <2>5, <5>2 DEF Compares
      <4>3. CASE creds.kind = "ref"
        <5>1. PICK w \in seen : Offered(w, c)
          BY <2>5 DEF Compares
        <5>2. Resolved(world', c.ws) = Resolved(w, c.ws)
          BY <4>3 DEF Resolved
        <5>3. Vouched(world', c.ref.id, c.ws)
          BY <2>5, <3>1, <5>1, <5>2 DEF Vouched, Offered, Compares
        <5>. QED  BY <1>1, <1>6, <1>7, <2>3, <2>5, <5>3 DEF Compares
      <4>. QED  BY <1>2, <3>1, <4>1, <4>2, <4>3
    <3>2. CASE ~(c.ref.token = c.ref.id /\ InScope(world', c.ref.id, c.ws))
      <4>1. ~(c.ref.token = c.ref.id /\ InScope(world, c.ref.id, c.ws)')
        BY <3>2 DEF InScope
      <4>. QED  BY <1>1, <1>7, <2>3, <2>5, <4>1 DEF Compares
    <3>. QED  BY <3>1, <3>2
  <2>6. /\ c.at \in {"auth", "lookup"} => Climbs(call)'
        /\ c.at = "lookup" => Compares(call)'
    BY <2>1, <2>2, <2>4, <2>5 DEF CallInv
  <2>7. CallInv'
    BY <1>1, <2>1, <2>2, <2>3, <2>6 DEF CallInv
  <2>. QED  BY <1>1, <1>3, <1>4, <1>9, <2>7 DEF SurfaceInv, VerdictInv
<1>. QED  BY <1>8, <1>9

-----------------------------------------------------------------------------
(***************************************************************************)
(* main. The words the dependencies are chosen from are those the route is *)
(* chosen from.                                                            *)
(***************************************************************************)

LEMMA BeginsFirst ==
    ASSUME NEW words, NEW a, NEW t \in Seq(Word), Begins(t, words),
           Len(words) \in Nat \ {0}, words[1] = a
    PROVE  Len(t) >= 1 /\ t[1].text = a
<1>1. Len(t) >= Len(words) /\ Texts(SubSeq(t, 1, Len(words))) = words /\ Len(t) \in Nat
  BY DEF Begins
<1>2. SubSeq(t, 1, Len(words)) = [i \in 1 .. Len(words) |-> t[i]]
  BY <1>1
<1>3. Texts(SubSeq(t, 1, Len(words)))[1] = t[1].text
  BY <1>1, <1>2 DEF Texts
<1>. QED  BY <1>1, <1>3

(* The cockpit gets the whole of the dependencies.                         *)
LEMMA TuiHasPorts ==
    ASSUME NEW t \in Seq(Word), Route(t) = "tui"
    PROVE  ~IsReadOnlyCommand(t)
<1>1. \A a : Len(<<a>>) = 1 /\ <<a>>[1] = a
  OBVIOUS
<1>2. \A a, b : Len(<<a, b>>) = 2 /\ <<a, b>>[1] = a
  OBVIOUS
<1>3. Begins(t, <<"tui">>) /\ ~WantsHelp(t)
  BY DEF Route
<1>4. t[1].text = "tui"
  BY <1>1, <1>3, BeginsFirst
<1>5. ~IsVersion(t[1])
  <2>1. W("-v").text = "-v" /\ F("version").text = ""
    BY DEF W, F
  <2>2. "tui" # "-v" /\ "tui" # ""
    OBVIOUS
  <2>. QED  BY <1>4, <2>1, <2>2 DEF IsVersion
<1>6. \A a : Begins(t, <<a>>) => a = "tui"
  BY <1>1, <1>4, BeginsFirst
<1>7. \A a, b : Begins(t, <<a, b>>) => a = "tui"
  BY <1>2, <1>4, BeginsFirst
<1>. QED  BY <1>3, <1>5, <1>6, <1>7 DEF IsReadOnlyCommand

(* main ends the process, starts the server or begins a call of its own.   *)
LEMMA MainFits ==
    ASSUME SurfaceInv, Main
    PROVE  /\ route = "none" /\ route' \in {"cli", "tui", "mcp"} /\ readonly' \in BOOLEAN
           /\ exit' \in {"running", "ok", "error", "usage", "threw"}
           /\ attach' \in BOOLEAN /\ cut' \in 0 .. 2
           /\ UNCHANGED <<edits, verdict, open>>
           /\ IF exit' = "running" THEN world' \in Worlds /\ creds' \in Credentials
              ELSE UNCHANGED <<world, creds>>
           /\ \/ call' = call
              \/ /\ exit' = "running"
                 /\ \E op : \/ call' = Begun(op, "human", 0)
                            \/ /\ op.class = "mutate" /\ ~readonly'
                               /\ call' = Begun(op, "operator", 0)
<1>1. route = "none" /\ exit = "running" /\ argv \in Seq(Word)
  BY DEF Main, SurfaceInv, FirstInv
<1>2. /\ UNCHANGED <<edits, verdict, open>> /\ route' = Route(argv)
      /\ readonly' = IsReadOnlyCommand(argv)
      /\ IF exit' = "running" THEN world' \in Worlds /\ creds' \in Credentials
         ELSE UNCHANGED <<world, creds>>
  BY DEF Main
<1>3. /\ route' \in {"cli", "tui", "mcp"} /\ readonly' \in BOOLEAN
  BY <1>2 DEF Route, IsReadOnlyCommand
<1>4. attach \in BOOLEAN /\ cut \in 0 .. 2
  BY DEF SurfaceInv, TypeOK
<1>. DEFINE Ran ==
         /\ exit' \in {"running", "ok", "error", "usage", "threw"}
         /\ attach' \in BOOLEAN /\ cut' \in 0 .. 2
         /\ \/ call' = call
            \/ /\ exit' = "running"
               /\ \E op : \/ call' = Begun(op, "human", 0)
                          \/ /\ op.class = "mutate" /\ ~readonly'
                             /\ call' = Begun(op, "operator", 0)
<1>5. ASSUME Serve
      PROVE  Ran
  <2>1. cut' \in 0 .. 2
    BY <1>5 DEF Serve
  <2>. QED  BY <1>4, <1>5, <2>1 DEF Serve, Exits
<1>6. ASSUME route' = "tui", RunTui, UNCHANGED cut
      PROVE  Ran
  <2>1. ~readonly'
    BY <1>1, <1>2, <1>6, TuiHasPorts
  <2>2. CASE \E how \in {"ok", "usage"} : Exits(how)
    BY <1>4, <1>6, <2>2 DEF Exits
  <2>3. CASE \E name : call' = Begun(Op(name, "mutate"), "operator", 0)
                      /\ UNCHANGED <<attach, exit>>
    <3>1. PICK name : call' = Begun(Op(name, "mutate"), "operator", 0)
                      /\ UNCHANGED <<attach, exit>>
      BY <2>3
    <3>2. Op(name, "mutate").class = "mutate"
      BY DEF Op
    <3>. QED  BY <1>1, <1>4, <1>6, <2>1, <3>1, <3>2
  <2>4. \/ \E how \in {"ok", "usage"} : Exits(how)
        \/ \E name : call' = Begun(Op(name, "mutate"), "operator", 0)
                     /\ UNCHANGED <<attach, exit>>
    BY <1>6 DEF RunTui
  <2>. QED  BY <2>2, <2>3, <2>4
<1>7. ASSUME UNCHANGED cut, NEW tty \in BOOLEAN, RunCli(tty)
      PROVE  Ran
  <2>1. ASSUME NEW how \in {"ok", "usage"}, Exits(how)
        PROVE  Ran
    BY <1>4, <1>7, <2>1 DEF Exits
  <2>2. ASSUME NEW path, NEW f, Dispatch(path, f, tty)
        PROVE  Ran
    <3>1. CASE path = <<"mcp">>
      BY <2>1, <2>2, <3>1 DEF Dispatch
    <3>2. CASE path # <<"mcp">>
      <4>1. /\ call' = Begun(Op(Last(path), ClassOf(path, f)), "human", 0)
            /\ attach' = (Attaches(path, f) /\ (tty \/ path # <<"run">>))
            /\ UNCHANGED exit
        BY <2>2, <3>2 DEF Dispatch
      <4>2. attach' \in BOOLEAN
        BY <4>1
      <4>. QED  BY <1>1, <1>4, <1>7, <4>1, <4>2
    <3>. QED  BY <3>1, <3>2
  <2>3. \/ \E how \in {"ok", "usage"} : Exits(how)
        \/ \E path, f : Dispatch(path, f, tty)
    BY <1>7 DEF RunCli
  <2>. QED  BY <2>1, <2>2, <2>3
<1>8. Ran
  <2>1. \/ Serve
        \/ route' = "tui" /\ RunTui /\ UNCHANGED cut
        \/ UNCHANGED cut /\ \E tty \in BOOLEAN : RunCli(tty)
    BY DEF Main
  <2>. QED  BY <1>5, <1>6, <1>7, <2>1
<1>. QED  BY <1>1, <1>2, <1>3, <1>8

LEMMA MainStep ==
    ASSUME SurfaceInv, Remember, Main
    PROVE  SurfaceInv'
<1>1. call = NoCall /\ call.at = "none" /\ verdict = NoVerdict /\ TypeOK /\ WorldInv
  BY MainFits DEF SurfaceInv, FirstInv, NoCall
<1>2. WorldInv'
  <2>1. CASE exit' = "running"
    <3>1. world' \in World /\ OwnToken(world') /\ creds' \in Reference
          /\ creds'.kind \in {"none", "ref"}
      BY <2>1, MainFits, SurfacesAssumption
    <3>. QED  BY <3>1 DEF WorldInv, OwnToken
  <2>2. CASE exit' # "running"
    BY <1>1, <2>2, MainFits DEF WorldInv, OwnToken
  <2>. QED  BY <2>1, <2>2
<1>3. world'.config \in Workspaces \cup {"none", "invalid"} /\ DOMAIN world'.rows \subseteq Sessions
  BY <1>2 DEF WorldInv, World
<1>4. FirstInv'
  BY MainFits DEF FirstInv
<1>5. CASE call' = call
  <2>1. CallInv'
    BY <1>1, <1>5 DEF CallInv, NoCall, Whole, NoOp, Op
  <2>2. VerdictInv'
    BY <1>1, MainFits DEF VerdictInv, Caused, Acted, Refused, NoVerdict, NoCall, NoOp, Op
  <2>3. TypeOK'
    BY <1>1, <1>3, <1>5, MainFits DEF TypeOK
  <2>. QED  BY <1>2, <1>4, <2>1, <2>2, <2>3 DEF SurfaceInv
<1>6. CASE call' # call
  <2>1. \E op : \E origin \in {"human", "operator"} :
            /\ call' = Begun(op, origin, 0)
            /\ origin = "operator" => op.class = "mutate" /\ ~readonly'
    BY <1>6, MainFits
  <2>. PICK op : \E origin \in {"human", "operator"} :
            /\ call' = Begun(op, origin, 0)
            /\ origin = "operator" => op.class = "mutate" /\ ~readonly'
    BY <2>1
  <2>. PICK origin \in {"human", "operator"} :
            /\ call' = Begun(op, origin, 0)
            /\ origin = "operator" => op.class = "mutate" /\ ~readonly'
    OBVIOUS
  <2>2. seen' = {world'}
    BY <1>1, BegunFits DEF Remember
  <2>3. CallInv'
    BY <2>2, BeginsWell
  <2>4. call'.at = "load" /\ call'.actor = NoOne /\ call'.ws = NoOne /\ call' # NoCall
    BY BegunFits
  <2>5. TypeOK'
    BY <1>1, <1>3, <2>4, MainFits DEF TypeOK
  <2>. QED  BY <1>2, <1>4, <2>3, <2>4, <2>5 DEF SurfaceInv, VerdictInv
<1>. QED  BY <1>5, <1>6

-----------------------------------------------------------------------------
LEMMA InitSurface == Init => SurfaceInv
<1>. SUFFICES ASSUME Init PROVE SurfaceInv
  OBVIOUS
<1>1. /\ call = NoCall /\ verdict = NoVerdict /\ world = NoWorld /\ creds = NoRef
      /\ argv \in Seq(Word) /\ exit = "running" /\ route = "none" /\ edits = 0
      /\ cut = 0 /\ {readonly, attach, open} \subseteq BOOLEAN
  BY SurfacesAssumption DEF Init
<1>2. NoRef \in Reference /\ NoRef.kind = "none"
  BY DEF NoRef, Reference
<1>3. NoWorld.rows = [s \in {} |-> NoOne] /\ NoWorld.config = "none" /\ NoWorld.pointer = NoRef
  BY DEF NoWorld
<1>4. [s \in {} |-> NoOne] \in [{} -> Workspaces] /\ DOMAIN [s \in {} |-> NoOne] = {}
  OBVIOUS
<1>5. [s \in {} |-> NoOne] \in UNION {[S -> Workspaces] : S \in SUBSET Sessions}
  BY <1>4
<1>6. NoWorld \in World /\ OwnToken(NoWorld)
  BY <1>2, <1>3, <1>5 DEF World, NoWorld, OwnToken
<1>7. WorldInv /\ FirstInv
  BY <1>1, <1>2, <1>6 DEF WorldInv, FirstInv
<1>8. CallInv
  BY <1>1 DEF CallInv, NoCall, Whole, NoOp, Op
<1>9. VerdictInv
  BY <1>1 DEF VerdictInv, Caused, Acted, Refused, NoVerdict, NoCall, NoOp, Op, MustProve
<1>10. TypeOK
  BY <1>1, <1>3, <1>4, SurfacesAssumption DEF TypeOK, NoCall
<1>. QED  BY <1>7, <1>8, <1>9, <1>10 DEF SurfaceInv

LEMMA SurfaceInductive == SurfaceInv /\ [Next]_vars => SurfaceInv'
<1>. SUFFICES ASSUME SurfaceInv, [Next]_vars PROVE SurfaceInv'
  OBVIOUS
<1>1. CASE Step /\ Remember
  <2>1. CASE Main
    BY <1>1, <2>1, MainStep
  <2>2. CASE UNCHANGED edits /\ CallStep
    BY <1>1, <2>2, LoadStep, ResolveStep, LookUpStep, WorkStep DEF CallStep
  <2>3. CASE Read \/ NextLine \/ ClientCloses \/ FinalLine \/ ServerExits
    BY <1>1, <2>3, ServerSteps
  <2>4. CASE Edit
    BY <1>1, <2>4, EditStep
  <2>. QED  BY <1>1, <2>1, <2>2, <2>3, <2>4 DEF Step
<1>2. CASE UNCHANGED vars
  BY <1>2 DEF vars, cliVars, callVars, mcpVars, SurfaceInv, TypeOK, CallInv, WorldInv,
              FirstInv, VerdictInv, Climbs, Compares, Caused, Acted, Refused,
              Resolved, Vouched, Offered, OwnToken
<1>. QED  BY <1>1, <1>2 DEF Next, Ended

(* However the pointer, the rows and the configuration change between the  *)
(* awaits of the ladder (context.ts, FileCurrentSessionResolver), an       *)
(* operation acts only for a Session that was vouched for at some instant  *)
(* of it, an agent is never anonymous, and a refusal names what was the    *)
(* case at some instant of the operation.                                  *)
THEOREM VerdictsAreCaused == Spec => []VerdictsHaveACause
<1>1. SurfaceInv => VerdictsHaveACause
  BY DEF SurfaceInv, VerdictInv, Caused, Acted, Refused, VerdictsHaveACause,
         ActsForAVouchedSession, RefusalsHaveACause
<1>. QED  BY <1>1, InitSurface, SurfaceInductive, PTL DEF Spec
--------------------------------------------------------------------------------
(***************************************************************************)
(* The words, before main has read them.                                   *)
(***************************************************************************)

(* The words that make main.ts withhold the ports, other than help.        *)
Withholding == {<<"doctor">>, <<"skills">>, <<"mcp", "add">>, <<"workspace">>}

LEMMA FirstOne ==
    ASSUME NEW S, NEW t \in Seq(S), Len(t) >= 1
    PROVE  SubSeq(t, 1, 1) = <<t[1]>>
<1>1. PICK w, u : w = SubSeq(t, 1, 1) /\ u = <<t[1]>>
  OBVIOUS
<1>2. w \in Seq(S) /\ Len(w) = 1 /\ w[1] = t[1]
  BY <1>1
<1>3. u \in Seq(S) /\ Len(u) = 1 /\ u[1] = t[1]
  BY <1>1
<1>4. Len(w) = Len(u) /\ \A i \in 1 .. Len(w) : w[i] = u[i]
  BY <1>2, <1>3
<1>5. w = u
  BY <1>2, <1>3, <1>4, SeqEqual
<1>. QED  BY <1>1, <1>5

LEMMA FirstTwo ==
    ASSUME NEW S, NEW t \in Seq(S), Len(t) >= 2
    PROVE  SubSeq(t, 1, 2) = <<t[1], t[2]>>
<1>1. /\ SubSeq(t, 1, 2) \in Seq(S) /\ Len(SubSeq(t, 1, 2)) = 2
      /\ SubSeq(t, 1, 2)[1] = t[1] /\ SubSeq(t, 1, 2)[2] = t[2]
  OBVIOUS
<1>2. PICK u : u = <<t[1], t[2]>>
  OBVIOUS
<1>3. u \in Seq(S) /\ Len(u) = 2 /\ u[1] = t[1] /\ u[2] = t[2]
  BY <1>2
<1>4. \A i \in 1 .. 2 : i = 1 \/ i = 2
  OBVIOUS
<1>. QED  BY <1>1, <1>2, <1>3, <1>4, SeqEqual

LEMMA FirstThree ==
    ASSUME NEW S, NEW t \in Seq(S), Len(t) >= 3
    PROVE  SubSeq(t, 1, 3) = <<t[1], t[2], t[3]>>
<1>1. /\ SubSeq(t, 1, 3) \in Seq(S) /\ Len(SubSeq(t, 1, 3)) = 3
      /\ SubSeq(t, 1, 3)[1] = t[1] /\ SubSeq(t, 1, 3)[2] = t[2] /\ SubSeq(t, 1, 3)[3] = t[3]
  OBVIOUS
<1>2. PICK u : u = <<t[1], t[2], t[3]>>
  OBVIOUS
<1>3. u \in Seq(S) /\ Len(u) = 3 /\ u[1] = t[1] /\ u[2] = t[2] /\ u[3] = t[3]
  BY <1>2
<1>4. \A i \in 1 .. 3 : i = 1 \/ i = 2 \/ i = 3
  OBVIOUS
<1>5. PICK w : w = SubSeq(t, 1, 3)
  OBVIOUS
<1>6. w \in Seq(S) /\ Len(w) = Len(u) /\ \A i \in 1 .. Len(w) : w[i] = u[i]
  BY <1>1, <1>3, <1>4, <1>5
<1>7. w = u
  BY <1>3, <1>6, SeqEqual
<1>. QED  BY <1>2, <1>5, <1>7

(* The texts of the words, as far as the first of them.                    *)
LEMMA TextsOfWords ==
    ASSUME NEW words \in Seq(Word)
    PROVE  /\ Len(Texts(words)) = Len(words) /\ \E S : Texts(words) \in Seq(S)
           /\ \A n \in 1 .. Len(words) : Texts(words)[n] = words[n].text
<1>1. PICK S : S = {words[n].text : n \in 1 .. Len(words)}
  OBVIOUS
<1>2. Texts(words) = [n \in 1 .. Len(words) |-> words[n].text] /\ Len(words) \in Nat
  BY DEF Texts
<1>3. Texts(words) \in [1 .. Len(words) -> S]
  BY <1>1, <1>2
<1>4. Texts(words) \in Seq(S) /\ Len(Texts(words)) = Len(words)
  BY <1>2, <1>3
<1>. QED  BY <1>2, <1>4

LEMMA FirstWords ==
    ASSUME NEW words \in Seq(Word), NEW begin \in Withholding, Begins(words, begin)
    PROVE  /\ Len(words) >= 1 /\ words[1].text = begin[1]
           /\ begin = <<"mcp", "add">> => Len(words) >= 2 /\ words[2].text = "add"
<1>1. Len(begin) \in {1, 2} /\ Len(words) >= Len(begin)
      /\ (begin = <<"mcp", "add">> => Len(begin) = 2 /\ begin[2] = "add")
  BY DEF Withholding, Begins
<1>2. PICK u : u = SubSeq(words, 1, Len(begin))
  OBVIOUS
<1>3. DOMAIN u = 1 .. Len(begin) /\ \A i \in 1 .. Len(begin) : u[i] = words[i]
  BY <1>1, <1>2
<1>4. Texts(u) = begin
  BY <1>2 DEF Begins
<1>5. \A i \in 1 .. Len(begin) : begin[i] = words[i].text
  BY <1>3, <1>4 DEF Texts
<1>6. Len(words) \in Nat /\ 1 \in 1 .. Len(begin)
  <2>1. PICK n : n = Len(begin) /\ n \in {1, 2}
    BY <1>1
  <2>. QED  BY <2>1
<1>7. Len(words) >= 1 /\ words[1].text = begin[1]
  BY <1>1, <1>5, <1>6
<1>8. ASSUME begin = <<"mcp", "add">>  PROVE Len(words) >= 2 /\ words[2].text = "add"
  <2>1. Len(begin) = 2 /\ begin[2] = "add"
    BY <1>1, <1>8
  <2>2. 2 \in 1 .. Len(begin)
    BY <2>1
  <2>. QED  BY <1>1, <1>5, <1>6, <2>1, <2>2
<1>. QED  BY <1>7, <1>8

LEMMA NoWordIs == NoWord \notin {"repo", "list", "add"}
  BY Zenon DEF NoWord

(* A command that begins like one of these needs none of the ports.        *)
LEMMA WithheldIsPortless ==
    ASSUME NEW words \in Seq(Word), NEW begin \in Withholding, Begins(words, begin),
           PathOf(words) # <<>>
    PROVE  PathOf(words) \in Portless
<1>1. PICK t : t = Texts(words)
  OBVIOUS
<1>2. PICK S : t \in Seq(S)
  BY <1>1, TextsOfWords
<1>3. Len(t) = Len(words) /\ Len(t) >= 1 /\ t[1] = begin[1] /\ Len(t) \in Nat
  BY <1>1, FirstWords, TextsOfWords
<1>. DEFINE at(n) == IF n <= Len(t) THEN t[n] ELSE NoWord
<1>4. PICK a, b, d : a = at(1) /\ b = at(2) /\ d = at(3)
  OBVIOUS
<1>5. /\ a = begin[1] /\ a = t[1]
      /\ b \in {"repo", "add"} => Len(t) >= 2 /\ t[2] = b
      /\ d = "list" => Len(t) >= 3 /\ t[3] = d
      /\ Len(t) >= 2 => b = t[2]
  BY <1>3, <1>4, NoWordIs
<1>6. PathOf(words) =
        IF a \in Direct \/ t = <<"mcp">> THEN SubSeq(t, 1, 1)
        ELSE IF a \notin DOMAIN Subcommands THEN <<>>
        ELSE IF b \notin Subcommands[a] THEN <<>>
        ELSE IF a # "workspace" THEN SubSeq(t, 1, 2)
        ELSE IF d = "list" THEN SubSeq(t, 1, 3) ELSE <<>>
  BY <1>1, <1>4, Zenon DEF PathOf
<1>. HIDE DEF at
<1>7. /\ DOMAIN Subcommands =
            {"session", "workspace", "profile", "message", "report", "mcp", "skills"}
      /\ Subcommands["mcp"] = {"add"} /\ Subcommands["skills"] = {"add"}
      /\ Subcommands["workspace"] = {"repo"}
  BY DEF Subcommands
<1>8. CASE begin = <<"doctor">>
  <2>1. a = "doctor" /\ t[1] = "doctor"
    BY <1>5, <1>8
  <2>2. PathOf(words) = SubSeq(t, 1, 1)
    BY <1>6, <2>1 DEF Direct
  <2>3. SubSeq(t, 1, 1) = <<"doctor">>
    BY <1>2, <1>3, <2>1, FirstOne
  <2>. QED  BY <2>2, <2>3 DEF Portless
<1>9. CASE begin = <<"skills">>
  <2>1. a = "skills" /\ t[1] = "skills"
    BY <1>5, <1>9
  <2>2. b = "add" /\ PathOf(words) = SubSeq(t, 1, 2)
    BY <1>6, <1>7, <2>1 DEF Direct
  <2>3. SubSeq(t, 1, 2) = <<"skills", "add">>
    BY <1>2, <1>5, <2>1, <2>2, FirstTwo
  <2>. QED  BY <2>2, <2>3 DEF Portless
<1>10. CASE begin = <<"mcp", "add">>
  <2>1. a = "mcp" /\ t[1] = "mcp"
    BY <1>5, <1>10
  <2>2. Len(t) >= 2 /\ t[2] = "add" /\ b = "add"
    BY <1>1, <1>3, <1>5, <1>10, FirstWords, TextsOfWords
  <2>3. t # <<"mcp">>
    BY <2>2
  <2>4. PathOf(words) = SubSeq(t, 1, 2)
    BY <1>6, <1>7, <2>1, <2>2, <2>3 DEF Direct
  <2>5. SubSeq(t, 1, 2) = <<"mcp", "add">>
    BY <1>2, <2>1, <2>2, FirstTwo
  <2>. QED  BY <2>4, <2>5 DEF Portless
<1>11. CASE begin = <<"workspace">>
  <2>1. a = "workspace" /\ t[1] = "workspace"
    BY <1>5, <1>11
  <2>2. b = "repo" /\ d = "list" /\ PathOf(words) = SubSeq(t, 1, 3)
    BY <1>6, <1>7, <2>1 DEF Direct
  <2>3. Len(t) >= 3 /\ t[2] = "repo" /\ t[3] = "list"
    BY <1>3, <1>5, <2>2
  <2>4. SubSeq(t, 1, 3) = <<"workspace", "repo", "list">>
    BY <1>2, <2>1, <2>3, FirstThree
  <2>. QED  BY <2>2, <2>4 DEF Portless
<1>. QED  BY <1>8, <1>9, <1>10, <1>11 DEF Withholding

(* What parseArgs takes for a command.                                     *)
LEMMA CommandsHavePaths ==
    ASSUME NEW words \in Seq(Word), ParseArgs(words).kind = "command"
    PROVE  /\ words # <<>> /\ ~IsVersion(words[1])
           /\ PathOf(words) # <<>> /\ ParseArgs(words).path = PathOf(words)
<1>1. \A kind, path, f : Result(kind, path, f).kind = kind /\ Result(kind, path, f).path = path
  BY DEF Result
<1>2. UsageError.kind = "error" /\ \A topic : HelpPage(topic).kind = "help"
  BY <1>1 DEF UsageError, HelpPage
<1>3. \A command, rest : HelpResult(command, rest).kind # "command"
  BY <1>2 DEF HelpResult
<1>4. \A path, args : ParseCommand(path, args).kind = "command"
          => ParseCommand(path, args).path = path
  BY <1>1, <1>2 DEF ParseCommand
<1>5. words # <<>> /\ ~IsVersion(words[1])
  BY <1>1, <1>2 DEF ParseArgs
<1>. QED  BY <1>1, <1>2, <1>3, <1>4, <1>5 DEF ParseArgs

LEMMA PortsAreLeft ==
    ASSUME NEW words \in Seq(Word), ParseArgs(words).kind = "command",
           ParseArgs(words).path \notin Portless, ~WantsHelp(words)
    PROVE  ~IsReadOnlyCommand(words)
<1>1. words # <<>> /\ ~IsVersion(words[1]) /\ PathOf(words) # <<>> /\ PathOf(words) \notin Portless
  BY CommandsHavePaths
<1>2. \A begin \in Withholding : ~Begins(words, begin)
  BY <1>1, WithheldIsPortless
<1>. QED  BY <1>1, <1>2 DEF IsReadOnlyCommand, Withholding

(* Whatever the words are: main.ts, which goes by the raw words, never     *)
(* withholds the store from a command that needs it, unless some word asks *)
(* for help (isReadOnlyCommand against parseArgs).                         *)
THEOREM PortsAreThere == Spec => []PortsSuffice
<1>1. SurfaceInv => PortsSuffice
  BY PortsAreLeft DEF SurfaceInv, FirstInv, PortsSuffice
<1>. QED  BY <1>1, InitSurface, SurfaceInductive, PTL DEF Spec

--------------------------------------------------------------------------------
(***************************************************************************)
(* The lines of the MCP client. The fragments of all lines, one line's     *)
(* behind the other's, are a table of offsets; what the server has not     *)
(* handled is what lies behind one of them.                                *)
(***************************************************************************)
(* Flattening a sequence of sequences: each in its turn behind the others. *)
Piled(s, k, heap) ==
    \A i \in 1 .. k : heap[i] = IF i = 1 THEN s[1] ELSE heap[i - 1] \o s[i]

LEMMA PilesUp ==
    ASSUME NEW S, NEW s \in Seq(Seq(S)), NEW n \in Nat, n = Len(s), NEW k \in 1 .. n
    PROVE  \E heap \in [1 .. k -> Seq(S)] : Piled(s, k, heap)
<1>. DEFINE Up(j) == \E heap \in [1 .. j -> Seq(S)] : Piled(s, j, heap)
            T == {j \in 1 .. n : ~Up(j)}
<1>1. SUFFICES ASSUME T # {} PROVE FALSE
  OBVIOUS
<1>2. T \in SUBSET Nat
  OBVIOUS
<1>3. PICK j \in T : \A l \in T : j <= l
  <2>. HIDE DEF T
  <2>. QED  BY <1>1, <1>2, LeastNumber
<1>4. j \in 1 .. n /\ ~Up(j)
  OBVIOUS
<1>5. s[j] \in Seq(S)
  BY <1>4
<1>6. CASE j = 1
  <2>1. PICK heap : heap = [i \in 1 .. 1 |-> s[1]]
    OBVIOUS
  <2>2. heap \in [1 .. 1 -> Seq(S)] /\ Piled(s, 1, heap)
    BY <1>5, <1>6, <2>1 DEF Piled
  <2>. QED  BY <1>4, <1>6, <2>2
<1>7. CASE j # 1
  <2>1. j - 1 \in 1 .. n /\ ~(j <= j - 1)
    BY <1>4, <1>7
  <2>0. j - 1 \notin T
    <3>. HIDE DEF T
    <3>. QED  BY <1>3, <2>1
  <2>2. PICK heap \in [1 .. j - 1 -> Seq(S)] : Piled(s, j - 1, heap)
    BY <2>0, <2>1
  <2>3. PICK G : G = [i \in 1 .. j |-> IF i = j THEN heap[j - 1] \o s[j] ELSE heap[i]]
    OBVIOUS
  <2>4. heap[j - 1] \in Seq(S)
    BY <2>1, <2>2
  <2>5. heap[j - 1] \o s[j] \in Seq(S)
    BY <1>5, <2>4
  <2>6. G \in [1 .. j -> Seq(S)]
    BY <1>4, <2>2, <2>3, <2>5
  <2>7. Piled(s, j, G)
    <3>1. SUFFICES ASSUME NEW i \in 1 .. j
                   PROVE  G[i] = IF i = 1 THEN s[1] ELSE G[i - 1] \o s[i]
      BY DEF Piled
    <3>2. CASE i = j
      <4>1. j - 1 \in 1 .. j /\ j - 1 # j /\ j \in 1 .. j
        BY <1>4, <1>7
      <4>2. G[i] = heap[j - 1] \o s[j] /\ G[i - 1] = heap[j - 1]
        BY <2>3, <3>2, <4>1
      <4>. QED  BY <1>7, <3>2, <4>2
    <3>3. CASE i # j
      <4>1. i \in 1 .. j - 1
        BY <1>4, <3>3
      <4>2. heap[i] = IF i = 1 THEN s[1] ELSE heap[i - 1] \o s[i]
        BY <2>2, <4>1 DEF Piled
      <4>3. G[i] = heap[i] /\ (i # 1 => G[i - 1] = heap[i - 1])
        <5>1. i # 1 => i - 1 \in 1 .. j /\ i - 1 # j
          BY <1>4, <4>1
        <5>. QED  BY <2>3, <3>3, <5>1
      <4>. QED  BY <4>2, <4>3
    <3>. QED  BY <3>2, <3>3
  <2>. QED  BY <1>4, <2>6, <2>7
<1>. QED  BY <1>6, <1>7

LEMMA OnePile ==
    ASSUME NEW s, NEW n \in Nat, NEW heap, Piled(s, n, heap), NEW G, Piled(s, n, G),
           NEW k \in 1 .. n
    PROVE  heap[k] = G[k]
<1>. DEFINE T == {j \in 1 .. n : heap[j] # G[j]}
<1>1. SUFFICES ASSUME T # {} PROVE FALSE
  OBVIOUS
<1>2. T \in SUBSET Nat
  OBVIOUS
<1>3. PICK j \in T : \A l \in T : j <= l
  <2>. HIDE DEF T
  <2>. QED  BY <1>1, <1>2, LeastNumber
<1>4. j \in 1 .. n /\ heap[j] # G[j]
  OBVIOUS
<1>5. /\ heap[j] = IF j = 1 THEN s[1] ELSE heap[j - 1] \o s[j]
      /\ G[j] = IF j = 1 THEN s[1] ELSE G[j - 1] \o s[j]
  BY <1>4 DEF Piled
<1>6. j # 1 => heap[j - 1] = G[j - 1]
  <2>1. j # 1 => j - 1 \in 1 .. n /\ ~(j <= j - 1)
    BY <1>4
  <2>2. j # 1 => j - 1 \notin T
    <3>. HIDE DEF T
    <3>. QED  BY <1>3, <2>1
  <2>. QED  BY <2>1, <2>2
<1>. QED  BY <1>4, <1>5, <1>6

LEMMA FlattenPiles ==
    ASSUME NEW S, NEW s \in Seq(Seq(S)), NEW n \in Nat \ {0}, n = Len(s)
    PROVE  \E heap \in [1 .. n -> Seq(S)] : Piled(s, n, heap) /\ FlattenSeq(s) = heap[n]
<1>1. PICK heap \in [1 .. n -> Seq(S)] : Piled(s, n, heap)
  BY PilesUp
<1>. DEFINE Up(H) == H = [i \in 1 .. n |-> IF i = 1 THEN s[i] ELSE H[i - 1] \o s[i]]
<1>2. Up(heap)
  BY <1>1 DEF Piled
<1>3. PICK G : G = CHOOSE H : Up(H)
  OBVIOUS
<1>4. Up(G)
  <2>. HIDE DEF Up
  <2>. QED  BY <1>2, <1>3
<1>5. FlattenSeq(s) = G[n]
  BY <1>3 DEF FlattenSeq
<1>6. Piled(s, n, G)
  <2>1. PICK D : D = 1 .. n
    OBVIOUS
  <2>2. G = [i \in D |-> IF i = 1 THEN s[i] ELSE G[i - 1] \o s[i]]
    BY <1>4, <2>1
  <2>3. \A i \in D : G[i] = IF i = 1 THEN s[i] ELSE G[i - 1] \o s[i]
    BY <2>2
  <2>. QED  BY <2>1, <2>3 DEF Piled
<1>7. heap[n] = G[n]
  <2>1. n \in 1 .. n
    OBVIOUS
  <2>. HIDE DEF Up
  <2>. HIDE DEF Up
  <2>. QED  BY <1>1, <1>6, <2>1, OnePile
<1>. QED  BY <1>1, <1>5, <1>7

(* What a client writes, fragment by fragment: line i begins behind the    *)
(* first off[i - 1] of them.                                               *)
Fragment == [line : Nat, half : 0 .. 2]
Size(line) == IF line.method = "blank" THEN 1 ELSE 3

LEMMA FragmentsFit ==
    ASSUME NEW lines \in Seq(Lines), NEW i \in 1 .. Len(lines), NEW frags,
           frags = Fragments(lines, i)
    PROVE  /\ frags \in Seq(Fragment) /\ Len(frags) = Size(lines[i])
           /\ Size(lines[i]) \in {1, 3}
           /\ frags[Size(lines[i])] = Newline
           /\ Size(lines[i]) = 3 =>
                 /\ frags[1] = [line |-> i, half |-> 1]
                 /\ frags[2] = [line |-> i, half |-> 2]
<1>1. Newline \in Fragment
  BY DEF Newline, Fragment
<1>2. i \in Nat
  OBVIOUS
<1>3. PICK a \in Fragment : a = [line |-> i, half |-> 1]
  <2>1. [line |-> i, half |-> 1] \in Fragment
    BY <1>2 DEF Fragment
  <2>. QED  BY <2>1
<1>4. PICK b \in Fragment : b = [line |-> i, half |-> 2]
  <2>1. [line |-> i, half |-> 2] \in Fragment
    BY <1>2 DEF Fragment
  <2>. QED  BY <2>1
<1>5. PICK c \in Fragment : c = Newline
  BY <1>1
<1>6. frags = IF lines[i].method = "blank" THEN <<c>> ELSE <<a, b, c>>
  BY <1>3, <1>4, <1>5 DEF Fragments
<1>7. CASE lines[i].method = "blank"
  BY <1>5, <1>6, <1>7 DEF Size
<1>8. CASE lines[i].method # "blank"
  BY <1>3, <1>4, <1>5, <1>6, <1>8 DEF Size
<1>. QED  BY <1>7, <1>8

Starts(lines, off) ==
    /\ off \in [0 .. Len(lines) -> Nat] /\ off[0] = 0
    /\ \A i \in 1 .. Len(lines) : off[i] = off[i - 1] + Size(lines[i])

Holds(lines, off, all, i) ==
    \A j \in 1 .. Size(lines[i]) : all[off[i - 1] + j] = Fragments(lines, i)[j]

Laid(lines, off, all, n) ==
    /\ all \in Seq(Fragment) /\ Len(all) = off[n]
    /\ \A i \in 1 .. n : Holds(lines, off, all, i)

LEMMA OffsetsRise ==
    ASSUME NEW lines \in Seq(Lines), NEW off, Starts(lines, off),
           NEW i \in 0 .. Len(lines), NEW k \in i .. Len(lines)
    PROVE  off[i] <= off[k]
<1>. DEFINE T == {l \in i .. Len(lines) : ~(off[i] <= off[l])}
<1>1. SUFFICES ASSUME T # {} PROVE FALSE
  OBVIOUS
<1>2. T \in SUBSET Nat
  OBVIOUS
<1>3. PICK l \in T : \A m \in T : l <= m
  <2>. HIDE DEF T
  <2>. QED  BY <1>1, <1>2, LeastNumber
<1>4. l \in i .. Len(lines) /\ ~(off[i] <= off[l]) /\ off[i] \in Nat /\ off[l] \in Nat
  BY DEF Starts
<1>5. l # i
  BY <1>4
<1>6. l - 1 \in i .. Len(lines) /\ ~(l <= l - 1) /\ l \in 1 .. Len(lines) /\ l - 1 \in 0 .. Len(lines)
  BY <1>4, <1>5
<1>7. l - 1 \notin T
  <2>. HIDE DEF T
  <2>. QED  BY <1>3, <1>6
<1>8. off[i] <= off[l - 1]
  BY <1>6, <1>7
<1>9. off[l] = off[l - 1] + Size(lines[l]) /\ off[l - 1] \in Nat
  BY <1>6 DEF Starts
<1>10. Size(lines[l]) \in Nat
  BY DEF Size
<1>. QED  BY <1>4, <1>8, <1>9, <1>10

LEMMA LaysNext ==
    ASSUME NEW lines \in Seq(Lines), NEW off, Starts(lines, off),
           NEW n \in 1 .. Len(lines), NEW all, Laid(lines, off, all, n - 1),
           NEW more, more = all \o Fragments(lines, n)
    PROVE  Laid(lines, off, more, n)
<1>1. PICK frags : frags = Fragments(lines, n)
  OBVIOUS
<1>2. frags \in Seq(Fragment) /\ Len(frags) = Size(lines[n]) /\ Size(lines[n]) \in Nat
  <2>1. frags \in Seq(Fragment) /\ Len(frags) = Size(lines[n])
    BY <1>1, FragmentsFit
  <2>. QED  BY <2>1
<1>3. all \in Seq(Fragment) /\ Len(all) = off[n - 1] /\ off[n - 1] \in Nat
      /\ off[n] = off[n - 1] + Size(lines[n])
  BY DEF Laid, Starts
<1>4. /\ more \in Seq(Fragment) /\ Len(more) = off[n]
      /\ \A j \in 1 .. Len(all) : more[j] = all[j]
      /\ \A j \in 1 .. Len(frags) : more[Len(all) + j] = frags[j]
  <2>1. /\ more \in Seq(Fragment) /\ Len(more) = Len(all) + Len(frags)
        /\ \A j \in 1 .. Len(all) + Len(frags) :
              more[j] = IF j <= Len(all) THEN all[j] ELSE frags[j - Len(all)]
    BY <1>1, <1>2, <1>3, ConcatProperties
  <2>2. Len(all) \in Nat /\ Len(frags) \in Nat
    BY <1>2, <1>3
  <2>3. \A j \in 1 .. Len(all) : j \in 1 .. Len(all) + Len(frags) /\ j <= Len(all)
    BY <2>2
  <2>4. \A j \in 1 .. Len(frags) : /\ Len(all) + j \in 1 .. Len(all) + Len(frags)
                                   /\ ~(Len(all) + j <= Len(all))
                                   /\ (Len(all) + j) - Len(all) = j
    BY <2>2
  <2>5. \A j \in 1 .. Len(all) : more[j] = all[j]
    BY <2>1, <2>3
  <2>6. \A j \in 1 .. Len(frags) : more[Len(all) + j] = frags[j]
    BY <2>1, <2>4
  <2>. QED  BY <1>2, <1>3, <2>1, <2>5, <2>6
<1>5. Holds(lines, off, more, n)
  BY <1>1, <1>2, <1>3, <1>4 DEF Holds
<1>6. ASSUME NEW i \in 1 .. n - 1
      PROVE  Holds(lines, off, more, i)
  <2>1. /\ i \in 0 .. Len(lines) /\ n - 1 \in i .. Len(lines)
        /\ i \in 1 .. Len(lines) /\ i - 1 \in 0 .. Len(lines)
    OBVIOUS
  <2>2. off[i] <= off[n - 1]
    BY <2>1, OffsetsRise
  <2>3. off[i] = off[i - 1] + Size(lines[i]) /\ off[i - 1] \in Nat
    BY <2>1 DEF Starts
  <2>4. Size(lines[i]) \in Nat /\ Holds(lines, off, all, i)
    BY <1>2 DEF Size, Laid
  <2>5. \A j \in 1 .. Size(lines[i]) : off[i - 1] + j \in 1 .. Len(all)
    BY <1>3, <2>2, <2>3, <2>4
  <2>. QED  BY <1>4, <2>4, <2>5 DEF Holds
<1>7. \A i \in 1 .. n : i \in 1 .. n - 1 \/ i = n
  OBVIOUS
<1>. QED  BY <1>4, <1>5, <1>6, <1>7 DEF Laid

LEMMA ScriptIsLaid ==
    ASSUME NEW lines \in Seq(Lines) \ {<<>>}, NEW all,
           all = FlattenSeq([i \in DOMAIN lines |-> Fragments(lines, i)])
    PROVE  \E off : Starts(lines, off) /\ Laid(lines, off, all, Len(lines))
<1>1. PICK n \in Nat \ {0} : n = Len(lines)
  OBVIOUS
<1>2. PICK s : s = [i \in 1 .. n |-> Fragments(lines, i)]
  OBVIOUS
<1>3. s \in Seq(Seq(Fragment)) /\ Len(s) = n
  <2>1. \A i \in 1 .. n : Fragments(lines, i) \in Seq(Fragment)
    BY <1>1, FragmentsFit
  <2>. QED  BY <1>2, <2>1
<1>4. PICK heap \in [1 .. n -> Seq(Fragment)] : Piled(s, n, heap) /\ FlattenSeq(s) = heap[n]
  BY <1>3, FlattenPiles
<1>5. all = heap[n]
  <2>1. [i \in DOMAIN lines |-> Fragments(lines, i)] = s
    BY <1>1, <1>2
  <2>. QED  BY <1>4, <2>1
<1>6. PICK off : off = [i \in 0 .. n |-> IF i = 0 THEN 0 ELSE Len(heap[i])]
  OBVIOUS
<1>7. ASSUME NEW i \in 1 .. n
      PROVE  /\ s[i] = Fragments(lines, i) /\ s[i] \in Seq(Fragment)
             /\ Len(s[i]) = Size(lines[i]) /\ heap[i] \in Seq(Fragment)
             /\ off[i] = Len(heap[i]) /\ off[i] \in Nat
  <2>1. s[i] = Fragments(lines, i)
    BY <1>2
  <2>2. s[i] \in Seq(Fragment) /\ Len(s[i]) = Size(lines[i])
    <3>1. PICK frags : frags = Fragments(lines, i)
      OBVIOUS
    <3>2. lines \in Seq(Lines) /\ i \in 1 .. Len(lines)
      BY <1>1
    <3>3. frags \in Seq(Fragment) /\ Len(frags) = Size(lines[i])
      BY <3>1, <3>2, FragmentsFit
    <3>. QED  BY <2>1, <3>1, <3>3
  <2>3. heap[i] \in Seq(Fragment)
    BY <1>4
  <2>4. off[i] = Len(heap[i])
    BY <1>6
  <2>. QED  BY <2>1, <2>2, <2>3, <2>4
<1>8. heap[1] = s[1] /\ 1 \in 1 .. n /\ off[0] = 0
  <2>1. 1 \in 1 .. n
    OBVIOUS
  <2>2. heap[1] = s[1]
    BY <1>4, <2>1 DEF Piled
  <2>. QED  BY <1>6, <2>1, <2>2
<1>9. \A i \in 1 .. n : i # 1 => heap[i] = heap[i - 1] \o s[i] /\ i - 1 \in 1 .. n
  <2>1. \A i \in 1 .. n : i # 1 => i - 1 \in 1 .. n
    OBVIOUS
  <2>. QED  BY <1>4, <2>1 DEF Piled
<1>10. Starts(lines, off)
  <2>1. off \in [0 .. n -> Nat]
    BY <1>6, <1>7
  <2>2. ASSUME NEW i \in 1 .. n
        PROVE  off[i] = off[i - 1] + Size(lines[i])
    <3>1. CASE i = 1
      BY <1>7, <1>8, <3>1
    <3>2. CASE i # 1
      <4>1. heap[i] = heap[i - 1] \o s[i] /\ i - 1 \in 1 .. n
        BY <1>9, <3>2
      <4>2. Len(heap[i]) = Len(heap[i - 1]) + Len(s[i])
        BY <1>7, <4>1, ConcatProperties
      <4>. QED  BY <1>7, <4>1, <4>2
    <3>. QED  BY <3>1, <3>2
  <2>. QED  BY <1>1, <1>8, <2>1, <2>2 DEF Starts
<1>11. Laid(lines, off, heap[n], n)
  <2>. DEFINE T == {i \in 1 .. n : ~Laid(lines, off, heap[i], i)}
  <2>1. SUFFICES ASSUME T # {} PROVE FALSE
    BY <1>1
  <2>2. T \in SUBSET Nat
    OBVIOUS
  <2>3. PICK l \in T : \A m \in T : l <= m
    <3>. HIDE DEF T
    <3>. QED  BY <2>1, <2>2, LeastNumber
  <2>4. l \in 1 .. n /\ ~Laid(lines, off, heap[l], l)
    OBVIOUS
  <2>5. CASE l = 1
    <3>1. Laid(lines, off, <<>>, 0)
      BY <1>8 DEF Laid
    <3>2. <<>> \o s[1] = s[1]
      BY <1>7, <1>8
    <3>3. heap[1] = <<>> \o Fragments(lines, 1)
      BY <1>7, <1>8, <3>2
    <3>4. 1 - 1 = 0 /\ 1 \in 1 .. Len(lines)
      BY <1>1
    <3>5. Laid(lines, off, heap[1], 1)
      BY <1>10, <3>1, <3>3, <3>4, LaysNext
    <3>. QED  BY <2>4, <2>5, <3>5
  <2>6. CASE l # 1
    <3>1. l - 1 \in 1 .. n /\ ~(l <= l - 1)
      BY <2>4, <2>6
    <3>2. l - 1 \notin T
      <4>. HIDE DEF T
      <4>. QED  BY <2>3, <3>1
    <3>3. Laid(lines, off, heap[l - 1], l - 1)
      BY <3>1, <3>2
    <3>4. heap[l] = heap[l - 1] \o Fragments(lines, l)
      BY <1>7, <1>9, <2>4, <2>6
    <3>. QED  BY <1>1, <1>10, <2>4, <3>3, <3>4, LaysNext
  <2>. QED  BY <2>5, <2>6
<1>. QED  BY <1>1, <1>5, <1>10, <1>11

(***************************************************************************)
(* The turns of the lines.                                                 *)
(***************************************************************************)
UpToLine(A, i) == {j \in A : j <= i}
Rank(A, i) == Cardinality(UpToLine(A, i))

LEMMA RankFits ==
    ASSUME NEW n \in Nat, NEW A \in SUBSET (1 .. n), NEW i \in 0 .. n
    PROVE  /\ IsFiniteSet(A) /\ Cardinality(A) \in Nat
           /\ IsFiniteSet(UpToLine(A, i)) /\ UpToLine(A, i) \in SUBSET A
           /\ Rank(A, i) \in Nat /\ Rank(A, i) <= Cardinality(A)
           /\ Rank(A, 0) = 0
<1>1. IsFiniteSet(1 .. n)
  <2>1. 1 \in Int /\ n \in Int
    OBVIOUS
  <2>. QED  BY <2>1, FS_Interval
<1>2. IsFiniteSet(A)
  BY <1>1, FS_Subset
<1>3. UpToLine(A, i) \in SUBSET A
  BY DEF UpToLine
<1>4. /\ IsFiniteSet(UpToLine(A, i))
      /\ Cardinality(UpToLine(A, i)) <= Cardinality(A)
  BY <1>2, <1>3, FS_Subset
<1>5. Cardinality(A) \in Nat /\ Cardinality(UpToLine(A, i)) \in Nat
  BY <1>2, <1>4, FS_CardinalityType
<1>6. UpToLine(A, 0) = {}
  <2>1. \A j \in A : j \in 1 .. n /\ ~(j <= 0)
    OBVIOUS
  <2>. QED  BY <2>1 DEF UpToLine
<1>7. Rank(A, 0) = 0
  BY <1>6, FS_EmptySet DEF Rank
<1>. QED  BY <1>2, <1>3, <1>4, <1>5, <1>7 DEF Rank

LEMMA RankNext ==
    ASSUME NEW n \in Nat, NEW A \in SUBSET (1 .. n), NEW i \in 1 .. n
    PROVE  Rank(A, i) = Rank(A, i - 1) + (IF i \in A THEN 1 ELSE 0)
<1>1. /\ IsFiniteSet(UpToLine(A, i - 1)) /\ Cardinality(UpToLine(A, i - 1)) \in Nat
  <2>1. i - 1 \in 0 .. n
    OBVIOUS
  <2>. QED  BY <2>1, RankFits DEF Rank
<1>2. \A j \in A : (j <= i <=> j <= i - 1 \/ j = i) /\ i <= i /\ ~(i <= i - 1)
  OBVIOUS
<1>3. CASE i \in A
  <2>1. UpToLine(A, i) = UpToLine(A, i - 1) \cup {i} /\ i \notin UpToLine(A, i - 1)
    BY <1>2, <1>3 DEF UpToLine
  <2>2. Cardinality(UpToLine(A, i - 1) \cup {i}) = Cardinality(UpToLine(A, i - 1)) + 1
    BY <1>1, <2>1, FS_AddElement
  <2>. QED  BY <1>3, <2>1, <2>2 DEF Rank
<1>4. CASE i \notin A
  <2>1. UpToLine(A, i) = UpToLine(A, i - 1)
    BY <1>2, <1>4 DEF UpToLine
  <2>. QED  BY <1>1, <1>4, <2>1 DEF Rank
<1>. QED  BY <1>3, <1>4

LEMMA RankRises ==
    ASSUME NEW n \in Nat, NEW A \in SUBSET (1 .. n), NEW i \in 0 .. n, NEW k \in 1 .. n,
           i < k
    PROVE  /\ Rank(A, i) <= Rank(A, k)
           /\ k \in A => Rank(A, i) < Rank(A, k)
<1>1. /\ UpToLine(A, i) \in SUBSET UpToLine(A, k - 1)
      /\ UpToLine(A, i) \in SUBSET A
  <2>1. \A j \in A : j <= i => j <= k - 1
    OBVIOUS
  <2>. QED  BY <2>1 DEF UpToLine
<1>2. k - 1 \in 0 .. n /\ k \in 0 .. n
  OBVIOUS
<1>3. /\ IsFiniteSet(UpToLine(A, k - 1)) /\ Rank(A, k - 1) \in Nat /\ Rank(A, k) \in Nat
      /\ Rank(A, i) \in Nat
  BY <1>2, RankFits
<1>4. Rank(A, i) <= Rank(A, k - 1)
  BY <1>1, <1>3, FS_Subset DEF Rank
<1>5. Rank(A, k) = Rank(A, k - 1) + (IF k \in A THEN 1 ELSE 0)
  BY RankNext
<1>. QED  BY <1>3, <1>4, <1>5

(***************************************************************************)
(* What the server has handled of its client's lines.                      *)
(***************************************************************************)
Kinds == {"parse_error", "method_not_found", "invalid_params", "result", "tool_error",
          "internal_error", "call"}
Responses == [id : Nat, kind : Kinds]

(* The fragments behind the first h lines are in the buffer and the pipe.  *)
Placed(off, all, h) ==
    IF h = Len(script) THEN buffer = <<>> /\ pipe = <<>>
    ELSE /\ Len(buffer) + Len(pipe) = Len(all) - cut - off[h]
         /\ \A j \in 1 .. Len(buffer) : buffer[j] = all[off[h] + j]
         /\ \A j \in 1 .. Len(pipe) : pipe[j] = all[off[h] + Len(buffer) + j]

(* The first h lines have their answers, but for the one of a call under   *)
(* way, which is the answer to the last of them.                           *)
Spoken(h) ==
    /\ Len(answers) + (IF call = NoCall THEN 0 ELSE 1) = Turn(h)
    /\ \A i \in Answerable :
          i <= h /\ (call = NoCall \/ i # h) => Answers(answers[Turn(i)], i)
    /\ call # NoCall =>
          h \in Answerable /\ call.line = h /\ Immediate(SentLine(h)) = "call"

Handled(off, all, h) == Placed(off, all, h) /\ Spoken(h)

Wrote(off, all) ==
    /\ script \in Seq(Lines) \ {<<>>} /\ cut \in 0 .. 2
    /\ script[Len(script)].method = "blank" => cut = 0
    /\ Starts(script, off) /\ Laid(script, off, all, Len(script))

LinesInv ==
    /\ answers \in Seq(Responses)
    /\ route # "mcp" => script = <<>> /\ answers = <<>>
    /\ route = "none" => buffer = <<>> /\ open = TRUE
    /\ route = "mcp" =>
          /\ buffer \in Seq(Fragment) /\ pipe \in Seq(Fragment)
          /\ open = FALSE => pipe = <<>> /\ ~HasNewline(buffer)
          /\ \E off, all : Wrote(off, all) /\ \E h \in 0 .. Len(script) : Handled(off, all, h)

LEMMA TurnIsRank ==
    ASSUME NEW i
    PROVE  Turn(i) = Rank(Answerable, i) /\ Answerable \in SUBSET DOMAIN script
  BY DEF Turn, Rank, UpToLine, Answerable

(* Answers in order.                                                       *)
LEMMA SpokenFollows ==
    ASSUME NEW n \in Nat, DOMAIN script = 1 .. n, Len(script) = n, NEW h \in 0 .. n,
           Spoken(h), answers \in Seq(Responses)
    PROVE  AnswersFollowTheLines
<1>1. Answerable \in SUBSET (1 .. n) /\ \A i : Turn(i) = Rank(Answerable, i)
  BY TurnIsRank
<1>2. Len(answers) \in Nat /\ DOMAIN answers = 1 .. Len(answers)
  OBVIOUS
<1>3. Turn(h) \in Nat /\ Turn(h) <= Cardinality(Answerable) /\ Cardinality(Answerable) \in Nat
  BY <1>1, RankFits
<1>4. Len(answers) <= Turn(h) /\ (call # NoCall => Turn(h) = Len(answers) + 1)
  BY <1>2 DEF Spoken
<1>5. Len(answers) <= Cardinality(Answerable)
  BY <1>2, <1>3, <1>4
<1>6. ASSUME NEW i \in Answerable, Turn(i) \in DOMAIN answers
      PROVE  Answers(answers[Turn(i)], i)
  <2>1. i \in 1 .. n /\ Turn(i) <= Len(answers) /\ Turn(i) \in Nat
    BY <1>1, <1>2, <1>6
  <2>2. i <= h
    <3>1. SUFFICES ASSUME h < i PROVE FALSE
      BY <2>1
    <3>2. Rank(Answerable, h) < Rank(Answerable, i)
      BY <1>1, <2>1, <3>1, RankRises
    <3>. QED  BY <1>1, <1>2, <1>3, <1>4, <2>1, <3>2
  <2>3. call = NoCall \/ i # h
    BY <1>2, <1>3, <1>4, <2>1
  <2>. QED  BY <2>2, <2>3 DEF Spoken
<1>7. ASSUME call # NoCall
      PROVE  /\ call.line \in Answerable /\ ~NotifiedIn(script[call.line])
             /\ Turn(call.line) = Len(answers) + 1
  <2>1. h \in Answerable /\ call.line = h /\ Immediate(SentLine(h)) = "call"
    BY <1>7 DEF Spoken
  <2>2. Immediate(Garbage) # "call"
    BY DEF Immediate, Garbage, Line, NoOp, Op
  <2>3. SentLine(h) = script[h]
    BY <2>1, <2>2 DEF SentLine
  <2>4. ~Silent(script[h])
    BY <2>1, <2>3 DEF Answerable
  <2>. QED  BY <1>4, <1>7, <2>1, <2>4 DEF Silent, NotifiedIn
<1>. QED  BY <1>5, <1>6, <1>7 DEF AnswersFollowTheLines

(***************************************************************************)
(* The steps of the server.                                                *)
(***************************************************************************)

(* The parts that a step leaves alone that touches no line.                *)
LEMMA LinesStay ==
    ASSUME LinesInv,
           UNCHANGED <<route, script, cut, pipe, buffer, open, answers>>,
           call = NoCall <=> call' = NoCall, call'.line = call.line
    PROVE  LinesInv'
<1>1. \A i : /\ SentLine(i)' = SentLine(i) /\ Turn(i)' = Turn(i) /\ Answerable' = Answerable
             /\ HasNewline(buffer)' <=> HasNewline(buffer)
  BY DEF SentLine, Turn, Answerable, HasNewline
<1>2. \A r, i : Answers(r, i)' <=> Answers(r, i)
  BY <1>1 DEF Answers
<1>3. \A h : Spoken(h) => Spoken(h)'
  BY <1>1, <1>2 DEF Spoken
<1>4. \A off, all, h : Placed(off, all, h) => Placed(off, all, h)'
  BY DEF Placed
<1>5. \A off, all : Wrote(off, all) => Wrote(off, all)'
  BY DEF Wrote
<1>. QED  BY <1>1, <1>3, <1>4, <1>5 DEF LinesInv, Handled

LEMMA CallGoesOn ==
    ASSUME SurfaceInv, CallStep
    PROVE  /\ call # NoCall
           /\ \/ \E code : Ends(code)
              \/ \E c : Goes(c) /\ c.line = call.line /\ c # NoCall
<1>1. call.at # "none" /\ Whole(call)
  BY DEF CallStep, Load, Resolve, LookUp, Work, Ready, SurfaceInv, CallInv
<1>2. call # NoCall /\ \A c : c.at # "none" => c # NoCall
  BY <1>1 DEF NoCall
<1>3. PICK a, o, g, t, r, p, w, l :
          call = [at |-> a, op |-> o, origin |-> g, todo |-> t, ref |-> r,
                  actor |-> p, ws |-> w, line |-> l]
  BY <1>1 DEF Whole
<1>4. CASE Load
  BY <1>2, <1>3, <1>4 DEF Load
<1>5. CASE Resolve
  <2>1. ASSUME NEW ref
        PROVE  /\ [call EXCEPT !.todo = <<>>].line = call.line
               /\ [call EXCEPT !.todo = <<>>].at = call.at
               /\ [call EXCEPT !.todo = Tail(@)].line = call.line
               /\ [call EXCEPT !.todo = Tail(@)].at = call.at
               /\ [call EXCEPT !.at = "lookup", !.ref = ref].line = call.line
               /\ [call EXCEPT !.at = "lookup", !.ref = ref].at # "none"
    BY <1>3
  <2>. QED  BY <1>1, <1>2, <1>5, <2>1 DEF Resolve
<1>6. CASE LookUp
  <2>1. PICK c : c = [call EXCEPT !.at = "auth", !.actor = call.ref.id, !.todo = Tail(@)]
    OBVIOUS
  <2>2. c.line = call.line /\ c.at = "auth"
    BY <1>3, <2>1
  <2>3. (\E code : Ends(code)) \/ Goes(c)
    BY <1>6, <2>1 DEF LookUp
  <2>. QED  BY <1>2, <2>2, <2>3
<1>7. CASE Work
  BY <1>2, <1>7 DEF Work
<1>. QED  BY <1>2, <1>4, <1>5, <1>6, <1>7 DEF CallStep

(* A response to line h behind those of the lines before it.               *)
LEMMA OneMoreAnswer ==
    ASSUME NEW n \in Nat, DOMAIN script = 1 .. n, NEW h \in Answerable,
           answers \in Seq(Responses), Len(answers) + 1 = Turn(h),
           \A i \in Answerable : i < h => Answers(answers[Turn(i)], i),
           NEW r \in Responses, Answers(r, h), NEW more, more = Append(answers, r)
    PROVE  /\ more \in Seq(Responses) /\ Len(more) = Turn(h)
           /\ \A i \in Answerable : i <= h => Answers(more[Turn(i)], i)
<1>1. Answerable \in SUBSET (1 .. n) /\ \A i : Turn(i) = Rank(Answerable, i)
  BY TurnIsRank
<1>2. /\ more \in Seq(Responses) /\ Len(more) = Len(answers) + 1 /\ Len(answers) \in Nat
      /\ more[Len(answers) + 1] = r
      /\ \A k \in 1 .. Len(answers) : more[k] = answers[k]
  BY AppendProperties
<1>3. ASSUME NEW i \in Answerable, i < h
      PROVE  Turn(i) \in 1 .. Len(answers)
  <2>1. i \in 1 .. n /\ h \in 1 .. n /\ i \in 0 .. n /\ 0 \in 0 .. n /\ 0 < i
    BY <1>1
  <2>2. Rank(Answerable, i) < Rank(Answerable, h)
    BY <1>1, <1>3, <2>1, RankRises
  <2>3. Rank(Answerable, 0) < Rank(Answerable, i)
    BY <1>1, <2>1, RankRises
  <2>4. Rank(Answerable, 0) = 0 /\ Rank(Answerable, i) \in Nat
    BY <1>1, <2>1, RankFits
  <2>. QED  BY <1>1, <1>2, <2>2, <2>3, <2>4
<1>4. ASSUME NEW i \in Answerable, i <= h
      PROVE  Answers(more[Turn(i)], i)
  <2>1. CASE i = h
    BY <1>2, <2>1
  <2>2. CASE i < h
    BY <1>2, <1>3, <2>2
  <2>3. i \in Nat /\ h \in Nat
    BY <1>1
  <2>4. i = h \/ i < h
    BY <1>4, <2>3
  <2>. QED  BY <2>1, <2>2, <2>4
<1>. QED  BY <1>2, <1>4

(* The call under way is answered.                                         *)
LEMMA EndAnswers ==
    ASSUME LinesInv, call # NoCall, NEW code, Ends(code)
    PROVE  LinesInv'
<1>1. UNCHANGED <<route, script, cut, pipe, buffer, open>>
  BY DEF Ends
<1>2. CASE route # "mcp"
  BY <1>1, <1>2 DEF LinesInv, Ends
<1>3. CASE route = "mcp"
  <2>1. PICK off, all : Wrote(off, all) /\ \E h \in 0 .. Len(script) : Handled(off, all, h)
    BY <1>3 DEF LinesInv
  <2>2. PICK h \in 0 .. Len(script) : Handled(off, all, h)
    BY <2>1
  <2>3. call' = NoCall /\ answers' = Append(answers, Response(call.line, Kind(code)))
    BY <1>3 DEF Ends
  <2>4. h \in Answerable /\ call.line = h /\ Immediate(SentLine(h)) = "call"
    BY <2>2 DEF Handled, Spoken
  <2>5. /\ answers \in Seq(Responses) /\ Len(answers) + 1 = Turn(h)
        /\ \A i \in Answerable : i < h => Answers(answers[Turn(i)], i)
    BY <2>2 DEF Handled, Spoken, LinesInv, Answerable
  <2>6. PICK r : r = Response(h, Kind(code))
    OBVIOUS
  <2>7. r \in Responses
    <3>1. Kind(code) \in {"result", "tool_error", "internal_error"}
      BY DEF Kind
    <3>2. Kind(code) \in Kinds
      BY <3>1 DEF Kinds
    <3>3. h \in Nat
      OBVIOUS
    <3>. QED  BY <2>4, <2>6, <3>2, <3>3 DEF Responses, Response
  <2>8. Answers(r, h)
    <3>1. SentLine(h).json
      BY <2>4 DEF Immediate
    <3>2. r.id = h /\ r.kind \in {"result", "tool_error", "internal_error"}
      BY <2>6 DEF Response, Kind
    <3>. QED  BY <2>4, <3>1, <3>2 DEF Answers, Admissible
  <2>9. PICK n \in Nat : n = Len(script) /\ DOMAIN script = 1 .. n
    BY <2>1 DEF Wrote
  <2>10. /\ answers' \in Seq(Responses) /\ Len(answers') = Turn(h)
         /\ \A i \in Answerable : i <= h => Answers(answers'[Turn(i)], i)
    BY <2>3, <2>4, <2>5, <2>6, <2>7, <2>8, <2>9, OneMoreAnswer
  <2>11. /\ Answerable' = Answerable /\ \A i : Turn(i)' = Turn(i)
         /\ \A a, i : Answers(a, i)' <=> Answers(a, i)
         /\ HasNewline(buffer)' <=> HasNewline(buffer)
    BY <1>1 DEF Answerable, Turn, Answers, SentLine, HasNewline
  <2>12. Spoken(h)'
    <3>1. PICK m : m = answers'
      OBVIOUS
    <3>2. \A i \in Answerable : i <= h => Answers(m[Turn(i)], i)
      BY <2>10, <3>1
    <3>3. Len(m) = Turn(h) /\ Len(m) \in Nat
      BY <2>10, <3>1
    <3>4. NoCall' = NoCall
      BY DEF NoCall, NoOp, Op, NoRef
    <3>5. Len(m) + 0 = Turn(h)
      BY <3>3
    <3>. QED  BY <2>3, <2>11, <3>1, <3>2, <3>4, <3>5 DEF Spoken
  <2>13. Placed(off, all, h)' /\ Wrote(off, all)'
    BY <1>1, <2>1, <2>2 DEF Placed, Wrote, Handled
  <2>14. Len(script') = Len(script)
    BY <1>1
  <2>. QED  BY <1>1, <1>3, <2>10, <2>11, <2>12, <2>13, <2>14 DEF LinesInv, Handled
<1>. QED  BY <1>2, <1>3

(* What the server makes of the fragments of a line is that line.          *)
Reads(fragments, i) ==
    LET line == Assembled(fragments)
    IN  /\ Silent(line) <=> Silent(SentLine(i))
        /\ ~Silent(line) => /\ line = SentLine(i)
                            /\ IdOf(fragments) = IF line.json THEN i ELSE 0

(* The next line is handled.                                               *)
LEMMA HandlesNext ==
    ASSUME NEW n \in Nat, DOMAIN script = 1 .. n, NEW h \in 1 .. n, Spoken(h - 1),
           answers \in Seq(Responses), call = NoCall, UNCHANGED <<script, cut>>,
           NEW fragments, Reads(fragments, h), Handle(fragments)
    PROVE  answers' \in Seq(Responses) /\ Spoken(h)'
<1>1. Answerable \in SUBSET (1 .. n) /\ \A i : Turn(i) = Rank(Answerable, i)
  BY TurnIsRank
<1>2. /\ Answerable' = Answerable /\ \A i : Turn(i)' = Turn(i) /\ SentLine(i)' = SentLine(i)
      /\ \A a, i : Answers(a, i)' <=> Answers(a, i)
  BY DEF Answerable, Turn, Answers, SentLine
<1>3. /\ Len(answers) = Turn(h - 1) /\ Len(answers) \in Nat
      /\ \A i \in Answerable : i <= h - 1 => Answers(answers[Turn(i)], i)
  BY DEF Spoken
<1>4. \A i \in Answerable : /\ i < h <=> i <= h - 1
                            /\ i <= h <=> (i = h \/ i <= h - 1)
  BY <1>1
<1>5. h \in Answerable <=> ~Silent(SentLine(h))
  BY DEF Answerable
<1>6. Turn(h) = Turn(h - 1) + (IF h \in Answerable THEN 1 ELSE 0)
  BY <1>1, RankNext
<1>7. PICK line : line = Assembled(fragments)
  OBVIOUS
<1>8. CASE Silent(line)
  <2>1. h \notin Answerable /\ UNCHANGED <<call, answers>>
    BY <1>5, <1>7, <1>8 DEF Reads, Handle
  <2>2. Len(answers) = Turn(h)
    BY <1>3, <1>6, <2>1
  <2>3. \A i \in Answerable : i <= h => Answers(answers[Turn(i)], i)
    BY <1>3, <1>4, <2>1
  <2>4. PICK m : m = answers
    OBVIOUS
  <2>. QED  BY <1>2, <1>3, <2>1, <2>2, <2>3, <2>4 DEF Spoken
<1>9. CASE ~Silent(line) /\ Immediate(line) = "call"
  <2>1. /\ h \in Answerable /\ line = SentLine(h) /\ answers' = answers
        /\ IdOf(fragments) = IF line.json THEN h ELSE 0
        /\ call' = Begun(line.op, "agent", IdOf(fragments))
    BY <1>5, <1>7, <1>9 DEF Reads, Handle
  <2>2. line.json
    BY <1>9 DEF Immediate
  <2>3. call' # NoCall /\ call'.line = h
    BY <2>1, <2>2, BegunFits
  <2>4. Len(answers) + 1 = Turn(h)
    BY <1>3, <1>6, <2>1
  <2>5. NoCall' = NoCall
    BY DEF NoCall, NoOp, Op, NoRef
  <2>6. \A i \in Answerable : i <= h /\ i # h => Answers(answers[Turn(i)], i)
    BY <1>3, <1>4
  <2>7. Immediate(SentLine(h)) = "call"
    BY <1>9, <2>1
  <2>8. Immediate(SentLine(h))' = "call"
    BY <1>2, <2>7 DEF Immediate
  <2>. QED  BY <1>2, <2>1, <2>3, <2>4, <2>5, <2>6, <2>8 DEF Spoken
<1>10. CASE ~Silent(line) /\ Immediate(line) # "call"
  <2>1. /\ h \in Answerable /\ line = SentLine(h) /\ call' = call
        /\ IdOf(fragments) = IF line.json THEN h ELSE 0
        /\ answers' = Append(answers, Response(IdOf(fragments), Immediate(line)))
    BY <1>5, <1>7, <1>10 DEF Reads, Handle
  <2>2. PICK r : r = Response(IdOf(fragments), Immediate(line))
    OBVIOUS
  <2>3. r \in Responses
    <3>1. Immediate(line) \in Kinds
      BY DEF Immediate, Kinds
    <3>2. IdOf(fragments) \in Nat
      BY <2>1
    <3>. QED  BY <2>2, <3>1, <3>2 DEF Responses, Response
  <2>4. Answers(r, h)
    BY <1>10, <2>1, <2>2 DEF Answers, Response, Admissible
  <2>5. Len(answers) + 1 = Turn(h)
    BY <1>3, <1>6, <2>1
  <2>6. \A i \in Answerable : i < h => Answers(answers[Turn(i)], i)
    BY <1>3, <1>4
  <2>7. /\ answers' \in Seq(Responses) /\ Len(answers') = Turn(h)
        /\ \A i \in Answerable : i <= h => Answers(answers'[Turn(i)], i)
    BY <2>1, <2>2, <2>3, <2>4, <2>5, <2>6, OneMoreAnswer
  <2>8. PICK m : m = answers'
    OBVIOUS
  <2>9. /\ Len(m) = Turn(h) /\ Len(m) \in Nat
        /\ \A i \in Answerable : i <= h => Answers(m[Turn(i)], i)
    BY <2>7, <2>8
  <2>10. NoCall' = NoCall
    BY DEF NoCall, NoOp, Op, NoRef
  <2>11. Len(m) + 0 = Turn(h)
    BY <2>9
  <2>12. Spoken(h)'
    BY <1>2, <2>1, <2>8, <2>9, <2>10, <2>11 DEF Spoken
  <2>. QED  BY <2>7, <2>12
<1>. QED  BY <1>8, <1>9, <1>10

(* How the unhandled fragments begin: with those of the next line, its     *)
(* newline being the first one.                                            *)
BeginsWith(off, i, n, s) ==
    /\ s \in {1, 3} /\ (s = 1 <=> script[i].method = "blank")
    /\ off[i - 1] \in Nat /\ off[i] = off[i - 1] + s
    /\ \A j \in 1 .. Len(buffer) :
          /\ j < s => buffer[j] # Newline /\ buffer[j].line = i
          /\ j = s => buffer[j] = Newline
    /\ i # n => Len(buffer) + Len(pipe) >= s
    /\ i = n => Len(buffer) + Len(pipe) = s - cut
    /\ cut \in 0 .. 2 /\ (i = n /\ s = 1 => cut = 0)

LEMMA NextLineFirst ==
    ASSUME NEW off, NEW all, Wrote(off, all), NEW n \in Nat, n = Len(script),
           NEW i \in 1 .. n, Placed(off, all, i - 1),
           buffer \in Seq(Fragment), pipe \in Seq(Fragment),
           NEW s, s = Size(script[i])
    PROVE  BeginsWith(off, i, n, s)
<1>1. /\ script \in Seq(Lines) /\ cut \in 0 .. 2
      /\ script[n].method = "blank" => cut = 0
      /\ Starts(script, off) /\ Laid(script, off, all, n)
  BY DEF Wrote
<1>2. PICK frags : frags = Fragments(script, i)
  OBVIOUS
<1>3. /\ s \in {1, 3} /\ frags[s] = Newline
      /\ s = 3 => /\ frags[1] = [line |-> i, half |-> 1]
                  /\ frags[2] = [line |-> i, half |-> 2]
  <2>1. i \in 1 .. Len(script)
    OBVIOUS
  <2>. QED  BY <1>1, <1>2, <2>1, FragmentsFit
<1>4. s = 1 <=> script[i].method = "blank"
  BY DEF Size
<1>5. /\ off[i - 1] \in Nat /\ off[n - 1] \in Nat /\ off[n] = off[n - 1] + Size(script[n])
      /\ off[i] = off[i - 1] + s /\ off[i] \in Nat
  <2>1. i - 1 \in 0 .. n /\ n - 1 \in 0 .. n /\ n \in 1 .. n /\ i \in 0 .. n
    OBVIOUS
  <2>. QED  BY <1>1, <2>1 DEF Starts
<1>6. \A j \in 1 .. s : all[off[i - 1] + j] = frags[j]
  BY <1>1, <1>2 DEF Laid, Holds
<1>7. i - 1 # Len(script)
  OBVIOUS
<1>8. /\ Len(buffer) + Len(pipe) = off[n] - cut - off[i - 1]
      /\ \A j \in 1 .. Len(buffer) : buffer[j] = all[off[i - 1] + j]
  BY <1>1, <1>7 DEF Placed, Laid
<1>9. ASSUME NEW j \in 1 .. Len(buffer)
      PROVE  /\ j < s => buffer[j] # Newline /\ buffer[j].line = i
             /\ j = s => buffer[j] = Newline
  <2>1. j <= s => buffer[j] = frags[j]
    <3>1. j <= s => j \in 1 .. s
      BY <1>3
    <3>. QED  BY <1>6, <1>8, <3>1
  <2>2. j < s => s = 3 /\ j \in {1, 2}
    BY <1>3
  <2>3. [line |-> i, half |-> 1] # Newline /\ [line |-> i, half |-> 2] # Newline
    BY DEF Newline
  <2>4. j < s => buffer[j] # Newline /\ buffer[j].line = i
    BY <1>3, <2>1, <2>2, <2>3
  <2>. QED  BY <1>3, <2>1, <2>4
<1>10. ASSUME i # n
       PROVE  Len(buffer) + Len(pipe) >= s
  <2>1. i \in 0 .. Len(script) /\ n - 1 \in i .. Len(script)
    BY <1>10
  <2>2. off[i] <= off[n - 1]
    BY <1>1, <2>1, OffsetsRise
  <2>3. Size(script[n]) >= cut
    BY <1>1 DEF Size
  <2>4. Size(script[n]) \in Nat
    BY DEF Size
  <2>. QED  BY <1>1, <1>3, <1>5, <1>8, <2>2, <2>3, <2>4
<1>11. i = n => Len(buffer) + Len(pipe) = s - cut
  <2>1. s \in Nat /\ cut \in Nat
    BY <1>1, <1>3
  <2>. QED  BY <1>5, <1>8, <2>1
<1>. QED  BY <1>1, <1>3, <1>4, <1>5, <1>9, <1>10, <1>11 DEF BeginsWith

(* Cutting a sequence in two.                                              *)
LEMMA SubSeqFront ==
    ASSUME NEW S, NEW q \in Seq(S), NEW k \in 0 .. Len(q)
    PROVE  /\ SubSeq(q, 1, k) \in Seq(S) /\ Len(SubSeq(q, 1, k)) = k
           /\ \A j \in 1 .. k : SubSeq(q, 1, k)[j] = q[j]
  OBVIOUS

LEMMA SubSeqBack ==
    ASSUME NEW S, NEW q \in Seq(S), NEW k \in 0 .. Len(q)
    PROVE  /\ SubSeq(q, k + 1, Len(q)) \in Seq(S)
           /\ Len(SubSeq(q, k + 1, Len(q))) = Len(q) - k
           /\ \A j \in 1 .. Len(q) - k : SubSeq(q, k + 1, Len(q))[j] = q[k + j]
  OBVIOUS

(* The server reads what has been written.                                 *)
LEMMA ReadKeepsLines ==
    ASSUME LinesInv, Read
    PROVE  LinesInv'
<1>1. /\ route = "mcp" /\ open /\ call = NoCall
      /\ UNCHANGED <<route, open, answers, call, script, cut>>
  BY DEF Read, Waiting, mcpRest, cliVars
<1>2. PICK k \in 1 .. Len(pipe) : /\ buffer' = buffer \o SubSeq(pipe, 1, k)
                                  /\ pipe' = SubSeq(pipe, k + 1, Len(pipe))
  BY DEF Read
<1>3. PICK off, all : Wrote(off, all) /\ \E h \in 0 .. Len(script) : Handled(off, all, h)
  BY <1>1 DEF LinesInv
<1>4. PICK h \in 0 .. Len(script) : Handled(off, all, h)
  BY <1>3
<1>5. PICK b \in Seq(Fragment) : b = buffer
  BY <1>1 DEF LinesInv
<1>6. PICK p \in Seq(Fragment) : p = pipe
  BY <1>1 DEF LinesInv
<1>7. PICK m, r : m = SubSeq(p, 1, k) /\ r = SubSeq(p, k + 1, Len(p))
  OBVIOUS
<1>8. /\ m \in Seq(Fragment) /\ Len(m) = k /\ \A j \in 1 .. k : m[j] = p[j]
      /\ r \in Seq(Fragment) /\ Len(r) = Len(p) - k
      /\ \A j \in 1 .. Len(p) - k : r[j] = p[k + j]
      /\ k \in 1 .. Len(p) /\ Len(p) \in Nat /\ Len(b) \in Nat
  <2>1. k \in 1 .. Len(p) /\ Len(p) \in Nat /\ Len(b) \in Nat
    BY <1>6
  <2>2. m \in Seq(Fragment) /\ Len(m) = k /\ \A j \in 1 .. k : m[j] = p[j]
    BY <1>7, <2>1, SubSeqFront
  <2>3. /\ r \in Seq(Fragment) /\ Len(r) = Len(p) - k
        /\ \A j \in 1 .. Len(p) - k : r[j] = p[k + j]
    BY <1>7, <2>1, SubSeqBack
  <2>. QED  BY <2>1, <2>2, <2>3
<1>9. PICK c : c = b \o m
  OBVIOUS
<1>10. /\ c \in Seq(Fragment) /\ Len(c) = Len(b) + k
       /\ \A j \in 1 .. Len(b) + k : c[j] = IF j <= Len(b) THEN b[j] ELSE m[j - Len(b)]
  BY <1>8, <1>9, ConcatProperties
<1>11. buffer' = c /\ pipe' = r
  BY <1>2, <1>5, <1>6, <1>7, <1>9
<1>12. h # Len(script)
  <2>1. p # <<>>
    BY <1>8
  <2>. QED  BY <1>4, <1>6, <2>1 DEF Handled, Placed
<1>13. /\ Len(b) + Len(p) = Len(all) - cut - off[h]
       /\ \A j \in 1 .. Len(b) : b[j] = all[off[h] + j]
       /\ \A j \in 1 .. Len(p) : p[j] = all[off[h] + Len(b) + j]
       /\ off[h] \in Nat
  BY <1>3, <1>4, <1>5, <1>6, <1>12 DEF Handled, Placed, Wrote, Starts
<1>14. ASSUME NEW j \in 1 .. Len(c)
       PROVE  c[j] = all[off[h] + j]
  <2>1. CASE j <= Len(b)
    <3>1. j \in 1 .. Len(b) /\ j \in 1 .. Len(b) + k
      BY <1>8, <1>10, <2>1
    <3>. QED  BY <1>10, <1>13, <2>1, <3>1
  <2>2. CASE ~(j <= Len(b))
    <3>1. j - Len(b) \in 1 .. k /\ j - Len(b) \in 1 .. Len(p)
      BY <1>8, <1>10, <2>2
    <3>2. c[j] = p[j - Len(b)]
      BY <1>8, <1>10, <2>2, <3>1
    <3>3. p[j - Len(b)] = all[off[h] + Len(b) + (j - Len(b))]
      BY <1>13, <3>1
    <3>4. off[h] + Len(b) + (j - Len(b)) = off[h] + j
      BY <1>8, <1>13
    <3>. QED  BY <3>2, <3>3, <3>4
  <2>. QED  BY <2>1, <2>2
<1>15. ASSUME NEW j \in 1 .. Len(r)
       PROVE  r[j] = all[off[h] + Len(c) + j]
  <2>1. k + j \in 1 .. Len(p) /\ j \in 1 .. Len(p) - k
    BY <1>8
  <2>2. r[j] = all[off[h] + Len(b) + (k + j)]
    BY <1>8, <1>13, <2>1
  <2>3. off[h] + Len(b) + (k + j) = off[h] + Len(c) + j
    BY <1>8, <1>10, <1>13
  <2>. QED  BY <2>2, <2>3
<1>16. Len(c) + Len(r) = Len(all) - cut - off[h]
  BY <1>8, <1>10, <1>13
<1>17. Placed(off, all, h)'
  BY <1>1, <1>11, <1>12, <1>14, <1>15, <1>16 DEF Placed
<1>18. /\ Answerable' = Answerable /\ \A i : Turn(i)' = Turn(i) /\ SentLine(i)' = SentLine(i)
       /\ \A a, i : Answers(a, i)' <=> Answers(a, i)
  BY <1>1 DEF Answerable, Turn, Answers, SentLine
<1>19. Spoken(h)' /\ Wrote(off, all)'
  <2>1. Spoken(h)
    BY <1>4 DEF Handled
  <2>2. NoCall' = NoCall
    BY DEF NoCall, NoOp, Op, NoRef
  <2>3. Spoken(h)'
    BY <1>1, <1>18, <2>1, <2>2 DEF Spoken
  <2>. QED  BY <1>1, <1>3, <2>3 DEF Wrote
<1>20. Len(script') = Len(script) /\ open' = TRUE
  BY <1>1
<1>. QED  BY <1>1, <1>8, <1>10, <1>11, <1>17, <1>19, <1>20 DEF LinesInv, Handled

(* What is before the first newline is the next line.                      *)
FirstIsLine(i, n, s) ==
    /\ FirstNewline(buffer) = s /\ s \in 1 .. Len(buffer)
    /\ Reads(SubSeq(buffer, 1, s - 1), i)
    /\ i = n => Len(buffer) = s /\ pipe = <<>>

LEMMA NextLineReads ==
    ASSUME NEW off, NEW all, Wrote(off, all), NEW n \in Nat, n = Len(script),
           NEW i \in 1 .. n, Placed(off, all, i - 1), HasNewline(buffer),
           buffer \in Seq(Fragment), pipe \in Seq(Fragment),
           NEW s, s = Size(script[i])
    PROVE  FirstIsLine(i, n, s)
<1>1. /\ s \in {1, 3} /\ (s = 1 <=> script[i].method = "blank")
      /\ \A j \in 1 .. Len(buffer) :
            /\ j < s => buffer[j] # Newline /\ buffer[j].line = i
            /\ j = s => buffer[j] = Newline
      /\ i = n => Len(buffer) + Len(pipe) = s - cut
      /\ cut \in 0 .. 2 /\ (i = n /\ s = 1 => cut = 0)
  <2>1. BeginsWith(off, i, n, s)
    BY NextLineFirst
  <2>. QED  BY <2>1 DEF BeginsWith
<1>2. Len(buffer) \in Nat /\ Len(pipe) \in Nat /\ DOMAIN buffer = 1 .. Len(buffer)
  OBVIOUS
<1>3. PICK k \in 1 .. Len(buffer) : buffer[k] = Newline
  BY <1>2 DEF HasNewline
<1>4. s \in 1 .. Len(buffer)
  <2>1. ~(k < s)
    BY <1>1, <1>3
  <2>. QED  BY <1>1, <1>2, <2>1
<1>5. FirstNewline(buffer) = s
  <2>. DEFINE First(a) == buffer[a] = Newline /\ \A j \in 1 .. a - 1 : buffer[j] # Newline
  <2>1. First(s)
    <3>1. \A j \in 1 .. s - 1 : j \in 1 .. Len(buffer) /\ j < s
      BY <1>1, <1>4
    <3>. QED  BY <1>1, <1>4, <3>1
  <2>2. ASSUME NEW a \in 1 .. Len(buffer), First(a)
        PROVE  a = s
    <3>1. ~(a < s)
      BY <1>1, <2>2
    <3>2. ~(s < a)
      <4>1. s < a => s \in 1 .. a - 1
        BY <1>1
      <4>2. buffer[s] = Newline
        BY <1>1, <1>4
      <4>. QED  BY <2>2, <4>1, <4>2
    <3>. QED  BY <1>1, <3>1, <3>2
  <2>3. FirstNewline(buffer) = CHOOSE a \in 1 .. Len(buffer) : First(a)
    BY <1>2 DEF FirstNewline
  <2>. HIDE DEF First
  <2>. QED  BY <1>4, <2>1, <2>2, <2>3
<1>6. i = n => cut = 0 /\ Len(buffer) = s /\ pipe = <<>>
  <2>1. i = n => cut = 0 /\ Len(buffer) = s /\ Len(pipe) = 0
    BY <1>1, <1>2, <1>4
  <2>. QED  BY <2>1
<1>7. SentLine(i) = script[i]
  BY <1>6 DEF SentLine
<1>8. PICK q : q = SubSeq(buffer, 1, s - 1)
  OBVIOUS
<1>9. Reads(q, i)
  <2>1. CASE s = 1
    <3>1. q = <<>>
      BY <1>8, <2>1
    <3>2. Assembled(q) = Blank
      BY <3>1 DEF Assembled
    <3>3. Silent(Blank)
      BY DEF Silent, Blank
    <3>4. Silent(script[i])
      BY <1>1, <2>1 DEF Silent
    <3>. QED  BY <1>7, <3>2, <3>3, <3>4 DEF Reads
  <2>2. CASE s = 3
    <3>1. 2 \in 0 .. Len(buffer) /\ s - 1 = 2 /\ 1 \in 1 .. Len(buffer) /\ 1 < s
      BY <1>4, <2>2
    <3>2. q \in Seq(Fragment) /\ Len(q) = 2 /\ \A j \in 1 .. 2 : q[j] = buffer[j]
      BY <1>8, <3>1, SubSeqFront
    <3>3. q # <<>> /\ q[1].line = i
      <4>1. 1 \in 1 .. 2 /\ Len(<<>>) = 0
        OBVIOUS
      <4>2. q[1] = buffer[1]
        BY <3>2, <4>1, Zenon
      <4>4. Len(q) # 0
        BY <3>2
      <4>5. q # <<>>
        BY <4>4, <4>1, Zenon
      <4>3. buffer[1].line = i
        BY <1>1, <3>1
      <4>. QED  BY <4>2, <4>3, <4>5
    <3>4. Assembled(q) = script[i]
      BY <3>2, <3>3 DEF Assembled
    <3>. QED  BY <1>7, <3>3, <3>4 DEF Reads, IdOf
  <2>. QED  BY <1>1, <2>1, <2>2
<1>. QED  BY <1>4, <1>5, <1>6, <1>8, <1>9 DEF FirstIsLine

LEMMA NextKeepsLines ==
    ASSUME LinesInv, NextLine
    PROVE  LinesInv'
<1>1. /\ route = "mcp" /\ call = NoCall /\ HasNewline(buffer)
      /\ UNCHANGED <<route, pipe, open, script, cut>>
  BY DEF NextLine, Waiting, mcpRest, cliVars
<1>2. /\ buffer \in Seq(Fragment) /\ pipe \in Seq(Fragment) /\ open # FALSE
      /\ answers \in Seq(Responses)
  BY <1>1 DEF LinesInv
<1>3. PICK off, all : Wrote(off, all) /\ \E h \in 0 .. Len(script) : Handled(off, all, h)
  BY <1>1 DEF LinesInv
<1>4. PICK h \in 0 .. Len(script) : Handled(off, all, h)
  BY <1>3
<1>5. PICK n \in Nat : n = Len(script) /\ DOMAIN script = 1 .. n
  BY <1>3 DEF Wrote
<1>6. h # n
  <2>1. buffer # <<>>
    BY <1>1 DEF HasNewline
  <2>. QED  BY <1>4, <1>5, <2>1 DEF Handled, Placed
<1>7. PICK i \in 1 .. n : h = i - 1
  <2>1. h + 1 \in 1 .. n /\ h = (h + 1) - 1
    BY <1>5, <1>6
  <2>. QED  BY <2>1
<1>8. Placed(off, all, i - 1) /\ Spoken(i - 1)
  BY <1>4, <1>7 DEF Handled
<1>9. PICK s : s = Size(script[i])
  OBVIOUS
<1>10. /\ FirstNewline(buffer) = s /\ s \in 1 .. Len(buffer)
       /\ Reads(SubSeq(buffer, 1, s - 1), i)
       /\ i = n => Len(buffer) = s /\ pipe = <<>>
  <2>1. FirstIsLine(i, n, s)
    BY <1>1, <1>2, <1>3, <1>5, <1>8, <1>9, NextLineReads
  <2>. QED  BY <2>1 DEF FirstIsLine
<1>11. /\ Handle(SubSeq(buffer, 1, s - 1))
       /\ buffer' = SubSeq(buffer, s + 1, Len(buffer))
  BY <1>10 DEF NextLine
<1>12. answers' \in Seq(Responses) /\ Spoken(i)'
  BY <1>1, <1>2, <1>5, <1>8, <1>10, <1>11, HandlesNext
<1>13. PICK b \in Seq(Fragment) : b = buffer
  BY <1>2
<1>14. PICK c : c = SubSeq(b, s + 1, Len(b))
  OBVIOUS
<1>15. /\ c \in Seq(Fragment) /\ Len(c) = Len(b) - s /\ buffer' = c
       /\ \A j \in 1 .. Len(b) - s : c[j] = b[s + j]
       /\ Len(b) \in Nat /\ s \in Nat /\ s <= Len(b)
  <2>1. s \in 0 .. Len(b)
    BY <1>10, <1>13
  <2>. QED  BY <1>11, <1>13, <1>14, <2>1, SubSeqBack
<1>16. Placed(off, all, i)'
  <2>1. CASE i = n
    <3>1. Len(c) = 0 /\ pipe' = <<>>
      BY <1>1, <1>10, <1>13, <1>15, <2>1
    <3>2. c = <<>>
      BY <1>15, <3>1
    <3>. QED  BY <1>1, <1>5, <1>15, <2>1, <3>1, <3>2 DEF Placed
  <2>2. CASE i # n
    <3>1. off[i - 1] \in Nat /\ off[i] = off[i - 1] + s
      <4>1. BeginsWith(off, i, n, s)
        BY <1>2, <1>3, <1>5, <1>8, <1>9, NextLineFirst
      <4>. QED  BY <4>1 DEF BeginsWith
    <3>2. i - 1 # Len(script)
      BY <1>5
    <3>3. PICK p \in Seq(Fragment) : p = pipe
      BY <1>2
    <3>4. /\ Len(b) + Len(p) = Len(all) - cut - off[i - 1]
          /\ \A j \in 1 .. Len(b) : b[j] = all[off[i - 1] + j]
          /\ \A j \in 1 .. Len(p) : p[j] = all[off[i - 1] + Len(b) + j]
      BY <1>8, <1>13, <3>2, <3>3 DEF Placed
    <3>5. Len(all) \in Int /\ cut \in Int /\ Len(p) \in Nat
      BY <1>3, <3>3 DEF Wrote, Laid
    <3>6. Len(c) + Len(p) = Len(all) - cut - off[i]
      <4>1. PICK A \in Int : A = Len(all) - cut
        <5>1. Len(all) - cut \in Int
          BY <3>5
        <5>. QED  BY <5>1
      <4>2. PICK a \in Int : a = off[i - 1]
        BY <3>1
      <4>3. PICK e \in Int : e = s
        BY <1>15
      <4>4. PICK d \in Int : d = off[i] /\ d = a + e
        BY <3>1, <4>2, <4>3
      <4>5. PICK lb, lc, lp \in Int : lb = Len(b) /\ lc = Len(c) /\ lp = Len(p)
        <5>1. Len(b) \in Int /\ Len(c) \in Int /\ Len(p) \in Int
          BY <1>15, <3>5
        <5>. QED  BY <5>1
      <4>6. lb + lp = A - a
        BY <3>4, <4>1, <4>2, <4>5
      <4>7. lc = lb - e
        BY <1>15, <4>3, <4>5
      <4>8. lc + lp = A - d
        BY <4>4, <4>6, <4>7
      <4>. QED  BY <4>1, <4>4, <4>5, <4>8
    <3>7. ASSUME NEW j \in 1 .. Len(c)
          PROVE  c[j] = all[off[i] + j]
      <4>1. j \in 1 .. Len(b) - s /\ s + j \in 1 .. Len(b)
        BY <1>15
      <4>2. c[j] = all[off[i - 1] + (s + j)]
        BY <1>15, <3>4, <4>1
      <4>3. off[i - 1] + (s + j) = off[i] + j
        BY <1>15, <3>1
      <4>. QED  BY <4>2, <4>3
    <3>8. ASSUME NEW j \in 1 .. Len(p)
          PROVE  p[j] = all[off[i] + Len(c) + j]
      <4>1. off[i - 1] + Len(b) + j = off[i] + Len(c) + j
        BY <1>15, <3>1
      <4>. QED  BY <3>4, <4>1
    <3>. QED  BY <1>1, <1>5, <1>15, <2>2, <3>3, <3>6, <3>7, <3>8 DEF Placed
  <2>. QED  BY <2>1, <2>2
<1>17. Wrote(off, all)' /\ i \in 0 .. Len(script') /\ pipe' \in Seq(Fragment) /\ open' # FALSE
  <2>1. Wrote(off, all)'
    BY <1>1, <1>3 DEF Wrote
  <2>2. i \in 0 .. Len(script')
    BY <1>1, <1>5
  <2>. QED  BY <1>1, <1>2, <2>1, <2>2
<1>. QED  BY <1>1, <1>12, <1>15, <1>16, <1>17 DEF LinesInv, Handled

(* What is left when stdin ends is the last line.                          *)
LEMMA FinalKeepsLines ==
    ASSUME LinesInv, FinalLine, open \in BOOLEAN
    PROVE  LinesInv'
<1>1. /\ route = "mcp" /\ call = NoCall /\ open = FALSE /\ buffer # <<>>
      /\ UNCHANGED <<route, pipe, open, script, cut>>
      /\ Handle(buffer) /\ buffer' = <<>>
  BY DEF FinalLine, Waiting, mcpRest, cliVars
<1>2. /\ buffer \in Seq(Fragment) /\ pipe = <<>> /\ ~HasNewline(buffer)
      /\ answers \in Seq(Responses) /\ pipe \in Seq(Fragment)
  BY <1>1 DEF LinesInv
<1>3. PICK off, all : Wrote(off, all) /\ \E h \in 0 .. Len(script) : Handled(off, all, h)
  BY <1>1 DEF LinesInv
<1>4. PICK h \in 0 .. Len(script) : Handled(off, all, h)
  BY <1>3
<1>5. PICK n \in Nat : n = Len(script) /\ DOMAIN script = 1 .. n
  BY <1>3 DEF Wrote
<1>6. h # n
  BY <1>1, <1>4, <1>5 DEF Handled, Placed
<1>7. PICK i \in 1 .. n : h = i - 1
  <2>1. h + 1 \in 1 .. n /\ h = (h + 1) - 1
    BY <1>5, <1>6
  <2>. QED  BY <2>1
<1>8. Placed(off, all, i - 1) /\ Spoken(i - 1)
  BY <1>4, <1>7 DEF Handled
<1>9. PICK s : s = Size(script[i])
  OBVIOUS
<1>10. /\ s \in {1, 3}
       /\ \A j \in 1 .. Len(buffer) :
             /\ j < s => buffer[j].line = i
             /\ j = s => buffer[j] = Newline
       /\ i # n => Len(buffer) + Len(pipe) >= s
       /\ i = n => Len(buffer) + Len(pipe) = s - cut
       /\ cut \in 0 .. 2 /\ (i = n /\ s = 1 => cut = 0)
  <2>1. BeginsWith(off, i, n, s)
    BY <1>2, <1>3, <1>5, <1>8, <1>9, NextLineFirst
  <2>. QED  BY <2>1 DEF BeginsWith
<1>11. Len(pipe) = 0 /\ Len(buffer) \in Nat /\ Len(buffer) # 0 /\ DOMAIN buffer = 1 .. Len(buffer)
  BY <1>1, <1>2
<1>12. ~(Len(buffer) >= s)
  <2>1. Len(buffer) >= s => s \in 1 .. Len(buffer)
    BY <1>10, <1>11
  <2>. QED  BY <1>2, <1>10, <1>11, <2>1 DEF HasNewline
<1>13. i = n /\ s = 3 /\ Len(buffer) = 3 - cut /\ cut \in {1, 2}
  BY <1>10, <1>11, <1>12
<1>14. Reads(buffer, i)
  <2>1. CASE cut = 1
    <3>1. Len(buffer) = 2 /\ buffer[1].line = i
      BY <1>10, <1>13, <2>1
    <3>2. Assembled(buffer) = script[i] /\ SentLine(i) = script[i]
      BY <1>1, <2>1, <3>1 DEF Assembled, SentLine
    <3>. QED  BY <3>1, <3>2 DEF Reads, IdOf
  <2>2. CASE cut = 2
    <3>1. Len(buffer) = 1
      BY <1>13, <2>2
    <3>2. Assembled(buffer) = Garbage /\ SentLine(i) = Garbage
      BY <1>1, <1>5, <1>13, <2>2, <3>1 DEF Assembled, SentLine
    <3>3. Garbage.json = FALSE
      BY DEF Garbage, Line
    <3>. QED  BY <3>2, <3>3 DEF Reads, IdOf
  <2>. QED  BY <1>13, <2>1, <2>2
<1>15. answers' \in Seq(Responses) /\ Spoken(i)'
  BY <1>1, <1>2, <1>5, <1>8, <1>14, HandlesNext
<1>16. Placed(off, all, i)' /\ Wrote(off, all)' /\ i \in 0 .. Len(script')
  BY <1>1, <1>2, <1>3, <1>5, <1>13 DEF Placed, Wrote
<1>17. /\ buffer' \in Seq(Fragment) /\ pipe' \in Seq(Fragment) /\ pipe' = <<>>
       /\ ~HasNewline(buffer')
  BY <1>1, <1>2 DEF HasNewline
<1>. QED  BY <1>1, <1>15, <1>16, <1>17 DEF LinesInv, Handled

(* The client is through: stdin ends.                                      *)
LEMMA ClosingKeepsLines ==
    ASSUME LinesInv, ClientCloses
    PROVE  LinesInv'
<1>1. /\ route = "mcp" /\ pipe = <<>> /\ ~HasNewline(buffer)
      /\ UNCHANGED <<route, pipe, buffer, answers, call, script, cut>>
  BY DEF ClientCloses, Waiting, mcpRest, cliVars
<1>2. \A i : /\ SentLine(i)' = SentLine(i) /\ Turn(i)' = Turn(i) /\ Answerable' = Answerable
             /\ HasNewline(buffer)' <=> HasNewline(buffer)
  BY <1>1 DEF SentLine, Turn, Answerable, HasNewline
<1>3. \A r, i : Answers(r, i)' <=> Answers(r, i)
  BY <1>2 DEF Answers
<1>4. NoCall' = NoCall
  BY DEF NoCall, NoOp, Op, NoRef
<1>5. \A h : Spoken(h) => Spoken(h)'
  BY <1>1, <1>2, <1>3, <1>4 DEF Spoken
<1>6. \A off, all, h : Placed(off, all, h) => Placed(off, all, h)'
  BY <1>1 DEF Placed
<1>7. \A off, all : Wrote(off, all) => Wrote(off, all)'
  BY <1>1 DEF Wrote
<1>. QED  BY <1>1, <1>2, <1>5, <1>6, <1>7 DEF LinesInv, Handled

LEMMA CallKeepsLines ==
    ASSUME SurfaceInv, LinesInv, CallStep
    PROVE  LinesInv'
<1>1. CASE \E code : Ends(code)
  BY <1>1, CallGoesOn, EndAnswers
<1>2. CASE \E c : Goes(c) /\ c.line = call.line /\ c # NoCall
  <2>1. NoCall' = NoCall
    BY DEF NoCall, NoOp, Op, NoRef
  <2>2. /\ UNCHANGED <<route, script, cut, pipe, buffer, open, answers>>
        /\ call'.line = call.line /\ call' # NoCall
    BY <1>2 DEF Goes, cliVars, mcpVars
  <2>3. call # NoCall
    BY CallGoesOn
  <2>. QED  BY <2>1, <2>2, <2>3, LinesStay
<1>. QED  BY <1>1, <1>2, CallGoesOn

(* What the client is going to write, seen from before its first line.     *)
LEMMA ServesFromTheStart ==
    ASSUME Serve, call = NoCall, answers = <<>>, UNCHANGED <<answers>>, buffer = <<>>,
           UNCHANGED buffer, UNCHANGED open, open = TRUE
    PROVE  /\ buffer' \in Seq(Fragment) /\ pipe' \in Seq(Fragment) /\ open' = TRUE
           /\ answers' \in Seq(Responses)
           /\ \E off, all : Wrote(off, all)' /\ \E h \in 0 .. Len(script') : Handled(off, all, h)'
<1>1. PICK s \in Seq(Lines) \ {<<>>} : s = script'
  BY SurfacesAssumption DEF Serve
<1>2. PICK d : d = cut'
  OBVIOUS
<1>3. PICK n \in Nat : n = Len(s) /\ DOMAIN s = 1 .. n /\ n # 0
  BY <1>1
<1>4. Last(s) = s[n]
  BY <1>3 DEF Last
<1>5. d \in 0 .. 2 /\ (s[n].method = "blank" => d = 0)
  BY <1>1, <1>2, <1>4 DEF Serve
<1>6. call' = NoCall /\ NoCall' = NoCall
  BY DEF Serve, Exits, NoCall, NoOp, Op, NoRef
<1>7. PICK w : w = FlattenSeq([i \in DOMAIN s |-> Fragments(s, i)])
  OBVIOUS
<1>8. PICK off : Starts(s, off) /\ Laid(s, off, w, Len(s))
  BY <1>7, ScriptIsLaid
<1>9. /\ w \in Seq(Fragment) /\ Len(w) = off[n] /\ off[0] = 0
      /\ off[n - 1] \in Nat /\ off[n] = off[n - 1] + Size(s[n])
  <2>1. n \in 1 .. n /\ n - 1 \in 0 .. n
    BY <1>3
  <2>. QED  BY <1>3, <1>8, <2>1 DEF Starts, Laid
<1>10. PICK k \in 0 .. Len(w) : k = Len(w) - d
  <2>1. Size(s[n]) \in Nat /\ d \in Nat /\ d <= Size(s[n])
    BY <1>5 DEF Size
  <2>2. Len(w) - d \in 0 .. Len(w)
    BY <1>9, <2>1
  <2>. QED  BY <2>2
<1>11. PICK p : p = SubSeq(w, 1, k)
  OBVIOUS
<1>12. p \in Seq(Fragment) /\ Len(p) = k /\ \A j \in 1 .. k : p[j] = w[j]
  BY <1>9, <1>11, SubSeqFront
<1>13. pipe' = p
  <2>1. pipe' = Written(s, d)
    BY <1>1, <1>2 DEF Serve
  <2>. QED  BY <1>7, <1>10, <1>11, <2>1 DEF Written
<1>14. Placed(off, w, 0)'
  <2>1. Len(script') # 0 /\ Len(buffer') = 0 /\ Len(p) \in Nat
    BY <1>1, <1>3, <1>12
  <2>2. Len(buffer') + Len(p) = Len(w) - d - off[0]
    BY <1>5, <1>9, <1>10, <1>12, <2>1
  <2>3. ASSUME NEW j \in 1 .. Len(p)
        PROVE  p[j] = w[off[0] + Len(buffer') + j]
    <3>1. off[0] + Len(buffer') + j = j
      BY <1>9, <2>1
    <3>. QED  BY <1>12, <3>1
  <2>4. \A j \in 1 .. Len(buffer') : FALSE
    BY <2>1
  <2>. QED  BY <1>2, <1>13, <2>1, <2>2, <2>3, <2>4 DEF Placed
<1>15. Spoken(0)'
  <2>1. PICK A : A = Answerable'
    OBVIOUS
  <2>2. A \in SUBSET (1 .. n)
    BY <1>1, <1>3, <2>1 DEF Answerable
  <2>3. Turn(0)' = Rank(A, 0)
    BY <2>1 DEF Turn, Rank, UpToLine
  <2>4. 0 \in 0 .. n
    BY <1>3
  <2>5. Turn(0)' = 0
    BY <2>2, <2>3, <2>4, RankFits
  <2>6. \A i \in A : ~(i <= 0)
    BY <2>2
  <2>7. Len(answers') + 0 = 0
    OBVIOUS
  <2>. QED  BY <1>6, <2>1, <2>5, <2>6, <2>7 DEF Spoken
<1>16. Wrote(off, w)' /\ 0 \in 0 .. Len(script')
  BY <1>1, <1>2, <1>3, <1>5, <1>8 DEF Wrote
<1>17. buffer' \in Seq(Fragment) /\ answers' \in Seq(Responses)
  OBVIOUS
<1>. QED  BY <1>12, <1>13, <1>14, <1>15, <1>16, <1>17 DEF Handled

LEMMA MainKeepsLines ==
    ASSUME SurfaceInv, LinesInv, Main
    PROVE  LinesInv'
<1>1. /\ route = "none" /\ script = <<>> /\ answers = <<>> /\ buffer = <<>> /\ open = TRUE
      /\ UNCHANGED <<buffer, open, answers>> /\ route' \in {"mcp", "tui", "cli"}
  BY DEF Main, LinesInv
<1>2. CASE route' = "mcp"
  <2>1. call = NoCall
    BY <1>1 DEF SurfaceInv, FirstInv
  <2>2. Serve
    BY <1>2 DEF Main
  <2>3. /\ buffer' \in Seq(Fragment) /\ pipe' \in Seq(Fragment) /\ open' = TRUE
        /\ answers' \in Seq(Responses)
        /\ \E off, all : Wrote(off, all)' /\ \E h \in 0 .. Len(script') : Handled(off, all, h)'
    BY <1>1, <2>1, <2>2, ServesFromTheStart
  <2>. QED  BY <1>2, <2>3 DEF LinesInv
<1>3. CASE route' # "mcp"
  <2>1. script' = script
    BY <1>3 DEF Main
  <2>. QED  BY <1>1, <1>3, <2>1 DEF LinesInv
<1>. QED  BY <1>2, <1>3

LEMMA InitLines == Init => LinesInv
  BY DEF Init, LinesInv

LEMMA LinesInductive == SurfaceInv /\ LinesInv /\ [Next]_vars => LinesInv'
<1>. SUFFICES ASSUME SurfaceInv, LinesInv, [Next]_vars PROVE LinesInv'
  OBVIOUS
<1>1. NoCall' = NoCall
  BY DEF NoCall, NoOp, Op, NoRef
<1>2. CASE Step /\ Remember
  <2>1. CASE Main
    BY <2>1, MainKeepsLines
  <2>2. CASE UNCHANGED edits /\ CallStep
    BY <2>2, CallKeepsLines
  <2>3. CASE Read
    BY <2>3, ReadKeepsLines
  <2>4. CASE NextLine
    BY <2>4, NextKeepsLines
  <2>5. CASE ClientCloses
    BY <2>5, ClosingKeepsLines
  <2>6. CASE FinalLine
    BY <2>6, FinalKeepsLines DEF SurfaceInv, TypeOK
  <2>7. CASE ServerExits
    <3>1. UNCHANGED <<route, callVars, mcpVars>>
      BY <2>7 DEF ServerExits
    <3>. QED  BY <1>1, <3>1, LinesStay DEF callVars, mcpVars
  <2>8. CASE Edit
    <3>1. UNCHANGED <<cliVars, callVars, mcpVars>>
      BY <2>8 DEF Edit
    <3>. QED  BY <1>1, <3>1, LinesStay DEF cliVars, callVars, mcpVars
  <2>. QED  BY <1>2, <2>1, <2>2, <2>3, <2>4, <2>5, <2>6, <2>7, <2>8 DEF Step
<1>3. CASE UNCHANGED vars
  BY <1>1, <1>3, LinesStay DEF vars, cliVars, callVars, mcpVars
<1>. QED  BY <1>2, <1>3 DEF Next, Ended

(* However stdin is cut into chunks, wherever the client stops and whatever *)
(* it writes: the responses on stdout answer the request lines in their     *)
(* order, one each, no notification among them, and a tool call under way   *)
(* is the next one due (serveStdio against handleLine in mcp's server.ts).  *)
THEOREM AnswersAreInOrder == Spec => []AnswersFollowTheLines
<1>1. SurfaceInv /\ LinesInv => AnswersFollowTheLines
  <2>. SUFFICES ASSUME SurfaceInv, LinesInv PROVE AnswersFollowTheLines
    OBVIOUS
  <2>1. CASE route = "mcp"
    <3>1. PICK off, all : Wrote(off, all) /\ \E h \in 0 .. Len(script) : Handled(off, all, h)
      BY <2>1 DEF LinesInv
    <3>2. PICK h \in 0 .. Len(script) : Spoken(h)
      BY <3>1 DEF Handled
    <3>3. PICK n \in Nat : n = Len(script) /\ DOMAIN script = 1 .. n
      BY <3>1 DEF Wrote
    <3>. QED  BY <3>2, <3>3, SpokenFollows DEF LinesInv
  <2>2. CASE route # "mcp"
    <3>1. script = <<>> /\ answers = <<>>
      BY <2>2 DEF LinesInv
    <3>2. Answerable = {}
      BY <3>1 DEF Answerable
    <3>3. Len(answers) = 0 /\ Cardinality(Answerable) = 0
      BY <3>1, <3>2, FS_EmptySet
    <3>. QED  BY <2>2, <3>2, <3>3 DEF AnswersFollowTheLines
  <2>. QED  BY <2>1, <2>2
<1>. QED  BY <1>1, InitSurface, SurfaceInductive, InitLines, LinesInductive, PTL DEF Spec

--------------------------------------------------------------------------------
(***************************************************************************)
(* The words of a command, one by one.                                     *)
(***************************************************************************)
OneWord(spec, acc, word) == IF acc.ok THEN ReadWord(spec, acc, word) ELSE acc
Before == [ok |-> TRUE, owed |-> NoOption, flags |-> NoFlags]

(* The fold as the table it is defined by: over the sets of positions, from *)
(* the last of them downwards.                                             *)
Latest(s) == CHOOSE i \in s : \A j \in s : i >= j
Tabled(args, spec, D, g) ==
    g = [s \in D |-> IF s = {} THEN Before
                     ELSE OneWord(spec, g[s \ {Latest(s)}], args[Latest(s)])]

LEMMA LatestFits ==
    ASSUME NEW n \in Nat, NEW s \in SUBSET (1 .. n), s # {}
    PROVE  /\ Latest(s) \in s /\ \A j \in s : Latest(s) >= j
           /\ s \ {Latest(s)} \in SUBSET (1 .. Latest(s) - 1)
           /\ n \in s => Latest(s) = n
<1>1. PICK i \in s : \A j \in s : i >= j
  <2>. DEFINE Tops == {t \in Nat : \A j \in s : t >= j}
  <2>1. n \in Tops /\ Tops \in SUBSET Nat
    OBVIOUS
  <2>2. PICK t \in Tops : \A u \in Tops : t <= u
    <3>. HIDE DEF Tops
    <3>. QED  BY <2>1, LeastNumber
  <2>3. t \in Nat /\ \A j \in s : t >= j
    OBVIOUS
  <2>4. t \in s
    <3>1. SUFFICES ASSUME t \notin s PROVE FALSE
      OBVIOUS
    <3>2. PICK j \in s : j \in 1 .. n
      OBVIOUS
    <3>3. t - 1 \in Nat /\ ~(t <= t - 1)
      BY <2>3, <3>2
    <3>4. \A l \in s : t - 1 >= l
      BY <2>3, <3>1
    <3>5. t - 1 \in Tops
      BY <3>3, <3>4
    <3>. HIDE DEF Tops
    <3>. QED  BY <2>2, <3>3, <3>5
  <2>. QED  BY <2>3, <2>4
<1>2. Latest(s) \in s /\ \A j \in s : Latest(s) >= j
  BY <1>1 DEF Latest
<1>3. PICK l : l = Latest(s)
  OBVIOUS
<1>4. l \in 1 .. n /\ \A j \in s : l >= j /\ j \in 1 .. n
  BY <1>2, <1>3
<1>5. \A j \in s : j # l => j \in 1 .. l - 1
  BY <1>4
<1>6. s \ {l} \in SUBSET (1 .. l - 1)
  BY <1>5
<1>7. n \in s => l = n
  BY <1>4
<1>. QED  BY <1>2, <1>3, <1>6, <1>7

LEMMA TableGrows ==
    ASSUME NEW args, NEW spec, NEW k \in Nat, NEW g, Tabled(args, spec, SUBSET (1 .. k), g)
    PROVE  \E h : Tabled(args, spec, SUBSET (1 .. k + 1), h)
<1>. DEFINE next(s) == IF s = {} THEN Before
                       ELSE OneWord(spec, g[s \ {Latest(s)}], args[Latest(s)])
            h == [s \in SUBSET (1 .. k + 1) |-> next(s)]
<1>1. \A s \in SUBSET (1 .. k) : s \in SUBSET (1 .. k + 1) /\ h[s] = g[s]
  <2>1. \A s \in SUBSET (1 .. k) : s \in SUBSET (1 .. k + 1)
    OBVIOUS
  <2>2. \A s \in SUBSET (1 .. k) : g[s] = next(s)
    BY DEF Tabled
  <2>. QED  BY <2>1, <2>2
<1>2. \A s \in SUBSET (1 .. k + 1) : s # {} => s \ {Latest(s)} \in SUBSET (1 .. k)
  <2>. SUFFICES ASSUME NEW s \in SUBSET (1 .. k + 1), s # {}
                PROVE  s \ {Latest(s)} \in SUBSET (1 .. k)
    OBVIOUS
  <2>1. k + 1 \in Nat
    OBVIOUS
  <2>2. Latest(s) \in s /\ s \ {Latest(s)} \in SUBSET (1 .. Latest(s) - 1)
    BY <2>1, LatestFits
  <2>3. PICK l : l = Latest(s) /\ l \in 1 .. k + 1
    BY <2>2
  <2>4. 1 .. l - 1 \in SUBSET (1 .. k)
    BY <2>3
  <2>. QED  BY <2>2, <2>3, <2>4
<1>3. \A s \in SUBSET (1 .. k + 1) :
          next(s) = IF s = {} THEN Before
                    ELSE OneWord(spec, h[s \ {Latest(s)}], args[Latest(s)])
  BY <1>1, <1>2
<1>4. PICK D, u : D = SUBSET (1 .. k + 1) /\ u = h
  OBVIOUS
<1>5. u = [s \in D |-> next(s)]
  BY <1>4
<1>6. \A s \in D : next(s) = IF s = {} THEN Before
                             ELSE OneWord(spec, u[s \ {Latest(s)}], args[Latest(s)])
  BY <1>3, <1>4
<1>. HIDE DEF next
<1>7. u = [s \in D |-> IF s = {} THEN Before
                       ELSE OneWord(spec, u[s \ {Latest(s)}], args[Latest(s)])]
  BY <1>5, <1>6
<1>. HIDE DEF h
<1>. QED  BY <1>4, <1>7 DEF Tabled

LEMMA WordTable ==
    ASSUME NEW args, NEW spec, NEW n \in Nat
    PROVE  \E g : Tabled(args, spec, SUBSET (1 .. n), g)
<1>. DEFINE Bad == {k \in Nat : ~ \E g : Tabled(args, spec, SUBSET (1 .. k), g)}
<1>. SUFFICES ASSUME Bad # {} PROVE FALSE
  OBVIOUS
<1>1. PICK k \in Bad : \A m \in Bad : k <= m
  BY LeastNumber
<1>2. k # 0
  <2>1. PICK D, g : D = SUBSET (1 .. 0) /\ g = [s \in D |-> Before]
    OBVIOUS
  <2>2. \A s \in D : s = {}
    BY <2>1
  <2>3. g = [s \in D |-> IF s = {} THEN Before
                         ELSE OneWord(spec, g[s \ {Latest(s)}], args[Latest(s)])]
    BY <2>1, <2>2
  <2>4. Tabled(args, spec, D, g)
    BY <2>3 DEF Tabled
  <2>. QED  BY <2>1, <2>4
<1>3. PICK m \in Nat : k = m + 1
  BY <1>2
<1>0. ~(m + 1 <= m)
  OBVIOUS
<1>4. m \notin Bad
  <2>. HIDE DEF Bad
  <2>. QED  BY <1>0, <1>1, <1>3
<1>5. PICK g : Tabled(args, spec, SUBSET (1 .. m), g)
  BY <1>4
<1>. QED  BY <1>3, <1>5, TableGrows

(* The pass: what is read after k words, and that it ends where parseFlags  *)
(* ends.                                                                   *)
Passes(args, spec, n, after) ==
    /\ after[0] = Before
    /\ \A k \in 1 .. n : after[k] = OneWord(spec, after[k - 1], args[k])

FlagsAt(end) ==
    IF end.ok /\ end.owed = NoOption
    THEN [ok |-> TRUE, flags |-> end.flags]
    ELSE [ok |-> FALSE, flags |-> NoFlags]

LEMMA ParsedByPass ==
    ASSUME NEW args, NEW spec, NEW n \in Nat, DOMAIN args = 1 .. n
    PROVE  \E after : Passes(args, spec, n, after) /\ ParseFlags(args, spec) = FlagsAt(after[n])
<1>1. PICK f : Tabled(args, spec, SUBSET (1 .. n), f)
  BY WordTable
<1>. DEFINE Up(u) == Tabled(args, spec, SUBSET (1 .. n), u)
<1>2. PICK g : g = CHOOSE u : Up(u)
  OBVIOUS
<1>3. Tabled(args, spec, SUBSET (1 .. n), g)
  BY <1>1, <1>2
<1>4. g = CHOOSE u : u = [s \in SUBSET (1 .. n) |->
                            IF s = {} THEN Before
                            ELSE OneWord(spec, u[s \ {Latest(s)}], args[Latest(s)])]
  BY <1>2 DEF Tabled
<1>5. ParseFlags(args, spec) = FlagsAt(g[1 .. n])
  BY <1>4 DEF ParseFlags, FoldLeft, MapThenFoldSet, Max, Latest, OneWord, Before, FlagsAt
<1>6. PICK after : after = [k \in 0 .. n |-> g[1 .. k]]
  OBVIOUS
<1>7. \A s \in SUBSET (1 .. n) :
          g[s] = IF s = {} THEN Before ELSE OneWord(spec, g[s \ {Latest(s)}], args[Latest(s)])
  BY <1>3 DEF Tabled
<1>8. after[0] = Before
  <2>1. 1 .. 0 = {} /\ 0 \in 0 .. n /\ {} \in SUBSET (1 .. n)
    OBVIOUS
  <2>. QED  BY <1>6, <1>7, <2>1
<1>9. ASSUME NEW k \in 1 .. n
      PROVE  after[k] = OneWord(spec, after[k - 1], args[k])
  <2>1. /\ 1 .. k \in SUBSET (1 .. n) /\ 1 .. k # {} /\ k \in 1 .. k /\ k \in Nat
        /\ k \in 0 .. n /\ k - 1 \in 0 .. n
    OBVIOUS
  <2>2. Latest(1 .. k) = k
    BY <2>1, LatestFits
  <2>3. (1 .. k) \ {k} = 1 .. k - 1
    OBVIOUS
  <2>. QED  BY <1>6, <1>7, <2>1, <2>2, <2>3
<1>10. after[n] = g[1 .. n]
  BY <1>6
<1>. QED  BY <1>5, <1>8, <1>9, <1>10 DEF Passes

(***************************************************************************)
(* The meaning.                                                            *)
(***************************************************************************)

(* The unbroken run of bare value options right before a word.             *)
Runs(args, spec, i) ==
    {k \in 0 .. i - 1 : \A j \in i - k .. i - 1 : Owes(args, spec, j)}

LEMMA RunFits ==
    ASSUME NEW args, NEW spec, NEW i \in Nat \ {0}
    PROVE  /\ RunBefore(args, spec, i) \in Runs(args, spec, i)
           /\ \A l \in Runs(args, spec, i) : l <= RunBefore(args, spec, i)
           /\ RunBefore(args, spec, i) \in 0 .. i - 1
<1>. DEFINE R == Runs(args, spec, i)
<1>1. 0 \in R /\ R \in SUBSET (0 .. i - 1)
  BY DEF Runs
<1>2. PICK k \in R : \A l \in R : l <= k
  <2>. DEFINE Tops == {t \in Nat : \A l \in R : t >= l}
  <2>1. i \in Tops /\ Tops \in SUBSET Nat
    BY <1>1
  <2>2. PICK t \in Tops : \A u \in Tops : t <= u
    <3>. HIDE DEF Tops
    <3>. QED  BY <2>1, LeastNumber
  <2>. HIDE DEF R
  <2>3. t \in Nat /\ \A l \in R : t >= l
    OBVIOUS
  <2>4. t \in R
    <3>1. SUFFICES ASSUME t \notin R PROVE FALSE
      OBVIOUS
    <3>2. t # 0 /\ t - 1 \in Nat /\ ~(t <= t - 1)
      BY <1>1, <2>3, <3>1
    <3>3. \A l \in R : t - 1 >= l
      <4>1. ASSUME NEW l \in R PROVE t - 1 >= l
        <5>1. l \in Nat /\ t >= l /\ l # t
          BY <1>1, <2>3, <3>1
        <5>. QED  BY <2>3, <5>1
      <4>. QED  BY <4>1
    <3>4. t - 1 \in Tops
      BY <3>2, <3>3
    <3>. HIDE DEF Tops
    <3>. QED  BY <2>2, <3>2, <3>4
  <2>5. \A l \in R : l <= t
    <3>1. ASSUME NEW l \in R PROVE l <= t
      <4>1. l \in Nat
        BY <1>1
      <4>. QED  BY <2>3, <4>1
    <3>. QED  BY <3>1
  <2>. QED  BY <2>4, <2>5
<1>3. RunBefore(args, spec, i) = CHOOSE l \in R : \A m \in R : m <= l
  BY DEF RunBefore, Runs
<1>. HIDE DEF R
<1>4. /\ RunBefore(args, spec, i) \in R
      /\ \A l \in R : l <= RunBefore(args, spec, i)
  BY <1>2, <1>3
<1>5. RunBefore(args, spec, i) \in 0 .. i - 1
  BY <1>1, <1>4
<1>. QED  BY <1>4, <1>5 DEF R

(* The word after an option that wants one is its value, if that option is  *)
(* not a value itself.                                                     *)
LEMMA ValueAfterOption ==
    ASSUME NEW args, NEW spec, NEW i \in Nat \ {0}
    PROVE  /\ ~IsValue(args, spec, 1)
           /\ IsValue(args, spec, i + 1) <=> Owes(args, spec, i) /\ ~IsValue(args, spec, i)
<1>1. PICK a, b \in Nat : a = RunBefore(args, spec, i) /\ b = RunBefore(args, spec, i + 1)
  <2>1. i + 1 \in Nat \ {0}
    OBVIOUS
  <2>2. RunBefore(args, spec, i) \in 0 .. i - 1 /\ RunBefore(args, spec, i + 1) \in 0 .. i + 1 - 1
    BY <2>1, RunFits
  <2>. QED  BY <2>2
<1>2. /\ a \in Runs(args, spec, i) /\ \A l \in Runs(args, spec, i) : l <= a
      /\ b \in Runs(args, spec, i + 1) /\ \A l \in Runs(args, spec, i + 1) : l <= b
  <2>1. i + 1 \in Nat \ {0}
    OBVIOUS
  <2>. QED  BY <1>1, <2>1, RunFits
<1>3. ~IsValue(args, spec, 1)
  <2>1. RunBefore(args, spec, 1) \in 0 .. 1 - 1
    BY RunFits
  <2>2. RunBefore(args, spec, 1) = 0
    BY <2>1
  <2>. QED  BY <2>2 DEF IsValue
<1>4. CASE ~Owes(args, spec, i)
  <2>1. b = 0
    <3>1. b # 0 => i \in i + 1 - b .. i + 1 - 1
      OBVIOUS
    <3>. QED  BY <1>2, <1>4, <3>1 DEF Runs
  <2>. QED  BY <1>1, <1>3, <1>4, <2>1 DEF IsValue
<1>5. CASE Owes(args, spec, i)
  <2>1. a + 1 \in Runs(args, spec, i + 1)
    <3>1. a \in 0 .. i - 1 /\ \A j \in i - a .. i - 1 : Owes(args, spec, j)
      BY <1>2 DEF Runs
    <3>2. a + 1 \in 0 .. i + 1 - 1
      BY <3>1
    <3>3. ASSUME NEW j \in i + 1 - (a + 1) .. i + 1 - 1 PROVE Owes(args, spec, j)
      <4>1. j = i \/ j \in i - a .. i - 1
        OBVIOUS
      <4>. QED  BY <1>5, <3>1, <4>1
    <3>. QED  BY <3>2, <3>3 DEF Runs
  <2>2. b # 0
    BY <1>2, <2>1
  <2>3. b - 1 \in Runs(args, spec, i)
    <3>1. b \in 0 .. i + 1 - 1 /\ \A j \in i + 1 - b .. i + 1 - 1 : Owes(args, spec, j)
      BY <1>2 DEF Runs
    <3>2. b - 1 \in 0 .. i - 1
      BY <2>2, <3>1
    <3>3. ASSUME NEW j \in i - (b - 1) .. i - 1 PROVE Owes(args, spec, j)
      <4>1. j \in i + 1 - b .. i + 1 - 1
        OBVIOUS
      <4>. QED  BY <3>1, <4>1
    <3>. QED  BY <3>2, <3>3 DEF Runs
  <2>4. b = a + 1
    <3>1. a + 1 <= b /\ b - 1 <= a
      BY <1>2, <2>1, <2>3
    <3>. QED  BY <3>1
  <2>5. (a + 1) % 2 = 1 <=> ~(a % 2 = 1)
    OBVIOUS
  <2>. QED  BY <1>1, <1>3, <1>5, <2>4, <2>5 DEF IsValue
<1>. QED  BY <1>4, <1>5

(* What the words stand for, as far as the first k of them.                *)
Own(args, spec) == {i \in DOMAIN args : ~IsValue(args, spec, i)}
Plain(args, spec) == {i \in Own(args, spec) : ~args[i].dash}
Known(args, spec, i) ==
    \/ ~args[i].dash
    \/ args[i].name \in spec.booleans /\ ~args[i].eq
    \/ args[i].name \in spec.values
GivenBy(args, spec, m, k) ==
    {i \in Own(args, spec) : i <= k /\ args[i].dash /\ args[i].name = m}
PaidBy(args, spec, m, k) ==
    {i \in GivenBy(args, spec, m, k) : args[i].eq \/ i < k}
LastOf(s) == CHOOSE i \in s : \A j \in s : j <= i
ValueOf(args, i) == IF args[i].eq THEN W(args[i].text) ELSE args[i + 1]

Values(args, spec, k) ==
    [m \in {l \in spec.values : PaidBy(args, spec, l, k) # {}} |->
        ValueOf(args, LastOf(PaidBy(args, spec, m, k)))]
Booleans(args, spec, k) == {m \in spec.booleans : GivenBy(args, spec, m, k) # {}}
Debt(args, spec, k) ==
    IF k \in Own(args, spec) /\ Owes(args, spec, k) THEN args[k].name ELSE NoOption

(* The plain words among the first k, in their order.                      *)
Positions(args, spec, k, p) ==
    /\ p \in Seq(Word) /\ Len(p) = Rank(Plain(args, spec), k)
    /\ \A i \in Plain(args, spec) : i <= k => p[Rank(Plain(args, spec), i)] = args[i]

(* The states of the pass.                                                *)
Fine == TRUE
Wrong == FALSE
State(o, w, v, b, p) == [ok |-> o, owed |-> w, flags |-> Flags(v, b, p)]

Parsed(args, spec, k, acc) ==
    \/ /\ \E i \in Own(args, spec) : i <= k /\ ~Known(args, spec, i)
       /\ acc.ok = FALSE
    \/ /\ \A i \in Own(args, spec) : i <= k => Known(args, spec, i)
       /\ \E p : /\ Positions(args, spec, k, p)
                 /\ acc = State(Fine, Debt(args, spec, k), Values(args, spec, k),
                                Booleans(args, spec, k), p)

(* No option takes a value and takes none, and an option has a name.       *)
Sound(spec) == spec.booleans \cap spec.values = {} /\ NoOption \notin spec.values

PutOk(acc, x) == [acc EXCEPT !.ok = x]
PutOwed(acc, x) == [acc EXCEPT !.owed = x]
PutValues(acc, x) == [acc EXCEPT !.flags.values = x]
PutBooleans(acc, x) == [acc EXCEPT !.flags.booleans = x]
PutPlain(acc, x) == [acc EXCEPT !.flags.positionals = x]

LEMMA Changed ==
    ASSUME NEW o, NEW w, NEW v, NEW b, NEW p, NEW x, NEW acc, acc = State(o, w, v, b, p)
    PROVE  /\ PutOk(acc, x) = State(x, w, v, b, p)
           /\ PutOwed(acc, x) = State(o, x, v, b, p)
           /\ PutValues(acc, x) = State(o, w, x, b, p)
           /\ PutBooleans(acc, x) = State(o, w, v, x, p)
           /\ PutPlain(acc, x) = State(o, w, v, b, x)
<1>1. PICK f : f = [values |-> v, booleans |-> b, positionals |-> p]
  OBVIOUS
<1>2. acc = [ok |-> o, owed |-> w, flags |-> f]
  BY <1>1 DEF State, Flags
<1>3. /\ [acc EXCEPT !.ok = x] = [ok |-> x, owed |-> w, flags |-> f]
      /\ [acc EXCEPT !.owed = x] = [ok |-> o, owed |-> x, flags |-> f]
  BY <1>2
<1>4. \A g : [acc EXCEPT !.flags = g] = [ok |-> o, owed |-> w, flags |-> g]
  BY <1>2
<1>5. /\ [f EXCEPT !.values = x] = [values |-> x, booleans |-> b, positionals |-> p]
      /\ [f EXCEPT !.booleans = x] = [values |-> v, booleans |-> x, positionals |-> p]
      /\ [f EXCEPT !.positionals = x] = [values |-> v, booleans |-> b, positionals |-> x]
  BY <1>1
<1>6. acc.flags = f
  BY <1>2
<1>7. [acc EXCEPT !.flags.values = x] = State(o, w, x, b, p)
  <2>1. [acc EXCEPT !.flags = [f EXCEPT !.values = x]] = State(o, w, x, b, p)
    BY <1>4, <1>5 DEF State, Flags
  <2>. QED  BY <1>6, <2>1
<1>8. [acc EXCEPT !.flags.booleans = x] = State(o, w, v, x, p)
  <2>1. [acc EXCEPT !.flags = [f EXCEPT !.booleans = x]] = State(o, w, v, x, p)
    BY <1>4, <1>5 DEF State, Flags
  <2>. QED  BY <1>6, <2>1
<1>9. [acc EXCEPT !.flags.positionals = x] = State(o, w, v, b, x)
  <2>1. [acc EXCEPT !.flags = [f EXCEPT !.positionals = x]] = State(o, w, v, b, x)
    BY <1>4, <1>5 DEF State, Flags
  <2>. QED  BY <1>6, <2>1
<1>10. /\ PutOk(acc, x) = State(x, w, v, b, p)
       /\ PutOwed(acc, x) = State(o, x, v, b, p)
  BY <1>1, <1>3 DEF State, Flags, PutOk, PutOwed
<1>. QED  BY <1>7, <1>8, <1>9, <1>10, Zenon DEF PutValues, PutBooleans, PutPlain

(* What one word does to the state.                                        *)
StateAfter(spec, word, w, v, b, p) ==
    IF w # NoOption THEN State(Fine, NoOption, With(v, w, word), b, p)
    ELSE IF ~word.dash THEN State(Fine, w, v, b, Append(p, word))
    ELSE IF word.name \in spec.booleans /\ ~word.eq
    THEN State(Fine, w, v, b \cup {word.name}, p)
    ELSE IF word.name \in spec.values /\ word.eq
    THEN State(Fine, w, With(v, word.name, W(word.text)), b, p)
    ELSE IF word.name \in spec.values THEN State(Fine, word.name, v, b, p)
    ELSE State(Wrong, w, v, b, p)

LEMMA StepIs ==
    ASSUME NEW spec, NEW word \in Word, NEW w, NEW v, NEW b, NEW p, NEW acc, NEW next,
           acc = State(Fine, w, v, b, p), next = OneWord(spec, acc, word)
    PROVE  next = StateAfter(spec, word, w, v, b, p)
<1>1. /\ acc.ok = Fine /\ acc.owed = w /\ acc.flags = Flags(v, b, p)
      /\ Flags(v, b, p).values = v /\ Flags(v, b, p).booleans = b
      /\ Flags(v, b, p).positionals = p
  BY DEF State, Flags
<1>2. next = ReadWord(spec, acc, word)
  BY <1>1 DEF OneWord, Fine
<1>4. ASSUME NEW x
      PROVE  /\ PutOk(acc, x) = State(x, w, v, b, p)
             /\ PutOwed(acc, x) = State(Fine, x, v, b, p)
             /\ PutValues(acc, x) = State(Fine, w, x, b, p)
             /\ PutBooleans(acc, x) = State(Fine, w, v, x, p)
             /\ PutPlain(acc, x) = State(Fine, w, v, b, x)
  BY Changed
<1>5. ASSUME NEW x
      PROVE  PutValues(PutOwed(acc, NoOption), x) = State(Fine, NoOption, x, b, p)
  <2>1. PICK a : a = PutOwed(acc, NoOption)
    OBVIOUS
  <2>2. a = State(Fine, NoOption, v, b, p)
    BY <1>4, <2>1
  <2>3. PutValues(a, x) = State(Fine, NoOption, x, b, p)
    BY <2>2, Changed
  <2>. QED  BY <2>1, <2>3
<1>6. PICK f : f = acc.flags /\ f.values = v /\ f.booleans = b /\ f.positionals = p
  BY <1>1
<1>7. CASE w # NoOption
  <2>1. next = PutValues(PutOwed(acc, NoOption), With(acc.flags.values, acc.owed, word))
    BY <1>1, <1>2, <1>7, Zenon DEF ReadWord, Consumes, PutValues, PutOwed
  <2>2. With(acc.flags.values, acc.owed, word) = With(v, w, word)
    BY <1>1, <1>6
  <2>. QED  BY <1>5, <1>7, <2>1, <2>2 DEF StateAfter
<1>8. CASE w = NoOption
  <2>1. ~Consumes(acc, word)
    BY <1>1, <1>8 DEF Consumes
  <2>2. CASE ~word.dash
    <3>1. next = PutPlain(acc, Append(acc.flags.positionals, word))
      BY <1>2, <2>1, <2>2, Zenon DEF ReadWord, PutOk, PutOwed, PutValues, PutBooleans, PutPlain, Wrong
    <3>2. acc.flags.positionals = p
      BY <1>6
    <3>. QED  BY <1>4, <1>8, <2>2, <3>1, <3>2 DEF StateAfter
  <2>3. CASE word.dash /\ word.name \in spec.booleans /\ ~word.eq
    <3>1. next = PutBooleans(acc, acc.flags.booleans \cup {word.name})
      BY <1>2, <2>1, <2>3, Zenon DEF ReadWord, PutOk, PutOwed, PutValues, PutBooleans, PutPlain, Wrong
    <3>2. acc.flags.booleans = b
      BY <1>6
    <3>. QED  BY <1>4, <1>8, <2>3, <3>1, <3>2 DEF StateAfter
  <2>4. CASE /\ word.dash /\ ~(word.name \in spec.booleans /\ ~word.eq)
             /\ word.name \in spec.values /\ word.eq
    <3>1. next = PutValues(acc, With(acc.flags.values, word.name, W(word.text)))
      BY <1>2, <2>1, <2>4, Zenon DEF ReadWord, PutOk, PutOwed, PutValues, PutBooleans, PutPlain, Wrong
    <3>2. acc.flags.values = v
      BY <1>6
    <3>. QED  BY <1>4, <1>8, <2>4, <3>1, <3>2 DEF StateAfter
  <2>5. CASE /\ word.dash /\ ~(word.name \in spec.booleans /\ ~word.eq)
             /\ word.name \in spec.values /\ ~word.eq
    <3>1. next = PutOwed(acc, word.name)
      BY <1>2, <2>1, <2>5, Zenon DEF ReadWord, PutOk, PutOwed, PutValues, PutBooleans, PutPlain, Wrong
    <3>. QED  BY <1>4, <1>8, <2>5, <3>1 DEF StateAfter
  <2>6. CASE /\ word.dash /\ ~(word.name \in spec.booleans /\ ~word.eq)
             /\ word.name \notin spec.values
    <3>1. next = PutOk(acc, Wrong)
      BY <1>2, <2>1, <2>6, Zenon DEF ReadWord, PutOk, PutOwed, PutValues, PutBooleans, PutPlain, Wrong
    <3>. QED  BY <1>4, <1>8, <2>6, <3>1 DEF StateAfter
  <2>. QED  BY <2>2, <2>3, <2>4, <2>5, <2>6
<1>. QED  BY <1>7, <1>8

LEMMA ParsedStart ==
    ASSUME NEW args \in Seq(Word), NEW spec, NEW n \in Nat, DOMAIN args = 1 .. n
    PROVE  Parsed(args, spec, 0, Before)
<1>1. \A i \in Own(args, spec) : ~(i <= 0) /\ i # 0
  BY DEF Own
<1>2. \A m : GivenBy(args, spec, m, 0) = {} /\ PaidBy(args, spec, m, 0) = {}
  BY <1>1 DEF GivenBy, PaidBy
<1>3. Booleans(args, spec, 0) = {}
  BY <1>2 DEF Booleans
<1>4. Values(args, spec, 0) = <<>>
  <2>1. {l \in spec.values : PaidBy(args, spec, l, 0) # {}} = {}
    BY <1>2
  <2>. QED  BY <2>1 DEF Values
<1>5. Debt(args, spec, 0) = NoOption
  BY <1>1 DEF Debt
<1>6. Positions(args, spec, 0, <<>>)
  <2>1. Plain(args, spec) \in SUBSET (1 .. n) /\ 0 \in 0 .. n
    BY DEF Plain, Own
  <2>2. Rank(Plain(args, spec), 0) = 0
    BY <2>1, RankFits
  <2>3. \A i \in Plain(args, spec) : ~(i <= 0)
    BY <1>1 DEF Plain
  <2>. QED  BY <2>2, <2>3 DEF Positions
<1>7. Before = State(Fine, NoOption, <<>>, {}, <<>>)
  BY DEF Before, State, NoFlags, Fine
<1>. QED  BY <1>1, <1>3, <1>4, <1>5, <1>6, <1>7 DEF Parsed

(* The latest of a set that gets a later one.                              *)
LEMMA LastIs ==
    ASSUME NEW s \in SUBSET Nat, NEW k \in Nat, \A i \in s : i <= k, k \in s
    PROVE  LastOf(s) = k
<1>1. \A j \in s : (\A i \in s : i <= j) => j = k
  <2>1. ASSUME NEW j \in s, \A i \in s : i <= j PROVE j = k
    <3>1. k <= j /\ j <= k /\ j \in Nat
      BY <2>1
    <3>. QED  BY <3>1
  <2>. QED  BY <2>1
<1>. QED  BY <1>1 DEF LastOf

(* The values that are known once one more option is paid for at k.        *)
LEMMA ValuesGrow ==
    ASSUME NEW args, NEW spec, NEW n \in Nat, DOMAIN args = 1 .. n,
           NEW k \in 1 .. n, NEW m \in spec.values, NEW i \in 1 .. k,
           PaidBy(args, spec, m, k) = PaidBy(args, spec, m, k - 1) \cup {i},
           \A j \in PaidBy(args, spec, m, k) : j <= i,
           \A l \in spec.values : l # m => PaidBy(args, spec, l, k) = PaidBy(args, spec, l, k - 1)
    PROVE  Values(args, spec, k) = With(Values(args, spec, k - 1), m, ValueOf(args, i))
<1>1. PICK V, U : /\ V = {l \in spec.values : PaidBy(args, spec, l, k) # {}}
                  /\ U = {l \in spec.values : PaidBy(args, spec, l, k - 1) # {}}
  OBVIOUS
<1>2. V = U \cup {m}
  BY <1>1
<1>3. LastOf(PaidBy(args, spec, m, k)) = i
  <2>1. PaidBy(args, spec, m, k) \in SUBSET Nat
    BY DEF PaidBy, GivenBy, Own
  <2>2. i \in Nat /\ i \in PaidBy(args, spec, m, k)
    OBVIOUS
  <2>. QED  BY <2>1, <2>2, LastIs
<1>4. PICK f : f = Values(args, spec, k - 1)
  OBVIOUS
<1>5. DOMAIN f = U /\ \A l \in U : f[l] = ValueOf(args, LastOf(PaidBy(args, spec, l, k - 1)))
  BY <1>1, <1>4 DEF Values
<1>6. With(f, m, ValueOf(args, i)) = [l \in V |-> IF l = m THEN ValueOf(args, i) ELSE f[l]]
  BY <1>2, <1>5 DEF With
<1>7. \A l \in V : ValueOf(args, LastOf(PaidBy(args, spec, l, k)))
                     = IF l = m THEN ValueOf(args, i) ELSE f[l]
  BY <1>1, <1>2, <1>3, <1>5
<1>8. Values(args, spec, k) = [l \in V |-> ValueOf(args, LastOf(PaidBy(args, spec, l, k)))]
  BY <1>1 DEF Values
<1>. QED  BY <1>4, <1>6, <1>7, <1>8

(* The words in front of word k, and word k.                               *)
LEMMA OneMoreWord ==
    ASSUME NEW args \in Seq(Word), NEW spec, NEW n \in Nat, DOMAIN args = 1 .. n,
           NEW k \in 1 .. n
    PROVE  /\ Own(args, spec) \in SUBSET (1 .. n) /\ args[k] \in Word
           /\ k \notin Own(args, spec) <=>
                 k - 1 \in Own(args, spec) /\ Owes(args, spec, k - 1)
           /\ \A i \in Own(args, spec) : /\ i <= k <=> i <= k - 1 \/ i = k
                                         /\ i < k <=> i <= k - 1
                                         /\ i <= k - 1 => i # k
                                         /\ i < k - 1 => i # k - 1
                                         /\ i <= k - 1 => i < k - 1 \/ i = k - 1
<1>1. Own(args, spec) \in SUBSET (1 .. n) /\ args[k] \in Word
  BY DEF Own
<1>2. \A i \in Own(args, spec) : /\ i <= k <=> i <= k - 1 \/ i = k
                                 /\ i < k <=> i <= k - 1
                                 /\ i <= k - 1 => i # k
                                 /\ i < k - 1 => i # k - 1
                                 /\ i <= k - 1 => i < k - 1 \/ i = k - 1
  BY <1>1
<1>3. CASE k = 1
  <2>1. ~IsValue(args, spec, 1) /\ 1 \in 1 .. n /\ 0 \notin 1 .. n /\ 1 - 1 = 0
    BY <1>3, ValueAfterOption
  <2>. QED  BY <1>1, <1>2, <1>3, <2>1 DEF Own
<1>4. CASE k # 1
  <2>1. PICK i \in Nat \ {0} : i = k - 1 /\ i + 1 = k /\ i \in 1 .. n
    BY <1>4
  <2>2. IsValue(args, spec, i + 1) <=> Owes(args, spec, i) /\ ~IsValue(args, spec, i)
    BY ValueAfterOption
  <2>3. k \notin Own(args, spec) <=> i \in Own(args, spec) /\ Owes(args, spec, i)
    BY <2>1, <2>2 DEF Own
  <2>. QED  BY <1>1, <1>2, <2>1, <2>3
<1>. QED  BY <1>3, <1>4

(* What the first k words give beyond the first k - 1.                     *)
LEMMA GivenGrows ==
    ASSUME NEW args \in Seq(Word), NEW spec, Sound(spec), NEW n \in Nat, DOMAIN args = 1 .. n,
           NEW k \in 1 .. n, NEW m
    PROVE  /\ GivenBy(args, spec, m, k) =
                 IF k \in Own(args, spec) /\ args[k].dash /\ args[k].name = m
                 THEN GivenBy(args, spec, m, k - 1) \cup {k} ELSE GivenBy(args, spec, m, k - 1)
           /\ k \in Own(args, spec) /\ m \in spec.values =>
                 PaidBy(args, spec, m, k) =
                    IF args[k].dash /\ args[k].name = m /\ args[k].eq
                    THEN PaidBy(args, spec, m, k - 1) \cup {k} ELSE PaidBy(args, spec, m, k - 1)
           /\ k \notin Own(args, spec) /\ m \in spec.values =>
                 PaidBy(args, spec, m, k) =
                    IF m = args[k - 1].name
                    THEN PaidBy(args, spec, m, k - 1) \cup {k - 1} ELSE PaidBy(args, spec, m, k - 1)
<1>. DEFINE O == Own(args, spec)
            G(l) == GivenBy(args, spec, m, l)
            P(l) == PaidBy(args, spec, m, l)
<1>1. /\ O \in SUBSET (1 .. n)
      /\ k \notin O <=> k - 1 \in O /\ Owes(args, spec, k - 1)
  BY OneMoreWord
<1>2. ASSUME NEW i, NEW l
      PROVE  /\ i \in G(l) <=> i \in O /\ i <= l /\ args[i].dash /\ args[i].name = m
             /\ i \in P(l) <=> i \in G(l) /\ (args[i].eq \/ i < l)
  BY DEF GivenBy, PaidBy
<1>. HIDE DEF O, G, P
<1>3. ASSUME NEW i
      PROVE  i \in G(k) <=> \/ i \in G(k - 1)
                            \/ i = k /\ k \in O /\ args[k].dash /\ args[k].name = m
  <2>1. i \in O => (i <= k <=> i <= k - 1 \/ i = k)
    BY <1>1
  <2>2. k <= k
    OBVIOUS
  <2>. QED  BY <1>2, <2>1, <2>2
<1>4. G(k) = IF k \in O /\ args[k].dash /\ args[k].name = m THEN G(k - 1) \cup {k} ELSE G(k - 1)
  BY <1>3
<1>5. ASSUME NEW i
      PROVE  i \in P(k) <=> i \in G(k - 1) \/ (i = k /\ k \in G(k) /\ args[k].eq)
  <2>1. i \in O => (i < k <=> i <= k - 1) /\ (i <= k - 1 => i # k)
    BY <1>1
  <2>. QED  BY <1>2, <1>3, <2>1
<1>6. ASSUME NEW i
      PROVE  i \in G(k - 1) <=> i \in P(k - 1) \/ (i = k - 1 /\ k - 1 \in G(k - 1))
  <2>1. i \in O => (i <= k - 1 => i < k - 1 \/ i = k - 1)
    BY <1>1
  <2>. QED  BY <1>2, <2>1
<1>7. k \in G(k) <=> k \in O /\ args[k].dash /\ args[k].name = m
  <2>1. k <= k
    OBVIOUS
  <2>. QED  BY <1>2, <2>1
<1>8. k - 1 \in G(k - 1) <=> k - 1 \in O /\ args[k - 1].dash /\ args[k - 1].name = m
  <2>1. k - 1 <= k - 1
    OBVIOUS
  <2>. QED  BY <1>2, <2>1
<1>9. ASSUME k \in O, m \in spec.values
      PROVE  P(k) = IF args[k].dash /\ args[k].name = m /\ args[k].eq
                    THEN P(k - 1) \cup {k} ELSE P(k - 1)
  <2>1. k - 1 \in G(k - 1) => args[k - 1].eq
    BY <1>1, <1>8, <1>9 DEF Owes
  <2>2. k - 1 \in G(k - 1) => k - 1 \in P(k - 1)
    BY <1>2, <2>1
  <2>3. ASSUME NEW i
        PROVE  i \in P(k) <=> \/ i \in P(k - 1)
                              \/ i = k /\ args[k].dash /\ args[k].name = m /\ args[k].eq
    BY <1>5, <1>6, <1>7, <1>9, <2>2
  <2>. QED  BY <2>3
<1>10. ASSUME k \notin O, m \in spec.values
       PROVE  P(k) = IF m = args[k - 1].name THEN P(k - 1) \cup {k - 1} ELSE P(k - 1)
  <2>1. k - 1 \in G(k - 1) <=> args[k - 1].name = m
    BY <1>1, <1>8, <1>10 DEF Owes
  <2>2. ASSUME NEW i
        PROVE  i \in P(k) <=> i \in P(k - 1) \/ (i = k - 1 /\ args[k - 1].name = m)
    BY <1>5, <1>6, <1>7, <1>10, <2>1
  <2>. QED  BY <2>2
<1>. QED  BY <1>4, <1>9, <1>10 DEF O, G, P

(* The plain words among the first k.                                      *)
LEMMA PositionsGrow ==
    ASSUME NEW args \in Seq(Word), NEW spec, NEW n \in Nat, DOMAIN args = 1 .. n,
           NEW k \in 1 .. n, NEW p, Positions(args, spec, k - 1, p)
    PROVE  /\ k \in Plain(args, spec) => Positions(args, spec, k, Append(p, args[k]))
           /\ k \notin Plain(args, spec) => Positions(args, spec, k, p)
<1>1. PICK A \in SUBSET (1 .. n) : A = Plain(args, spec)
  BY DEF Plain, Own
<1>2. /\ p \in Seq(Word) /\ Len(p) = Rank(A, k - 1) /\ Len(p) \in Nat
      /\ \A i \in A : i <= k - 1 => p[Rank(A, i)] = args[i]
  BY <1>1 DEF Positions
<1>3. Rank(A, k) = Rank(A, k - 1) + (IF k \in A THEN 1 ELSE 0)
  BY RankNext
<1>4. \A i \in A : i <= k <=> i <= k - 1 \/ i = k
  OBVIOUS
<1>5. CASE k \notin A
  <2>1. Rank(A, k) = Rank(A, k - 1)
    BY <1>2, <1>3, <1>5
  <2>. QED  BY <1>1, <1>2, <1>4, <1>5, <2>1 DEF Positions
<1>6. CASE k \in A
  <2>1. PICK q : q = Append(p, args[k])
    OBVIOUS
  <2>2. args[k] \in Word
    OBVIOUS
  <2>3. /\ q \in Seq(Word) /\ Len(q) = Len(p) + 1 /\ q[Len(p) + 1] = args[k]
        /\ \A j \in 1 .. Len(p) : q[j] = p[j]
    BY <1>2, <2>1, <2>2, AppendProperties
  <2>4. Len(q) = Rank(A, k)
    BY <1>2, <1>3, <1>6, <2>3
  <2>5. ASSUME NEW i \in A, i <= k PROVE q[Rank(A, i)] = args[i]
    <3>1. CASE i = k
      BY <1>2, <2>3, <2>4, <3>1
    <3>2. CASE i # k
      <4>1. i <= k - 1 /\ i \in 1 .. n /\ i \in 0 .. n /\ 0 \in 0 .. n /\ 0 < i /\ i < k
        BY <1>4, <2>5, <3>2
      <4>2. Rank(A, i) < Rank(A, k) /\ Rank(A, 0) < Rank(A, i)
        BY <4>1, <1>6, RankRises
      <4>3. Rank(A, i) \in Nat /\ Rank(A, 0) = 0
        BY <4>1, RankFits
      <4>4. Rank(A, i) \in 1 .. Len(p)
        BY <1>2, <1>3, <1>6, <4>2, <4>3
      <4>. QED  BY <1>2, <2>3, <4>1, <4>4
    <3>. QED  BY <3>1, <3>2
  <2>. QED  BY <1>1, <1>6, <2>1, <2>3, <2>4, <2>5 DEF Positions
<1>. QED  BY <1>1, <1>5, <1>6

LEMMA SameMeaning ==
    ASSUME NEW args, NEW spec, NEW k, NEW l
    PROVE  /\ (\A m \in spec.values : PaidBy(args, spec, m, k) = PaidBy(args, spec, m, l))
                 => Values(args, spec, k) = Values(args, spec, l)
           /\ (\A m \in spec.booleans : GivenBy(args, spec, m, k) = GivenBy(args, spec, m, l))
                 => Booleans(args, spec, k) = Booleans(args, spec, l)
<1>1. ASSUME \A m \in spec.booleans : GivenBy(args, spec, m, k) = GivenBy(args, spec, m, l)
      PROVE  Booleans(args, spec, k) = Booleans(args, spec, l)
  BY <1>1 DEF Booleans
<1>2. ASSUME \A m \in spec.values : PaidBy(args, spec, m, k) = PaidBy(args, spec, m, l)
      PROVE  Values(args, spec, k) = Values(args, spec, l)
  <2>1. PICK V : V = {m \in spec.values : PaidBy(args, spec, m, l) # {}}
    OBVIOUS
  <2>2. V = {m \in spec.values : PaidBy(args, spec, m, k) # {}}
    BY <1>2, <2>1
  <2>3. \A m \in V : ValueOf(args, LastOf(PaidBy(args, spec, m, k)))
                     = ValueOf(args, LastOf(PaidBy(args, spec, m, l)))
    BY <1>2, <2>1
  <2>4. Values(args, spec, k) = [m \in V |-> ValueOf(args, LastOf(PaidBy(args, spec, m, k)))]
    BY <2>2 DEF Values
  <2>5. Values(args, spec, l) = [m \in V |-> ValueOf(args, LastOf(PaidBy(args, spec, m, l)))]
    BY <2>1 DEF Values
  <2>. QED  BY <2>3, <2>4, <2>5
<1>. QED  BY <1>1, <1>2

(* Word k is the value that is waited for.                                 *)
LEMMA ReadsValue ==
    ASSUME NEW args \in Seq(Word), NEW spec, Sound(spec), NEW n \in Nat, DOMAIN args = 1 .. n,
           NEW k \in 1 .. n, k \notin Own(args, spec), NEW p,
           \A i \in Own(args, spec) : i <= k - 1 => Known(args, spec, i),
           Positions(args, spec, k - 1, p), NEW acc, NEW next,
           acc = State(Fine, Debt(args, spec, k - 1), Values(args, spec, k - 1),
                       Booleans(args, spec, k - 1), p),
           next = OneWord(spec, acc, args[k])
    PROVE  Parsed(args, spec, k, next)
<1>1. /\ Own(args, spec) \in SUBSET (1 .. n) /\ args[k] \in Word
      /\ k - 1 \in Own(args, spec) /\ Owes(args, spec, k - 1)
      /\ \A i \in Own(args, spec) : i <= k <=> i <= k - 1 \/ i = k
  BY OneMoreWord
<1>2. PICK w : w = args[k - 1].name
  OBVIOUS
<1>3. w \in spec.values /\ w # NoOption /\ Debt(args, spec, k - 1) = w /\ ~args[k - 1].eq
  BY <1>1, <1>2 DEF Owes, Debt, Sound
<1>4. PICK v, b : v = Values(args, spec, k - 1) /\ b = Booleans(args, spec, k - 1)
  OBVIOUS
<1>5. next = State(Fine, NoOption, With(v, w, args[k]), b, p)
  <2>1. acc = State(Fine, w, v, b, p)
    BY <1>3, <1>4
  <2>2. next = StateAfter(spec, args[k], w, v, b, p)
    BY <1>1, <2>1, StepIs
  <2>. QED  BY <1>3, <2>2 DEF StateAfter
<1>6. \A i \in Own(args, spec) : i <= k => Known(args, spec, i)
  BY <1>1
<1>7. Debt(args, spec, k) = NoOption
  BY DEF Debt
<1>8. Booleans(args, spec, k) = b
  <2>1. \A m \in spec.booleans : GivenBy(args, spec, m, k) = GivenBy(args, spec, m, k - 1)
    BY GivenGrows
  <2>. QED  BY <1>4, <2>1, SameMeaning
<1>9. Values(args, spec, k) = With(v, w, args[k])
  <2>1. \A m \in spec.values :
            PaidBy(args, spec, m, k) = IF m = w THEN PaidBy(args, spec, m, k - 1) \cup {k - 1}
                                       ELSE PaidBy(args, spec, m, k - 1)
    BY <1>2, GivenGrows
  <2>2. PICK i \in 1 .. k : i = k - 1
    BY <1>1
  <2>3. \A j \in PaidBy(args, spec, w, k) : j <= i
    <3>1. \A j \in PaidBy(args, spec, w, k - 1) : j <= k - 1
      BY DEF PaidBy, GivenBy
    <3>. QED  BY <1>3, <2>1, <2>2, <3>1
  <2>4. Values(args, spec, k) = With(Values(args, spec, k - 1), w, ValueOf(args, i))
    <3>1. PaidBy(args, spec, w, k) = PaidBy(args, spec, w, k - 1) \cup {i}
      BY <1>3, <2>1, <2>2
    <3>2. \A l \in spec.values : l # w => PaidBy(args, spec, l, k) = PaidBy(args, spec, l, k - 1)
      BY <2>1
    <3>. QED  BY <1>3, <2>3, <3>1, <3>2, ValuesGrow
  <2>5. ValueOf(args, i) = args[k]
    <3>1. i + 1 = k
      BY <2>2
    <3>. QED  BY <1>3, <2>2, <3>1 DEF ValueOf
  <2>. QED  BY <1>4, <2>4, <2>5
<1>10. Positions(args, spec, k, p)
  <2>1. k \notin Plain(args, spec)
    BY DEF Plain
  <2>. QED  BY <2>1, PositionsGrow
<1>11. next = State(Fine, Debt(args, spec, k), Values(args, spec, k), Booleans(args, spec, k), p)
  BY <1>5, <1>7, <1>8, <1>9
<1>. QED  BY <1>6, <1>10, <1>11 DEF Parsed

(* Word k stands for itself.                                               *)
LEMMA ReadsWord ==
    ASSUME NEW args \in Seq(Word), NEW spec, Sound(spec), NEW n \in Nat, DOMAIN args = 1 .. n,
           NEW k \in 1 .. n, k \in Own(args, spec), NEW p,
           \A i \in Own(args, spec) : i <= k - 1 => Known(args, spec, i),
           Positions(args, spec, k - 1, p), NEW acc, NEW next,
           acc = State(Fine, Debt(args, spec, k - 1), Values(args, spec, k - 1),
                       Booleans(args, spec, k - 1), p),
           next = OneWord(spec, acc, args[k])
    PROVE  Parsed(args, spec, k, next)
<1>1. PICK word \in Word : word = args[k]
  OBVIOUS
<1>2. /\ ~(k - 1 \in Own(args, spec) /\ Owes(args, spec, k - 1))
      /\ \A i \in Own(args, spec) : i <= k <=> i <= k - 1 \/ i = k
  BY OneMoreWord
<1>3. Debt(args, spec, k - 1) = NoOption
  BY <1>2 DEF Debt
<1>4. PICK v, b : v = Values(args, spec, k - 1) /\ b = Booleans(args, spec, k - 1)
  OBVIOUS
<1>5. acc = State(Fine, NoOption, v, b, p)
  BY <1>3, <1>4
<1>6. next = IF ~word.dash THEN State(Fine, NoOption, v, b, Append(p, word))
             ELSE IF word.name \in spec.booleans /\ ~word.eq
             THEN State(Fine, NoOption, v, b \cup {word.name}, p)
             ELSE IF word.name \in spec.values /\ word.eq
             THEN State(Fine, NoOption, With(v, word.name, W(word.text)), b, p)
             ELSE IF word.name \in spec.values THEN State(Fine, word.name, v, b, p)
             ELSE State(Wrong, NoOption, v, b, p)
  <2>1. next = StateAfter(spec, word, NoOption, v, b, p)
    BY <1>1, <1>5, StepIs
  <2>. QED  BY <2>1 DEF StateAfter
<1>7. /\ \A m : GivenBy(args, spec, m, k) =
                   IF word.dash /\ word.name = m
                   THEN GivenBy(args, spec, m, k - 1) \cup {k} ELSE GivenBy(args, spec, m, k - 1)
      /\ \A m \in spec.values : PaidBy(args, spec, m, k) =
                   IF word.dash /\ word.name = m /\ word.eq
                   THEN PaidBy(args, spec, m, k - 1) \cup {k} ELSE PaidBy(args, spec, m, k - 1)
  BY <1>1, GivenGrows
<1>8. Debt(args, spec, k) =
          IF word.dash /\ ~word.eq /\ word.name \in spec.values THEN word.name ELSE NoOption
  BY <1>1 DEF Debt, Owes
<1>9. /\ ~word.dash => Positions(args, spec, k, Append(p, word))
      /\ word.dash => Positions(args, spec, k, p)
  <2>1. k \in Plain(args, spec) <=> ~word.dash
    BY <1>1 DEF Plain
  <2>. QED  BY <1>1, <2>1, PositionsGrow
<1>10. Known(args, spec, k) <=> \/ ~word.dash
                                \/ word.name \in spec.booleans /\ ~word.eq
                                \/ word.name \in spec.values
  BY <1>1 DEF Known
<1>11. Known(args, spec, k) => \A i \in Own(args, spec) : i <= k => Known(args, spec, i)
  BY <1>2
<1>12. CASE ~word.dash
  <2>1. Values(args, spec, k) = v /\ Booleans(args, spec, k) = b
    BY <1>4, <1>7, <1>12, SameMeaning
  <2>2. Debt(args, spec, k) = NoOption /\ Known(args, spec, k)
    BY <1>8, <1>10, <1>12
  <2>3. next = State(Fine, NoOption, v, b, Append(p, word))
    BY <1>6, <1>12
  <2>4. next = State(Fine, Debt(args, spec, k), Values(args, spec, k), Booleans(args, spec, k),
                     Append(p, word))
    BY <2>1, <2>2, <2>3
  <2>. QED  BY <1>9, <1>11, <1>12, <2>2, <2>4 DEF Parsed
<1>13. CASE word.dash /\ word.name \in spec.booleans /\ ~word.eq
  <2>1. word.name \notin spec.values
    BY <1>13 DEF Sound
  <2>2. Values(args, spec, k) = v
    <3>1. \A m \in spec.values : PaidBy(args, spec, m, k) = PaidBy(args, spec, m, k - 1)
      BY <1>7, <1>13
    <3>. QED  BY <1>4, <3>1, SameMeaning
  <2>3. Booleans(args, spec, k) = b \cup {word.name}
    BY <1>4, <1>7, <1>13 DEF Booleans
  <2>4. Debt(args, spec, k) = NoOption /\ Known(args, spec, k)
    BY <1>8, <1>10, <1>13, <2>1
  <2>5. next = State(Fine, Debt(args, spec, k), Values(args, spec, k), Booleans(args, spec, k), p)
    BY <1>6, <1>13, <2>2, <2>3, <2>4
  <2>. QED  BY <1>9, <1>11, <1>13, <2>4, <2>5 DEF Parsed
<1>14. CASE word.dash /\ word.name \in spec.values /\ word.eq
  <2>1. word.name \notin spec.booleans
    BY <1>14 DEF Sound
  <2>2. Booleans(args, spec, k) = b
    <3>1. \A m \in spec.booleans : GivenBy(args, spec, m, k) = GivenBy(args, spec, m, k - 1)
      BY <1>7, <2>1
    <3>. QED  BY <1>4, <3>1, SameMeaning
  <2>3. PICK m : m = word.name
    OBVIOUS
  <2>4. Values(args, spec, k) = With(v, m, W(word.text))
    <3>1. PaidBy(args, spec, m, k) = PaidBy(args, spec, m, k - 1) \cup {k}
      BY <1>7, <1>14, <2>3
    <3>2. \A l \in spec.values : l # m => PaidBy(args, spec, l, k) = PaidBy(args, spec, l, k - 1)
      BY <1>7, <2>3
    <3>3. \A j \in PaidBy(args, spec, m, k) : j <= k
      BY DEF PaidBy, GivenBy
    <3>4. m \in spec.values /\ k \in 1 .. k
      BY <1>14, <2>3
    <3>5. Values(args, spec, k) = With(Values(args, spec, k - 1), m, ValueOf(args, k))
      BY <3>1, <3>2, <3>3, <3>4, ValuesGrow
    <3>6. ValueOf(args, k) = W(word.text)
      BY <1>1, <1>14 DEF ValueOf
    <3>. QED  BY <1>4, <3>5, <3>6
  <2>5. Debt(args, spec, k) = NoOption /\ Known(args, spec, k)
    BY <1>8, <1>10, <1>14
  <2>6. next = State(Fine, Debt(args, spec, k), Values(args, spec, k), Booleans(args, spec, k), p)
    BY <1>6, <1>14, <2>1, <2>2, <2>3, <2>4, <2>5
  <2>. QED  BY <1>9, <1>11, <1>14, <2>5, <2>6 DEF Parsed
<1>15. CASE word.dash /\ word.name \in spec.values /\ ~word.eq
  <2>1. word.name \notin spec.booleans
    BY <1>15 DEF Sound
  <2>2. Booleans(args, spec, k) = b
    <3>1. \A m \in spec.booleans : GivenBy(args, spec, m, k) = GivenBy(args, spec, m, k - 1)
      BY <1>7, <2>1
    <3>. QED  BY <1>4, <3>1, SameMeaning
  <2>3. Values(args, spec, k) = v
    <3>1. \A m \in spec.values : PaidBy(args, spec, m, k) = PaidBy(args, spec, m, k - 1)
      BY <1>7, <1>15
    <3>. QED  BY <1>4, <3>1, SameMeaning
  <2>4. Debt(args, spec, k) = word.name /\ Known(args, spec, k)
    BY <1>8, <1>10, <1>15
  <2>5. next = State(Fine, Debt(args, spec, k), Values(args, spec, k), Booleans(args, spec, k), p)
    BY <1>6, <1>15, <2>1, <2>2, <2>3, <2>4
  <2>. QED  BY <1>9, <1>11, <1>15, <2>4, <2>5 DEF Parsed
<1>16. CASE /\ word.dash /\ ~(word.name \in spec.booleans /\ ~word.eq)
            /\ word.name \notin spec.values
  <2>1. ~Known(args, spec, k) /\ k <= k
    BY <1>10, <1>16
  <2>2. next = State(Wrong, NoOption, v, b, p)
    BY <1>6, <1>16
  <2>3. next.ok = FALSE
    BY <2>2 DEF State, Wrong
  <2>. QED  BY <2>1, <2>3 DEF Parsed
<1>. QED  BY <1>12, <1>13, <1>14, <1>15, <1>16

LEMMA ParsedGoesOn ==
    ASSUME NEW args \in Seq(Word), NEW spec, Sound(spec), NEW n \in Nat, DOMAIN args = 1 .. n,
           NEW k \in 1 .. n, NEW acc, Parsed(args, spec, k - 1, acc), NEW next,
           next = OneWord(spec, acc, args[k])
    PROVE  Parsed(args, spec, k, next)
<1>1. CASE /\ \E i \in Own(args, spec) : i <= k - 1 /\ ~Known(args, spec, i)
           /\ acc.ok = FALSE
  <2>1. next = acc
    BY <1>1 DEF OneWord
  <2>2. \A i \in Own(args, spec) : i <= k - 1 => i <= k
    BY OneMoreWord
  <2>. QED  BY <1>1, <2>1, <2>2 DEF Parsed
<1>2. CASE /\ \A i \in Own(args, spec) : i <= k - 1 => Known(args, spec, i)
           /\ \E p : /\ Positions(args, spec, k - 1, p)
                     /\ acc = State(Fine, Debt(args, spec, k - 1), Values(args, spec, k - 1),
                                    Booleans(args, spec, k - 1), p)
  BY <1>2, ReadsValue, ReadsWord
<1>. QED  BY <1>1, <1>2 DEF Parsed

LEMMA ParsedToTheEnd ==
    ASSUME NEW args \in Seq(Word), NEW spec, Sound(spec), NEW n \in Nat, DOMAIN args = 1 .. n,
           NEW after, Passes(args, spec, n, after)
    PROVE  Parsed(args, spec, n, after[n])
<1>. DEFINE T == {k \in 0 .. n : ~Parsed(args, spec, k, after[k])}
<1>1. SUFFICES ASSUME T # {} PROVE FALSE
  BY n \in 0 .. n
<1>2. T \in SUBSET Nat
  OBVIOUS
<1>3. PICK k \in T : \A l \in T : k <= l
  <2>. HIDE DEF T
  <2>. QED  BY <1>1, <1>2, LeastNumber
<1>4. k \in 0 .. n /\ ~Parsed(args, spec, k, after[k])
  OBVIOUS
<1>5. CASE k = 0
  BY <1>4, <1>5, ParsedStart DEF Passes
<1>6. CASE k # 0
  <2>1. k - 1 \in 0 .. n /\ k \in 1 .. n /\ ~(k <= k - 1)
    BY <1>4, <1>6
  <2>2. k - 1 \notin T
    <3>. HIDE DEF T
    <3>. QED  BY <1>3, <2>1
  <2>3. Parsed(args, spec, k - 1, after[k - 1])
    BY <2>1, <2>2
  <2>4. after[k] = OneWord(spec, after[k - 1], args[k])
    BY <2>1 DEF Passes
  <2>. QED  BY <1>4, <2>1, <2>3, <2>4, ParsedGoesOn
<1>. QED  BY <1>5, <1>6

(***************************************************************************)
(* What is read at the end is what is meant.                               *)
(***************************************************************************)
Fits(args, spec, i) ==
    \/ ~args[i].dash
    \/ args[i].name \in spec.booleans /\ ~args[i].eq
    \/ args[i].name \in spec.values /\ (args[i].eq \/ i < Len(args))
GivenAtAll(args, spec, m) == {i \in Own(args, spec) : args[i].dash /\ args[i].name = m}
Nth(A, k) == CHOOSE i \in A : Cardinality({j \in A : j < i}) = k - 1
WordsOf(args, A) == [k \in 1 .. Cardinality(A) |-> args[Nth(A, k)]]
AllValues(args, spec) ==
    [m \in {l \in spec.values : GivenAtAll(args, spec, l) # {}} |->
        ValueOf(args, LastOf(GivenAtAll(args, spec, m)))]
AllBooleans(args, spec) == {m \in spec.booleans : GivenAtAll(args, spec, m) # {}}
Misread == [ok |-> FALSE, flags |-> NoFlags]

LEMMA MeantAltogether ==
    ASSUME NEW args, NEW spec
    PROVE  Meant(args, spec) =
              IF \E i \in Own(args, spec) : ~Fits(args, spec, i) THEN Misread
              ELSE [ok |-> TRUE,
                    flags |-> Flags(AllValues(args, spec), AllBooleans(args, spec),
                                    WordsOf(args, Plain(args, spec)))]
<1>. DEFINE A == {i \in Own(args, spec) : i \in Own(args, spec) /\ ~args[i].dash}
<1>1. Meant(args, spec) =
              IF \E i \in Own(args, spec) : ~Fits(args, spec, i) THEN Misread
              ELSE [ok |-> TRUE,
                    flags |-> Flags(AllValues(args, spec), AllBooleans(args, spec),
                                    WordsOf(args, A))]
  BY Zenon DEF Meant, Own, Fits, Misread, AllValues, AllBooleans, WordsOf, Nth, GivenAtAll, LastOf, ValueOf
<1>2. A = Plain(args, spec)
  BY DEF Plain
<1>. QED  BY <1>1, <1>2

(* Every turn up to the last is somebody's, and nobody else's.              *)
LEMMA RankReaches ==
    ASSUME NEW n \in Nat, NEW A \in SUBSET (1 .. n), NEW q \in 1 .. Cardinality(A)
    PROVE  \E i \in A : Rank(A, i) = q
<1>. DEFINE U == {i \in 1 .. n : Rank(A, i) >= q}
<1>1. Rank(A, n) = Cardinality(A) /\ Cardinality(A) \in Nat /\ Rank(A, 0) = 0
  <2>1. n \in 0 .. n /\ \A j \in A : j <= n
    OBVIOUS
  <2>2. UpToLine(A, n) = A
    BY <2>1 DEF UpToLine
  <2>. QED  BY <2>1, <2>2, RankFits DEF Rank
<1>2. q \in Nat /\ q <= Cardinality(A) /\ ~(0 >= q) /\ q >= 1
  BY <1>1
<1>3. n \in U
  <2>1. n # 0
    BY <1>1, <1>2
  <2>. QED  BY <1>1, <1>2, <2>1
<1>4. U \in SUBSET Nat
  OBVIOUS
<1>5. PICK i \in U : \A j \in U : i <= j
  <2>. HIDE DEF U
  <2>. QED  BY <1>3, <1>4, LeastNumber
<1>6. i \in 1 .. n /\ Rank(A, i) >= q /\ i - 1 \in 0 .. n /\ ~(i <= i - 1)
  OBVIOUS
<1>7. ~(Rank(A, i - 1) >= q)
  <2>1. i - 1 \notin U
    <3>. HIDE DEF U
    <3>. QED  BY <1>5, <1>6
  <2>2. i - 1 = 0 \/ i - 1 \in 1 .. n
    BY <1>6
  <2>. QED  BY <1>1, <1>2, <2>1, <2>2
<1>8. Rank(A, i) = Rank(A, i - 1) + (IF i \in A THEN 1 ELSE 0)
  BY <1>6, RankNext
<1>9. Rank(A, i - 1) \in Nat
  BY <1>6, RankFits
<1>. HIDE DEF U
<1>10. i \in A
  <2>1. i \notin A => Rank(A, i) = Rank(A, i - 1)
    BY <1>8, <1>9
  <2>. QED  BY <1>6, <1>7, <2>1
<1>11. Rank(A, i) = q
  BY <1>2, <1>6, <1>7, <1>8, <1>9, <1>10
<1>. QED  BY <1>10, <1>11

LEMMA NthIs ==
    ASSUME NEW n \in Nat, NEW A \in SUBSET (1 .. n), NEW q \in 1 .. Cardinality(A)
    PROVE  Nth(A, q) \in A /\ Rank(A, Nth(A, q)) = q
<1>1. Cardinality(A) \in Nat
  <2>1. 0 \in 0 .. n
    OBVIOUS
  <2>. QED  BY <2>1, RankFits
<1>2. ASSUME NEW i \in A
      PROVE  Cardinality({j \in A : j < i}) = q - 1 <=> Rank(A, i) = q
  <2>1. i \in 1 .. n /\ i - 1 \in 0 .. n /\ \A j \in A : j < i <=> j <= i - 1
    OBVIOUS
  <2>2. {j \in A : j < i} = UpToLine(A, i - 1)
    BY <2>1 DEF UpToLine
  <2>3. Cardinality({j \in A : j < i}) = Rank(A, i - 1)
    BY <2>2 DEF Rank
  <2>4. Rank(A, i) = Rank(A, i - 1) + 1 /\ Rank(A, i - 1) \in Nat
    BY <2>1, RankNext, RankFits
  <2>. QED  BY <1>1, <2>3, <2>4
<1>3. PICK i \in A : Rank(A, i) = q
  BY RankReaches
<1>4. PICK m : m = Nth(A, q)
  OBVIOUS
<1>5. m \in A /\ Cardinality({j \in A : j < m}) = q - 1
  BY <1>2, <1>3, <1>4 DEF Nth
<1>. QED  BY <1>2, <1>4, <1>5

LEMMA PlainInOrder ==
    ASSUME NEW args \in Seq(Word), NEW spec, NEW n \in Nat, DOMAIN args = 1 .. n,
           NEW p, Positions(args, spec, n, p)
    PROVE  p = WordsOf(args, Plain(args, spec))
<1>1. PICK A \in SUBSET (1 .. n) : A = Plain(args, spec)
  BY DEF Plain, Own
<1>2. Rank(A, n) = Cardinality(A) /\ Cardinality(A) \in Nat
  <2>1. n \in 0 .. n /\ \A j \in A : j <= n
    OBVIOUS
  <2>2. UpToLine(A, n) = A
    BY <2>1 DEF UpToLine
  <2>. QED  BY <2>1, <2>2, RankFits DEF Rank
<1>3. /\ p \in Seq(Word) /\ Len(p) = Cardinality(A)
      /\ \A i \in A : p[Rank(A, i)] = args[i]
  <2>1. \A i \in A : i <= n
    OBVIOUS
  <2>. QED  BY <1>1, <1>2, <2>1 DEF Positions
<1>4. \A q \in 1 .. Cardinality(A) : p[q] = args[Nth(A, q)]
  BY <1>3, NthIs
<1>5. p = [q \in 1 .. Cardinality(A) |-> p[q]]
  BY <1>3
<1>. QED  BY <1>1, <1>4, <1>5 DEF WordsOf

LEMMA EveryWordFits ==
    ASSUME NEW args \in Seq(Word), NEW spec, Sound(spec), NEW n \in Nat, DOMAIN args = 1 .. n
    PROVE  (\A i \in Own(args, spec) : Fits(args, spec, i))
              <=> /\ \A i \in Own(args, spec) : Known(args, spec, i)
                  /\ Debt(args, spec, n) = NoOption
<1>1. Len(args) = n /\ Own(args, spec) \in SUBSET (1 .. n)
  BY DEF Own
<1>2. ASSUME \A i \in Own(args, spec) : Fits(args, spec, i)
      PROVE  /\ \A i \in Own(args, spec) : Known(args, spec, i)
             /\ Debt(args, spec, n) = NoOption
  <2>1. \A i \in Own(args, spec) : Known(args, spec, i)
    BY <1>2 DEF Fits, Known
  <2>2. ~(n \in Own(args, spec) /\ Owes(args, spec, n))
    BY <1>1, <1>2 DEF Fits, Owes, Sound
  <2>. QED  BY <2>1, <2>2 DEF Debt
<1>3. ASSUME \A i \in Own(args, spec) : Known(args, spec, i), Debt(args, spec, n) = NoOption,
             NEW i \in Own(args, spec)
      PROVE  Fits(args, spec, i)
  <2>1. ~(n \in Own(args, spec) /\ Owes(args, spec, n))
    BY <1>3 DEF Debt, Owes, Sound
  <2>2. i \in 1 .. n /\ Known(args, spec, i)
    BY <1>1, <1>3
  <2>3. i = n \/ i < n
    BY <2>2
  <2>. QED  BY <1>1, <2>1, <2>2, <2>3 DEF Fits, Known, Owes
<1>. QED  BY <1>2, <1>3

LEMMA AllIsGiven ==
    ASSUME NEW args \in Seq(Word), NEW spec, Sound(spec), NEW n \in Nat, DOMAIN args = 1 .. n,
           \A i \in Own(args, spec) : Fits(args, spec, i)
    PROVE  /\ Values(args, spec, n) = AllValues(args, spec)
           /\ Booleans(args, spec, n) = AllBooleans(args, spec)
<1>1. Len(args) = n /\ \A i \in Own(args, spec) : i <= n
  BY DEF Own
<1>2. \A m : GivenBy(args, spec, m, n) = GivenAtAll(args, spec, m)
  BY <1>1 DEF GivenBy, GivenAtAll
<1>3. ASSUME NEW m \in spec.values
      PROVE  PaidBy(args, spec, m, n) = GivenAtAll(args, spec, m)
  <2>1. \A i \in GivenAtAll(args, spec, m) : args[i].eq \/ i < n
    BY <1>1 DEF GivenAtAll, Fits, Sound
  <2>. QED  BY <1>2, <2>1 DEF PaidBy
<1>4. Booleans(args, spec, n) = AllBooleans(args, spec)
  BY <1>2 DEF Booleans, AllBooleans
<1>5. Values(args, spec, n) = AllValues(args, spec)
  <2>1. PICK V : V = {l \in spec.values : GivenAtAll(args, spec, l) # {}}
    OBVIOUS
  <2>2. V = {l \in spec.values : PaidBy(args, spec, l, n) # {}}
    BY <1>3, <2>1
  <2>3. \A m \in V : ValueOf(args, LastOf(PaidBy(args, spec, m, n)))
                     = ValueOf(args, LastOf(GivenAtAll(args, spec, m)))
    BY <1>3, <2>1
  <2>4. Values(args, spec, n) = [m \in V |-> ValueOf(args, LastOf(PaidBy(args, spec, m, n)))]
    BY <2>2 DEF Values
  <2>5. AllValues(args, spec) = [m \in V |-> ValueOf(args, LastOf(GivenAtAll(args, spec, m)))]
    BY <2>1 DEF AllValues
  <2>. QED  BY <2>3, <2>4, <2>5
<1>. QED  BY <1>4, <1>5

LEMMA ReadAsMeant ==
    ASSUME NEW args \in Seq(Word), NEW spec, Sound(spec)
    PROVE  ParseFlags(args, spec) = Meant(args, spec)
<1>1. PICK n \in Nat : n = Len(args) /\ DOMAIN args = 1 .. n
  OBVIOUS
<1>2. PICK after : Passes(args, spec, n, after) /\ ParseFlags(args, spec) = FlagsAt(after[n])
  BY <1>1, ParsedByPass
<1>3. PICK end : end = after[n]
  OBVIOUS
<1>4. Parsed(args, spec, n, end)
  BY <1>1, <1>2, <1>3, ParsedToTheEnd
<1>5. \A i \in Own(args, spec) : i <= n
  BY <1>1 DEF Own
<1>6. FlagsAt(end) = Meant(args, spec)
  <2>1. CASE /\ \E i \in Own(args, spec) : i <= n /\ ~Known(args, spec, i)
             /\ end.ok = FALSE
    <3>1. \E i \in Own(args, spec) : ~Fits(args, spec, i)
      BY <2>1 DEF Known, Fits
    <3>2. Meant(args, spec) = Misread
      BY <3>1, MeantAltogether
    <3>. QED  BY <2>1, <3>2 DEF FlagsAt, Misread
  <2>2. ASSUME \A i \in Own(args, spec) : i <= n => Known(args, spec, i),
               NEW p, Positions(args, spec, n, p),
               end = State(Fine, Debt(args, spec, n), Values(args, spec, n),
                           Booleans(args, spec, n), p)
        PROVE  FlagsAt(end) = Meant(args, spec)
    <3>1. \A i \in Own(args, spec) : Known(args, spec, i)
      BY <1>5, <2>2
    <3>2. /\ end.ok = Fine /\ end.owed = Debt(args, spec, n)
          /\ end.flags = Flags(Values(args, spec, n), Booleans(args, spec, n), p)
      BY <2>2 DEF State
    <3>3. CASE Debt(args, spec, n) # NoOption
      <4>1. \E i \in Own(args, spec) : ~Fits(args, spec, i)
        BY <1>1, <3>3, EveryWordFits
      <4>2. Meant(args, spec) = Misread
        BY <4>1, MeantAltogether
      <4>. QED  BY <3>2, <3>3, <4>2 DEF FlagsAt, Misread
    <3>4. CASE Debt(args, spec, n) = NoOption
      <4>1. \A i \in Own(args, spec) : Fits(args, spec, i)
        BY <1>1, <3>1, <3>4, EveryWordFits
      <4>2. /\ Values(args, spec, n) = AllValues(args, spec)
            /\ Booleans(args, spec, n) = AllBooleans(args, spec)
        BY <1>1, <4>1, AllIsGiven
      <4>3. p = WordsOf(args, Plain(args, spec))
        BY <1>1, <2>2, PlainInOrder
      <4>4. Meant(args, spec) = [ok |-> TRUE,
                                 flags |-> Flags(AllValues(args, spec), AllBooleans(args, spec),
                                                 WordsOf(args, Plain(args, spec)))]
        BY <4>1, MeantAltogether
      <4>5. FlagsAt(end) = [ok |-> TRUE, flags |-> end.flags]
        BY <3>2, <3>4 DEF FlagsAt, Fine
      <4>. QED  BY <3>2, <4>2, <4>3, <4>4, <4>5
    <3>. QED  BY <3>3, <3>4
  <2>. QED  BY <1>4, <2>1, <2>2 DEF Parsed
<1>. QED  BY <1>2, <1>3, <1>6

(* The options of every command are sound.                                 *)
LEMMA OptionsAreSound ==
    ASSUME NEW path
    PROVE  Sound(Options(path))
  BY DEF Options, Takes, Sound, NoOption

LEMMA RestOfWords ==
    ASSUME NEW words \in Seq(Word)
    PROVE  SubSeq(words, Len(PathOf(words)) + 1, Len(words)) \in Seq(Word)
<1>1. PICK t : t = Texts(words)
  OBVIOUS
<1>2. \E S : t \in Seq(S)
  BY <1>1, TextsOfWords
<1>3. PathOf(words) \in {<<>>, SubSeq(t, 1, 1), SubSeq(t, 1, 2), SubSeq(t, 1, 3)}
  BY <1>1 DEF PathOf
<1>4. Len(PathOf(words)) \in Nat
  BY <1>2, <1>3
<1>5. PICK k \in Nat : k = Len(PathOf(words))
  BY <1>4
<1>6. SubSeq(words, k + 1, Len(words)) \in Seq(Word)
  OBVIOUS
<1>. QED  BY <1>5, <1>6

(* For every command line and every command: parseFlags reads in one pass  *)
(* what the words mean by the grammar (parse.ts).                          *)
THEOREM WordsAreUnderstood == Spec => []WordsMeanOneThing
<1>1. SurfaceInv => WordsMeanOneThing
  <2>. SUFFICES ASSUME SurfaceInv, route = "none" PROVE WordsMeanOneThing
    BY DEF WordsMeanOneThing
  <2>1. argv \in Seq(Word)
    BY DEF SurfaceInv, FirstInv
  <2>2. PICK args \in Seq(Word) : args = SubSeq(argv, Len(PathOf(argv)) + 1, Len(argv))
    BY <2>1, RestOfWords
  <2>3. ParseFlags(args, Options(PathOf(argv))) = Meant(args, Options(PathOf(argv)))
    BY OptionsAreSound, ReadAsMeant
  <2>. QED  BY <2>2, <2>3 DEF WordsMeanOneThing
<1>. QED  BY <1>1, InitSurface, SurfaceInductive, PTL DEF Spec
=============================================================================
