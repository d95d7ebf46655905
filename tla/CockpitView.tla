----------------------------- MODULE CockpitView ----------------------------
(***************************************************************************)
(* The functional core of the cockpit (asem tui): the view state, its      *)
(* selectors, the reducer behind the keys and the frame drawn from it, as  *)
(* operators on the record v.  Cockpit.tla has the loop that feeds them.   *)
(*                                                                         *)
(* Sessions and Messages are numbered in created_at order, the order of    *)
(* every list here; a parent is created before its children.               *)
(***************************************************************************)
EXTENDS Integers, Sequences, FiniteSets, SequencesExt

CONSTANTS
    Session,     \* the ids Sessions can have, numbers in created order
    Message,     \* the ids Messages can have, numbers in created order
    Null,        \* no Session, SQL null
    ActivityCap  \* rows the activity strip keeps (12 in the code)

ASSUME CockpitAssumption ==
    /\ Session \subseteq Nat
    /\ Message \subseteq Nat
    /\ Null \notin Nat
    /\ ActivityCap \in Nat \ {0}

Tabs == <<"messages", "detail", "context">>
CockpitFilters == <<"all", "starting", "running", "exited", "missing", "closed">>

NoModal == [kind |-> "none", action |-> "none", target |-> Null, draft |-> 0]
Modal(k) == [NoModal EXCEPT !.kind = k]
Confirm(a, s) == [NoModal EXCEPT !.kind = "confirm", !.action = a, !.target = s]

NoEffect == [kind |-> "none", target |-> Null]
Effect(k, s) == [kind |-> k, target |-> s]

(* A snapshot holds the rows of both tables; status, or delivery, "absent" *)
(* says that there is none.                                                *)
Sessions(snap) == {s \in Session : snap.sessions[s].status # "absent"}
Messages(snap) == {m \in Message : snap.messages[m].delivery # "absent"}

(* The members of a finite set, each behind those that come before it.     *)
Sorted(set, before(_, _)) ==
    [i \in 1 .. Cardinality(set) |->
        CHOOSE s \in set : Cardinality({t \in set : before(t, s)}) = i - 1]

----------------------------------------------------------------------------
(* The tree of the left pane *)

FilterSessions(snap, filter) ==
    {s \in Sessions(snap) : filter \in {"all", snap.sessions[s].status}}

(* The way down to each of the listed Sessions.  A parent that the filter  *)
(* hides, or that is gone, makes its child a root.                         *)
PathsIn(rows, listed) ==
    LET path[s \in listed] ==
            IF rows[s].parent \in listed
            THEN Append(path[rows[s].parent], s)
            ELSE <<s>>
    IN  path

(* mutant: the rows are in created order, wherever their parents stand     *)
CreatedOrder(p, q) == Last(p) < Last(q)
PreOrder(p, q) ==
    \/ IsStrictPrefix(p, q)
    \/ \E i \in DOMAIN p \cap DOMAIN q :
           /\ p[i] < q[i]
           /\ \A j \in 1 .. i - 1 : p[j] = q[j]

Rows(snap, filter) ==
    LET listed == FilterSessions(snap, filter)
        path == PathsIn(snap.sessions, listed)
        ids == Sorted(listed, LAMBDA s, t : PreOrder(path[s], path[t]))
    IN  [i \in DOMAIN ids |-> [id |-> ids[i], depth |-> Len(path[ids[i]]) - 1]]

VisibleRows(v) == Rows(v.snapshot, v.filter)

RowIds(v) == {row.id : row \in Range(VisibleRows(v))}

----------------------------------------------------------------------------
(* Messages of a Session, and the badge of those not yet observed *)

RelatedMessages(snap, s) ==
    {m \in Messages(snap) : s \in {snap.messages[m].from, snap.messages[m].to}}

IncomingMessages(snap, s) ==
    {m \in Messages(snap) : snap.messages[m].to = s}

BadgeFor(v, s) == IncomingMessages(v.snapshot, s) \ v.baseline

(* What is observed of a snapshot while s is selected.                     *)
(* mutant: all Messages are                                                *)
ObservedAll(snap, s, tab) == IF tab = "messages" THEN Messages(snap) ELSE {}
Observed(snap, s, tab) ==
    IF tab = "messages" /\ s # Null THEN IncomingMessages(snap, s) ELSE {}

ObserveIfViewingMessages(v) ==
    [v EXCEPT !.baseline = @ \cup Observed(v.snapshot, v.selected, v.tab)]

----------------------------------------------------------------------------
(* The activity strip: what changed from one snapshot to the next *)

Item(k, id, change) == [kind |-> k, id |-> id, change |-> change]

SessionItems(prev, next) ==
    LET changed(s) ==
            prev.sessions[s].status # next.sessions[s].status
        item(s) ==
            IF s \notin Sessions(prev)
            THEN Item("session_added", s, next.sessions[s].status)
            ELSE Item("status_changed", s, next.sessions[s].status)
        kept == Sorted({s \in Sessions(next) : changed(s)}, <)
        gone == Sorted(Sessions(prev) \ Sessions(next), <)
    IN  [i \in DOMAIN kept |-> item(kept[i])]
          \o [i \in DOMAIN gone |-> Item("session_removed", gone[i], "absent")]

MessageItems(prev, next) ==
    LET changed(m) ==
            prev.messages[m].delivery # next.messages[m].delivery
        item(m) ==
            Item(IF m \in Messages(prev) THEN "delivery_changed"
                                         ELSE "message_added",
                 m, next.messages[m].delivery)
        kept == Sorted({m \in Messages(next) : changed(m)}, <)
    IN  [i \in DOMAIN kept |-> item(kept[i])]

(* mutant: a Session that disappears is not told                           *)
ForgetsRemovals(prev, next) ==
    SelectSeq(SessionItems(prev, next), LAMBDA it : it.kind # "session_removed")
      \o MessageItems(prev, next)

DiffSnapshots(prev, next) == SessionItems(prev, next) \o MessageItems(prev, next)

LastOf(seq, n) == SubSeq(seq, IF Len(seq) > n THEN Len(seq) - n + 1 ELSE 1, Len(seq))

AppendActivity(activity, items) == LastOf(activity \o items, ActivityCap)

NewSessionIds(v) ==
    {it.id : it \in {i \in Range(v.activity) : i.kind = "session_added"}}

----------------------------------------------------------------------------
(* State construction *)

(* The selection stays where it is as long as its row does.                *)
Reselected(rows, s) ==
    IF s \in {row.id : row \in Range(rows)} THEN s
    ELSE IF rows = <<>> THEN Null ELSE rows[1].id

CreateCockpitState(snap) ==
    [snapshot |-> snap, filter |-> "all",
     selected |-> Reselected(Rows(snap, "all"), Null),
     tab |-> "messages", baseline |-> Messages(snap),
     expanded |-> {}, technical |-> FALSE, modal |-> NoModal, activity |-> <<>>]

ApplySnapshot(v, snap) ==
    LET s == Reselected(Rows(snap, v.filter), v.selected) IN
    [v EXCEPT !.snapshot = snap,
              !.activity = AppendActivity(@, DiffSnapshots(v.snapshot, snap)),
              !.selected = s,
              !.baseline = @ \cup Observed(snap, s, v.tab)]

ApplyFilter(v, filter) ==
    LET s == Reselected(Rows(v.snapshot, filter), v.selected) IN
    [v EXCEPT !.filter = filter,
              !.selected = s,
              !.baseline = @ \cup Observed(v.snapshot, s, v.tab)]

----------------------------------------------------------------------------
(* The reducer: what an action makes of v, and the effect it asks for *)

Result(v, e) == [v |-> v, effect |-> e]
Only(v) == Result(v, NoEffect)

Cycle(seq, x) ==
    LET i == CHOOSE j \in DOMAIN seq : seq[j] = x
    IN  seq[(i % Len(seq)) + 1]

MoveSelection(v, delta) ==
    LET rows == VisibleRows(v)
        current == {i \in DOMAIN rows : rows[i].id = v.selected}
        base == IF current = {} THEN 1 ELSE delta + CHOOSE i \in current : TRUE
        clamped == IF base < 1 THEN 1
                   ELSE IF base > Len(rows) THEN Len(rows) ELSE base
    IN  IF rows = <<>> THEN [v EXCEPT !.selected = Null]
        ELSE ObserveIfViewingMessages([v EXCEPT !.selected = rows[clamped].id])

SwitchTab(v) == ObserveIfViewingMessages([v EXCEPT !.tab = Cycle(Tabs, @)])

CycleFilter(v) == ApplyFilter(v, Cycle(CockpitFilters, v.filter))

(* attach, openSend, requestClose and requestDelete need a Session.        *)
WithSelected(v, result) == IF v.selected = Null THEN Only(v) ELSE result

Attach(v) ==
    WithSelected(v,
        IF v.snapshot.sessions[v.selected].status = "closed"
        THEN Only([v EXCEPT !.modal = Modal("error")])
        ELSE Result(v, Effect("attach", v.selected)))

Open(v, modal) == WithSelected(v, Only([v EXCEPT !.modal = modal]))

Dismiss(v) == [v EXCEPT !.modal = NoModal]

UpdateDraft(v, n) == [v EXCEPT !.modal.draft = n]

SubmitSend(v) ==
    IF v.selected = Null THEN Only(v)
    ELSE Result(Dismiss(v),
                IF v.modal.draft = 0 THEN NoEffect
                ELSE Effect("send", v.selected))

ConfirmModal(v) == Result(Dismiss(v), Effect(v.modal.action, v.modal.target))

(* An error never replaces an open dialog.                                 *)
ShowError(v) ==
    IF v.modal.kind # "none" THEN v ELSE [v EXCEPT !.modal = Modal("error")]

Ordinary(v) ==
    {m \in RelatedMessages(v.snapshot, v.selected) :
        v.snapshot.messages[m].kind # "report"}

ToggleExpand(v) ==
    IF v.tab = "detail" THEN [v EXCEPT !.technical = ~@]
    ELSE IF v.tab # "messages" \/ v.selected = Null THEN v
    ELSE IF Ordinary(v) \subseteq v.expanded
         THEN [v EXCEPT !.expanded = @ \ Ordinary(v)]
         ELSE [v EXCEPT !.expanded = @ \cup Ordinary(v)]

ToggleHelp(v) ==
    IF v.modal.kind = "help" THEN Dismiss(v)
    ELSE IF v.modal.kind # "none" THEN v
    ELSE [v EXCEPT !.modal = Modal("help")]

----------------------------------------------------------------------------
(* The keys: what a press does under each dialog.  "up" and "down" stand   *)
(* for k and j too, "x" for every printable key without a meaning of its   *)
(* own, "return" for enter; a key that is not bound does nothing.          *)

Printable == {"a", "s", "c", "D", "r", "e", "f", "?", "q", "y", "n", "x"}
Keys == Printable \cup {"up", "down", "tab", "escape", "return",
                        "ctrl+return", "backspace"}

Erased(n) == IF n = 0 THEN 0 ELSE n - 1

SendModalAction(v, k) ==
    CASE k = "escape" -> Only(Dismiss(v))
      [] k = "ctrl+return" -> SubmitSend(v)
      [] k = "return" \/ k \in Printable -> Only(UpdateDraft(v, v.modal.draft + 1))
      [] k = "backspace" -> Only(UpdateDraft(v, Erased(v.modal.draft)))
      [] OTHER -> Only(v)

ConfirmModalAction(v, k) ==
    CASE k \in {"escape", "n"} -> Only(Dismiss(v))
      [] k \in {"y", "return", "ctrl+return"} -> ConfirmModal(v)
      [] OTHER -> Only(v)

ErrorModalAction(v, k) ==
    Only(IF k \in {"escape", "return", "ctrl+return", "q"} THEN Dismiss(v) ELSE v)

HelpModalAction(v, k) ==
    Only(IF k \in {"escape", "?", "q"} THEN ToggleHelp(v) ELSE v)

NormalAction(v, k) ==
    CASE k = "up" -> Only(MoveSelection(v, -1))
      [] k = "down" -> Only(MoveSelection(v, 1))
      [] k = "tab" -> Only(SwitchTab(v))
      [] k = "a" -> Attach(v)
      [] k = "s" -> Open(v, Modal("send"))
      [] k = "c" -> Open(v, Confirm("close", v.selected))
      [] k = "D" -> Open(v, Confirm("delete", v.selected))
      [] k = "r" -> Result(v, Effect("refresh", Null))
      [] k = "e" -> Only(ToggleExpand(v))
      [] k = "f" -> Only(CycleFilter(v))
      [] k = "?" -> Only(ToggleHelp(v))
      [] k = "q" -> Result(v, Effect("quit", Null))
      [] OTHER -> Only(v)

Press(v, k) ==
    CASE v.modal.kind = "send" -> SendModalAction(v, k)
      [] v.modal.kind = "confirm" -> ConfirmModalAction(v, k)
      [] v.modal.kind = "help" -> HelpModalAction(v, k)
      [] v.modal.kind = "error" -> ErrorModalAction(v, k)
      [] v.modal.kind = "none" -> NormalAction(v, k)

(* keyToAction finds an action for the key.                                *)
Bound(v, k) ==
    CASE v.modal.kind = "send" ->
             k \in Printable \cup {"escape", "return", "ctrl+return", "backspace"}
      [] v.modal.kind = "confirm" ->
             k \in {"escape", "n", "y", "return", "ctrl+return"}
      [] v.modal.kind = "help" -> k \in {"escape", "?", "q"}
      [] v.modal.kind = "error" -> k \in {"escape", "return", "ctrl+return", "q"}
      [] v.modal.kind = "none" -> k \in (Printable \ {"y", "n", "x"})
                                         \cup {"up", "down", "tab"}

----------------------------------------------------------------------------
(* The frame *)

LeftRows(v) ==
    [i \in DOMAIN VisibleRows(v) |->
        LET row == VisibleRows(v)[i] IN
        [id |-> row.id, depth |-> row.depth,
         status |-> v.snapshot.sessions[row.id].status,
         selected |-> row.id = v.selected,
         badge |-> Cardinality(BadgeFor(v, row.id)),
         isNew |-> row.id \in NewSessionIds(v)]]

MessageRows(v) ==
    LET snap == v.snapshot
        ids == IF v.selected = Null THEN <<>>
               ELSE Sorted(RelatedMessages(snap, v.selected), <)
        incoming(m) == snap.messages[m].to = v.selected
    IN  [i \in DOMAIN ids |->
            [id |-> ids[i],
             direction |-> IF incoming(ids[i]) THEN "in" ELSE "out",
             counterpart |-> IF incoming(ids[i]) THEN snap.messages[ids[i]].from
                                                 ELSE snap.messages[ids[i]].to,
             expanded |-> \/ snap.messages[ids[i]].kind = "report"
                          \/ ids[i] \in v.expanded,
             failed |-> snap.messages[ids[i]].delivery = "failed"]]

(* The parent is named even when the snapshot does not hold it.            *)
Relationship(v) ==
    [parent |-> v.snapshot.sessions[v.selected].parent,
     children |-> {s \in Sessions(v.snapshot) :
                      v.snapshot.sessions[s].parent = v.selected}]

RightLines(v) ==
    IF v.tab = "messages" THEN MessageRows(v)
    ELSE IF v.selected = Null THEN Null
    ELSE IF v.tab = "detail"
         THEN [row |-> v.snapshot.sessions[v.selected], technical |-> v.technical]
         ELSE Relationship(v)

(* The dialog on top: a send dialog names the Session selected now, a      *)
(* confirmation the one it was opened for.                                 *)
ModalView(v) ==
    [kind |-> v.modal.kind, action |-> v.modal.action,
     target |-> IF v.modal.kind = "send" THEN v.selected ELSE v.modal.target]

RenderCockpitView(v, notice) ==
    [left |-> LeftRows(v), dossier |-> v.selected, tab |-> v.tab,
     right |-> RightLines(v), activity |-> v.activity,
     modal |-> ModalView(v), notice |-> notice]
=============================================================================
