------------------------------- MODULE Cockpit ------------------------------
(***************************************************************************)
(* asem tui: the loop of CockpitApp over the OpenTUI host, beside a store  *)
(* that other processes write.  The loop draws, waits for a key or - only  *)
(* while no dialog is open - for the refresh timer, and carries out one    *)
(* effect at a time; keys pressed meanwhile queue up in the host.          *)
(*                                                                         *)
(* A mutation is one step here: Workspace.tla has the steps of close,      *)
(* delete and send.                                                        *)
(***************************************************************************)
EXTENDS CockpitView

CONSTANTS
    Parent,      \* the parent each Session is created with
    Before,      \* the Sessions stored when the cockpit opens
    Exited,      \* those of them whose agent has exited
    Worktree,    \* the Sessions that live in the current Worktree Root
    ScopeMode,   \* "workspace", or "worktree" (asem tui --scope worktree)
    Fates,       \* the statuses other processes give a Session
    Routes,      \* the Messages they send: from, to and kind
    Typed,       \* the keys that are pressed
    MaxKeys,     \* bound: key presses
    MaxQueue,    \* bound: keys waiting in the host
    MaxChanges,  \* bound: changes made by other processes
    MaxFailures  \* bound: operations that fail for a reason of their own

ASSUME LoopAssumption ==
    /\ Parent \in [Session -> Session \cup {Null}]
    /\ \A s \in Session : Parent[s] # Null => Parent[s] < s
    /\ Before \subseteq Session /\ Exited \subseteq Before
    /\ Worktree \subseteq Session
    /\ ScopeMode \in {"workspace", "worktree"}
    /\ Fates \subseteq Range(CockpitFilters) \ {"all"}
    /\ Routes \subseteq (Session \cup {Null}) \X Session \X {"message", "report"}
    /\ Typed \subseteq Keys
    /\ {MaxKeys, MaxQueue, MaxChanges, MaxFailures} \subseteq Nat

VARIABLES
    store,     \* the two tables
    pc,        \* what the loop awaits
    v,         \* CockpitApp.state
    notice,    \* CockpitApp.notice, by its level
    op,        \* the effect that is carried out, if one is
    why,       \* what the snapshot is loaded for, if one is
    loaded,    \* the Sessions of a snapshot whose Messages are not read yet
    queue,     \* OpenTuiCockpitHost.queue
    renderer,  \* "none", "starting" or "up"
    closed,    \* OpenTuiCockpitHost.closed
    frame,     \* the last view handed to draw
    asked,     \* history: the Session under the cursor of the frame that was
               \* up when the open dialog, or the last one, was opened
    used       \* keys, changes and failures so far, for the bounds

vars == <<store, pc, v, notice, op, why, loaded, queue, renderer, closed,
          frame, asked, used>>

NoRow == [status |-> "absent", parent |-> Null]
NewRow(s, st) == [status |-> st, parent |-> Parent[s]]
NoMail == [from |-> Null, to |-> Null, kind |-> "message", delivery |-> "absent"]

EmptySnapshot == [sessions |-> [s \in Session |-> NoRow],
                  messages |-> [m \in Message |-> NoMail]]

NoView == CreateCockpitState(EmptySnapshot)

Finished == {"ended", "refused", "threw"}

----------------------------------------------------------------------------
(* The two reads of loadCockpitSnapshot.  A Message belongs to the         *)
(* worktree of the Session it was sent to.                                 *)

InScope(s) == ScopeMode = "workspace" \/ s \in Worktree

ReadSessions(st) ==
    [s \in Session |-> IF InScope(s) THEN st.sessions[s] ELSE NoRow]
ReadMessages(st) ==
    [m \in Message |-> IF InScope(st.messages[m].to) THEN st.messages[m] ELSE NoMail]

Snapshot(st) == [sessions |-> ReadSessions(st), messages |-> ReadMessages(st)]

----------------------------------------------------------------------------
(* What other processes, and the cockpit's own mutations, do to the store *)

Add(st, s) == [st EXCEPT !.sessions[s] = NewRow(s, "starting")]
SetStatus(st, s, status) == [st EXCEPT !.sessions[s].status = status]
Mail(st, m, from, to, kind, delivery) ==
    [st EXCEPT !.messages[m] =
        [from |-> from, to |-> to, kind |-> kind, delivery |-> delivery]]

(* delete_session refuses a Session that is live, even with force.         *)
MayBeDeleted(st, s) == st.sessions[s].status \notin {"starting", "running"}

(* The Messages go, the children lose a parent.                            *)
Delete(st, s) ==
    [sessions |-> [t \in Session |->
        IF t = s THEN NoRow
        ELSE IF st.sessions[t].parent = s
             THEN [st.sessions[t] EXCEPT !.parent = Null]
             ELSE st.sessions[t]],
     messages |-> [m \in Message |->
        IF s \in {st.messages[m].from, st.messages[m].to}
        THEN NoMail ELSE st.messages[m]]]

StoredIn(st) == {s \in Session : st.sessions[s].status # "absent"}
UnsentIn(st) == {m \in Message : st.messages[m].delivery = "absent"}
PendingIn(st) == {m \in Message : st.messages[m].delivery = "undelivered"}

(* Ids are not drawn twice: a Message is the next one.                     *)
NextMessage(st) == {m \in UnsentIn(st) : \A n \in UnsentIn(st) : m <= n}

Changes(st) ==
    {Add(st, s) : s \in {s \in Session \ Before : st.sessions[s] = NoRow}}
    \cup {SetStatus(st, s, status) : s \in StoredIn(st), status \in Fates}
    \cup {Delete(st, s) : s \in {t \in StoredIn(st) : MayBeDeleted(st, t)}}
    \cup {Mail(st, m, r[1], r[2], r[3], "undelivered") :
              m \in NextMessage(st),
              r \in {r \in Routes : {r[1], r[2]} \subseteq StoredIn(st) \cup {Null}}}
    \cup {[st EXCEPT !.messages[m].delivery = d] :
              m \in PendingIn(st), d \in {"delivered", "failed"}}

Others ==
    /\ used.changes < MaxChanges
    /\ pc \notin Finished
    /\ store' \in Changes(store) \ {store}
    /\ used' = [used EXCEPT !.changes = @ + 1]
    /\ UNCHANGED <<pc, v, notice, op, why, loaded, queue, renderer, closed,
                   frame, asked>>

----------------------------------------------------------------------------
(* The host *)

Host == <<queue, renderer, closed>>
App == <<v, notice, op, why, loaded, frame, asked>>

(* A key reaches the host while its screen is up.                          *)
PressKey(k) ==
    /\ renderer = "up"
    /\ used.keys < MaxKeys /\ Len(queue) < MaxQueue
    /\ queue' = Append(queue, k)
    /\ used' = [used EXCEPT !.keys = @ + 1]
    /\ UNCHANGED <<store, pc, App, renderer, closed>>

(* createCliRenderer resolves.                                             *)
RendererUp ==
    /\ renderer = "starting"
    /\ renderer' = "up"
    /\ UNCHANGED <<store, pc, App, queue, closed, used>>

(* Ctrl+C destroys the renderer, which closes the host.                    *)
CtrlC ==
    /\ renderer = "up" /\ ~closed
    /\ renderer' = "none" /\ closed' = TRUE
    /\ UNCHANGED <<store, pc, App, queue, used>>

(* attach leaves the screen, once it has come up ...                       *)
Suspend ==
    /\ pc = "suspend" /\ renderer # "starting"
    /\ renderer' = "none"
    /\ pc' = "attached"
    /\ UNCHANGED <<store, App, queue, closed, used>>

(* ... and so does close, behind the loop's back.                          *)
SuspendAfterClose ==
    /\ closed /\ renderer = "up"
    /\ renderer' = "none"
    /\ UNCHANGED <<store, pc, App, queue, closed, used>>

----------------------------------------------------------------------------
(* The loop *)

(* run's finally: the host is closed, however the loop ends.               *)
EndWith(end) ==
    /\ pc' = end
    /\ closed' = TRUE
    /\ UNCHANGED <<queue, renderer>>

Load(reason) == /\ pc' = "sessions" /\ why' = reason /\ op' = NoEffect

(* The snapshot is there, or there is none: what it took is out of scope.  *)
Loaded == why' = "none" /\ loaded' = EmptySnapshot.sessions

(* The first frame starts the renderer, and the first one after an attach. *)
Draw ==
    /\ pc = "draw"
    /\ frame' = RenderCockpitView(v, notice)
    /\ renderer' = IF renderer = "none" /\ ~closed THEN "starting" ELSE renderer
    /\ pc' = "wait"
    /\ UNCHANGED <<store, v, notice, op, why, loaded, queue, closed, asked, used>>

(* What the host resolves a wait with: queued keys come first, then null   *)
(* once it is closed, and the timer only while no dialog is open.          *)
KeyWaits == queue # <<>>

(* mutant: the host goes on waiting for a key                              *)
NeverEnds == FALSE
InputEnded == queue = <<>> /\ closed

(* mutants: the timer runs on under a dialog; it rests after an error      *)
TimerAlways == queue = <<>> /\ ~closed
TimerUnlessError == queue = <<>> /\ ~closed /\ v.modal.kind = "none" /\ notice # "error"
TimerRuns == queue = <<>> /\ ~closed /\ v.modal.kind = "none"

(* No key for AUTO_REFRESH_MS.                                             *)
Tick ==
    /\ pc = "wait" /\ TimerRuns
    /\ Load("tick")
    /\ UNCHANGED <<store, v, notice, loaded, Host, frame, asked, used>>

EndOfInput ==
    /\ pc = "wait" /\ InputEnded
    /\ EndWith("ended")
    /\ UNCHANGED <<store, App, used>>

(* What the loop does with the effect of a key; only an action clears the  *)
(* notice.                                                                 *)
Carry(e, bound) ==
    \/ e.kind = "none" /\ pc' = "draw" /\ UNCHANGED <<op, why, closed>>
       /\ notice' = IF bound THEN "none" ELSE notice
    \/ e.kind = "quit" /\ pc' = "ended" /\ closed' = TRUE
       /\ UNCHANGED <<op, why, notice>>
    \/ e.kind = "refresh" /\ Load("refresh") /\ UNCHANGED <<notice, closed>>
    \/ e.kind = "attach" /\ pc' = "hint" /\ op' = e
       /\ UNCHANGED <<why, notice, closed>>
    \/ e.kind \in {"send", "close", "delete"} /\ pc' = "mutate" /\ op' = e
       /\ UNCHANGED <<why, notice, closed>>

TakeKey ==
    /\ pc = "wait" /\ KeyWaits
    /\ LET r == Press(v, Head(queue)) IN
       /\ v' = r.v
       /\ asked' = IF v.modal.kind = "none" /\ r.v.modal.kind # "none"
                   THEN frame.dossier ELSE asked
       /\ Carry(r.effect, Bound(v, Head(queue)))
    /\ queue' = Tail(queue)
    /\ UNCHANGED <<store, loaded, renderer, frame, used>>

(* loadAttach reads the Session; without a hint the attach only prints.    *)
LoadAttach ==
    /\ pc = "hint"
    /\ pc' = "suspend"
    /\ UNCHANGED <<store, App, Host, used>>

(* The attached program gives the terminal back.                           *)
Detach ==
    /\ pc = "attached"
    /\ Load("attach")
    /\ UNCHANGED <<store, v, notice, loaded, Host, frame, asked, used>>

(* executeCockpitEffect succeeds, and the screen is brought up to date.    *)
Mutate ==
    /\ pc = "mutate" /\ op.target \in StoredIn(store)
    /\ \/ op.kind = "close" /\ store' = SetStatus(store, op.target, "closed")
       \/ op.kind = "delete" /\ MayBeDeleted(store, op.target)
          /\ store' = Delete(store, op.target)
       \/ op.kind = "send"
          /\ \E m \in NextMessage(store),
                d \in {"undelivered", "delivered", "failed"} :
                 store' = Mail(store, m, Null, op.target, "message", d)
    /\ Load("mutation")
    /\ UNCHANGED <<v, notice, loaded, Host, frame, asked, used>>

Impossible ==
    \/ op.target \notin StoredIn(store)
    \/ op.kind = "delete" /\ ~MayBeDeleted(store, op.target)
    \/ op.kind = "send" /\ NextMessage(store) = {}  \* bound

(* ... or it fails: its Session is gone, or is not to be deleted, or for a *)
(* reason of its own.  The store is left alone: a failed close or send     *)
(* that changed it looks like a change made by another process.            *)
MutationFails ==
    /\ pc = "mutate"
    /\ \/ Impossible /\ UNCHANGED used
       \/ used.failures < MaxFailures
          /\ used' = [used EXCEPT !.failures = @ + 1]
    /\ v' = ShowError(v)
    /\ notice' = IF ShowError(v).modal.kind = "error" THEN "none" ELSE "error"
    /\ pc' = "draw" /\ op' = NoEffect
    /\ UNCHANGED <<store, why, loaded, Host, frame, asked>>

----------------------------------------------------------------------------
(* loadCockpitSnapshot, for the first frame and for every refresh *)

LoadSessions ==
    /\ pc = "sessions"
    /\ loaded' = ReadSessions(store)
    /\ pc' = "messages"
    /\ UNCHANGED <<store, v, notice, op, why, Host, frame, asked, used>>

NoticeOf(reason) ==
    CASE reason = "refresh" -> "info"
      [] reason \in {"mutation", "attach"} -> "success"
      [] reason = "tick" -> IF notice = "error" THEN "none" ELSE notice
      [] reason = "start" -> "none"

LoadMessages ==
    /\ pc = "messages"
    /\ LET snap == [sessions |-> loaded, messages |-> ReadMessages(store)] IN
       v' = IF why = "start" THEN CreateCockpitState(snap)
                             ELSE ApplySnapshot(v, snap)
    /\ notice' = NoticeOf(why)
    /\ pc' = "draw" /\ Loaded
    /\ UNCHANGED <<store, op, Host, frame, asked, used>>

(* The config file is gone: an error notice, or no cockpit at all.         *)
LoadRefused ==
    /\ pc = "sessions" /\ used.failures < MaxFailures
    /\ used' = [used EXCEPT !.failures = @ + 1]
    /\ IF why = "start" THEN pc' = "refused" /\ UNCHANGED notice
                        ELSE pc' = "draw" /\ notice' = "error"
    /\ Loaded
    /\ UNCHANGED <<store, v, op, Host, frame, asked>>

(* A store that throws ends the loop: in a load, in a mutation or in the   *)
(* read before an attach.  Before it starts, the host has not touched the  *)
(* terminal.                                                               *)
StoreThrows ==
    /\ pc \in {"sessions", "messages", "hint", "mutate"}
    /\ used.failures < MaxFailures
    /\ used' = [used EXCEPT !.failures = @ + 1]
    /\ IF why = "start" THEN pc' = "refused" /\ UNCHANGED Host
                        ELSE EndWith("threw")
    /\ Loaded
    /\ UNCHANGED <<store, v, notice, op, frame, asked>>

----------------------------------------------------------------------------

Init ==
    /\ store = [sessions |-> [s \in Session |-> IF s \in Exited THEN NewRow(s, "exited")
                                                ELSE IF s \in Before THEN NewRow(s, "running")
                                                ELSE NoRow],
                messages |-> EmptySnapshot.messages]
    /\ pc = "sessions" /\ why = "start"
    /\ v = NoView /\ notice = "none"
    /\ op = NoEffect /\ loaded = EmptySnapshot.sessions
    /\ queue = <<>> /\ renderer = "none" /\ closed = FALSE
    /\ frame = RenderCockpitView(NoView, "none") /\ asked = Null
    /\ used = [keys |-> 0, changes |-> 0, failures |-> 0]

Loop == \/ Draw \/ EndOfInput \/ TakeKey \/ LoadAttach \/ Suspend \/ Mutate
        \/ MutationFails \/ LoadSessions \/ LoadMessages \/ LoadRefused
        \/ StoreThrows

Next ==
    \/ Loop \/ Tick \/ Detach
    \/ RendererUp \/ SuspendAfterClose \/ CtrlC
    \/ \E k \in Typed : PressKey(k)
    \/ Others

(* Something for the loop to do.                                           *)
Ready ==
    \/ pc \in {"sessions", "messages", "draw", "hint", "mutate"}
    \/ pc = "wait" /\ (KeyWaits \/ InputEnded \/ TimerRuns)
    \/ pc = "suspend" /\ renderer # "starting"

(* The runtime goes on with what it awaits, the timer fires, the renderer  *)
(* comes up and goes down.  Nobody has to press a key, to change the store *)
(* or to detach from a Session.  The first line is weak fairness of Loop   *)
(* and Tick: Ready says when one of them can be taken, and all of them and *)
(* nothing else that can happen then move pc.                              *)
Fairness == /\ []<>~Ready \/ []<><<pc' # pc>>_pc
            /\ WF_vars(RendererUp) /\ WF_vars(SuspendAfterClose)

Spec == Init /\ [][Next]_vars /\ Fairness

----------------------------------------------------------------------------
(* Properties *)

SessionRow == [status : {"absent", "starting", "running", "exited", "missing", "closed"},
               parent : Session \cup {Null}]
MessageRow == [from : Session \cup {Null}, to : Session \cup {Null},
               kind : {"message", "report"},
               delivery : {"absent", "undelivered", "delivered", "failed"}]
Tables == [sessions : [Session -> SessionRow], messages : [Message -> MessageRow]]

(* The variables hold values of their kind, and the strip stays capped.    *)
TypeOK ==
    /\ store \in Tables /\ v.snapshot \in Tables
    /\ pc \in Finished \cup {"sessions", "messages", "draw", "wait", "hint",
                             "suspend", "attached", "mutate"}
    /\ v.selected \in Session \cup {Null} /\ asked \in Session \cup {Null}
    /\ v.filter \in Range(CockpitFilters) /\ v.tab \in Range(Tabs)
    /\ v.baseline \subseteq Message /\ v.expanded \subseteq Message
    /\ v.modal.draft \in 0 .. MaxKeys
    /\ Len(v.activity) <= ActivityCap
    /\ op.target \in Session \cup {Null}
    /\ notice \in {"none", "info", "success", "error"}
    /\ loaded \in [Session -> SessionRow]
    /\ queue \in Seq(Keys) /\ Len(queue) <= MaxQueue
    /\ renderer \in {"none", "starting", "up"} /\ closed \in BOOLEAN

(* Whatever refreshes, filters and deletions did to the rows, the cursor   *)
(* is on one of them; there is no cursor only when there is no row.        *)
CursorOnARow ==
    IF VisibleRows(v) = <<>> THEN v.selected = Null
    ELSE v.selected \in RowIds(v)

(* Every Session that passes the filter is in the tree exactly once; a     *)
(* child stands one level below its parent and after it, with nothing but  *)
(* the parent's other descendants in between.                              *)
TreeShowsEverySession ==
    LET rows == VisibleRows(v)
        at(s) == CHOOSE i \in DOMAIN rows : rows[i].id = s
    IN  /\ Len(rows) = Cardinality(FilterSessions(v.snapshot, v.filter))
        /\ RowIds(v) = FilterSessions(v.snapshot, v.filter)
        /\ \A i \in DOMAIN rows :
               LET p == v.snapshot.sessions[rows[i].id].parent IN
               IF p \notin RowIds(v) THEN rows[i].depth = 0
               ELSE /\ at(p) < i /\ rows[i].depth = rows[at(p)].depth + 1
                    /\ \A j \in at(p) + 1 .. i : rows[j].depth > rows[at(p)].depth

(* The Session whose Messages are on screen never carries a badge.         *)
OpenTimelineHasNoBadge ==
    v.tab = "messages" /\ v.selected # Null => BadgeFor(v, v.selected) = {}

(* The attached program never shares the terminal with the screen.         *)
AttachOwnsTerminal == pc = "attached" => renderer = "none"

(* What holds of the screen in every state: the cursor, the tree and the   *)
(* badges agree with the snapshot they are drawn from, and the screen is   *)
(* gone while an attached program has the terminal.                        *)
ScreenIsCoherent ==
    /\ TypeOK
    /\ CursorOnARow
    /\ TreeShowsEverySession
    /\ OpenTimelineHasNoBadge
    /\ AttachOwnsTerminal

(* A badge goes only when its Session is looked at on the Messages tab, or *)
(* its Message is gone: nothing else is taken for seen.                    *)
BadgesAreEarned ==
    [][pc # "messages" \/ why # "start" =>
        \A m \in Messages(v'.snapshot) \cap (v'.baseline \ v.baseline) :
            v'.tab = "messages" /\ v'.snapshot.messages[m].to = v'.selected]_v

(* A mutation hits the Session that the cursor of the frame was on when    *)
(* its dialog was opened, whatever became of the rows since, and only one  *)
(* that was confirmed in a dialog of its own.                              *)
MutationsHitWhatWasAsked ==
    pc = "mutate" =>
        /\ op.target = asked
        /\ frame.modal.target = op.target
        /\ frame.modal.kind = IF op.kind = "send" THEN "send" ELSE "confirm"
        /\ op.kind \in {"send", frame.modal.action}

(* What one item of the strip says, done to a snapshot's statuses.         *)
Told(states, it) ==
    IF it.kind \in {"message_added", "delivery_changed"}
    THEN [states EXCEPT !.messages[it.id] = it.change]
    ELSE [states EXCEPT !.sessions[it.id] = it.change]

States(snap) ==
    [sessions |-> [s \in Session |-> snap.sessions[s].status],
     messages |-> [m \in Message |-> snap.messages[m].delivery]]

(* The strip tells all that a refresh changed on screen: its new items,    *)
(* done one after the other to what was on screen before, give what is on  *)
(* screen now - but for Messages that went with their Session - unless     *)
(* there were more of them than the strip holds.                           *)
StripTellsEveryChange ==
    [][pc = "messages" /\ why # "start" /\ pc' = "draw" =>
        LET items == DiffSnapshots(v.snapshot, v'.snapshot)
            new == LastOf(v'.activity, Len(items))
            told == FoldLeft(Told, States(v.snapshot), new)
        IN  Len(items) <= ActivityCap =>
                /\ told.sessions = States(v'.snapshot).sessions
                /\ \A m \in Messages(v'.snapshot) :
                       told.messages[m] = v'.snapshot.messages[m].delivery]_<<pc, v>>

(* Once the store is left alone the screen comes to show what it holds,    *)
(* the two reads of one snapshot and failed refreshes notwithstanding,     *)
(* unless a dialog is open, a human is attached or the cockpit is over.    *)
ScreenCatchesUp ==
    <>[](\/ v.snapshot = Snapshot(store)
         \/ v.modal.kind # "none"
         \/ pc \in Finished \cup {"attached"})

(* After Ctrl+C or quit the loop ends and the terminal is given back, with *)
(* keys still queued and whatever is awaited - but for an attach, whose    *)
(* program ends when it likes.                                             *)
CloseEndsTheLoop ==
    closed ~> (pc \in Finished \cup {"attached"} /\ renderer = "none")
=============================================================================
