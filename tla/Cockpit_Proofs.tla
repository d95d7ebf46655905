---------------------------- MODULE Cockpit_Proofs ----------------------------
(***************************************************************************)
(* Theorems about Cockpit, for any Sessions and Messages, any scope, any   *)
(* keys and any number of key presses, changes and failures.               *)
(***************************************************************************)
EXTENDS Cockpit, FiniteSetTheorems, TLAPS

(***************************************************************************)
(* The dialogs.                                                            *)
(***************************************************************************)

WholeView(w) ==
    /\ w = [snapshot |-> w.snapshot, filter |-> w.filter, selected |-> w.selected,
            tab |-> w.tab, baseline |-> w.baseline, expanded |-> w.expanded,
            technical |-> w.technical, modal |-> w.modal, activity |-> w.activity]
    /\ w.modal = [kind |-> w.modal.kind, action |-> w.modal.action,
                  target |-> w.modal.target, draft |-> w.modal.draft]

Dialogs == {"none", "send", "confirm", "help", "error"}

(* The dialog of view w is about Session s.                                *)
About(w, s) ==
    /\ w.modal.kind = "send" => w.selected = s
    /\ w.modal.kind = "confirm" => w.modal.target = s /\ w.modal.action \in {"close", "delete"}

(* What is new in the baseline is on screen.                               *)
Seen(old, new) ==
    \A m \in Messages(new.snapshot) \cap (new.baseline \ old.baseline) :
        new.tab = "messages" /\ new.snapshot.messages[m].to = new.selected

(* A dialog is only open while the loop draws or waits, and is about what  *)
(* the cursor was on when it was opened; the frame the loop waits with is  *)
(* that of its state.                                                      *)
DialogInv ==
    /\ WholeView(v) /\ v.modal.kind \in Dialogs
    /\ pc \notin {"draw", "wait"} \cup Finished => v.modal.kind = "none"
    /\ About(v, asked)
    /\ pc = "wait" => frame.dossier = v.selected /\ frame.modal = ModalView(v)
    /\ MutationsHitWhatWasAsked
    /\ pc = "mutate" => op.kind \in {"send", "close", "delete"}

-----------------------------------------------------------------------------
(***************************************************************************)
(* The reducer.                                                            *)
(***************************************************************************)

(* A key that opens or closes no dialog under w, and asks for nothing.     *)
Plain(w, r) == WholeView(r) /\ r.modal = w.modal /\ Seen(w, r)

LEMMA ModalFits ==
    /\ NoModal.kind = "none"
    /\ \A k : /\ Modal(k).kind = k
              /\ Modal(k) = [kind |-> k, action |-> "none", target |-> Null, draft |-> 0]
    /\ \A a, s : Confirm(a, s) = [kind |-> "confirm", action |-> a, target |-> s, draft |-> 0]
    /\ \A k, s : Effect(k, s).kind = k /\ Effect(k, s).target = s
    /\ NoEffect.kind = "none"
<1>1. NoModal = [kind |-> "none", action |-> "none", target |-> Null, draft |-> 0]
  BY DEF NoModal
<1>2. ASSUME NEW k
      PROVE  Modal(k) = [kind |-> k, action |-> "none", target |-> Null, draft |-> 0]
  BY <1>1 DEF Modal
<1>3. ASSUME NEW a, NEW s
      PROVE  Confirm(a, s) = [kind |-> "confirm", action |-> a, target |-> s, draft |-> 0]
  <2>1. PICK m : m = NoModal
    OBVIOUS
  <2>2. m = [kind |-> "none", action |-> "none", target |-> Null, draft |-> 0]
    BY <1>1, <2>1
  <2>3. Confirm(a, s) = [m EXCEPT !.kind = "confirm", !.action = a, !.target = s]
    BY <2>1 DEF Confirm
  <2>. QED  BY <2>2, <2>3
<1>. QED  BY <1>1, <1>2, <1>3 DEF Effect, NoEffect

(* A dialog comes or goes, and nothing else.                               *)
LEMMA WithModal ==
    ASSUME NEW w, WholeView(w), NEW k, NEW a, NEW s, NEW n, NEW r,
           r = [w EXCEPT !.modal = [kind |-> k, action |-> a, target |-> s, draft |-> n]]
    PROVE  /\ WholeView(r) /\ Seen(w, r) /\ r.selected = w.selected
           /\ r.modal = [kind |-> k, action |-> a, target |-> s, draft |-> n]
  BY DEF WholeView, Seen

(* What is observed is on screen.                                          *)
LEMMA ObserveSees ==
    ASSUME NEW w, WholeView(w), NEW r, WholeView(r), r.modal = w.modal,
           r.baseline = w.baseline \cup Observed(r.snapshot, r.selected, r.tab)
    PROVE  Plain(w, r)
  BY DEF Plain, Seen, Observed, IncomingMessages

LEMMA PlainKeys ==
    ASSUME NEW w, WholeView(w)
    PROVE  /\ \A d : Plain(w, MoveSelection(w, d))
           /\ Plain(w, SwitchTab(w)) /\ Plain(w, CycleFilter(w)) /\ Plain(w, ToggleExpand(w))
<1>1. ASSUME NEW s
      PROVE  Plain(w, ObserveIfViewingMessages([w EXCEPT !.selected = s]))
  <2>1. PICK u : u = [w EXCEPT !.selected = s]
    OBVIOUS
  <2>2. WholeView(u) /\ u.modal = w.modal /\ u.baseline = w.baseline
    BY <2>1 DEF WholeView
  <2>3. PICK r : r = ObserveIfViewingMessages(u)
    OBVIOUS
  <2>4. /\ WholeView(r) /\ r.modal = w.modal
        /\ r.baseline = w.baseline \cup Observed(r.snapshot, r.selected, r.tab)
    BY <2>2, <2>3 DEF WholeView, ObserveIfViewingMessages
  <2>. QED  BY <2>1, <2>3, <2>4, ObserveSees
<1>2. ASSUME NEW s
      PROVE  Plain(w, [w EXCEPT !.selected = s])
  BY DEF Plain, WholeView, Seen
<1>3. \A d : Plain(w, MoveSelection(w, d))
  BY <1>1, <1>2 DEF MoveSelection
<1>4. ASSUME NEW t
      PROVE  Plain(w, ObserveIfViewingMessages([w EXCEPT !.tab = t]))
  <2>1. PICK u : u = [w EXCEPT !.tab = t]
    OBVIOUS
  <2>2. WholeView(u) /\ u.modal = w.modal /\ u.baseline = w.baseline
    BY <2>1 DEF WholeView
  <2>3. PICK r : r = ObserveIfViewingMessages(u)
    OBVIOUS
  <2>4. /\ WholeView(r) /\ r.modal = w.modal
        /\ r.baseline = w.baseline \cup Observed(r.snapshot, r.selected, r.tab)
    BY <2>2, <2>3 DEF WholeView, ObserveIfViewingMessages
  <2>. QED  BY <2>1, <2>3, <2>4, ObserveSees
<1>5. Plain(w, SwitchTab(w))
  BY <1>4 DEF SwitchTab
<1>6. ASSUME NEW f
      PROVE  Plain(w, ApplyFilter(w, f))
  <2>1. PICK r : r = ApplyFilter(w, f)
    OBVIOUS
  <2>2. /\ WholeView(r) /\ r.modal = w.modal
        /\ r.baseline = w.baseline \cup Observed(r.snapshot, r.selected, r.tab)
    BY <2>1 DEF WholeView, ApplyFilter
  <2>. QED  BY <2>1, <2>2, ObserveSees
<1>7. Plain(w, CycleFilter(w))
  BY <1>6 DEF CycleFilter
<1>8. Plain(w, ToggleExpand(w))
  BY DEF ToggleExpand, Plain, WholeView, Seen
<1>. QED  BY <1>3, <1>5, <1>7, <1>8

(* What a key does under each of the dialogs.                              *)
LEMMA PressFits ==
    ASSUME NEW w, WholeView(w), w.modal.kind \in Dialogs, NEW k,
           NEW r, r = Press(w, k), NEW s, About(w, s)
    PROVE  /\ WholeView(r.v) /\ r.v.modal.kind \in Dialogs /\ Seen(w, r.v)
           /\ r.effect.kind # "none" => r.v.modal.kind = "none"
           /\ IF w.modal.kind = "none"
              THEN r.effect.kind \notin {"send", "close", "delete"} /\ About(r.v, w.selected)
              ELSE /\ About(r.v, s)
                   /\ r.effect.kind \in {"none", "send", "close", "delete"}
                   /\ r.effect.kind # "none" =>
                          /\ r.effect.target = s /\ ModalView(w).target = s
                          /\ w.modal.kind = IF r.effect.kind = "send" THEN "send" ELSE "confirm"
                          /\ r.effect.kind \in {"send", w.modal.action}
<1>0. /\ Dismiss(w) = [w EXCEPT !.modal = [kind |-> "none", action |-> "none",
                                           target |-> Null, draft |-> 0]]
      /\ Seen(w, w)
  BY DEF Dismiss, NoModal, Seen
<1>1. WholeView(Dismiss(w)) /\ Seen(w, Dismiss(w)) /\ Dismiss(w).modal.kind = "none"
  BY <1>0, WithModal
<1>2. ASSUME NEW e
      PROVE  Result(w, e).v = w /\ Result(w, e).effect = e
  BY DEF Result
<1>3. \A u, e : Result(u, e).v = u /\ Result(u, e).effect = e
  BY DEF Result
<1>4. \A u : Only(u).v = u /\ Only(u).effect.kind = "none"
  BY ModalFits DEF Only, Result
<1>5. CASE w.modal.kind = "send"
  <2>1. ASSUME NEW n
        PROVE  /\ WholeView(UpdateDraft(w, n)) /\ Seen(w, UpdateDraft(w, n))
               /\ UpdateDraft(w, n).modal.kind = "send" /\ UpdateDraft(w, n).selected = w.selected
    BY <1>5 DEF UpdateDraft, WholeView, Seen
  <2>2. r = SendModalAction(w, k)
    BY <1>5 DEF Press
  <2>3. ModalView(w).target = w.selected /\ w.selected = s
    BY <1>5 DEF ModalView, About
  <2>4. CASE r = SubmitSend(w)
    <3>1. \/ r = Only(w)
          \/ r = Result(Dismiss(w), NoEffect)
          \/ r = Result(Dismiss(w), Effect("send", w.selected))
      BY <2>4 DEF SubmitSend
    <3>2. CASE r = Only(w)
      BY <1>0, <1>4, <1>5, <3>2 DEF About, Dialogs
    <3>3. CASE r = Result(Dismiss(w), NoEffect)
      BY <1>1, <1>3, <1>5, <3>3, ModalFits DEF About, Dialogs
    <3>4. CASE r = Result(Dismiss(w), Effect("send", w.selected))
      BY <1>1, <1>3, <1>5, <2>3, <3>4, ModalFits DEF About, Dialogs
    <3>. QED  BY <3>1, <3>2, <3>3, <3>4
  <2>5. CASE r = Only(Dismiss(w)) \/ r = Only(w) \/ \E n : r = Only(UpdateDraft(w, n))
    <3>1. CASE r = Only(Dismiss(w))
      BY <1>1, <1>4, <1>5, <3>1 DEF About, Dialogs
    <3>2. CASE r = Only(w)
      BY <1>0, <1>4, <1>5, <3>2 DEF About, Dialogs
    <3>3. CASE \E n : r = Only(UpdateDraft(w, n))
      BY <1>4, <1>5, <2>1, <2>3, <3>3 DEF About, Dialogs
    <3>. QED  BY <2>5, <3>1, <3>2, <3>3
  <2>6. \/ r = SubmitSend(w)
        \/ r = Only(Dismiss(w)) \/ r = Only(w) \/ \E n : r = Only(UpdateDraft(w, n))
    BY <2>2 DEF SendModalAction
  <2>. QED  BY <2>4, <2>5, <2>6
<1>6. CASE w.modal.kind = "confirm"
  <2>1. r = ConfirmModalAction(w, k)
    BY <1>6 DEF Press
  <2>2. ModalView(w).target = s /\ w.modal.target = s /\ w.modal.action \in {"close", "delete"}
    BY <1>6 DEF ModalView, About
  <2>3. \/ r = Only(Dismiss(w)) \/ r = Only(w)
        \/ r = Result(Dismiss(w), Effect(w.modal.action, w.modal.target))
    BY <2>1 DEF ConfirmModalAction, ConfirmModal
  <2>4. CASE r = Only(Dismiss(w))
    BY <1>1, <1>4, <1>6, <2>4 DEF About, Dialogs
  <2>5. CASE r = Only(w)
    BY <1>0, <1>4, <1>6, <2>5 DEF About, Dialogs
  <2>6. CASE r = Result(Dismiss(w), Effect(w.modal.action, w.modal.target))
    BY <1>1, <1>3, <1>6, <2>2, <2>6, ModalFits DEF About, Dialogs
  <2>. QED  BY <2>3, <2>4, <2>5, <2>6
<1>7. CASE w.modal.kind \in {"help", "error"}
  <2>1. r \in {Only(Dismiss(w)), Only(w)}
    BY <1>7 DEF Press, HelpModalAction, ErrorModalAction, ToggleHelp
  <2>2. CASE r = Only(Dismiss(w))
    BY <1>1, <1>4, <1>7, <2>2 DEF About, Dialogs
  <2>3. CASE r = Only(w)
    BY <1>0, <1>4, <1>7, <2>3 DEF About, Dialogs
  <2>. QED  BY <2>1, <2>2, <2>3
<1>8. CASE w.modal.kind = "none"
  <2>1. r = NormalAction(w, k)
    BY <1>8 DEF Press
  <2>2. ASSUME NEW u, Plain(w, u), r = Only(u)
        PROVE  /\ WholeView(r.v) /\ r.v.modal.kind = "none" /\ Seen(w, r.v)
               /\ r.effect.kind = "none"
    BY <1>4, <1>8, <2>2 DEF Plain
  <2>3. ASSUME NEW m, r = Only([w EXCEPT !.modal = m]),
               m \in {Modal("error"), Modal("help"), Modal("send"),
                      Confirm("close", w.selected), Confirm("delete", w.selected)}
        PROVE  /\ WholeView(r.v) /\ r.v.modal = m /\ Seen(w, r.v)
               /\ r.v.selected = w.selected /\ r.effect.kind = "none"
    BY <1>4, <2>3, ModalFits, WithModal
  <2>4. CASE r = Result(w, Effect("attach", w.selected))
              \/ r = Result(w, Effect("refresh", Null)) \/ r = Result(w, Effect("quit", Null))
    BY <1>0, <1>3, <1>8, <2>4, ModalFits DEF About
  <2>5. CASE \E u : Plain(w, u) /\ r = Only(u)
    BY <1>8, <2>2, <2>5 DEF About, Dialogs
  <2>6. CASE \E m \in {Modal("error"), Modal("help"), Modal("send"),
                       Confirm("close", w.selected), Confirm("delete", w.selected)} :
                 r = Only([w EXCEPT !.modal = m])
    BY <1>8, <2>3, <2>6, ModalFits DEF About, Dialogs
  <2>7. Plain(w, w)
    BY <1>0 DEF Plain
  <2>8. \/ r = Result(w, Effect("attach", w.selected))
        \/ r = Result(w, Effect("refresh", Null)) \/ r = Result(w, Effect("quit", Null))
        \/ \E u : Plain(w, u) /\ r = Only(u)
        \/ \E m \in {Modal("error"), Modal("help"), Modal("send"),
                     Confirm("close", w.selected), Confirm("delete", w.selected)} :
               r = Only([w EXCEPT !.modal = m])
    BY <1>8, <2>1, <2>7, PlainKeys
       DEF NormalAction, Attach, Open, WithSelected, ToggleHelp
  <2>. QED  BY <2>4, <2>5, <2>6, <2>8
<1>. QED  BY <1>5, <1>6, <1>7, <1>8 DEF Dialogs

LEMMA SnapshotFits ==
    ASSUME NEW snap
    PROVE  /\ WholeView(CreateCockpitState(snap)) /\ CreateCockpitState(snap).modal = NoModal
           /\ \A w : WholeView(w) => Plain(w, ApplySnapshot(w, snap))
<1>1. WholeView(CreateCockpitState(snap)) /\ CreateCockpitState(snap).modal = NoModal
  BY DEF WholeView, CreateCockpitState, NoModal
<1>2. ASSUME NEW w, WholeView(w)
      PROVE  Plain(w, ApplySnapshot(w, snap))
  <2>1. PICK r : r = ApplySnapshot(w, snap)
    OBVIOUS
  <2>2. /\ WholeView(r) /\ r.modal = w.modal
        /\ r.baseline = w.baseline \cup Observed(r.snapshot, r.selected, r.tab)
    BY <1>2, <2>1 DEF WholeView, ApplySnapshot
  <2>. QED  BY <1>2, <2>1, <2>2, ObserveSees
<1>. QED  BY <1>1, <1>2

LEMMA ErrorFits ==
    ASSUME NEW w, WholeView(w), w.modal.kind \in Dialogs
    PROVE  /\ WholeView(ShowError(w)) /\ Seen(w, ShowError(w))
           /\ ShowError(w).selected = w.selected
           /\ ShowError(w).modal.kind \in Dialogs
           /\ w.modal.kind = "none" => ShowError(w).modal.kind = "error"
           /\ w.modal.kind # "none" => ShowError(w) = w
<1>1. CASE w.modal.kind # "none"
  BY <1>1 DEF ShowError, Seen
<1>2. CASE w.modal.kind = "none"
  BY <1>2, ModalFits, WithModal DEF ShowError, Dialogs
<1>. QED  BY <1>1, <1>2

-----------------------------------------------------------------------------
(***************************************************************************)
(* The steps.                                                              *)
(***************************************************************************)

LEMMA InitDialog == Init => DialogInv
<1>. SUFFICES ASSUME Init PROVE DialogInv
  OBVIOUS
<1>1. v = CreateCockpitState(EmptySnapshot) /\ pc = "sessions"
  BY DEF Init, NoView
<1>2. WholeView(v) /\ v.modal.kind = "none"
  BY <1>1, SnapshotFits, ModalFits
<1>. QED  BY <1>1, <1>2 DEF DialogInv, Dialogs, About, MutationsHitWhatWasAsked, Finished

LEMMA KeyStep ==
    ASSUME DialogInv, TakeKey
    PROVE  DialogInv' /\ Seen(v, v')
<1>. DEFINE r == Press(v, Head(queue))
<1>. DEFINE b == Bound(v, Head(queue))
<1>1. /\ pc = "wait" /\ v' = r.v /\ Carry(r.effect, b) /\ frame' = frame
      /\ asked' = IF v.modal.kind = "none" /\ r.v.modal.kind # "none"
                  THEN frame.dossier ELSE asked
      /\ frame.dossier = v.selected /\ frame.modal = ModalView(v)
  BY DEF TakeKey, DialogInv
<1>2. /\ WholeView(r.v) /\ r.v.modal.kind \in Dialogs /\ Seen(v, r.v)
      /\ r.effect.kind # "none" => r.v.modal.kind = "none"
      /\ IF v.modal.kind = "none"
         THEN r.effect.kind \notin {"send", "close", "delete"} /\ About(r.v, v.selected)
         ELSE /\ About(r.v, asked)
              /\ r.effect.kind \in {"none", "send", "close", "delete"}
              /\ r.effect.kind # "none" =>
                     /\ r.effect.target = asked /\ ModalView(v).target = asked
                     /\ v.modal.kind = IF r.effect.kind = "send" THEN "send" ELSE "confirm"
                     /\ r.effect.kind \in {"send", v.modal.action}
  <2>1. WholeView(v) /\ v.modal.kind \in Dialogs /\ About(v, asked)
    BY DEF DialogInv
  <2>2. PICK w, k, s, q : w = v /\ k = Head(queue) /\ s = asked /\ q = Press(w, k)
    OBVIOUS
  <2>. QED  BY <2>1, <2>2, PressFits
<1>. HIDE DEF r, b
<1>3. About(v', asked')
  BY <1>1, <1>2 DEF About
<1>4. /\ pc' \in {"draw", "ended", "sessions", "hint", "mutate"}
      /\ pc' \notin {"draw"} \cup Finished => r.effect.kind # "none"
      /\ pc' = "mutate" => op' = r.effect /\ r.effect.kind \in {"send", "close", "delete"}
  BY <1>1 DEF Carry, Load, Finished
<1>5. MutationsHitWhatWasAsked'
  <2>. SUFFICES ASSUME pc' = "mutate"
                PROVE  /\ op'.target = asked'
                       /\ frame'.modal.target = op'.target
                       /\ frame'.modal.kind = IF op'.kind = "send" THEN "send" ELSE "confirm"
                       /\ op'.kind \in {"send", frame'.modal.action}
    BY DEF MutationsHitWhatWasAsked
  <2>1. v.modal.kind # "none" /\ op' = r.effect /\ asked' = asked
    BY <1>1, <1>2, <1>4
  <2>2. /\ frame'.modal = ModalView(v) /\ ModalView(v).kind = v.modal.kind
        /\ ModalView(v).action = v.modal.action
    BY <1>1 DEF ModalView
  <2>. QED  BY <1>2, <1>4, <2>1, <2>2
<1>. QED  BY <1>1, <1>2, <1>3, <1>4, <1>5 DEF DialogInv

LEMMA LoadStep ==
    ASSUME DialogInv, LoadMessages
    PROVE  DialogInv' /\ (why # "start" => Seen(v, v'))
<1>. DEFINE snap == [sessions |-> loaded, messages |-> ReadMessages(store)]
<1>1. /\ v' = IF why = "start" THEN CreateCockpitState(snap) ELSE ApplySnapshot(v, snap)
      /\ pc' = "draw" /\ v.modal.kind = "none" /\ WholeView(v)
  BY DEF LoadMessages, DialogInv, Finished
<1>2. PICK w, t : w = v /\ t = snap
  OBVIOUS
<1>3. /\ WholeView(CreateCockpitState(t)) /\ CreateCockpitState(t).modal = NoModal
      /\ Plain(w, ApplySnapshot(w, t))
  BY <1>1, <1>2, SnapshotFits
<1>4. WholeView(v') /\ v'.modal.kind = "none" /\ (why # "start" => Seen(v, v'))
  BY <1>1, <1>2, <1>3, ModalFits DEF Plain
<1>. QED  BY <1>1, <1>4 DEF DialogInv, Dialogs, About, MutationsHitWhatWasAsked

LEMMA DialogInductive ==
    ASSUME DialogInv, [Next]_vars
    PROVE  /\ DialogInv'
           /\ v' # v /\ (pc # "messages" \/ why # "start") => Seen(v, v')
<1>. DEFINE Same == UNCHANGED <<v, asked, frame, op>>
<1>0. DialogInv
  OBVIOUS
<1>1. ASSUME UNCHANGED <<v, asked, frame, op, pc>>
      PROVE  DialogInv'
  BY <1>1 DEF DialogInv, MutationsHitWhatWasAsked
<1>2. ASSUME UNCHANGED <<v, asked, frame>>, pc' \notin {"mutate", "wait"},
             pc' \notin {"draw", "wait"} \cup Finished => v.modal.kind = "none"
      PROVE  DialogInv'
  BY <1>2 DEF DialogInv, MutationsHitWhatWasAsked
<1>3. CASE Others \/ RendererUp \/ SuspendAfterClose \/ CtrlC
           \/ \E k \in Typed : PressKey(k)
  BY <1>1, <1>3 DEF Others, RendererUp, SuspendAfterClose, CtrlC, PressKey, App
<1>4. CASE Draw
  <2>1. frame'.dossier = v.selected /\ frame'.modal = ModalView(v) /\ v' = v
        /\ pc' = "wait" /\ asked' = asked
    BY <1>4 DEF Draw, RenderCockpitView
  <2>2. ModalView(v)' = ModalView(v)
    BY <2>1 DEF ModalView
  <2>. QED  BY <2>1, <2>2 DEF DialogInv, MutationsHitWhatWasAsked
<1>5. CASE EndOfInput
  BY <1>2, <1>5 DEF EndOfInput, EndWith, App, Finished
<1>6. CASE TakeKey
  BY <1>6, KeyStep
<1>7. CASE LoadAttach \/ Suspend
  BY <1>2, <1>7 DEF LoadAttach, Suspend, App, DialogInv, Finished
<1>8. CASE Tick
  BY <1>2, <1>8 DEF Tick, TimerRuns, Load
<1>9. CASE Mutate \/ Detach
  BY <1>2, <1>9 DEF Mutate, Detach, Load, DialogInv, Finished
<1>10. CASE MutationFails
  <2>1. pc = "mutate" /\ v' = ShowError(v) /\ pc' = "draw" /\ UNCHANGED <<frame, asked>>
        /\ v.modal.kind = "none" /\ WholeView(v)
    BY <1>10 DEF MutationFails, DialogInv, Finished
  <2>2. PICK w : w = v
    OBVIOUS
  <2>3. WholeView(v') /\ v'.modal.kind = "error" /\ Seen(v, v')
    BY <2>1, <2>2, ErrorFits DEF Dialogs
  <2>. QED  BY <2>1, <2>3 DEF DialogInv, Dialogs, About, MutationsHitWhatWasAsked
<1>11. CASE LoadSessions \/ LoadRefused \/ StoreThrows
  BY <1>2, <1>11 DEF LoadSessions, LoadRefused, StoreThrows, EndWith, DialogInv, Finished
<1>12. CASE LoadMessages
  <2>1. pc = "messages"
    BY <1>12 DEF LoadMessages
  <2>. QED  BY <1>12, <2>1, LoadStep
<1>13. CASE UNCHANGED vars
  BY <1>1, <1>13 DEF vars
<1>. QED  BY <1>3, <1>4, <1>5, <1>6, <1>7, <1>8, <1>9, <1>10, <1>11, <1>12, <1>13
          DEF Next, Loop

-----------------------------------------------------------------------------
(* A close, a delete or a send acts on the Session the cursor of the frame *)
(* was on when its dialog was opened (tui/src/cockpit-app.ts over the      *)
(* reducer), whatever refreshes did to the rows since, and only after a    *)
(* dialog of its own was on screen.                                        *)
THEOREM MutationsAreAsked == Spec => []MutationsHitWhatWasAsked
<1>1. Init => DialogInv
  BY InitDialog
<1>2. DialogInv /\ [Next]_vars => DialogInv'
  BY DialogInductive
<1>3. DialogInv => MutationsHitWhatWasAsked
  BY DEF DialogInv
<1>. QED  BY <1>1, <1>2, <1>3, PTL DEF Spec

(* A Message enters the baseline only while its Session is on screen on    *)
(* the Messages tab: no filter, refresh, deletion or move of the cursor    *)
(* takes a badge away unseen (the reducer's observeIfViewingMessages).     *)
THEOREM BadgesStayUntilSeen == Spec => BadgesAreEarned
<1>1. Init => DialogInv
  BY InitDialog
<1>2. DialogInv /\ [Next]_vars => DialogInv'
  BY DialogInductive
<1>3. DialogInv /\ [Next]_vars =>
          [pc # "messages" \/ why # "start" =>
              \A m \in Messages(v'.snapshot) \cap (v'.baseline \ v.baseline) :
                  v'.tab = "messages" /\ v'.snapshot.messages[m].to = v'.selected]_v
  BY DialogInductive DEF Seen
<1>. QED  BY <1>1, <1>2, <1>3, PTL DEF Spec, BadgesAreEarned
-----------------------------------------------------------------------------
(***************************************************************************)
(* The tree of the left pane.                                              *)
(***************************************************************************)

(* What an induction over numbers comes to here: a set of them that is not *)
(* empty has a least one.                                                  *)
LEMMA LeastNumber ==
    ASSUME NEW T \in SUBSET Nat, T # {}
    PROVE  \E n \in T : \A m \in T : n <= m
<1>1. PICK n \in T : \A m \in T : ~(<<m, n>> \in OpToRel(<, Nat))
  BY NatLessThanWellFounded, WFMin
<1>2. \A g, h \in Nat : g < h => <<g, h>> \in OpToRel(<, Nat)
  BY Zenon DEF OpToRel
<1>3. \A m \in T : ~(m < n)
  BY <1>1, <1>2
<1>. QED  BY <1>3

(* One step of the way down.                                               *)
StepDown(rows, listed, path, s) ==
    IF rows[s].parent \in listed THEN Append(path[rows[s].parent], s) ELSE <<s>>

(* A parent is created before its children.                                *)
ParentsFirst(rows, listed) ==
    \A s \in listed : rows[s].parent \in listed => rows[s].parent < s

(* The ways down to the first of the Sessions.                             *)
Below(listed, n) == {t \in listed : t < n}
PathsBelow(rows, listed, n, g) ==
    g = [s \in Below(listed, n) |-> StepDown(rows, listed, g, s)]

LEMMA OneWayDown ==
    ASSUME NEW listed \in SUBSET Nat, NEW rows, ParentsFirst(rows, listed),
           NEW n \in Nat, NEW g, PathsBelow(rows, listed, n, g),
           NEW m \in Nat, NEW h, PathsBelow(rows, listed, m, h)
    PROVE  \A s \in Below(listed, n) \cap Below(listed, m) : g[s] = h[s]
<1>. DEFINE Bad == {s \in Below(listed, n) \cap Below(listed, m) : g[s] # h[s]}
<1>. SUFFICES ASSUME Bad # {} PROVE FALSE
  OBVIOUS
<1>1. PICK s \in Bad : \A t \in Bad : s <= t
  BY LeastNumber DEF Below
<1>2. g[s] = StepDown(rows, listed, g, s) /\ h[s] = StepDown(rows, listed, h, s)
  BY <1>1 DEF PathsBelow
<1>3. CASE rows[s].parent \in listed
  <2>1. PICK p \in listed : p = rows[s].parent
    BY <1>3
  <2>2. p < s /\ s < n /\ s < m /\ p \in Nat /\ s \in Nat
    BY <1>1, <2>1 DEF ParentsFirst, Below
  <2>3. p \in Below(listed, n) \cap Below(listed, m) /\ p \notin Bad
    BY <1>1, <2>2 DEF Below
  <2>. QED  BY <1>1, <1>2, <2>1, <2>3 DEF StepDown
<1>4. CASE rows[s].parent \notin listed
  BY <1>1, <1>2, <1>4 DEF StepDown
<1>. QED  BY <1>3, <1>4

LEMMA WaysDownBelow ==
    ASSUME NEW listed \in SUBSET Nat, NEW rows, ParentsFirst(rows, listed),
           NEW n \in Nat
    PROVE  \E g : PathsBelow(rows, listed, n, g)
<1>. DEFINE Bad == {k \in Nat : ~ \E g : PathsBelow(rows, listed, k, g)}
<1>. SUFFICES ASSUME Bad # {} PROVE FALSE
  OBVIOUS
<1>1. PICK k \in Bad : \A j \in Bad : k <= j
  BY LeastNumber
<1>2. k # 0
  <2>0. \A t \in listed : t \in Nat /\ ~(t < 0)
    OBVIOUS
  <2>1. Below(listed, 0) = {}
    BY <2>0 DEF Below
  <2>2. PICK g : g = [s \in Below(listed, 0) |-> 0]
    OBVIOUS
  <2>3. PathsBelow(rows, listed, 0, g)
    BY <2>1, <2>2 DEF PathsBelow
  <2>. QED  BY <1>1, <2>3
<1>3. k - 1 \in Nat /\ k - 1 \notin Bad
  BY <1>1, <1>2
<1>4. PICK g : PathsBelow(rows, listed, k - 1, g)
  BY <1>3
<1>. DEFINE h == [s \in Below(listed, k) |-> StepDown(rows, listed, g, s)]
<1>5. \A s \in Below(listed, k - 1) : h[s] = g[s]
  BY <1>3, <1>4 DEF PathsBelow, Below
<1>6. ASSUME NEW s \in Below(listed, k)
      PROVE  StepDown(rows, listed, h, s) = StepDown(rows, listed, g, s)
  <2>1. ASSUME NEW p \in listed, p = rows[s].parent
        PROVE  p \in Below(listed, k - 1)
    <3>1. p < s /\ s < k /\ p \in Nat /\ s \in Nat
      BY <2>1 DEF ParentsFirst, Below
    <3>2. p < k - 1
      BY <1>3, <3>1
    <3>. QED  BY <3>2 DEF Below
  <2>. HIDE DEF h
  <2>. QED  BY <1>5, <2>1 DEF StepDown
<1>7. PathsBelow(rows, listed, k, h)
  BY <1>6 DEF PathsBelow
<1>. HIDE DEF h
<1>. QED  BY <1>1, <1>7

(* The recursion is well founded: PathsIn is what its equation says.       *)
LEMMA WaysDown ==
    ASSUME NEW listed \in SUBSET Nat, NEW rows, ParentsFirst(rows, listed)
    PROVE  PathsIn(rows, listed) =
               [s \in listed |-> StepDown(rows, listed, PathsIn(rows, listed), s)]
<1>. DEFINE way(n) == CHOOSE g : PathsBelow(rows, listed, n, g)
            f == [s \in listed |-> way(s + 1)[s]]
<1>1. \A n \in Nat : PathsBelow(rows, listed, n, way(n))
  BY WaysDownBelow
<1>2. ASSUME NEW s \in listed
      PROVE  f[s] = StepDown(rows, listed, f, s)
  <2>1. s \in Below(listed, s + 1) /\ s + 1 \in Nat
    BY DEF Below
  <2>2. way(s + 1)[s] = StepDown(rows, listed, way(s + 1), s)
    <3>1. PICK g : g = way(s + 1)
      OBVIOUS
    <3>2. PathsBelow(rows, listed, s + 1, g)
      BY <1>1, <2>1, <3>1
    <3>. QED  BY <2>1, <3>1, <3>2 DEF PathsBelow
  <2>3. ASSUME NEW p \in listed, p < s
        PROVE  way(s + 1)[p] = f[p]
    <3>1. p \in Below(listed, s + 1) \cap Below(listed, p + 1) /\ p + 1 \in Nat
      BY <2>3 DEF Below
    <3>2. PICK n \in Nat, m \in Nat : n = s + 1 /\ m = p + 1
      BY <2>1, <3>1
    <3>3. PICK g, h : g = way(n) /\ h = way(m)
      OBVIOUS
    <3>. HIDE DEF way
    <3>4. PathsBelow(rows, listed, n, g) /\ PathsBelow(rows, listed, m, h)
      BY <1>1, <3>3
    <3>5. p \in Below(listed, n) \cap Below(listed, m)
      BY <3>1, <3>2
    <3>6. \A t \in Below(listed, n) \cap Below(listed, m) : g[t] = h[t]
      BY <3>4, OneWayDown
    <3>. QED  BY <3>2, <3>3, <3>5, <3>6
  <2>. HIDE DEF way
  <2>4. f[s] = way(s + 1)[s]
    OBVIOUS
  <2>. HIDE DEF f
  <2>. QED  BY <2>2, <2>3, <2>4 DEF StepDown, ParentsFirst
<1>. HIDE DEF f
<1>3. f = [s \in listed |-> StepDown(rows, listed, f, s)]
  <2>1. f = [s \in listed |-> f[s]]
    BY DEF f
  <2>. QED  BY <1>2, <2>1
<1>. DEFINE Eq(g) == g = [s \in listed |->
                             IF rows[s].parent \in listed
                             THEN Append(g[rows[s].parent], s) ELSE <<s>>]
<1>4. PathsIn(rows, listed) = CHOOSE g : Eq(g)
  BY DEF PathsIn
<1>5. \E g : Eq(g)
  BY <1>3 DEF StepDown
<1>6. Eq(PathsIn(rows, listed))
  BY <1>4, <1>5
<1>. QED  BY <1>6 DEF StepDown

(* Each Session is at the end of its way down, one below its parent's.     *)
LEMMA WayEnds ==
    ASSUME NEW listed \in SUBSET Nat, NEW rows, ParentsFirst(rows, listed),
           NEW path, path = PathsIn(rows, listed)
    PROVE  \A s \in listed :
               /\ path[s] \in Seq(Nat) /\ Len(path[s]) \in Nat \ {0}
               /\ path[s][Len(path[s])] = s
               /\ path[s] = StepDown(rows, listed, path, s)
<1>1. \A s \in listed : path[s] = StepDown(rows, listed, path, s)
  <2>1. path = [s \in listed |-> StepDown(rows, listed, path, s)]
    BY WaysDown
  <2>. QED  BY <2>1
<1>. DEFINE Fine(s) == /\ path[s] \in Seq(Nat) /\ Len(path[s]) \in Nat \ {0}
                       /\ path[s][Len(path[s])] = s
            Bad == {s \in listed : ~Fine(s)}
<1>. SUFFICES ASSUME Bad # {} PROVE FALSE
  BY <1>1
<1>2. PICK s \in Bad : \A t \in Bad : s <= t
  BY LeastNumber
<1>3. CASE rows[s].parent \in listed
  <2>1. PICK p \in listed : p = rows[s].parent
    BY <1>3
  <2>2. p < s /\ p \in Nat /\ s \in Nat
    BY <1>2, <2>1 DEF ParentsFirst
  <2>3. Fine(p)
    BY <1>2, <2>2
  <2>4. PICK w \in Seq(Nat) : w = path[p]
    BY <2>3
  <2>5. path[s] = Append(w, s)
    BY <1>1, <1>2, <2>1, <2>4 DEF StepDown
  <2>6. Append(w, s) \in Seq(Nat) /\ Len(Append(w, s)) = Len(w) + 1 /\ Len(w) \in Nat
        /\ Append(w, s)[Len(w) + 1] = s
    BY <2>2, <2>4
  <2>7. PICK u : u = path[s]
    OBVIOUS
  <2>8. u \in Seq(Nat) /\ Len(u) \in Nat \ {0} /\ u[Len(u)] = s
    BY <2>5, <2>6, <2>7
  <2>. QED  BY <1>2, <2>7, <2>8
<1>4. CASE rows[s].parent \notin listed
  <2>1. path[s] = <<s>> /\ s \in Nat
    BY <1>1, <1>2, <1>4 DEF StepDown
  <2>2. PICK u : u = path[s]
    OBVIOUS
  <2>3. u \in Seq(Nat) /\ Len(u) \in Nat \ {0} /\ u[Len(u)] = s
    BY <2>1, <2>2
  <2>. QED  BY <1>2, <2>2, <2>3
<1>. QED  BY <1>3, <1>4

-----------------------------------------------------------------------------
(***************************************************************************)
(* The order of the rows: ways down, compared number by number.            *)
(***************************************************************************)

SameUpTo(p, q, n) == \A j \in 1 .. n : p[j] = q[j]
GoesOn(p, q) == Len(p) < Len(q) /\ SameUpTo(p, q, Len(p))
TurnsOff(p, q, i) == i <= Len(p) /\ i <= Len(q) /\ p[i] < q[i] /\ SameUpTo(p, q, i - 1)

LEMMA PreOrderIs ==
    ASSUME NEW p \in Seq(Nat), NEW q \in Seq(Nat)
    PROVE  PreOrder(p, q) <=> GoesOn(p, q) \/ \E i \in Nat \ {0} : TurnsOff(p, q, i)
<1>0. Len(p) \in Nat /\ Len(q) \in Nat
  OBVIOUS
<1>1. Len(p) \in Nat /\ Len(q) \in Nat /\ DOMAIN p = 1 .. Len(p) /\ DOMAIN q = 1 .. Len(q)
  OBVIOUS
<1>2. IsStrictPrefix(p, q) <=> GoesOn(p, q)
  <2>1. ASSUME Len(p) <= Len(q)
        PROVE  SubSeq(p, 1, Len(p)) = SubSeq(q, 1, Len(p)) <=> SameUpTo(p, q, Len(p))
    <3>1. SubSeq(p, 1, Len(p)) = [j \in 1 .. Len(p) |-> p[j]]
      BY <1>1
    <3>2. SubSeq(q, 1, Len(p)) = [j \in 1 .. Len(p) |-> q[j]]
      BY <1>1, <2>1
    <3>. QED  BY <3>1, <3>2 DEF SameUpTo
  <2>2. ASSUME Len(p) = Len(q), SameUpTo(p, q, Len(p))
        PROVE  p = q
    BY <1>1, <2>2 DEF SameUpTo
  <2>3. p = q => ~(Len(p) < Len(q))
    BY <1>1
  <2>4. IsPrefix(p, q) <=> Len(p) <= Len(q) /\ SameUpTo(p, q, Len(p))
    BY <2>1 DEF IsPrefix
  <2>5. CASE Len(p) < Len(q)
    <3>1. Len(p) <= Len(q)
      BY <1>1, <2>5
    <3>. QED  BY <2>3, <2>4, <2>5, <3>1 DEF IsStrictPrefix, GoesOn
  <2>6. CASE ~(Len(p) < Len(q))
    <3>1. ~IsStrictPrefix(p, q)
      <4>1. Len(p) <= Len(q) => Len(p) = Len(q)
        BY <1>0, <2>6
      <4>. QED  BY <2>2, <2>4, <4>1 DEF IsStrictPrefix
    <3>. QED  BY <2>6, <3>1 DEF GoesOn
  <2>. QED  BY <2>5, <2>6
<1>3. \A i : i \in DOMAIN p \cap DOMAIN q <=> i \in Nat \ {0} /\ i <= Len(p) /\ i <= Len(q)
  BY <1>1
<1>. QED  BY <1>2, <1>3 DEF PreOrder, TurnsOff, SameUpTo

(* The first place where two ways differ.                                  *)
LEMMA FirstFork ==
    ASSUME NEW p \in Seq(Nat), NEW q \in Seq(Nat), p # q
    PROVE  PreOrder(p, q) \/ PreOrder(q, p)
<1>0. Len(p) \in Nat /\ Len(q) \in Nat
  OBVIOUS
<1>1. Len(p) \in Nat /\ Len(q) \in Nat /\ DOMAIN p = 1 .. Len(p) /\ DOMAIN q = 1 .. Len(q)
      /\ (\A i \in 1 .. Len(p) : p[i] \in Nat) /\ (\A i \in 1 .. Len(q) : q[i] \in Nat)
  OBVIOUS
<1>. DEFINE Forks == {i \in Nat \ {0} : i <= Len(p) /\ i <= Len(q) /\ p[i] # q[i]}
<1>2. CASE Forks = {}
  <2>1. \A i \in Nat \ {0} : i <= Len(p) /\ i <= Len(q) => p[i] = q[i]
    BY <1>2
  <2>2. CASE Len(p) < Len(q)
    BY <1>1, <2>1, <2>2, PreOrderIs DEF GoesOn, SameUpTo
  <2>3. CASE Len(q) < Len(p)
    <3>1. GoesOn(q, p)
      BY <1>1, <2>1, <2>3 DEF GoesOn, SameUpTo
    <3>. QED  BY <3>1, PreOrderIs
  <2>4. CASE Len(p) = Len(q)
    <3>1. p = q
      BY <1>1, <2>1, <2>4
    <3>. QED  BY <3>1
  <2>5. Len(p) < Len(q) \/ Len(q) < Len(p) \/ Len(p) = Len(q)
    BY <1>0
  <2>. QED  BY <2>2, <2>3, <2>4, <2>5
<1>3. CASE Forks # {}
  <2>1. PICK i \in Forks : \A j \in Forks : i <= j
    BY <1>3, LeastNumber
  <2>. HIDE DEF Forks
  <2>2. i \in Nat \ {0} /\ i <= Len(p) /\ i <= Len(q) /\ p[i] # q[i]
    BY <2>1 DEF Forks
  <2>3. ASSUME NEW j \in 1 .. i - 1
        PROVE  p[j] = q[j]
    BY <1>1, <2>1, <2>2, <2>3 DEF Forks
  <2>4. SameUpTo(p, q, i - 1) /\ SameUpTo(q, p, i - 1)
    BY <2>3 DEF SameUpTo
  <2>5. p[i] < q[i] \/ q[i] < p[i]
    BY <1>1, <2>2
  <2>6. TurnsOff(p, q, i) \/ TurnsOff(q, p, i)
    BY <2>2, <2>4, <2>5 DEF TurnsOff
  <2>. QED  BY <2>2, <2>6, PreOrderIs
<1>. QED  BY <1>2, <1>3

(* Two ways before and behind one way p: where p goes on or turns off.     *)
LEMMA NotBothWays ==
    ASSUME NEW p \in Seq(Nat), NEW q \in Seq(Nat), PreOrder(p, q)
    PROVE  ~PreOrder(q, p)
<1>1. Len(p) \in Nat /\ Len(q) \in Nat
      /\ (\A i \in 1 .. Len(p) : p[i] \in Nat) /\ (\A i \in 1 .. Len(q) : q[i] \in Nat)
  OBVIOUS
<1>2. ASSUME GoesOn(p, q), GoesOn(q, p)
      PROVE  FALSE
  BY <1>1, <1>2 DEF GoesOn
<1>3. ASSUME NEW i \in Nat \ {0}, GoesOn(p, q), TurnsOff(q, p, i)
      PROVE  FALSE
  BY <1>1, <1>3 DEF GoesOn, TurnsOff, SameUpTo
<1>4. ASSUME NEW i \in Nat \ {0}, GoesOn(q, p), TurnsOff(p, q, i)
      PROVE  FALSE
  BY <1>1, <1>4 DEF GoesOn, TurnsOff, SameUpTo
<1>5. ASSUME NEW i \in Nat \ {0}, NEW j \in Nat \ {0}, TurnsOff(p, q, i), TurnsOff(q, p, j)
      PROVE  FALSE
  BY <1>1, <1>5 DEF TurnsOff, SameUpTo
<1>. QED  BY <1>2, <1>3, <1>4, <1>5, PreOrderIs

LEMMA PreOrderChains ==
    ASSUME NEW p \in Seq(Nat), NEW q \in Seq(Nat), NEW r \in Seq(Nat),
           PreOrder(p, q), PreOrder(q, r)
    PROVE  PreOrder(p, r)
<1>1. Len(p) \in Nat /\ Len(q) \in Nat /\ Len(r) \in Nat
      /\ (\A i \in 1 .. Len(p) : p[i] \in Nat) /\ (\A i \in 1 .. Len(q) : q[i] \in Nat)
      /\ (\A i \in 1 .. Len(r) : r[i] \in Nat)
  OBVIOUS
<1>2. ASSUME GoesOn(p, q), GoesOn(q, r)
      PROVE  GoesOn(p, r)
  BY <1>1, <1>2 DEF GoesOn, SameUpTo
<1>3. ASSUME NEW i \in Nat \ {0}, GoesOn(p, q), TurnsOff(q, r, i)
      PROVE  GoesOn(p, r) \/ TurnsOff(p, r, i)
  <2>1. CASE i <= Len(p)
    <3>1. p[i] = q[i] /\ p[i] < r[i] /\ i <= Len(r)
      BY <1>1, <1>3, <2>1 DEF GoesOn, TurnsOff, SameUpTo
    <3>2. SameUpTo(p, r, i - 1)
      BY <1>1, <1>3, <2>1 DEF GoesOn, TurnsOff, SameUpTo
    <3>. QED  BY <2>1, <3>1, <3>2 DEF TurnsOff
  <2>2. CASE Len(p) < i
    BY <1>1, <1>3, <2>2 DEF GoesOn, TurnsOff, SameUpTo
  <2>. QED  BY <1>1, <2>1, <2>2
<1>4. ASSUME NEW i \in Nat \ {0}, TurnsOff(p, q, i), GoesOn(q, r)
      PROVE  TurnsOff(p, r, i)
  BY <1>1, <1>4 DEF GoesOn, TurnsOff, SameUpTo
<1>5. ASSUME NEW i \in Nat \ {0}, NEW j \in Nat \ {0}, TurnsOff(p, q, i), TurnsOff(q, r, j)
      PROVE  TurnsOff(p, r, i) \/ TurnsOff(p, r, j)
  <2>1. /\ i <= Len(p) /\ i <= Len(q) /\ p[i] < q[i] /\ SameUpTo(p, q, i - 1)
        /\ j <= Len(q) /\ j <= Len(r) /\ q[j] < r[j] /\ SameUpTo(q, r, j - 1)
    BY <1>5 DEF TurnsOff
  <2>2. CASE i = j
    <3>1. p[i] < r[i]
      BY <1>1, <2>1, <2>2
    <3>2. SameUpTo(p, r, i - 1)
      BY <2>1, <2>2 DEF SameUpTo
    <3>. QED  BY <2>1, <2>2, <3>1, <3>2 DEF TurnsOff
  <2>3. CASE i < j
    <3>1. q[i] = r[i]
      BY <2>1, <2>3 DEF SameUpTo
    <3>2. SameUpTo(p, r, i - 1)
      BY <1>1, <2>1, <2>3 DEF SameUpTo
    <3>3. i <= Len(r)
      BY <1>1, <2>1, <2>3
    <3>. QED  BY <2>1, <3>1, <3>2, <3>3 DEF TurnsOff
  <2>4. CASE j < i
    <3>1. p[j] = q[j]
      BY <2>1, <2>4 DEF SameUpTo
    <3>2. SameUpTo(p, r, j - 1)
      BY <1>1, <2>1, <2>4 DEF SameUpTo
    <3>3. j <= Len(p)
      BY <1>1, <2>1, <2>4
    <3>. QED  BY <2>1, <3>1, <3>2, <3>3 DEF TurnsOff
  <2>. QED  BY <2>2, <2>3, <2>4
<1>. QED  BY <1>2, <1>3, <1>4, <1>5, PreOrderIs

(* Between a way and one that goes one step further there are only ways    *)
(* that go on from it.                                                     *)
LEMMA BetweenGoesOn ==
    ASSUME NEW p \in Seq(Nat), NEW q \in Seq(Nat), NEW s \in Nat,
           PreOrder(p, q), ~PreOrder(Append(p, s), q)
    PROVE  Len(p) < Len(q)
<1>1. Len(p) \in Nat /\ Len(q) \in Nat
      /\ (\A i \in 1 .. Len(p) : p[i] \in Nat) /\ (\A i \in 1 .. Len(q) : q[i] \in Nat)
  OBVIOUS
<1>2. PICK r : r = Append(p, s)
  OBVIOUS
<1>3. r \in Seq(Nat)
  BY <1>2
<1>4. Len(r) = Len(p) + 1 /\ \A i \in 1 .. Len(p) : r[i] = p[i]
  BY <1>2
<1>5. ASSUME NEW i \in Nat \ {0}, TurnsOff(p, q, i)
      PROVE  FALSE
  <2>1. TurnsOff(r, q, i)
    BY <1>1, <1>4, <1>5 DEF TurnsOff, SameUpTo
  <2>. QED  BY <1>2, <1>3, <2>1, PreOrderIs
<1>. QED  BY <1>5, PreOrderIs DEF GoesOn

-----------------------------------------------------------------------------
(***************************************************************************)
(* The rows.                                                               *)
(***************************************************************************)

StrictOrder(R, set) ==
    /\ \A s, t \in set : <<s, t>> \in R => <<t, s>> \notin R
    /\ \A s, t, u \in set : <<s, t>> \in R /\ <<t, u>> \in R => <<s, u>> \in R
    /\ \A s, t \in set : s # t => <<s, t>> \in R \/ <<t, s>> \in R

Ahead(R, set, s) == {t \in set : <<t, s>> \in R}
Rank(R, set, s) == Cardinality(Ahead(R, set, s))

(* Along a strict order the members of a finite set have the ranks 0, 1,   *)
(* and so on, one each.                                                    *)
LEMMA RanksFill ==
    ASSUME NEW set, IsFiniteSet(set), NEW R, StrictOrder(R, set),
           NEW n, n = Cardinality(set)
    PROVE  /\ n \in Nat
           /\ \A s \in set : Rank(R, set, s) \in 0 .. n - 1
           /\ \A s, t \in set : <<s, t>> \in R => Rank(R, set, s) < Rank(R, set, t)
           /\ \A i \in 1 .. n : \E s \in set : Rank(R, set, s) = i - 1
<1>1. n \in Nat
  BY FS_CardinalityType
<1>2. ASSUME NEW s \in set
      PROVE  IsFiniteSet(Ahead(R, set, s)) /\ Rank(R, set, s) \in 0 .. n - 1
  <2>1. PICK rest : rest = set \ {s}
    OBVIOUS
  <2>2. IsFiniteSet(rest) /\ Cardinality(rest) = n - 1
    BY <2>1, FS_RemoveElement
  <2>3. Ahead(R, set, s) \in SUBSET rest
    BY <2>1 DEF Ahead, StrictOrder
  <2>4. IsFiniteSet(Ahead(R, set, s)) /\ Cardinality(Ahead(R, set, s)) <= n - 1
    BY <2>2, <2>3, FS_Subset
  <2>5. Cardinality(Ahead(R, set, s)) \in Nat
    BY <2>4, FS_CardinalityType
  <2>. QED  BY <1>1, <2>4, <2>5 DEF Rank
<1>3. ASSUME NEW s \in set, NEW t \in set, <<s, t>> \in R
      PROVE  Rank(R, set, s) < Rank(R, set, t)
  <2>1. Ahead(R, set, s) \in SUBSET Ahead(R, set, t)
    BY <1>3 DEF Ahead, StrictOrder
  <2>2. s \in Ahead(R, set, t) /\ s \notin Ahead(R, set, s)
    BY <1>3 DEF Ahead, StrictOrder
  <2>3. /\ Cardinality(Ahead(R, set, s)) <= Cardinality(Ahead(R, set, t))
        /\ Cardinality(Ahead(R, set, t)) # Cardinality(Ahead(R, set, s))
    BY <1>2, <2>1, <2>2, FS_Subset
  <2>. QED  BY <1>2, <2>3 DEF Rank
<1>4. \A i \in 1 .. n : \E s \in set : Rank(R, set, s) = i - 1
  <2>. DEFINE rank == [s \in set |-> Rank(R, set, s)]
  <2>1. rank \in [set -> 0 .. n - 1]
    BY <1>2
  <2>2. ASSUME NEW s \in set, NEW t \in set, s # t
        PROVE  rank[s] # rank[t]
    <3>1. Rank(R, set, s) \in Int /\ Rank(R, set, t) \in Int
      BY <1>2
    <3>2. Rank(R, set, s) < Rank(R, set, t) \/ Rank(R, set, t) < Rank(R, set, s)
      BY <1>3, <2>2 DEF StrictOrder
    <3>. QED  BY <3>1, <3>2
  <2>3. rank \in Injection(set, 0 .. n - 1)
    BY <2>1, <2>2 DEF Injection, IsInjective
  <2>4. IsFiniteSet(0 .. n - 1) /\ Cardinality(0 .. n - 1) = n
    <3>1. PICK b \in Int : b = n - 1
      BY <1>1
    <3>2. IsFiniteSet(0 .. b) /\ Cardinality(0 .. b) = IF 0 > b THEN 0 ELSE b - 0 + 1
      BY FS_Interval
    <3>3. (IF 0 > b THEN 0 ELSE b - 0 + 1) = n
      BY <1>1, <3>1
    <3>. QED  BY <3>1, <3>2, <3>3
  <2>5. rank \in Surjection(set, 0 .. n - 1)
    BY <2>3, <2>4, FS_Injection
  <2>6. \A k \in 0 .. n - 1 : \E s \in set : rank[s] = k
    BY <2>5 DEF Surjection
  <2>. QED  BY <1>1, <2>6
<1>. QED  BY <1>1, <1>2, <1>3, <1>4

(* Sorted, for the ways down.                                              *)
WaysEnd(listed, path) == \A s \in listed : path[s] \in Seq(Nat) /\ path[s][Len(path[s])] = s
SortedBy(listed, path, n, ids) ==
    /\ n = Cardinality(listed)
    /\ ids = [i \in 1 .. n |-> CHOOSE s \in listed :
                 Cardinality({t \in listed : PreOrder(path[t], path[s])}) = i - 1]
InOrder(listed, path, n, ids) ==
    /\ n \in Nat /\ DOMAIN ids = 1 .. n
    /\ \A i \in 1 .. n : ids[i] \in listed
    /\ \A s \in listed : \E i \in 1 .. n : ids[i] = s
    /\ \A i, j \in 1 .. n : i < j <=> PreOrder(path[ids[i]], path[ids[j]])

LEMMA SortedFits ==
    ASSUME NEW listed, IsFiniteSet(listed), NEW path, WaysEnd(listed, path),
           NEW n, NEW ids, SortedBy(listed, path, n, ids)
    PROVE  InOrder(listed, path, n, ids)
<1>0. /\ \A s \in listed : path[s] \in Seq(Nat) /\ path[s][Len(path[s])] = s
      /\ n = Cardinality(listed)
      /\ ids = [i \in 1 .. n |-> CHOOSE s \in listed :
                   Cardinality({t \in listed : PreOrder(path[t], path[s])}) = i - 1]
  BY DEF WaysEnd, SortedBy
<1>1. PICK R : R = {w \in listed \X listed : PreOrder(path[w[1]], path[w[2]])}
  OBVIOUS
<1>2. \A s, t \in listed : <<s, t>> \in R <=> PreOrder(path[s], path[t])
  BY <1>1
<1>3. StrictOrder(R, listed)
  <2>1. \A s, t \in listed : s # t => path[s] # path[t]
    BY <1>0
  <2>. QED  BY <1>0, <1>2, <2>1, FirstFork, NotBothWays, PreOrderChains DEF StrictOrder
<1>. DEFINE rank(s) == Rank(R, listed, s)
<1>4. /\ n \in Nat
      /\ \A s \in listed : rank(s) \in 0 .. n - 1
      /\ \A s, t \in listed : <<s, t>> \in R => rank(s) < rank(t)
      /\ \A i \in 1 .. n : \E s \in listed : rank(s) = i - 1
  <2>. HIDE DEF rank
  <2>1. /\ n \in Nat
        /\ \A s \in listed : Rank(R, listed, s) \in 0 .. n - 1
        /\ \A s, t \in listed : <<s, t>> \in R => Rank(R, listed, s) < Rank(R, listed, t)
        /\ \A i \in 1 .. n : \E s \in listed : Rank(R, listed, s) = i - 1
    BY <1>0, <1>3, RanksFill
  <2>. QED  BY <2>1 DEF rank
<1>5. \A s \in listed : Cardinality({t \in listed : PreOrder(path[t], path[s])}) = rank(s)
  <2>1. \A s \in listed :
            {t \in listed : PreOrder(path[t], path[s])} = Ahead(R, listed, s)
    BY <1>2 DEF Ahead
  <2>. QED  BY <2>1 DEF Rank
<1>7. DOMAIN ids = 1 .. n
  BY <1>0
<1>. HIDE DEF rank
<1>8. ASSUME NEW i \in 1 .. n
      PROVE  ids[i] \in listed /\ rank(ids[i]) = i - 1
  <2>. DEFINE Is(s) == Cardinality({t \in listed : PreOrder(path[t], path[s])}) = i - 1
  <2>1. ids[i] = CHOOSE s \in listed : Is(s)
    BY <1>0
  <2>2. \E s \in listed : Is(s)
    BY <1>4, <1>5
  <2>3. \A s \in listed : Is(s) => rank(s) = i - 1
    BY <1>5
  <2>. HIDE DEF Is
  <2>. QED  BY <2>1, <2>2, <2>3
<1>r. \A s \in listed : rank(s) \in Int
  <2>1. \A k : k \in 0 .. n - 1 => k \in Int
    BY <1>4
  <2>. QED  BY <1>4, <2>1
<1>9. ASSUME NEW s \in listed, NEW t \in listed
      PROVE  /\ rank(s) = rank(t) => s = t
             /\ rank(s) < rank(t) <=> <<s, t>> \in R
  <2>1. rank(s) \in Int /\ rank(t) \in Int
    BY <1>r
  <2>2. <<s, t>> \in R => rank(s) < rank(t)
    BY <1>4
  <2>3. <<t, s>> \in R => rank(t) < rank(s)
    BY <1>4
  <2>4. s # t => <<s, t>> \in R \/ <<t, s>> \in R
    BY <1>3 DEF StrictOrder
  <2>. QED  BY <2>1, <2>2, <2>3, <2>4
<1>10. ASSUME NEW s \in listed
       PROVE  \E i \in 1 .. n : ids[i] = s
  <2>1. PICK k \in 0 .. n - 1 : k = rank(s)
    BY <1>4
  <2>2. PICK i \in 1 .. n : k = i - 1
    BY <1>4
  <2>3. rank(ids[i]) = rank(s) /\ ids[i] \in listed
    BY <1>8, <2>1, <2>2
  <2>. QED  BY <1>9, <2>3
<1>11. ASSUME NEW i \in 1 .. n, NEW j \in 1 .. n
       PROVE  i < j <=> PreOrder(path[ids[i]], path[ids[j]])
  <2>1. /\ ids[i] \in listed /\ rank(ids[i]) = i - 1
        /\ ids[j] \in listed /\ rank(ids[j]) = j - 1
    BY <1>8
  <2>2. i < j <=> rank(ids[i]) < rank(ids[j])
    <3>1. PICK a, b : a = rank(ids[i]) /\ b = rank(ids[j])
      OBVIOUS
    <3>2. a = i - 1 /\ b = j - 1
      BY <2>1, <3>1
    <3>. QED  BY <1>4, <3>1, <3>2
  <2>. QED  BY <1>2, <1>9, <2>1, <2>2
<1>. QED  BY <1>4, <1>7, <1>8, <1>10, <1>11 DEF InOrder

(* Every Session that passes the filter has one row; the rows are in the   *)
(* order of the ways down.                                                 *)
Listing(snap, filter, listed, path, rows, n) ==
    /\ n = Cardinality(listed) /\ n \in Nat
    /\ DOMAIN rows = 1 .. n /\ rows = [i \in 1 .. n |-> rows[i]]
    /\ \A i \in 1 .. n : rows[i].id \in listed /\ rows[i].depth = Len(path[rows[i].id]) - 1
    /\ \A s \in listed : \E i \in 1 .. n : rows[i].id = s
    /\ \A i, j \in 1 .. n : i < j <=> PreOrder(path[rows[i].id], path[rows[j].id])

Known(snap, filter) ==
    LET listed == FilterSessions(snap, filter)
    IN  /\ listed \in SUBSET Nat /\ IsFiniteSet(listed)
        /\ ParentsFirst(snap.sessions, listed)

LEMMA RowsFit ==
    ASSUME NEW snap, NEW filter, Known(snap, filter)
    PROVE  LET listed == FilterSessions(snap, filter)
               path == PathsIn(snap.sessions, listed)
           IN  Listing(snap, filter, listed, path, Rows(snap, filter), Cardinality(listed))
<1>. DEFINE listed == FilterSessions(snap, filter)
            path == PathsIn(snap.sessions, listed)
            ids == Sorted(listed, LAMBDA s, t : PreOrder(path[s], path[t]))
            rows == Rows(snap, filter)
            n == Cardinality(listed)
<1>1. listed \in SUBSET Nat /\ IsFiniteSet(listed) /\ ParentsFirst(snap.sessions, listed)
  BY DEF Known
<1>2. rows = [i \in DOMAIN ids |-> [id |-> ids[i], depth |-> Len(path[ids[i]]) - 1]]
  BY DEF Rows
<1>. HIDE DEF listed
<1>3. WaysEnd(listed, path)
  BY <1>1, WayEnds DEF WaysEnd
<1>. HIDE DEF path
<1>4. InOrder(listed, path, n, ids)
  <2>1. SortedBy(listed, path, n, ids)
    BY DEF SortedBy, Sorted
  <2>. HIDE DEF ids, n
  <2>. QED  BY <1>1, <1>3, <2>1, SortedFits
<1>. HIDE DEF ids, rows
<1>5. /\ DOMAIN rows = 1 .. n /\ rows = [i \in 1 .. n |-> rows[i]]
      /\ \A i \in 1 .. n : rows[i].id = ids[i] /\ rows[i].depth = Len(path[ids[i]]) - 1
  BY <1>2, <1>4 DEF InOrder
<1>6. Listing(snap, filter, listed, path, rows, n)
  BY <1>4, <1>5 DEF Listing, InOrder
<1>. QED  BY <1>6 DEF listed, path, rows

(* The tree of the pane, for a view w of known Sessions.                   *)
KnownTo(w) == Known(w.snapshot, w.filter)
ListedIn(w) == FilterSessions(w.snapshot, w.filter)
WaysIn(w) == PathsIn(w.snapshot.sessions, ListedIn(w))

LEMMA RowsOf ==
    ASSUME NEW w, KnownTo(w), NEW n, n = Cardinality(ListedIn(w)),
           NEW rows, rows = VisibleRows(w)
    PROVE  /\ n \in Nat /\ DOMAIN rows = 1 .. n /\ Len(rows) = n
           /\ \A i \in 1 .. n : /\ rows[i].id \in ListedIn(w)
                                /\ rows[i].depth = Len(WaysIn(w)[rows[i].id]) - 1
           /\ \A s \in ListedIn(w) : \E i \in 1 .. n : rows[i].id = s
           /\ \A i, j \in 1 .. n :
                  i < j <=> PreOrder(WaysIn(w)[rows[i].id], WaysIn(w)[rows[j].id])
           /\ RowIds(w) = ListedIn(w)
           /\ rows = <<>> <=> n = 0
<1>1. Listing(w.snapshot, w.filter, ListedIn(w), WaysIn(w), rows, n)
  BY RowsFit DEF KnownTo, ListedIn, WaysIn, VisibleRows
<1>2. /\ n \in Nat /\ DOMAIN rows = 1 .. n /\ rows = [i \in 1 .. n |-> rows[i]]
      /\ \A i \in 1 .. n : /\ rows[i].id \in ListedIn(w)
                           /\ rows[i].depth = Len(WaysIn(w)[rows[i].id]) - 1
      /\ \A s \in ListedIn(w) : \E i \in 1 .. n : rows[i].id = s
      /\ \A i, j \in 1 .. n :
             i < j <=> PreOrder(WaysIn(w)[rows[i].id], WaysIn(w)[rows[j].id])
  BY <1>1 DEF Listing
<1>3. Len(rows) = n
  BY <1>2
<1>4. RowIds(w) = ListedIn(w)
  <2>1. \A s : s \in RowIds(w) <=> \E i \in 1 .. n : rows[i].id = s
    BY <1>2 DEF RowIds, Range
  <2>. QED  BY <1>2, <2>1
<1>5. rows = <<>> <=> n = 0
  <2>1. rows = <<>> => n = 0
    BY <1>3
  <2>2. n = 0 => rows = <<>>
    BY <1>2
  <2>. QED  BY <2>1, <2>2
<1>. QED  BY <1>2, <1>3, <1>4, <1>5

(* The tree as TreeShowsEverySession states it.                            *)
LEMMA TreeShown ==
    ASSUME KnownTo(v)
    PROVE  TreeShowsEverySession
<1>1. PICK n, path, listed :
          n = Cardinality(listed) /\ path = WaysIn(v) /\ listed = ListedIn(v)
  OBVIOUS
<1>. DEFINE rows == VisibleRows(v)
            at(s) == CHOOSE i \in DOMAIN rows : rows[i].id = s
            parent(s) == v.snapshot.sessions[s].parent
            Under(p, i) == /\ at(p) < i /\ rows[i].depth = rows[at(p)].depth + 1
                           /\ \A j \in at(p) + 1 .. i : rows[j].depth > rows[at(p)].depth
<1>2. /\ n \in Nat /\ DOMAIN rows = 1 .. n /\ Len(rows) = n
      /\ \A i \in 1 .. n : rows[i].id \in listed /\ rows[i].depth = Len(path[rows[i].id]) - 1
      /\ \A s \in listed : \E i \in 1 .. n : rows[i].id = s
      /\ \A i, j \in 1 .. n : i < j <=> PreOrder(path[rows[i].id], path[rows[j].id])
      /\ RowIds(v) = listed
  BY <1>1, RowsOf
<1>. HIDE DEF rows
<1>3. \A s \in listed : /\ path[s] \in Seq(Nat) /\ Len(path[s]) \in Nat \ {0}
                        /\ path[s] = StepDown(v.snapshot.sessions, listed, path, s)
                        /\ s \in Nat
  BY <1>1, WayEnds DEF KnownTo, Known, WaysIn, ListedIn
<1>4. ASSUME NEW s \in listed
      PROVE  at(s) \in 1 .. n /\ rows[at(s)].id = s
  BY <1>2
<1>. HIDE DEF at
<1>5. ASSUME NEW i \in 1 .. n
      PROVE  /\ parent(rows[i].id) \notin listed => rows[i].depth = 0
             /\ \A p \in listed : p = parent(rows[i].id) => Under(p, i)
  <2>1. PICK s \in listed : s = rows[i].id
    BY <1>2
  <2>2. CASE parent(s) \notin listed
    <3>1. PICK u : u = path[s]
      OBVIOUS
    <3>2. u = <<s>>
      BY <1>3, <2>2, <3>1 DEF StepDown
    <3>3. rows[i].depth = 0
      <4>1. rows[i].depth = Len(u) - 1
        BY <1>2, <2>1, <3>1
      <4>2. Len(u) = 1
        BY <3>2
      <4>. QED  BY <4>1, <4>2
    <3>4. \A p \in listed : p # parent(rows[i].id)
      BY <2>1, <2>2
    <3>. HIDE DEF parent, Under
    <3>. QED  BY <3>3, <3>4
  <2>3. CASE parent(s) \in listed
    <3>1. PICK p \in listed : p = parent(s)
      BY <2>3
    <3>2. PICK w, u : w = path[p] /\ u = path[s]
      OBVIOUS
    <3>3. u = Append(w, s) /\ w \in Seq(Nat) /\ u \in Seq(Nat) /\ s \in Nat /\ p \in Nat
      BY <1>3, <2>1, <3>1, <3>2 DEF StepDown
    <3>4. PICK k \in 1 .. n : k = at(p) /\ rows[k].id = p
      BY <1>4
    <3>5. Len(u) = Len(w) + 1 /\ Len(w) \in Nat
      BY <3>3
    <3>6. PreOrder(w, u)
      <4>1. \A j \in 1 .. Len(w) : u[j] = w[j]
        BY <3>3
      <4>2. GoesOn(w, u)
        BY <3>5, <4>1 DEF GoesOn, SameUpTo
      <4>. QED  BY <3>3, <4>2, PreOrderIs
    <3>7. k < i
      BY <1>2, <2>1, <3>2, <3>4, <3>6
    <3>8. rows[i].depth = Len(u) - 1 /\ rows[k].depth = Len(w) - 1
      BY <1>2, <2>1, <3>2, <3>4
    <3>9. rows[i].depth = rows[k].depth + 1
      BY <3>5, <3>8
    <3>10. ASSUME NEW j \in k + 1 .. i
           PROVE  rows[j].depth > rows[k].depth
      <4>1. CASE j = i
        BY <3>5, <3>8, <4>1
      <4>2. CASE j # i
        <5>1. j \in 1 .. n /\ k < j /\ j < i
          BY <1>2, <4>2
        <5>2. PICK q : q = path[rows[j].id]
          OBVIOUS
        <5>3. q \in Seq(Nat) /\ rows[j].depth = Len(q) - 1 /\ Len(q) \in Nat
          BY <1>2, <1>3, <5>1, <5>2
        <5>4. PreOrder(w, q) /\ PreOrder(q, u)
          BY <1>2, <2>1, <3>2, <3>4, <5>1, <5>2
        <5>5. ~PreOrder(Append(w, s), q)
          BY <3>3, <5>3, <5>4, NotBothWays
        <5>6. Len(w) < Len(q)
          BY <3>3, <5>3, <5>4, <5>5, BetweenGoesOn
        <5>. QED  BY <3>5, <3>8, <5>3, <5>6
      <4>. QED  BY <4>1, <4>2
    <3>11. Under(p, i)
      BY <3>4, <3>7, <3>9, <3>10
    <3>12. p = parent(rows[i].id)
      BY <2>1, <3>1
    <3>. HIDE DEF parent, Under
    <3>. QED  BY <3>11, <3>12
  <2>. QED  BY <2>1, <2>2, <2>3
<1>6. Len(rows) = Cardinality(ListedIn(v)) /\ RowIds(v) = ListedIn(v)
  BY <1>1, <1>2
<1>7. ASSUME NEW i \in DOMAIN rows
      PROVE  IF parent(rows[i].id) \notin RowIds(v) THEN rows[i].depth = 0
             ELSE Under(parent(rows[i].id), i)
  <2>. HIDE DEF parent, Under
  <2>. QED  BY <1>2, <1>5
<1>. QED  BY <1>6, <1>7 DEF TreeShowsEverySession, at, rows, ListedIn

(* The cursor.                                                             *)
OnARow(w) ==
    IF VisibleRows(w) = <<>> THEN w.selected = Null ELSE w.selected \in RowIds(w)

LEMMA CursorFits ==
    ASSUME NEW w, KnownTo(w)
    PROVE  /\ \A s : w.selected = Reselected(VisibleRows(w), s) => OnARow(w)
           /\ OnARow(w) => w.selected \in ListedIn(w) \cup {Null}
<1>1. PICK rows, n : rows = VisibleRows(w) /\ n = Cardinality(ListedIn(w))
  OBVIOUS
<1>2. /\ n \in Nat /\ DOMAIN rows = 1 .. n
      /\ \A i \in 1 .. n : rows[i].id \in ListedIn(w)
      /\ RowIds(w) = ListedIn(w)
      /\ rows = <<>> <=> n = 0
  BY <1>1, RowsOf
<1>3. ASSUME NEW s, w.selected = Reselected(rows, s)
      PROVE  OnARow(w)
  <2>1. w.selected = IF s \in RowIds(w) THEN s
                     ELSE IF rows = <<>> THEN Null ELSE rows[1].id
    BY <1>1, <1>3 DEF Reselected, RowIds
  <2>2. CASE rows = <<>>
    <3>1. RowIds(w) = {}
      BY <1>1, <1>2, <2>2 DEF RowIds, Range
    <3>. QED  BY <1>1, <2>1, <2>2, <3>1 DEF OnARow
  <2>3. CASE rows # <<>>
    <3>1. 1 \in 1 .. n
      BY <1>2, <2>3
    <3>2. rows[1].id \in RowIds(w)
      BY <1>2, <3>1
    <3>. QED  BY <1>1, <2>1, <2>3, <3>2 DEF OnARow
  <2>. QED  BY <2>2, <2>3
<1>4. OnARow(w) => w.selected \in ListedIn(w) \cup {Null}
  BY <1>2 DEF OnARow
<1>. QED  BY <1>1, <1>3, <1>4

-----------------------------------------------------------------------------
(***************************************************************************)
(* The view: what every action of the reducer keeps.                       *)
(***************************************************************************)
FiniteTables == IsFiniteSet(Session) /\ IsFiniteSet(Message)

(* A row has the parent it was created with, or has lost it.               *)
GoodTables(t) ==
    t \in Tables /\ \A s \in Session : t.sessions[s].parent \in {Null, Parent[s]}

NoOpenBadge(w) == w.tab = "messages" /\ w.selected # Null => BadgeFor(w, w.selected) = {}

IsSeq(l) == \E set : l \in Seq(set)
ShortStrip(l) == IsSeq(l) /\ Len(l) <= ActivityCap

ViewFits(w) ==
    /\ WholeView(w) /\ GoodTables(w.snapshot)
    /\ w.filter \in Range(CockpitFilters) /\ w.tab \in Range(Tabs)
    /\ w.baseline \subseteq Message /\ w.expanded \subseteq Message
    /\ OnARow(w) /\ NoOpenBadge(w) /\ ShortStrip(w.activity)
    /\ w.modal.target \in Session \cup {Null} /\ w.modal.draft \in Nat

LEMMA TablesKnown ==
    ASSUME FiniteTables, NEW t, GoodTables(t), NEW f
    PROVE  Known(t, f) /\ FilterSessions(t, f) \subseteq Session
<1>1. PICK listed : listed = FilterSessions(t, f)
  OBVIOUS
<1>2. listed \subseteq Session /\ listed \in SUBSET Session
  BY <1>1 DEF FilterSessions, Sessions
<1>3. IsFiniteSet(listed)
  BY <1>2, FS_Subset DEF FiniteTables
<1>4. listed \in SUBSET Nat
  BY <1>2, CockpitAssumption
<1>5. ASSUME NEW s \in listed, t.sessions[s].parent \in listed
      PROVE  t.sessions[s].parent < s
  <2>1. PICK p : p = t.sessions[s].parent
    OBVIOUS
  <2>2. p \in Nat /\ p \in {Null, Parent[s]} /\ s \in Session
    BY <1>2, <1>4, <1>5, <2>1 DEF GoodTables
  <2>3. p = Parent[s] /\ p # Null
    BY <2>2, CockpitAssumption
  <2>. QED  BY <2>1, <2>2, <2>3, LoopAssumption
<1>. QED  BY <1>1, <1>2, <1>3, <1>4, <1>5 DEF Known, ParentsFirst

(* What every view below has in common.                                    *)
LEMMA RowsKnown ==
    ASSUME FiniteTables, NEW w, GoodTables(w.snapshot)
    PROVE  /\ KnownTo(w)
           /\ OnARow(w) => w.selected \in Session \cup {Null}
           /\ \A s : w.selected = Reselected(VisibleRows(w), s) => OnARow(w)
<1>1. Known(w.snapshot, w.filter) /\ FilterSessions(w.snapshot, w.filter) \subseteq Session
  BY TablesKnown
<1>. QED  BY <1>1, CursorFits DEF KnownTo, ListedIn

LEMMA SameRow ==
    ASSUME NEW w, NEW r, r.snapshot = w.snapshot, r.filter = w.filter, r.selected = w.selected,
           OnARow(w)
    PROVE  OnARow(r)
<1>1. VisibleRows(r) = VisibleRows(w)
  BY DEF VisibleRows
<1>2. RowIds(r) = RowIds(w)
  BY <1>1 DEF RowIds
<1>. QED  BY <1>1, <1>2 DEF OnARow

LEMMA ObserveClears ==
    ASSUME NEW w, NEW r, w.baseline \subseteq Message,
           r.baseline = w.baseline \cup Observed(r.snapshot, r.selected, r.tab)
    PROVE  r.baseline \subseteq Message /\ NoOpenBadge(r)
<1>1. Observed(r.snapshot, r.selected, r.tab) \subseteq Message
  BY DEF Observed, IncomingMessages, Messages
<1>2. ASSUME r.tab = "messages", r.selected # Null
      PROVE  BadgeFor(r, r.selected) = {}
  BY <1>2 DEF BadgeFor, Observed
<1>. QED  BY <1>1, <1>2 DEF NoOpenBadge

LEMMA CycleFits ==
    ASSUME NEW set, NEW list \in Seq(set), Len(list) \in Nat \ {0}, NEW x \in Range(list)
    PROVE  Cycle(list, x) \in Range(list)
<1>1. PICK n \in Nat \ {0} : n = Len(list)
  OBVIOUS
<1>2. DOMAIN list = 1 .. n
  BY <1>1
<1>3. PICK i \in 1 .. n : i = CHOOSE j \in DOMAIN list : list[j] = x
  BY <1>2 DEF Range
<1>4. (i % n) + 1 \in 1 .. n
  BY <1>1
<1>5. Cycle(list, x) = list[(i % n) + 1]
  BY <1>1, <1>3 DEF Cycle
<1>. QED  BY <1>2, <1>4, <1>5 DEF Range

LEMMA ModalChanges ==
    ASSUME FiniteTables, NEW w, ViewFits(w), NEW k, NEW a, NEW s \in Session \cup {Null},
           NEW n \in Nat, NEW r,
           r = [w EXCEPT !.modal = [kind |-> k, action |-> a, target |-> s, draft |-> n]]
    PROVE  ViewFits(r) /\ r.modal.draft = n
<1>1. /\ r.modal = [kind |-> k, action |-> a, target |-> s, draft |-> n]
      /\ r.snapshot = w.snapshot /\ r.filter = w.filter /\ r.selected = w.selected
      /\ r.tab = w.tab /\ r.baseline = w.baseline /\ r.expanded = w.expanded
      /\ r.activity = w.activity
  BY DEF ViewFits, WholeView
<1>2. WholeView(r)
  BY WithModal DEF ViewFits
<1>3. OnARow(r)
  BY <1>1, SameRow DEF ViewFits
<1>4. NoOpenBadge(r)
  BY <1>1 DEF ViewFits, NoOpenBadge, BadgeFor
<1>. QED  BY <1>1, <1>2, <1>3, <1>4 DEF ViewFits

(* A view that differs in what is selected, filtered or shown.             *)
LEMMA Looks ==
    ASSUME FiniteTables, NEW w, ViewFits(w), NEW r, WholeView(r),
           r.snapshot = w.snapshot, r.activity = w.activity, r.modal = w.modal,
           r.filter \in Range(CockpitFilters), r.tab \in Range(Tabs),
           r.expanded \subseteq Message, OnARow(r),
           \/ r.baseline = w.baseline \cup Observed(r.snapshot, r.selected, r.tab)
           \/ r.baseline = w.baseline /\ NoOpenBadge(r)
    PROVE  ViewFits(r)
<1>1. r.baseline \subseteq Message /\ NoOpenBadge(r)
  BY ObserveClears DEF ViewFits
<1>. QED  BY <1>1 DEF ViewFits

LEMMA MovesFit ==
    ASSUME FiniteTables, NEW w, ViewFits(w), NEW d \in Int
    PROVE  ViewFits(MoveSelection(w, d))
<1>1. PICK rows, n : rows = VisibleRows(w) /\ n = Cardinality(ListedIn(w))
  OBVIOUS
<1>2. /\ n \in Nat /\ DOMAIN rows = 1 .. n /\ Len(rows) = n
      /\ \A i \in 1 .. n : rows[i].id \in ListedIn(w)
      /\ RowIds(w) = ListedIn(w)
      /\ rows = <<>> <=> n = 0
  BY <1>1, RowsOf, RowsKnown DEF ViewFits
<1>3. CASE rows = <<>>
  <2>1. PICK r : r = [w EXCEPT !.selected = Null]
    OBVIOUS
  <2>2. /\ WholeView(r) /\ r.snapshot = w.snapshot /\ r.activity = w.activity
        /\ r.modal = w.modal /\ r.filter = w.filter /\ r.tab = w.tab
        /\ r.expanded = w.expanded /\ r.baseline = w.baseline /\ r.selected = Null
    BY <2>1 DEF ViewFits, WholeView
  <2>3. OnARow(r)
    BY <1>1, <1>3, <2>2 DEF OnARow, VisibleRows
  <2>4. NoOpenBadge(r)
    BY <2>2 DEF NoOpenBadge
  <2>5. ViewFits(r)
    BY <2>2, <2>3, <2>4, Looks DEF ViewFits
  <2>. QED  BY <1>1, <1>3, <2>1, <2>5 DEF MoveSelection
<1>4. CASE rows # <<>>
  <2>. DEFINE current == {i \in DOMAIN rows : rows[i].id = w.selected}
              base == IF current = {} THEN 1 ELSE d + CHOOSE i \in current : TRUE
              clamped == IF base < 1 THEN 1 ELSE IF base > Len(rows) THEN Len(rows) ELSE base
  <2>1. base \in Int
    <3>1. \A i \in current : d + i \in Int
      BY <1>2
    <3>. HIDE DEF current
    <3>2. CASE current = {}
      BY <3>2
    <3>3. CASE current # {}
      <4>1. PICK i \in current : i = CHOOSE j \in current : TRUE
        BY <3>3
      <4>2. base = d + i
        BY <3>3, <4>1
      <4>. QED  BY <3>1, <4>2
    <3>. QED  BY <3>2, <3>3
  <2>. HIDE DEF base
  <2>2. clamped \in 1 .. n
    BY <1>2, <1>4, <2>1
  <2>. HIDE DEF clamped
  <2>3. PICK u : u = [w EXCEPT !.selected = rows[clamped].id]
    OBVIOUS
  <2>4. /\ WholeView(u) /\ u.snapshot = w.snapshot /\ u.activity = w.activity
        /\ u.modal = w.modal /\ u.filter = w.filter /\ u.tab = w.tab
        /\ u.expanded = w.expanded /\ u.baseline = w.baseline /\ u.selected = rows[clamped].id
    BY <2>3 DEF ViewFits, WholeView
  <2>5. PICK r : r = ObserveIfViewingMessages(u)
    OBVIOUS
  <2>6. /\ WholeView(r) /\ r.snapshot = w.snapshot /\ r.activity = w.activity
        /\ r.modal = w.modal /\ r.filter = w.filter /\ r.tab = w.tab
        /\ r.expanded = w.expanded /\ r.selected = rows[clamped].id
        /\ r.baseline = w.baseline \cup Observed(r.snapshot, r.selected, r.tab)
    BY <2>4, <2>5 DEF WholeView, ObserveIfViewingMessages
  <2>7. OnARow(r)
    <3>1. rows[clamped].id \in RowIds(w)
      BY <1>2, <2>2
    <3>2. VisibleRows(r) = rows /\ RowIds(r) = RowIds(w)
      BY <1>1, <2>6 DEF VisibleRows, RowIds
    <3>. QED  BY <1>4, <2>6, <3>1, <3>2 DEF OnARow
  <2>8. ViewFits(r)
    BY <2>6, <2>7, Looks DEF ViewFits
  <2>9. MoveSelection(w, d) = r
    BY <1>1, <1>4, <2>3, <2>5 DEF MoveSelection, clamped, base
  <2>. QED  BY <2>8, <2>9
<1>. QED  BY <1>3, <1>4

LEMMA OtherKeysFit ==
    ASSUME FiniteTables, NEW w, ViewFits(w)
    PROVE  ViewFits(SwitchTab(w)) /\ ViewFits(CycleFilter(w)) /\ ViewFits(ToggleExpand(w))
<1>1. ASSUME NEW u, WholeView(u), u.snapshot = w.snapshot, u.activity = w.activity,
             u.modal = w.modal, u.filter = w.filter, u.tab \in Range(Tabs),
             u.expanded = w.expanded, u.baseline = w.baseline, u.selected = w.selected
      PROVE  ViewFits(ObserveIfViewingMessages(u))
  <2>1. PICK r : r = ObserveIfViewingMessages(u)
    OBVIOUS
  <2>2. /\ WholeView(r) /\ r.snapshot = w.snapshot /\ r.activity = w.activity
        /\ r.modal = w.modal /\ r.filter = w.filter /\ r.tab \in Range(Tabs)
        /\ r.expanded = w.expanded /\ r.selected = w.selected
        /\ r.baseline = w.baseline \cup Observed(r.snapshot, r.selected, r.tab)
    BY <1>1, <2>1 DEF WholeView, ObserveIfViewingMessages
  <2>3. OnARow(r)
    BY <2>2, SameRow DEF ViewFits
  <2>. QED  BY <2>1, <2>2, <2>3, Looks DEF ViewFits
<1>2. ViewFits(SwitchTab(w))
  <2>1. PICK t \in Range(Tabs) : t = Cycle(Tabs, w.tab)
    <3>1. Tabs \in Seq({"messages", "detail", "context"}) /\ Len(Tabs) \in Nat \ {0}
      BY DEF Tabs
    <3>. QED  BY <3>1, CycleFits DEF ViewFits
  <2>2. PICK u : u = [w EXCEPT !.tab = t]
    OBVIOUS
  <2>3. /\ WholeView(u) /\ u.snapshot = w.snapshot /\ u.activity = w.activity
        /\ u.modal = w.modal /\ u.filter = w.filter /\ u.tab = t
        /\ u.expanded = w.expanded /\ u.baseline = w.baseline /\ u.selected = w.selected
    BY <2>2 DEF ViewFits, WholeView
  <2>4. ViewFits(ObserveIfViewingMessages(u))
    BY <1>1, <2>3
  <2>5. SwitchTab(w) = ObserveIfViewingMessages(u)
    BY <2>1, <2>2 DEF SwitchTab
  <2>. QED  BY <2>4, <2>5
<1>3. ViewFits(CycleFilter(w))
  <2>1. PICK f \in Range(CockpitFilters) : f = Cycle(CockpitFilters, w.filter)
    <3>1. CockpitFilters \in Seq({"all", "starting", "running", "exited", "missing", "closed"})
          /\ Len(CockpitFilters) \in Nat \ {0}
      BY DEF CockpitFilters
    <3>. QED  BY <3>1, CycleFits DEF ViewFits
  <2>2. PICK r : r = ApplyFilter(w, f)
    OBVIOUS
  <2>3. /\ WholeView(r) /\ r.snapshot = w.snapshot /\ r.activity = w.activity
        /\ r.modal = w.modal /\ r.filter = f /\ r.tab = w.tab
        /\ r.expanded = w.expanded
        /\ r.selected = Reselected(Rows(w.snapshot, f), w.selected)
        /\ r.baseline = w.baseline \cup Observed(r.snapshot, r.selected, r.tab)
    BY <2>2 DEF ViewFits, WholeView, ApplyFilter
  <2>4. OnARow(r)
    BY <2>3, RowsKnown DEF ViewFits, VisibleRows
  <2>5. ViewFits(r)
    BY <2>3, <2>4, Looks DEF ViewFits
  <2>. QED  BY <2>1, <2>2, <2>5 DEF CycleFilter
<1>4. ViewFits(ToggleExpand(w))
  <2>1. ASSUME NEW e, NEW t, e \subseteq Message, NEW r,
               r = [w EXCEPT !.expanded = e] \/ r = [w EXCEPT !.technical = t]
        PROVE  ViewFits(r)
    <3>1. /\ WholeView(r) /\ r.snapshot = w.snapshot /\ r.activity = w.activity
          /\ r.modal = w.modal /\ r.filter = w.filter /\ r.tab = w.tab
          /\ r.expanded \in {e, w.expanded} /\ r.baseline = w.baseline
          /\ r.selected = w.selected
      BY <2>1 DEF ViewFits, WholeView
    <3>2. OnARow(r)
      BY <3>1, SameRow DEF ViewFits
    <3>3. NoOpenBadge(r)
      BY <3>1 DEF ViewFits, NoOpenBadge, BadgeFor
    <3>. QED  BY <2>1, <3>1, <3>2, <3>3, Looks DEF ViewFits
  <2>2. PICK o : o = Ordinary(w)
    OBVIOUS
  <2>3. o \subseteq Message /\ w.expanded \subseteq Message
    BY <2>2 DEF Ordinary, RelatedMessages, Messages, ViewFits
  <2>4. ToggleExpand(w) \in {w, [w EXCEPT !.technical = ~w.technical],
                             [w EXCEPT !.expanded = w.expanded \ o],
                             [w EXCEPT !.expanded = w.expanded \cup o]}
    BY <2>2 DEF ToggleExpand
  <2>5. w.expanded \ o \subseteq Message /\ w.expanded \cup o \subseteq Message
    BY <2>3
  <2>. QED  BY <2>1, <2>4, <2>5
<1>. QED  BY <1>2, <1>3, <1>4

(* A key adds at most one letter to the draft, and its effect is about a   *)
(* Session, or none.                                                       *)
LEMMA PressKeeps ==
    ASSUME FiniteTables, NEW w, ViewFits(w), NEW k, w.modal.kind \in Dialogs,
           NEW r, r = Press(w, k)
    PROVE  /\ ViewFits(r.v) /\ r.v.modal.draft <= w.modal.draft + 1
           /\ r.effect.target \in Session \cup {Null}
<1>0. /\ WholeView(w) /\ w.modal.draft \in Nat /\ w.modal.target \in Session \cup {Null}
      /\ w.selected \in Session \cup {Null}
      /\ w.modal = [kind |-> w.modal.kind, action |-> w.modal.action,
                    target |-> w.modal.target, draft |-> w.modal.draft]
  BY RowsKnown DEF ViewFits, WholeView
<1>1. \A u, e : Result(u, e).v = u /\ Result(u, e).effect = e
  BY DEF Result
<1>2. \A u : Only(u).v = u /\ Only(u).effect.target = Null
  BY <1>1 DEF Only, NoEffect
<1>3. NoEffect.target = Null /\ \A e, s : Effect(e, s).target = s
  BY DEF NoEffect, Effect
<1>4. ASSUME NEW a, NEW b, NEW s \in Session \cup {Null}, NEW n \in Nat, n <= w.modal.draft + 1,
             NEW u, u = [w EXCEPT !.modal = [kind |-> a, action |-> b,
                                             target |-> s, draft |-> n]]
      PROVE  ViewFits(u) /\ u.modal.draft <= w.modal.draft + 1
  BY <1>0, <1>4, ModalChanges
<1>5. ViewFits(w) /\ w.modal.draft <= w.modal.draft + 1
  BY <1>0
<1>z. 0 \in Nat /\ 0 <= w.modal.draft + 1 /\ Null \in Session \cup {Null}
  BY <1>0
<1>6. ViewFits(Dismiss(w)) /\ Dismiss(w).modal.draft <= w.modal.draft + 1
  <2>1. Dismiss(w) = [w EXCEPT !.modal = [kind |-> "none", action |-> "none",
                                          target |-> Null, draft |-> 0]]
    BY DEF Dismiss, NoModal
  <2>2. PICK u, a, n : u = Dismiss(w) /\ a = "none" /\ n = 0
    OBVIOUS
  <2>3. n \in Nat /\ n <= w.modal.draft + 1
    BY <1>0, <2>2
  <2>4. u = [w EXCEPT !.modal = [kind |-> a, action |-> a, target |-> Null, draft |-> n]]
    BY <2>1, <2>2
  <2>5. ViewFits(u) /\ u.modal.draft <= w.modal.draft + 1
    BY <1>4, <1>z, <2>3, <2>4
  <2>. QED  BY <2>2, <2>5
<1>7. ASSUME NEW m, m \in {Modal("error"), Modal("help"), Modal("send"),
                           Confirm("close", w.selected), Confirm("delete", w.selected)},
             NEW u, u = [w EXCEPT !.modal = m]
      PROVE  ViewFits(u) /\ u.modal.draft <= w.modal.draft + 1
  <2>1. PICK a, b, s : /\ s \in Session \cup {Null}
                        /\ m = [kind |-> a, action |-> b, target |-> s, draft |-> 0]
    BY <1>0, <1>7, ModalFits
  <2>2. u = [w EXCEPT !.modal = [kind |-> a, action |-> b, target |-> s, draft |-> 0]]
    BY <1>7, <2>1
  <2>. QED  BY <1>4, <1>z, <2>1, <2>2
<1>8. ASSUME NEW n \in {w.modal.draft + 1, Erased(w.modal.draft)}
      PROVE  ViewFits(UpdateDraft(w, n)) /\ UpdateDraft(w, n).modal.draft <= w.modal.draft + 1
  <2>1. n \in Nat /\ n <= w.modal.draft + 1
    BY <1>0 DEF Erased
  <2>2. UpdateDraft(w, n) = [w EXCEPT !.modal = [kind |-> w.modal.kind,
              action |-> w.modal.action, target |-> w.modal.target, draft |-> n]]
    BY <1>0 DEF UpdateDraft, WholeView
  <2>3. PICK a, b, s : a = w.modal.kind /\ b = w.modal.action /\ s = w.modal.target
    OBVIOUS
  <2>4. s \in Session \cup {Null}
    BY <1>0, <2>3
  <2>5. PICK u : u = UpdateDraft(w, n)
    OBVIOUS
  <2>6. u = [w EXCEPT !.modal = [kind |-> a, action |-> b, target |-> s, draft |-> n]]
    BY <2>2, <2>3, <2>5
  <2>7. ViewFits(u) /\ u.modal.draft <= w.modal.draft + 1
    BY <1>4, <2>1, <2>4, <2>6
  <2>. QED  BY <2>5, <2>7
<1>9. \/ \E u \in {w, Dismiss(w), UpdateDraft(w, w.modal.draft + 1),
                   UpdateDraft(w, Erased(w.modal.draft)), MoveSelection(w, -1),
                   MoveSelection(w, 1), SwitchTab(w), ToggleExpand(w), CycleFilter(w)} :
             r = Only(u)
      \/ \E m \in {Modal("error"), Modal("help"), Modal("send"),
                   Confirm("close", w.selected), Confirm("delete", w.selected)} :
             r = Only([w EXCEPT !.modal = m])
      \/ \E u, e, s :
             /\ u \in {w, Dismiss(w)}
             /\ s \in {w.selected, w.modal.target, Null}
             /\ r = Result(u, NoEffect) \/ r = Result(u, Effect(e, s))
  <2>1. CASE w.modal.kind = "send"
    <3>1. r = SendModalAction(w, k)
      BY <2>1 DEF Press
    <3>2. \/ r = SubmitSend(w)
          \/ r = Only(w) \/ r = Only(Dismiss(w))
          \/ r = Only(UpdateDraft(w, w.modal.draft + 1))
          \/ r = Only(UpdateDraft(w, Erased(w.modal.draft)))
      BY <3>1 DEF SendModalAction
    <3>3. \/ SubmitSend(w) = Only(w)
          \/ SubmitSend(w) = Result(Dismiss(w), NoEffect)
          \/ SubmitSend(w) = Result(Dismiss(w), Effect("send", w.selected))
      BY DEF SubmitSend
    <3>. QED  BY <3>2, <3>3
  <2>2. CASE w.modal.kind = "confirm"
    BY <2>2 DEF Press, ConfirmModalAction, ConfirmModal
  <2>3. CASE w.modal.kind \in {"help", "error"}
    BY <2>3 DEF Press, HelpModalAction, ErrorModalAction, ToggleHelp
  <2>4. CASE w.modal.kind = "none"
    <3>1. r = NormalAction(w, k)
      BY <2>4 DEF Press
    <3>2. \/ r \in {Only(MoveSelection(w, -1)), Only(MoveSelection(w, 1)), Only(SwitchTab(w)),
                   Only(ToggleExpand(w)), Only(CycleFilter(w)), Only(w)}
          \/ r \in {Attach(w), Open(w, Modal("send")), Open(w, Confirm("close", w.selected)),
                   Open(w, Confirm("delete", w.selected)), Only(ToggleHelp(w))}
          \/ r \in {Result(w, Effect("refresh", Null)), Result(w, Effect("quit", Null))}
      BY <3>1 DEF NormalAction
    <3>3. Only(ToggleHelp(w)) = Only([w EXCEPT !.modal = Modal("help")])
      BY <2>4 DEF ToggleHelp
    <3>4. Attach(w) \in {Only(w), Only([w EXCEPT !.modal = Modal("error")]),
                         Result(w, Effect("attach", w.selected))}
      BY DEF Attach, WithSelected
    <3>5. \A m : Open(w, m) \in {Only(w), Only([w EXCEPT !.modal = m])}
      BY DEF Open, WithSelected
    <3>. QED  BY <3>2, <3>3, <3>4, <3>5
  <2>. QED  BY <2>1, <2>2, <2>3, <2>4 DEF Dialogs
<1>10. ASSUME NEW u, u \in {MoveSelection(w, -1), MoveSelection(w, 1), SwitchTab(w),
                            ToggleExpand(w), CycleFilter(w)}
       PROVE  ViewFits(u) /\ u.modal.draft <= w.modal.draft + 1
  <2>1. ViewFits(u)
    <3>1. -1 \in Int /\ 1 \in Int
      OBVIOUS
    <3>. QED  BY <1>10, <3>1, MovesFit, OtherKeysFit
  <2>2. u.modal = w.modal
    BY <1>0, <1>10, PlainKeys DEF Plain
  <2>. QED  BY <1>5, <2>1, <2>2
<1>11. ASSUME NEW u, u \in {w, Dismiss(w), UpdateDraft(w, w.modal.draft + 1),
                            UpdateDraft(w, Erased(w.modal.draft)), MoveSelection(w, -1),
                            MoveSelection(w, 1), SwitchTab(w), ToggleExpand(w),
                            CycleFilter(w)},
              r = Only(u)
       PROVE  /\ ViewFits(r.v) /\ r.v.modal.draft <= w.modal.draft + 1
              /\ r.effect.target \in Session \cup {Null}
  <2>1. ViewFits(u) /\ u.modal.draft <= w.modal.draft + 1
    BY <1>5, <1>6, <1>8, <1>10, <1>11
  <2>. QED  BY <1>2, <1>11, <2>1
<1>12. ASSUME NEW m, m \in {Modal("error"), Modal("help"), Modal("send"),
                            Confirm("close", w.selected), Confirm("delete", w.selected)},
              r = Only([w EXCEPT !.modal = m])
       PROVE  /\ ViewFits(r.v) /\ r.v.modal.draft <= w.modal.draft + 1
              /\ r.effect.target \in Session \cup {Null}
  BY <1>2, <1>7, <1>12
<1>13. ASSUME NEW u, NEW e, NEW s, u \in {w, Dismiss(w)},
              s \in {w.selected, w.modal.target, Null},
              r = Result(u, NoEffect) \/ r = Result(u, Effect(e, s))
       PROVE  /\ ViewFits(r.v) /\ r.v.modal.draft <= w.modal.draft + 1
              /\ r.effect.target \in Session \cup {Null}
  BY <1>0, <1>1, <1>3, <1>5, <1>6, <1>13
<1>. QED  BY <1>9, <1>11, <1>12, <1>13

-----------------------------------------------------------------------------
(***************************************************************************)
(* The tables, and the views made of them.                                 *)
(***************************************************************************)
Statuses == {"absent", "starting", "running", "exited", "missing", "closed"}

LEMMA FiltersAre == Range(CockpitFilters) = (Statuses \ {"absent"}) \cup {"all"}
<1>1. PICK c : c = CockpitFilters
  OBVIOUS
<1>2. DOMAIN c = 1 .. 6 /\ c[1] = "all" /\ c[2] = "starting" /\ c[3] = "running"
      /\ c[4] = "exited" /\ c[5] = "missing" /\ c[6] = "closed"
  BY <1>1 DEF CockpitFilters
<1>3. \A i : i \in 1 .. 6 <=> i \in {1, 2, 3, 4, 5, 6}
  OBVIOUS
<1>. QED  BY <1>1, <1>2, <1>3 DEF Range, Statuses

LEMMA TablesAre ==
    ASSUME NEW t, GoodTables(t)
    PROVE  /\ t = [sessions |-> t.sessions, messages |-> t.messages]
           /\ t.sessions \in [Session -> SessionRow] /\ t.messages \in [Message -> MessageRow]
           /\ \A s \in Session : t.sessions[s].parent \in {Null, Parent[s]}
  BY DEF GoodTables, Tables

LEMMA TablesMade ==
    ASSUME NEW a \in [Session -> SessionRow], NEW b \in [Message -> MessageRow],
           \A s \in Session : a[s].parent \in {Null, Parent[s]}
    PROVE  GoodTables([sessions |-> a, messages |-> b])
  BY DEF GoodTables, Tables

LEMMA PutSession ==
    ASSUME NEW t, GoodTables(t), NEW s \in Session, NEW row \in SessionRow,
           row.parent \in {Null, Parent[s]}
    PROVE  GoodTables([t EXCEPT !.sessions[s] = row])
<1>1. PICK a, b : a = t.sessions /\ b = t.messages
  OBVIOUS
<1>2. t = [sessions |-> a, messages |-> b] /\ a \in [Session -> SessionRow]
      /\ b \in [Message -> MessageRow] /\ \A x \in Session : a[x].parent \in {Null, Parent[x]}
  BY <1>1, TablesAre
<1>3. PICK c : c = [a EXCEPT ![s] = row]
  OBVIOUS
<1>4. c \in [Session -> SessionRow] /\ \A x \in Session : c[x].parent \in {Null, Parent[x]}
  BY <1>2, <1>3
<1>5. [t EXCEPT !.sessions[s] = row] = [sessions |-> c, messages |-> b]
  BY <1>2, <1>3
<1>. QED  BY <1>2, <1>4, <1>5, TablesMade

LEMMA PutMessage ==
    ASSUME NEW t, GoodTables(t), NEW m \in Message, NEW row \in MessageRow
    PROVE  GoodTables([t EXCEPT !.messages[m] = row])
<1>1. PICK a, b : a = t.sessions /\ b = t.messages
  OBVIOUS
<1>2. t = [sessions |-> a, messages |-> b] /\ a \in [Session -> SessionRow]
      /\ b \in [Message -> MessageRow] /\ \A x \in Session : a[x].parent \in {Null, Parent[x]}
  BY <1>1, TablesAre
<1>3. PICK c \in [Message -> MessageRow] : c = [b EXCEPT ![m] = row]
  BY <1>2
<1>4. [t EXCEPT !.messages[m] = row] = [sessions |-> a, messages |-> c]
  BY <1>2, <1>3
<1>. QED  BY <1>2, <1>4, TablesMade

LEMMA RowsAre ==
    /\ NoRow \in SessionRow /\ NoRow.parent = Null
    /\ NoMail \in MessageRow
    /\ \A s \in Session, st \in Statuses : NewRow(s, st) \in SessionRow
                                           /\ NewRow(s, st).parent = Parent[s]
<1>1. \A s \in Session : Parent[s] \in Session \cup {Null}
  BY LoopAssumption
<1>. QED  BY <1>1 DEF NoRow, NoMail, NewRow, SessionRow, MessageRow, Statuses

LEMMA SetStatusFits ==
    ASSUME NEW t, GoodTables(t), NEW s \in Session, NEW st \in Statuses
    PROVE  GoodTables(SetStatus(t, s, st))
<1>1. PICK row : row = [t.sessions[s] EXCEPT !.status = st]
  OBVIOUS
<1>2. t.sessions[s] \in SessionRow /\ t.sessions[s].parent \in {Null, Parent[s]}
  BY TablesAre
<1>3. row \in SessionRow /\ row.parent \in {Null, Parent[s]}
  BY <1>1, <1>2 DEF SessionRow, Statuses
<1>4. SetStatus(t, s, st) = [t EXCEPT !.sessions[s] = row]
  BY <1>1 DEF SetStatus
<1>. QED  BY <1>3, <1>4, PutSession

LEMMA MailFits ==
    ASSUME NEW t, GoodTables(t), NEW m \in Message, NEW from \in Session \cup {Null},
           NEW to \in Session, NEW kind \in {"message", "report"},
           NEW d \in {"undelivered", "delivered", "failed"}
    PROVE  /\ GoodTables(Mail(t, m, from, to, kind, d))
           /\ GoodTables([t EXCEPT !.messages[m].delivery = d])
<1>1. GoodTables(Mail(t, m, from, to, kind, d))
  <2>1. PICK row \in MessageRow :
            row = [from |-> from, to |-> to, kind |-> kind, delivery |-> d]
    BY DEF MessageRow
  <2>. QED  BY <2>1, PutMessage DEF Mail
<1>2. GoodTables([t EXCEPT !.messages[m].delivery = d])
  <2>1. t.messages[m] \in MessageRow
    BY TablesAre
  <2>2. PICK row \in MessageRow : row = [t.messages[m] EXCEPT !.delivery = d]
    BY <2>1 DEF MessageRow
  <2>3. [t EXCEPT !.messages[m].delivery = d] = [t EXCEPT !.messages[m] = row]
    BY <2>2
  <2>. QED  BY <2>3, PutMessage
<1>. QED  BY <1>1, <1>2

LEMMA DeleteFits ==
    ASSUME NEW t, GoodTables(t), NEW s
    PROVE  GoodTables(Delete(t, s))
<1>1. PICK a, b : a = Delete(t, s).sessions /\ b = Delete(t, s).messages
  OBVIOUS
<1>2. /\ a = [x \in Session |->
                IF x = s THEN NoRow
                ELSE IF t.sessions[x].parent = s
                     THEN [t.sessions[x] EXCEPT !.parent = Null] ELSE t.sessions[x]]
      /\ b = [m \in Message |->
                IF s \in {t.messages[m].from, t.messages[m].to} THEN NoMail ELSE t.messages[m]]
      /\ Delete(t, s) = [sessions |-> a, messages |-> b]
  BY <1>1 DEF Delete
<1>3. ASSUME NEW x \in Session
      PROVE  a[x] \in SessionRow /\ a[x].parent \in {Null, Parent[x]}
  <2>1. PICK row \in SessionRow : row = t.sessions[x] /\ row.parent \in {Null, Parent[x]}
    BY TablesAre
  <2>2. [row EXCEPT !.parent = Null] \in SessionRow
        /\ [row EXCEPT !.parent = Null].parent = Null
    BY <2>1 DEF SessionRow
  <2>3. a[x] \in {NoRow, row, [row EXCEPT !.parent = Null]}
    BY <1>2, <2>1
  <2>. QED  BY <2>1, <2>2, <2>3, RowsAre
<1>4. \A m \in Message : b[m] \in MessageRow
  BY <1>2, TablesAre, RowsAre
<1>5. a \in [Session -> SessionRow] /\ b \in [Message -> MessageRow]
  BY <1>2, <1>3, <1>4
<1>. QED  BY <1>2, <1>3, <1>5, TablesMade

LEMMA ChangesFit ==
    ASSUME GoodTables(store), NEW t \in Changes(store)
    PROVE  GoodTables(t)
<1>1. CASE \E s \in Session : t = Add(store, s)
  <2>1. PICK s \in Session : t = [store EXCEPT !.sessions[s] = NewRow(s, "starting")]
    BY <1>1 DEF Add
  <2>2. NewRow(s, "starting") \in SessionRow /\ NewRow(s, "starting").parent = Parent[s]
    BY RowsAre DEF Statuses
  <2>. QED  BY <2>1, <2>2, PutSession
<1>2. CASE \E s \in Session, st \in Fates : t = SetStatus(store, s, st)
  BY <1>2, SetStatusFits, FiltersAre, LoopAssumption
<1>3. CASE \E s \in Session : t = Delete(store, s)
  BY <1>3, DeleteFits
<1>4. CASE \E m \in Message, r \in Routes : t = Mail(store, m, r[1], r[2], r[3], "undelivered")
  <2>1. PICK m \in Message, r \in Routes : t = Mail(store, m, r[1], r[2], r[3], "undelivered")
    BY <1>4
  <2>2. r[1] \in Session \cup {Null} /\ r[2] \in Session /\ r[3] \in {"message", "report"}
    BY LoopAssumption
  <2>. QED  BY <2>1, <2>2, MailFits
<1>5. CASE \E m \in Message, d \in {"delivered", "failed"} :
               t = [store EXCEPT !.messages[m].delivery = d]
  <2>1. PICK m \in Message, d \in {"delivered", "failed"} :
            t = [store EXCEPT !.messages[m].delivery = d]
    BY <1>5
  <2>2. store.messages[m] \in MessageRow
    BY TablesAre
  <2>3. PICK row \in MessageRow : row = [store.messages[m] EXCEPT !.delivery = d]
    BY <2>2 DEF MessageRow
  <2>4. t = [store EXCEPT !.messages[m] = row]
    BY <2>1, <2>3
  <2>. QED  BY <2>4, PutMessage
<1>. QED  BY <1>1, <1>2, <1>3, <1>4, <1>5
          DEF Changes, StoredIn, NextMessage, UnsentIn, PendingIn

LEMMA ReadsFit ==
    ASSUME NEW t, GoodTables(t)
    PROVE  /\ ReadSessions(t) \in [Session -> SessionRow]
           /\ \A s \in Session : ReadSessions(t)[s].parent \in {Null, Parent[s]}
           /\ ReadMessages(t) \in [Message -> MessageRow]
  BY TablesAre, RowsAre DEF ReadSessions, ReadMessages

LEMMA EmptyFits == GoodTables(EmptySnapshot)
<1>1. PICK a, b : a = [s \in Session |-> NoRow] /\ b = [m \in Message |-> NoMail]
  OBVIOUS
<1>2. /\ a \in [Session -> SessionRow] /\ b \in [Message -> MessageRow]
      /\ \A s \in Session : a[s].parent \in {Null, Parent[s]}
  BY <1>1, RowsAre
<1>3. EmptySnapshot = [sessions |-> a, messages |-> b]
  BY <1>1 DEF EmptySnapshot
<1>. QED  BY <1>2, <1>3, TablesMade

-----------------------------------------------------------------------------
(***************************************************************************)
(* The strip, and what a snapshot makes of a view.                         *)
(***************************************************************************)
LEMMA ListIsSeq ==
    ASSUME NEW n \in Nat, NEW l, NEW f, l = [i \in 1 .. n |-> f[i]]
    PROVE  IsSeq(l)
<1>1. PICK set : set = {f[i] : i \in 1 .. n}
  OBVIOUS
<1>2. l \in Seq(set)
  BY <1>1
<1>. QED  BY <1>2 DEF IsSeq

LEMMA CatIsSeq ==
    ASSUME NEW k, NEW l, IsSeq(k), IsSeq(l)
    PROVE  IsSeq(k \o l)
<1>1. PICK a, b : k \in Seq(a) /\ l \in Seq(b)
  BY DEF IsSeq
<1>2. PICK set : set = a \cup b
  OBVIOUS
<1>3. k \in Seq(set) /\ l \in Seq(set)
  BY <1>1, <1>2
<1>4. k \o l \in Seq(set)
  BY <1>3
<1>. QED  BY <1>4 DEF IsSeq

LEMMA LastOfFits ==
    ASSUME NEW l, IsSeq(l), NEW n \in Nat \ {0}
    PROVE  IsSeq(LastOf(l, n)) /\ Len(LastOf(l, n)) <= n
<1>1. PICK set : l \in Seq(set)
  BY DEF IsSeq
<1>2. PICK a : a = IF Len(l) > n THEN Len(l) - n + 1 ELSE 1
  OBVIOUS
<1>3. Len(l) \in Nat /\ a \in 1 .. Len(l) + 1
  BY <1>1, <1>2
<1>4. LastOf(l, n) = SubSeq(l, a, Len(l))
  BY <1>2 DEF LastOf
<1>5. SubSeq(l, a, Len(l)) \in Seq(set)
  BY <1>1, <1>3
<1>6. Len(SubSeq(l, a, Len(l))) = Len(l) - a + 1
  BY <1>1, <1>3
<1>7. Len(l) - a + 1 <= n
  BY <1>2, <1>3
<1>. QED  BY <1>4, <1>5, <1>6, <1>7 DEF IsSeq

LEMMA DiffIsSeq ==
    ASSUME FiniteTables, NEW prev, NEW next
    PROVE  IsSeq(DiffSnapshots(prev, next))
<1>1. ASSUME NEW set, set \subseteq Session \/ set \subseteq Message
      PROVE  \E n \in Nat : DOMAIN Sorted(set, <) = 1 .. n
  <2>1. Cardinality(set) \in Nat
    BY <1>1, FS_Subset, FS_CardinalityType DEF FiniteTables
  <2>. QED  BY <2>1 DEF Sorted
<1>2. IsSeq(SessionItems(prev, next))
  <2>. DEFINE changed(s) == prev.sessions[s].status # next.sessions[s].status
              item(s) == IF s \notin Sessions(prev)
                         THEN Item("session_added", s, next.sessions[s].status)
                         ELSE Item("status_changed", s, next.sessions[s].status)
              kept == Sorted({s \in Sessions(next) : changed(s)}, <)
              gone == Sorted(Sessions(prev) \ Sessions(next), <)
              first == [i \in DOMAIN kept |-> item(kept[i])]
              second == [i \in DOMAIN gone |-> Item("session_removed", gone[i], "absent")]
  <2>1. PICK n \in Nat : DOMAIN kept = 1 .. n
    <3>1. {s \in Sessions(next) : changed(s)} \subseteq Session
      BY DEF Sessions
    <3>. QED  BY <1>1, <3>1
  <2>2. PICK m \in Nat : DOMAIN gone = 1 .. m
    <3>1. Sessions(prev) \ Sessions(next) \subseteq Session
      BY DEF Sessions
    <3>. QED  BY <1>1, <3>1
  <2>3. SessionItems(prev, next) = first \o second
    BY DEF SessionItems
  <2>. HIDE DEF kept, gone, item
  <2>4. IsSeq(first)
    <3>1. PICK f : f = first
      OBVIOUS
    <3>2. f = [i \in 1 .. n |-> f[i]]
      BY <2>1, <3>1
    <3>. QED  BY <3>1, <3>2, ListIsSeq
  <2>5. IsSeq(second)
    <3>1. PICK f : f = second
      OBVIOUS
    <3>2. f = [i \in 1 .. m |-> f[i]]
      BY <2>2, <3>1
    <3>. QED  BY <3>1, <3>2, ListIsSeq
  <2>. HIDE DEF first, second
  <2>. QED  BY <2>3, <2>4, <2>5, CatIsSeq
<1>3. IsSeq(MessageItems(prev, next))
  <2>. DEFINE changed(m) == prev.messages[m].delivery # next.messages[m].delivery
              item(m) == Item(IF m \in Messages(prev) THEN "delivery_changed"
                                                      ELSE "message_added",
                              m, next.messages[m].delivery)
              kept == Sorted({m \in Messages(next) : changed(m)}, <)
              first == [i \in DOMAIN kept |-> item(kept[i])]
  <2>1. PICK n \in Nat : DOMAIN kept = 1 .. n
    <3>1. {m \in Messages(next) : changed(m)} \subseteq Message
      BY DEF Messages
    <3>. QED  BY <1>1, <3>1
  <2>2. MessageItems(prev, next) = first
    BY DEF MessageItems
  <2>. HIDE DEF kept, item
  <2>3. PICK f : f = first
    OBVIOUS
  <2>4. f = [i \in 1 .. n |-> f[i]]
    BY <2>1, <2>3
  <2>. QED  BY <2>2, <2>3, <2>4, ListIsSeq
<1>. QED  BY <1>2, <1>3, CatIsSeq DEF DiffSnapshots

LEMMA SnapshotKeeps ==
    ASSUME FiniteTables, NEW snap, GoodTables(snap)
    PROVE  /\ ViewFits(CreateCockpitState(snap))
           /\ CreateCockpitState(snap).modal.draft = 0
           /\ \A w : ViewFits(w) => /\ ViewFits(ApplySnapshot(w, snap))
                                    /\ ApplySnapshot(w, snap).modal = w.modal
<1>1. ViewFits(CreateCockpitState(snap)) /\ CreateCockpitState(snap).modal.draft = 0
  <2>1. PICK r : r = CreateCockpitState(snap)
    OBVIOUS
  <2>2. /\ WholeView(r) /\ r.modal = NoModal
    BY <2>1, SnapshotFits
  <2>3. /\ r.snapshot = snap /\ r.filter = "all" /\ r.tab = "messages"
        /\ r.selected = Reselected(Rows(snap, "all"), Null)
        /\ r.baseline = Messages(snap) /\ r.expanded = {} /\ r.activity = <<>>
    BY <2>1 DEF CreateCockpitState
  <2>4. OnARow(r)
    BY <2>3, RowsKnown DEF VisibleRows
  <2>5. NoOpenBadge(r) /\ r.baseline \subseteq Message
    BY <2>3 DEF NoOpenBadge, BadgeFor, IncomingMessages, Messages
  <2>6. ShortStrip(r.activity)
    <3>1. <<>> \in Seq({}) /\ Len(<<>>) = 0
      OBVIOUS
    <3>. QED  BY <2>3, <3>1, CockpitAssumption DEF ShortStrip, IsSeq
  <2>7. r.modal.target = Null /\ r.modal.draft = 0
    BY <2>2 DEF NoModal
  <2>8. r.filter \in Range(CockpitFilters)
    BY <2>3, FiltersAre
  <2>9. r.tab \in Range(Tabs)
    <3>1. PICK t : t = Tabs
      OBVIOUS
    <3>2. 1 \in DOMAIN t /\ t[1] = "messages"
      BY <3>1 DEF Tabs
    <3>. QED  BY <2>3, <3>1, <3>2 DEF Range
  <2>. QED  BY <2>1, <2>2, <2>3, <2>4, <2>5, <2>6, <2>7, <2>8, <2>9 DEF ViewFits
<1>2. ASSUME NEW w, ViewFits(w)
      PROVE  ViewFits(ApplySnapshot(w, snap)) /\ ApplySnapshot(w, snap).modal = w.modal
  <2>1. PICK r : r = ApplySnapshot(w, snap)
    OBVIOUS
  <2>2. WholeView(w)
    BY <1>2 DEF ViewFits
  <2>3. PICK items : items = DiffSnapshots(w.snapshot, snap)
    OBVIOUS
  <2>4. /\ WholeView(r) /\ r.snapshot = snap /\ r.modal = w.modal /\ r.filter = w.filter
        /\ r.tab = w.tab /\ r.expanded = w.expanded
        /\ r.selected = Reselected(Rows(snap, w.filter), w.selected)
        /\ r.baseline = w.baseline \cup Observed(r.snapshot, r.selected, r.tab)
        /\ r.activity = AppendActivity(w.activity, items)
    BY <2>1, <2>2, <2>3 DEF WholeView, ApplySnapshot
  <2>5. OnARow(r)
    BY <2>4, RowsKnown DEF VisibleRows
  <2>6. r.baseline \subseteq Message /\ NoOpenBadge(r)
    BY <1>2, <2>4, ObserveClears DEF ViewFits
  <2>7. ShortStrip(r.activity)
    <3>1. IsSeq(w.activity) /\ IsSeq(items)
      BY <1>2, <2>3, DiffIsSeq DEF ViewFits, ShortStrip
    <3>2. PICK l : l = w.activity \o items
      OBVIOUS
    <3>3. IsSeq(l)
      BY <3>1, <3>2, CatIsSeq
    <3>4. r.activity = LastOf(l, ActivityCap)
      BY <2>4, <3>2 DEF AppendActivity
    <3>. QED  BY <3>3, <3>4, LastOfFits, CockpitAssumption DEF ShortStrip
  <2>8. ViewFits(r)
    BY <1>2, <2>4, <2>5, <2>6, <2>7 DEF ViewFits
  <2>. QED  BY <2>1, <2>4, <2>8
<1>. QED  BY <1>1, <1>2

LEMMA ErrorKeeps ==
    ASSUME FiniteTables, NEW w, ViewFits(w)
    PROVE  ViewFits(ShowError(w)) /\ ShowError(w).modal.draft <= w.modal.draft
<1>1. CASE w.modal.kind # "none"
  <2>1. ShowError(w) = w /\ w.modal.draft \in Nat
    BY <1>1 DEF ShowError, ViewFits
  <2>. QED  BY <2>1
<1>2. CASE w.modal.kind = "none"
  <2>1. PICK r, k, a, n : r = ShowError(w) /\ k = "error" /\ a = "none" /\ n = 0
    OBVIOUS
  <2>2. r = [w EXCEPT !.modal = [kind |-> k, action |-> a, target |-> Null, draft |-> n]]
    BY <1>2, <2>1, ModalFits DEF ShowError
  <2>3. n \in Nat /\ Null \in Session \cup {Null}
    BY <2>1
  <2>4. ViewFits(r) /\ r.modal.draft = n
    BY <2>2, <2>3, ModalChanges
  <2>5. w.modal.draft \in Nat
    BY DEF ViewFits
  <2>. QED  BY <2>1, <2>4, <2>5
<1>. QED  BY <1>1, <1>2

-----------------------------------------------------------------------------
(***************************************************************************)
(* The loop.  A draft and the keys that wait are keys that were pressed.   *)
(***************************************************************************)
TablesFit ==
    /\ GoodTables(store)
    /\ loaded \in [Session -> SessionRow]
    /\ \A s \in Session : loaded[s].parent \in {Null, Parent[s]}

LoopFits ==
    /\ pc \in Finished \cup {"sessions", "messages", "draw", "wait", "hint",
                             "suspend", "attached", "mutate"}
    /\ pc \in {"sessions", "messages"} =>
           why \in {"start", "refresh", "mutation", "attach", "tick"}
    /\ notice \in {"none", "info", "success", "error"}
    /\ asked \in Session \cup {Null} /\ op.target \in Session \cup {Null}
    /\ frame.dossier \in Session \cup {Null}

HostFits ==
    /\ queue \in Seq(Keys) /\ Len(queue) <= MaxQueue
    /\ renderer \in {"none", "starting", "up"} /\ closed \in BOOLEAN
    /\ AttachOwnsTerminal

UsedFits ==
    /\ used = [keys |-> used.keys, changes |-> used.changes, failures |-> used.failures]
    /\ used.keys \in 0 .. MaxKeys
    /\ v.modal.draft + Len(queue) <= used.keys

ScreenInv == TablesFit /\ ViewFits(v) /\ LoopFits /\ HostFits /\ UsedFits

LEMMA InitScreen == FiniteTables /\ Init => ScreenInv
<1>. SUFFICES ASSUME FiniteTables, Init PROVE ScreenInv
  OBVIOUS
<1>1. TablesFit
  <2>1. PICK a, b : /\ a = [s \in Session |-> IF s \in Exited THEN NewRow(s, "exited")
                                              ELSE IF s \in Before THEN NewRow(s, "running")
                                              ELSE NoRow]
                    /\ b = EmptySnapshot.messages
    OBVIOUS
  <2>2. ASSUME NEW s \in Session
        PROVE  a[s] \in SessionRow /\ a[s].parent \in {Null, Parent[s]}
    <3>1. a[s] \in {NewRow(s, "exited"), NewRow(s, "running"), NoRow}
      BY <2>1
    <3>. QED  BY <3>1, RowsAre DEF Statuses
  <2>3. a \in [Session -> SessionRow]
    BY <2>1, <2>2
  <2>4. /\ b \in [Message -> MessageRow] /\ EmptySnapshot.sessions \in [Session -> SessionRow]
        /\ \A s \in Session : EmptySnapshot.sessions[s].parent \in {Null, Parent[s]}
    <3>1. PICK e : e = EmptySnapshot
      OBVIOUS
    <3>. QED  BY <2>1, <3>1, EmptyFits, TablesAre
  <2>5. store = [sessions |-> a, messages |-> b] /\ loaded = EmptySnapshot.sessions
    BY <2>1 DEF Init
  <2>. QED  BY <2>2, <2>3, <2>4, <2>5, TablesMade DEF TablesFit
<1>2. ViewFits(v) /\ v.modal.draft = 0
  <2>1. v = CreateCockpitState(EmptySnapshot)
    BY DEF Init, NoView
  <2>. QED  BY <2>1, EmptyFits, SnapshotKeeps
<1>3. LoopFits
  <2>1. frame.dossier = NoView.selected /\ NoView = v
    BY DEF Init, RenderCockpitView
  <2>2. v.selected \in Session \cup {Null}
    BY <1>2, RowsKnown DEF ViewFits
  <2>. QED  BY <2>1, <2>2 DEF LoopFits, Init, NoEffect, Finished
<1>4. HostFits
  <2>1. queue = <<>> /\ queue \in Seq(Keys) /\ Len(queue) = 0 /\ MaxQueue \in Nat
    BY LoopAssumption DEF Init
  <2>2. Len(queue) <= MaxQueue
    BY <2>1
  <2>3. renderer = "none" /\ closed = FALSE
    BY DEF Init
  <2>. QED  BY <2>1, <2>2, <2>3 DEF HostFits, AttachOwnsTerminal
<1>5. UsedFits
  <2>1. Len(queue) = 0 /\ MaxKeys \in Nat
    BY LoopAssumption DEF Init
  <2>. QED  BY <1>2, <2>1 DEF UsedFits, Init
<1>. QED  BY <1>1, <1>2, <1>3, <1>4, <1>5 DEF ScreenInv

LEMMA MutateKeeps ==
    ASSUME GoodTables(store), Mutate
    PROVE  GoodTables(store')
<1>1. PICK s \in Session : s = op.target
  BY DEF Mutate, StoredIn
<1>2. CASE store' = SetStatus(store, s, "closed")
  BY <1>2, SetStatusFits DEF Statuses
<1>3. CASE store' = Delete(store, s)
  BY <1>3, DeleteFits
<1>4. CASE \E m \in NextMessage(store), d \in {"undelivered", "delivered", "failed"} :
               store' = Mail(store, m, Null, s, "message", d)
  <2>1. PICK m \in Message, d \in {"undelivered", "delivered", "failed"} :
            store' = Mail(store, m, Null, s, "message", d)
    BY <1>4 DEF NextMessage, UnsentIn
  <2>2. PICK k \in {"message", "report"} : k = "message"
    OBVIOUS
  <2>3. PICK n \in Session \cup {Null} : n = Null
    OBVIOUS
  <2>. QED  BY <2>1, <2>2, <2>3, MailFits
<1>. QED  BY <1>1, <1>2, <1>3, <1>4 DEF Mutate

LEMMA TablesStep ==
    ASSUME TablesFit, [Next]_vars
    PROVE  TablesFit'
<1>0. /\ EmptySnapshot.sessions \in [Session -> SessionRow]
      /\ \A s \in Session : EmptySnapshot.sessions[s].parent \in {Null, Parent[s]}
  <2>1. PICK e : e = EmptySnapshot
    OBVIOUS
  <2>. QED  BY <2>1, EmptyFits, TablesAre
<1>1. CASE UNCHANGED store /\ (loaded' = loaded \/ loaded' = EmptySnapshot.sessions)
  BY <1>0, <1>1 DEF TablesFit
<1>2. CASE Others
  BY <1>2, ChangesFit DEF Others, TablesFit
<1>3. CASE Mutate
  BY <1>3, MutateKeeps DEF Mutate, TablesFit
<1>4. CASE LoadSessions
  <2>1. UNCHANGED store /\ loaded' = ReadSessions(store) /\ GoodTables(store)
    BY <1>4 DEF LoadSessions, TablesFit
  <2>. QED  BY <2>1, ReadsFit DEF TablesFit
<1>5. CASE \/ RendererUp \/ SuspendAfterClose \/ CtrlC \/ \E k \in Typed : PressKey(k)
           \/ Draw \/ EndOfInput \/ TakeKey \/ LoadAttach \/ Suspend \/ Tick \/ Detach
           \/ MutationFails \/ LoadMessages \/ LoadRefused \/ StoreThrows \/ UNCHANGED vars
  BY <1>1, <1>5 DEF RendererUp, SuspendAfterClose, CtrlC, PressKey, Draw, EndOfInput,
     TakeKey, LoadAttach, Suspend, Tick, Detach, MutationFails, LoadMessages, LoadRefused,
     StoreThrows, Loaded, App, vars
<1>. QED  BY <1>2, <1>3, <1>4, <1>5 DEF Next, Loop

LEMMA HostStep ==
    ASSUME HostFits, [Next]_vars
    PROVE  HostFits'
<1>1. CASE UNCHANGED queue /\ renderer' \in {"none", "starting", "up"} /\ closed' \in BOOLEAN
           /\ (pc' = "attached" => renderer' = "none")
  BY <1>1 DEF HostFits, AttachOwnsTerminal
<1>2. CASE \E k \in Typed : PressKey(k)
  <2>1. PICK k \in Keys : PressKey(k)
    BY <1>2, LoopAssumption
  <2>2. queue \in Seq(Keys) /\ Len(queue) \in Nat /\ Len(queue) < MaxQueue
    BY <2>1 DEF PressKey, HostFits
  <2>3. queue' \in Seq(Keys) /\ Len(queue') = Len(queue) + 1
    BY <2>1, <2>2 DEF PressKey
  <2>4. MaxQueue \in Nat
    BY LoopAssumption
  <2>5. Len(queue') <= MaxQueue
    BY <2>2, <2>3, <2>4
  <2>. QED  BY <2>1, <2>3, <2>5 DEF PressKey, HostFits, AttachOwnsTerminal
<1>3. CASE TakeKey
  <2>1. queue \in Seq(Keys) /\ queue # <<>> /\ queue' = Tail(queue)
    BY <1>3 DEF TakeKey, KeyWaits, HostFits
  <2>2. queue' \in Seq(Keys) /\ Len(queue') = Len(queue) - 1
    BY <2>1
  <2>3. Len(queue) \in Nat /\ MaxQueue \in Nat /\ Len(queue) <= MaxQueue
    BY <2>1, LoopAssumption DEF HostFits
  <2>4. Len(queue') <= MaxQueue
    BY <2>2, <2>3
  <2>5. renderer' = renderer /\ closed' \in BOOLEAN /\ pc' # "attached"
    BY <1>3 DEF TakeKey, Carry, Load, HostFits
  <2>. QED  BY <2>2, <2>4, <2>5 DEF HostFits, AttachOwnsTerminal
<1>4. CASE Others \/ RendererUp \/ SuspendAfterClose \/ CtrlC \/ UNCHANGED vars
  BY <1>1, <1>4 DEF Others, RendererUp, SuspendAfterClose, CtrlC, App, vars, HostFits,
     AttachOwnsTerminal
<1>5. CASE Draw \/ Suspend \/ LoadAttach
  BY <1>1, <1>5 DEF Draw, Suspend, LoadAttach, Host, HostFits
<1>6. CASE Tick \/ Detach \/ EndOfInput \/ Mutate \/ MutationFails
  BY <1>1, <1>6 DEF Tick, Detach, EndOfInput, EndWith, Mutate, MutationFails, Load, Host,
     HostFits
<1>7. CASE LoadSessions \/ LoadMessages \/ LoadRefused \/ StoreThrows
  BY <1>1, <1>7 DEF LoadSessions, LoadMessages, LoadRefused, StoreThrows, EndWith, Host,
     HostFits
<1>. QED  BY <1>2, <1>3, <1>4, <1>5, <1>6, <1>7 DEF Next, Loop


LEMMA ViewStep ==
    ASSUME FiniteTables, TablesFit, ViewFits(v), DialogInv, [Next]_vars
    PROVE  ViewFits(v')
<1>1. CASE v' = v
  BY <1>1
<1>2. CASE TakeKey
  <2>1. PICK w, k, r : w = v /\ k = Head(queue) /\ r = Press(w, k)
    OBVIOUS
  <2>2. v' = r.v
    BY <1>2, <2>1 DEF TakeKey
  <2>3. w.modal.kind \in Dialogs
    BY <2>1 DEF DialogInv
  <2>. QED  BY <2>1, <2>2, <2>3, PressKeeps
<1>3. CASE MutationFails
  <2>1. PICK w : w = v
    OBVIOUS
  <2>. QED  BY <1>3, <2>1, ErrorKeeps DEF MutationFails
<1>4. CASE LoadMessages
  <2>1. PICK snap : snap = [sessions |-> loaded, messages |-> ReadMessages(store)]
    OBVIOUS
  <2>2. GoodTables(snap)
    BY <2>1, ReadsFit, TablesMade DEF TablesFit
  <2>3. v' = IF why = "start" THEN CreateCockpitState(snap) ELSE ApplySnapshot(v, snap)
    BY <1>4, <2>1 DEF LoadMessages
  <2>. QED  BY <2>2, <2>3, SnapshotKeeps
<1>5. CASE \/ Others \/ RendererUp \/ SuspendAfterClose \/ CtrlC \/ \E k \in Typed : PressKey(k)
           \/ Draw \/ EndOfInput \/ LoadAttach \/ Suspend \/ Tick \/ Detach
           \/ Mutate \/ LoadSessions \/ LoadRefused \/ StoreThrows \/ UNCHANGED vars
  BY <1>1, <1>5 DEF Others, RendererUp, SuspendAfterClose, CtrlC, PressKey, Draw,
     EndOfInput, LoadAttach, Suspend, Tick, Detach, Mutate, LoadSessions, LoadRefused,
     StoreThrows, App, vars
<1>. QED  BY <1>2, <1>3, <1>4, <1>5 DEF Next, Loop

LEMMA LoopStep ==
    ASSUME FiniteTables, ViewFits(v), LoopFits, DialogInv, [Next]_vars
    PROVE  LoopFits'
<1>0. v.selected \in Session \cup {Null} /\ NoEffect.target = Null
  BY RowsKnown DEF ViewFits, NoEffect
<1>1. CASE UNCHANGED <<pc, why, notice, asked, op, frame>>
  BY <1>1 DEF LoopFits
<1>2. CASE Draw
  BY <1>0, <1>2 DEF Draw, LoopFits, RenderCockpitView
<1>3. CASE EndOfInput \/ LoadAttach \/ Suspend
  BY <1>3 DEF EndOfInput, EndWith, LoadAttach, Suspend, App, LoopFits, Finished
<1>4. CASE TakeKey
  <2>1. PICK w, k, r : w = v /\ k = Head(queue) /\ r = Press(w, k)
    OBVIOUS
  <2>2. /\ asked' \in {frame.dossier, asked} /\ frame' = frame
        /\ Carry(r.effect, Bound(w, k))
    BY <1>4, <2>1 DEF TakeKey
  <2>3. w.modal.kind \in Dialogs
    BY <2>1 DEF DialogInv
  <2>4. r.effect.target \in Session \cup {Null}
    BY <2>1, <2>3, PressKeeps
  <2>5. PICK e : e = r.effect
    OBVIOUS
  <2>6. /\ pc' \in {"draw", "ended", "sessions", "hint", "mutate"}
        /\ pc' = "sessions" => why' = "refresh"
        /\ notice' \in {notice, "none"} /\ op' \in {op, NoEffect, e}
    BY <1>4, <2>2, <2>5 DEF Carry, Load, TakeKey
  <2>. QED  BY <1>0, <2>2, <2>4, <2>5, <2>6 DEF LoopFits, Finished
<1>5. CASE Tick \/ Detach \/ Mutate
  BY <1>0, <1>5 DEF Tick, Detach, Mutate, Load, LoopFits
<1>6. CASE MutationFails
  BY <1>0, <1>6 DEF MutationFails, LoopFits
<1>7. CASE LoadSessions \/ LoadRefused \/ StoreThrows
  BY <1>7 DEF LoadSessions, LoadRefused, StoreThrows, EndWith, LoopFits, Finished
<1>8. CASE LoadMessages
  <2>1. notice' \in {"none", "info", "success", "error"}
    <3>1. why \in {"start", "refresh", "mutation", "attach", "tick"} /\ notice' = NoticeOf(why)
      BY <1>8 DEF LoadMessages, LoopFits
    <3>. QED  BY <3>1 DEF NoticeOf, LoopFits
  <2>. QED  BY <1>8, <2>1 DEF LoadMessages, LoopFits
<1>9. CASE \/ Others \/ RendererUp \/ SuspendAfterClose \/ CtrlC \/ \E k \in Typed : PressKey(k)
           \/ UNCHANGED vars
  BY <1>1, <1>9 DEF Others, RendererUp, SuspendAfterClose, CtrlC, PressKey, App, vars
<1>. QED  BY <1>2, <1>3, <1>4, <1>5, <1>6, <1>7, <1>8, <1>9 DEF Next, Loop

LEMMA UsedStep ==
    ASSUME FiniteTables, TablesFit, ViewFits(v), HostFits, UsedFits, DialogInv, [Next]_vars
    PROVE  UsedFits'
<1>0. /\ v.modal.draft \in Nat /\ queue \in Seq(Keys) /\ Len(queue) \in Nat
      /\ MaxKeys \in Nat /\ used.keys \in Nat
  BY LoopAssumption DEF ViewFits, HostFits, UsedFits
<1>1. CASE UNCHANGED queue /\ v'.modal.draft \in Nat /\ v'.modal.draft <= v.modal.draft
           /\ (\/ used' = used
               \/ used' = [used EXCEPT !.changes = @ + 1]
               \/ used' = [used EXCEPT !.failures = @ + 1])
  <2>1. used'.keys = used.keys
        /\ used' = [keys |-> used'.keys, changes |-> used'.changes, failures |-> used'.failures]
    BY <1>1 DEF UsedFits
  <2>2. v'.modal.draft + Len(queue') <= used'.keys
    BY <1>0, <1>1, <2>1 DEF UsedFits
  <2>. QED  BY <2>1, <2>2 DEF UsedFits
<1>2. CASE v' = v /\ UNCHANGED queue
           /\ (\/ used' = used
               \/ used' = [used EXCEPT !.changes = @ + 1]
               \/ used' = [used EXCEPT !.failures = @ + 1])
  <2>1. v'.modal.draft \in Nat /\ v'.modal.draft <= v.modal.draft
    BY <1>0, <1>2
  <2>. QED  BY <1>1, <1>2, <2>1
<1>3. CASE \E k \in Typed : PressKey(k)
  <2>1. PICK k \in Keys : PressKey(k)
    BY <1>3, LoopAssumption
  <2>2. Len(queue') = Len(queue) + 1 /\ v' = v /\ used.keys < MaxKeys
    BY <1>0, <2>1 DEF PressKey, App
  <2>3. /\ used'.keys = used.keys + 1
        /\ used' = [keys |-> used'.keys, changes |-> used'.changes, failures |-> used'.failures]
    BY <2>1 DEF PressKey, UsedFits
  <2>4. used'.keys \in 0 .. MaxKeys
    BY <1>0, <2>2, <2>3
  <2>5. v'.modal.draft + Len(queue') <= used'.keys
    BY <1>0, <2>2, <2>3 DEF UsedFits
  <2>. QED  BY <2>3, <2>4, <2>5 DEF UsedFits
<1>4. CASE TakeKey
  <2>1. PICK w, k, r : w = v /\ k = Head(queue) /\ r = Press(w, k)
    OBVIOUS
  <2>2. w.modal.kind \in Dialogs
    BY <2>1 DEF DialogInv
  <2>3. ViewFits(r.v) /\ r.v.modal.draft <= w.modal.draft + 1
    BY <2>1, <2>2, PressKeeps
  <2>4. v' = r.v /\ v'.modal.draft \in Nat
    BY <1>4, <2>1, <2>3 DEF TakeKey, ViewFits
  <2>5. Len(queue') = Len(queue) - 1 /\ used' = used
    BY <1>0, <1>4 DEF TakeKey, KeyWaits
  <2>6. v'.modal.draft <= v.modal.draft + 1
    BY <2>1, <2>3, <2>4
  <2>7. v'.modal.draft + Len(queue') <= used'.keys
    BY <1>0, <2>4, <2>5, <2>6 DEF UsedFits
  <2>. QED  BY <2>5, <2>7 DEF UsedFits
<1>5. CASE MutationFails
  <2>1. PICK w : w = v
    OBVIOUS
  <2>2. v' = ShowError(w)
    BY <1>5, <2>1 DEF MutationFails
  <2>3. ViewFits(v') /\ v'.modal.draft <= v.modal.draft
    BY <2>1, <2>2, ErrorKeeps
  <2>4. v'.modal.draft \in Nat
    BY <2>3 DEF ViewFits
  <2>. QED  BY <1>1, <1>5, <2>3, <2>4 DEF MutationFails, Host
<1>6. CASE LoadMessages
  <2>1. PICK snap : snap = [sessions |-> loaded, messages |-> ReadMessages(store)]
    OBVIOUS
  <2>2. GoodTables(snap)
    BY <2>1, ReadsFit, TablesMade DEF TablesFit
  <2>3. v' = IF why = "start" THEN CreateCockpitState(snap) ELSE ApplySnapshot(v, snap)
    BY <1>6, <2>1 DEF LoadMessages
  <2>4. v'.modal.draft = 0 \/ v'.modal = v.modal
    BY <2>2, <2>3, SnapshotKeeps
  <2>5. v'.modal.draft \in Nat /\ v'.modal.draft <= v.modal.draft
    BY <1>0, <2>4
  <2>. QED  BY <1>1, <1>6, <2>5 DEF LoadMessages, Host
<1>7. CASE \/ Others \/ RendererUp \/ SuspendAfterClose \/ CtrlC
           \/ Draw \/ EndOfInput \/ LoadAttach \/ Suspend \/ Tick \/ Detach \/ Mutate
           \/ UNCHANGED vars
  BY <1>2, <1>7 DEF Others, RendererUp, SuspendAfterClose, CtrlC, Draw, EndOfInput, EndWith,
     LoadAttach, Suspend, Tick, Detach, Mutate, App, Host, vars
<1>8. CASE LoadSessions \/ LoadRefused \/ StoreThrows
  BY <1>2, <1>8 DEF LoadSessions, LoadRefused, StoreThrows, EndWith, Host
<1>. QED  BY <1>3, <1>4, <1>5, <1>6, <1>7, <1>8 DEF Next, Loop

LEMMA ScreenCoheres ==
    ASSUME FiniteTables, ScreenInv
    PROVE  ScreenIsCoherent
<1>1. KnownTo(v) /\ OnARow(v) /\ v.selected \in Session \cup {Null}
  BY RowsKnown DEF ScreenInv, ViewFits
<1>2. v.modal.draft \in 0 .. MaxKeys
  <2>1. v.modal.draft \in Nat /\ Len(queue) \in Nat /\ MaxKeys \in Nat
    BY LoopAssumption DEF ScreenInv, ViewFits, HostFits
  <2>2. used.keys \in 0 .. MaxKeys /\ v.modal.draft + Len(queue) <= used.keys
    BY DEF ScreenInv, UsedFits
  <2>. QED  BY <2>1, <2>2
<1>3. TypeOK
  <2>1. store \in Tables /\ v.snapshot \in Tables
    BY DEF ScreenInv, TablesFit, ViewFits, GoodTables
  <2>2. Len(v.activity) <= ActivityCap
    BY DEF ScreenInv, ViewFits, ShortStrip
  <2>. QED  BY <1>1, <1>2, <2>1, <2>2
            DEF TypeOK, ScreenInv, TablesFit, ViewFits, LoopFits, HostFits
<1>4. CursorOnARow
  BY <1>1 DEF CursorOnARow, OnARow
<1>5. TreeShowsEverySession
  BY <1>1, TreeShown DEF TreeShowsEverySession
<1>6. OpenTimelineHasNoBadge
  BY DEF OpenTimelineHasNoBadge, NoOpenBadge, ScreenInv, ViewFits
<1>. QED  BY <1>3, <1>4, <1>5, <1>6 DEF ScreenIsCoherent, ScreenInv, HostFits

LEMMA ScreenInductive ==
    ASSUME FiniteTables, DialogInv, ScreenInv, [Next]_vars
    PROVE  DialogInv' /\ ScreenInv'
<1>1. DialogInv'
  BY DialogInductive
<1>2. TablesFit' /\ ViewFits(v') /\ LoopFits' /\ HostFits' /\ UsedFits'
  BY TablesStep, ViewStep, LoopStep, HostStep, UsedStep DEF ScreenInv
<1>. QED  BY <1>1, <1>2 DEF ScreenInv

(* For finitely many Sessions and Messages, with any parents, any scope,   *)
(* any keys and any changes by other processes: after every key, refresh,  *)
(* filter, deletion and failure of CockpitApp's loop the cursor is on a    *)
(* row, the tree of tui/src/selectors.ts shows every Session that passes   *)
(* the filter once and right below its parent, the open timeline has no    *)
(* badge, and the screen is down while an attached program runs.           *)
THEOREM ScreenStaysCoherent == FiniteTables => (Spec => []ScreenIsCoherent)
<1>. SUFFICES ASSUME FiniteTables PROVE Spec => []ScreenIsCoherent
  OBVIOUS
<1>1. Init => DialogInv /\ ScreenInv
  BY InitDialog, InitScreen
<1>2. DialogInv /\ ScreenInv /\ [Next]_vars => DialogInv' /\ ScreenInv'
  BY ScreenInductive
<1>3. ScreenInv => ScreenIsCoherent
  BY ScreenCoheres
<1>. QED  BY <1>1, <1>2, <1>3, PTL DEF Spec

-----------------------------------------------------------------------------
(***************************************************************************)
(* What the strip tells.                                                   *)
(***************************************************************************)
(* The fold as the table it is defined by: over the sets of places, from   *)
(* the last of them downwards.                                             *)
Latest(s) == CHOOSE i \in s : \A j \in s : i >= j
Tabled(seq, base, D, g) ==
    g = [s \in D |-> IF s = {} THEN base
                     ELSE Told(g[s \ {Latest(s)}], seq[Latest(s)])]

LEMMA LatestFits ==
    ASSUME NEW n \in Nat, NEW s \in SUBSET (1 .. n), s # {}
    PROVE  /\ Latest(s) \in s /\ \A j \in s : Latest(s) >= j
           /\ s \ {Latest(s)} \in SUBSET (1 .. Latest(s) - 1)
           /\ n \in s => Latest(s) = n
<1>1. PICK i \in s : \A j \in s : i >= j
  <2>. DEFINE Tops == {t \in Nat : \A j \in s : t >= j}
  <2>1. n \in Tops /\ Tops \in SUBSET Nat
    OBVIOUS
  <2>2. PICK t \in Tops : \A u \in Tops : t <= u
    <3>. HIDE DEF Tops
    <3>. QED  BY <2>1, LeastNumber
  <2>3. t \in Nat /\ \A j \in s : t >= j
    OBVIOUS
  <2>4. t \in s
    <3>1. SUFFICES ASSUME t \notin s PROVE FALSE
      OBVIOUS
    <3>2. PICK j \in s : j \in 1 .. n
      OBVIOUS
    <3>3. t - 1 \in Nat /\ ~(t <= t - 1)
      BY <2>3, <3>2
    <3>4. \A l \in s : t - 1 >= l
      BY <2>3, <3>1
    <3>5. t - 1 \in Tops
      BY <3>3, <3>4
    <3>. HIDE DEF Tops
    <3>. QED  BY <2>2, <3>3, <3>5
  <2>. QED  BY <2>3, <2>4
<1>2. Latest(s) \in s /\ \A j \in s : Latest(s) >= j
  BY <1>1 DEF Latest
<1>3. PICK l : l = Latest(s)
  OBVIOUS
<1>4. l \in 1 .. n /\ \A j \in s : l >= j /\ j \in 1 .. n
  BY <1>2, <1>3
<1>5. \A j \in s : j # l => j \in 1 .. l - 1
  BY <1>4
<1>6. s \ {l} \in SUBSET (1 .. l - 1)
  BY <1>5
<1>7. n \in s => l = n
  BY <1>4
<1>. QED  BY <1>2, <1>3, <1>6, <1>7

LEMMA TableGrows ==
    ASSUME NEW seq, NEW base, NEW k \in Nat, NEW g, Tabled(seq, base, SUBSET (1 .. k), g)
    PROVE  \E h : Tabled(seq, base, SUBSET (1 .. k + 1), h)
<1>. DEFINE next(s) == IF s = {} THEN base
                       ELSE Told(g[s \ {Latest(s)}], seq[Latest(s)])
            h == [s \in SUBSET (1 .. k + 1) |-> next(s)]
<1>1. \A s \in SUBSET (1 .. k) : s \in SUBSET (1 .. k + 1) /\ h[s] = g[s]
  <2>1. \A s \in SUBSET (1 .. k) : s \in SUBSET (1 .. k + 1)
    OBVIOUS
  <2>2. \A s \in SUBSET (1 .. k) : g[s] = next(s)
    BY DEF Tabled
  <2>. QED  BY <2>1, <2>2
<1>2. \A s \in SUBSET (1 .. k + 1) : s # {} => s \ {Latest(s)} \in SUBSET (1 .. k)
  <2>. SUFFICES ASSUME NEW s \in SUBSET (1 .. k + 1), s # {}
                PROVE  s \ {Latest(s)} \in SUBSET (1 .. k)
    OBVIOUS
  <2>1. k + 1 \in Nat
    OBVIOUS
  <2>2. Latest(s) \in s /\ s \ {Latest(s)} \in SUBSET (1 .. Latest(s) - 1)
    BY <2>1, LatestFits
  <2>3. PICK l : l = Latest(s) /\ l \in 1 .. k + 1
    BY <2>2
  <2>4. 1 .. l - 1 \in SUBSET (1 .. k)
    BY <2>3
  <2>. QED  BY <2>2, <2>3, <2>4
<1>3. \A s \in SUBSET (1 .. k + 1) :
          next(s) = IF s = {} THEN base
                    ELSE Told(h[s \ {Latest(s)}], seq[Latest(s)])
  BY <1>1, <1>2
<1>4. PICK D, u : D = SUBSET (1 .. k + 1) /\ u = h
  OBVIOUS
<1>5. u = [s \in D |-> next(s)]
  BY <1>4
<1>6. \A s \in D : next(s) = IF s = {} THEN base
                             ELSE Told(u[s \ {Latest(s)}], seq[Latest(s)])
  BY <1>3, <1>4
<1>. HIDE DEF next
<1>7. u = [s \in D |-> IF s = {} THEN base
                       ELSE Told(u[s \ {Latest(s)}], seq[Latest(s)])]
  BY <1>5, <1>6
<1>. HIDE DEF h
<1>. QED  BY <1>4, <1>7 DEF Tabled

LEMMA ToldTable ==
    ASSUME NEW seq, NEW base, NEW n \in Nat
    PROVE  \E g : Tabled(seq, base, SUBSET (1 .. n), g)
<1>. DEFINE Bad == {k \in Nat : ~ \E g : Tabled(seq, base, SUBSET (1 .. k), g)}
<1>. SUFFICES ASSUME Bad # {} PROVE FALSE
  OBVIOUS
<1>1. PICK k \in Bad : \A m \in Bad : k <= m
  BY LeastNumber
<1>2. k # 0
  <2>1. PICK D, g : D = SUBSET (1 .. 0) /\ g = [s \in D |-> base]
    OBVIOUS
  <2>2. \A s \in D : s = {}
    BY <2>1
  <2>3. g = [s \in D |-> IF s = {} THEN base
                         ELSE Told(g[s \ {Latest(s)}], seq[Latest(s)])]
    BY <2>1, <2>2
  <2>4. Tabled(seq, base, D, g)
    BY <2>3 DEF Tabled
  <2>. QED  BY <2>1, <2>4
<1>3. PICK m \in Nat : k = m + 1
  BY <1>2
<1>0. ~(m + 1 <= m)
  OBVIOUS
<1>4. m \notin Bad
  <2>. HIDE DEF Bad
  <2>. QED  BY <1>0, <1>1, <1>3
<1>5. PICK g : Tabled(seq, base, SUBSET (1 .. m), g)
  BY <1>4
<1>. QED  BY <1>3, <1>5, TableGrows

(* Item by item: the statuses after k of them.                             *)
Tells(seq, base, n, after) ==
    /\ after[0] = base
    /\ \A k \in 1 .. n : after[k] = Told(after[k - 1], seq[k])

LEMMA ToldOneByOne ==
    ASSUME NEW seq, NEW base, NEW n \in Nat, DOMAIN seq = 1 .. n
    PROVE  \E after : Tells(seq, base, n, after) /\ FoldLeft(Told, base, seq) = after[n]
<1>1. PICK f : Tabled(seq, base, SUBSET (1 .. n), f)
  BY ToldTable
<1>. DEFINE Up(u) == Tabled(seq, base, SUBSET (1 .. n), u)
<1>2. PICK g : g = CHOOSE u : Up(u)
  OBVIOUS
<1>3. Tabled(seq, base, SUBSET (1 .. n), g)
  BY <1>1, <1>2
<1>4. g = CHOOSE u : u = [s \in SUBSET (1 .. n) |->
                            IF s = {} THEN base
                            ELSE Told(u[s \ {Latest(s)}], seq[Latest(s)])]
  BY <1>2 DEF Tabled
<1>5. FoldLeft(Told, base, seq) = g[1 .. n]
  BY <1>4 DEF FoldLeft, MapThenFoldSet, Max, Latest
<1>6. PICK after : after = [k \in 0 .. n |-> g[1 .. k]]
  OBVIOUS
<1>7. \A s \in SUBSET (1 .. n) :
          g[s] = IF s = {} THEN base ELSE Told(g[s \ {Latest(s)}], seq[Latest(s)])
  BY <1>3 DEF Tabled
<1>8. after[0] = base
  <2>1. 1 .. 0 = {} /\ 0 \in 0 .. n /\ {} \in SUBSET (1 .. n)
    OBVIOUS
  <2>. QED  BY <1>6, <1>7, <2>1
<1>9. ASSUME NEW k \in 1 .. n
      PROVE  after[k] = Told(after[k - 1], seq[k])
  <2>0. k \in 1 .. k /\ k \in Nat /\ k \in 0 .. n /\ k - 1 \in 0 .. n
    OBVIOUS
  <2>1. 1 .. k \in SUBSET (1 .. n) /\ 1 .. k # {}
    BY <2>0
  <2>2. Latest(1 .. k) = k
    BY <2>0, <2>1, LatestFits
  <2>3. (1 .. k) \ {k} = 1 .. k - 1
    OBVIOUS
  <2>. QED  BY <1>6, <1>7, <2>0, <2>1, <2>2, <2>3
<1>10. after[n] = g[1 .. n]
  BY <1>6
<1>. QED  BY <1>5, <1>8, <1>9, <1>10 DEF Tells

(* A sorted list has exactly the members of its set.                       *)
LEMMA SortedHasAll ==
    ASSUME NEW set, set \in SUBSET Nat, IsFiniteSet(set)
    PROVE  /\ Cardinality(set) \in Nat
           /\ DOMAIN Sorted(set, <) = 1 .. Cardinality(set)
           /\ Range(Sorted(set, <)) = set
<1>1. PICK R : R = {w \in set \X set : w[1] < w[2]}
  OBVIOUS
<1>2. \A s, t \in set : <<s, t>> \in R <=> s < t
  BY <1>1
<1>3. \A s, t \in set : s \in Int /\ t \in Int
  OBVIOUS
<1>4. StrictOrder(R, set)
  BY <1>2, <1>3 DEF StrictOrder
<1>5. PICK n : n = Cardinality(set)
  OBVIOUS
<1>6. /\ n \in Nat
      /\ \A s \in set : Rank(R, set, s) \in 0 .. n - 1
      /\ \A s, t \in set : <<s, t>> \in R => Rank(R, set, s) < Rank(R, set, t)
      /\ \A i \in 1 .. n : \E s \in set : Rank(R, set, s) = i - 1
  <2>1. PICK x : x = set
    OBVIOUS
  <2>2. IsFiniteSet(x) /\ StrictOrder(R, x) /\ n = Cardinality(x)
    BY <1>4, <1>5, <2>1
  <2>3. /\ n \in Nat
        /\ \A s \in x : Rank(R, x, s) \in 0 .. n - 1
        /\ \A s, t \in x : <<s, t>> \in R => Rank(R, x, s) < Rank(R, x, t)
        /\ \A i \in 1 .. n : \E s \in x : Rank(R, x, s) = i - 1
    BY <2>2, RanksFill
  <2>. QED  BY <2>1, <2>3
<1>7. \A s \in set : Cardinality({t \in set : t < s}) = Rank(R, set, s)
  <2>1. \A s \in set : {t \in set : t < s} = Ahead(R, set, s)
    BY <1>2 DEF Ahead
  <2>. QED  BY <2>1 DEF Rank
<1>8. PICK l : l = Sorted(set, <)
  OBVIOUS
<1>9. l = [i \in 1 .. n |-> CHOOSE s \in set : Cardinality({t \in set : t < s}) = i - 1]
  BY <1>5, <1>8 DEF Sorted
<1>10. ASSUME NEW i \in 1 .. n
       PROVE  l[i] \in set /\ Rank(R, set, l[i]) = i - 1
  <2>. DEFINE Is(s) == Cardinality({t \in set : t < s}) = i - 1
  <2>1. l[i] = CHOOSE s \in set : Is(s)
    BY <1>9
  <2>2. \E s \in set : Is(s)
    BY <1>6, <1>7
  <2>3. \A s \in set : Is(s) => Rank(R, set, s) = i - 1
    BY <1>7
  <2>. HIDE DEF Is
  <2>. QED  BY <2>1, <2>2, <2>3
<1>11. ASSUME NEW s \in set
       PROVE  \E i \in 1 .. n : l[i] = s
  <2>1. PICK k \in 0 .. n - 1 : k = Rank(R, set, s)
    BY <1>6
  <2>2. PICK i \in 1 .. n : k = i - 1
    BY <1>6
  <2>3. l[i] \in set /\ Rank(R, set, l[i]) = Rank(R, set, s)
    BY <1>10, <2>1, <2>2
  <2>4. Rank(R, set, s) \in Int
    BY <1>6, <2>1
  <2>5. ~(<<s, l[i]>> \in R) /\ ~(<<l[i], s>> \in R)
    <3>1. \A a, b : a \in Int /\ b \in Int /\ a < b => a # b
      OBVIOUS
    <3>. QED  BY <1>6, <2>3, <2>4, <3>1
  <2>. QED  BY <1>4, <2>3, <2>5 DEF StrictOrder
<1>12. DOMAIN l = 1 .. n
  BY <1>9
<1>13. Range(l) = set
  BY <1>10, <1>11, <1>12 DEF Range
<1>. QED  BY <1>5, <1>6, <1>8, <1>12, <1>13

LEMMA RangeOfCat ==
    ASSUME NEW k, NEW l, IsSeq(k), IsSeq(l)
    PROVE  Range(k \o l) = Range(k) \cup Range(l)
<1>1. PICK a, b : k \in Seq(a) /\ l \in Seq(b)
  BY DEF IsSeq
<1>2. PICK set : set = a \cup b
  OBVIOUS
<1>3. k \in Seq(set) /\ l \in Seq(set)
  BY <1>1, <1>2
<1>4. PICK p, q \in Nat : p = Len(k) /\ q = Len(l) /\ DOMAIN k = 1 .. p /\ DOMAIN l = 1 .. q
  BY <1>3
<1>5. PICK c : c = k \o l
  OBVIOUS
<1>6. /\ DOMAIN c = 1 .. p + q
      /\ \A i \in 1 .. p : c[i] = k[i]
      /\ \A i \in p + 1 .. p + q : c[i] = l[i - p]
  BY <1>3, <1>4, <1>5
<1>7. \A i \in DOMAIN c : c[i] \in Range(k) \cup Range(l)
  <2>1. SUFFICES ASSUME NEW i \in 1 .. p + q PROVE c[i] \in Range(k) \cup Range(l)
    BY <1>6
  <2>2. CASE i <= p
    BY <1>4, <1>6, <2>2 DEF Range
  <2>3. CASE ~(i <= p)
    <3>1. i \in p + 1 .. p + q /\ i - p \in 1 .. q
      BY <1>4, <2>3
    <3>. QED  BY <1>4, <1>6, <3>1 DEF Range
  <2>. QED  BY <2>2, <2>3
<1>8. \A i \in 1 .. p : k[i] \in Range(c)
  <2>1. \A i \in 1 .. p : i \in DOMAIN c /\ c[i] = k[i]
    BY <1>4, <1>6
  <2>. QED  BY <2>1 DEF Range
<1>9. \A j \in 1 .. q : l[j] \in Range(c)
  <2>1. SUFFICES ASSUME NEW j \in 1 .. q PROVE l[j] \in Range(c)
    OBVIOUS
  <2>2. p + j \in p + 1 .. p + q /\ p + j \in 1 .. p + q /\ (p + j) - p = j
    BY <1>4
  <2>3. c[p + j] = l[j] /\ p + j \in DOMAIN c
    BY <1>6, <2>2
  <2>. QED  BY <2>3 DEF Range
<1>10. Range(c) \subseteq Range(k) \cup Range(l)
  BY <1>7 DEF Range
<1>11. Range(k) \subseteq Range(c) /\ Range(l) \subseteq Range(c)
  BY <1>4, <1>8, <1>9 DEF Range
<1>. QED  BY <1>5, <1>10, <1>11

(* The items of a diff: each tells a status of the new snapshot, and every *)
(* status that changed is told by one.                                     *)
OfMessage(it) == it.kind \in {"message_added", "delivery_changed"}
TellsNext(next, it) ==
    IF OfMessage(it) THEN it.id \in Message /\ it.change = next.messages[it.id].delivery
                     ELSE it.id \in Session /\ it.change = next.sessions[it.id].status

(* A list with something made of each of its members.                      *)
MadeOf(l, f, r) == r = [i \in DOMAIN l |-> f[l[i]]]
LEMMA MadeOfList ==
    ASSUME NEW n \in Nat, NEW l, DOMAIN l = 1 .. n, NEW f, NEW r, MadeOf(l, f, r)
    PROVE  IsSeq(r) /\ \A y : y \in Range(r) <=> \E x \in Range(l) : y = f[x]
<1>1. r = [i \in DOMAIN l |-> f[l[i]]] /\ r = [i \in 1 .. n |-> r[i]]
  BY DEF MadeOf
<1>2. IsSeq(r)
  BY <1>1, ListIsSeq
<1>. QED  BY <1>1, <1>2 DEF Range

LEMMA SessionsTold ==
    ASSUME FiniteTables, NEW prev, NEW next,
           NEW items, items = SessionItems(prev, next)
    PROVE  /\ IsSeq(items)
           /\ \A it \in Range(items) : ~OfMessage(it) /\ TellsNext(next, it)
           /\ \A s \in Session :
                  prev.sessions[s].status # next.sessions[s].status =>
                      \E it \in Range(items) : ~OfMessage(it) /\ it.id = s
<1>. DEFINE changed(s) == prev.sessions[s].status # next.sessions[s].status
            item(s) == IF s \notin Sessions(prev)
                       THEN Item("session_added", s, next.sessions[s].status)
                       ELSE Item("status_changed", s, next.sessions[s].status)
            out(s) == Item("session_removed", s, "absent")
            keeps == {s \in Sessions(next) : changed(s)}
            goes == Sessions(prev) \ Sessions(next)
            kept == Sorted(keeps, <)
            gone == Sorted(goes, <)
            first == [i \in DOMAIN kept |-> item(kept[i])]
            second == [i \in DOMAIN gone |-> out(gone[i])]
<1>1. /\ keeps \in SUBSET Session /\ goes \in SUBSET Session
      /\ \A s \in keeps : s \in Sessions(next)
      /\ \A s \in goes : s \notin Sessions(next)
      /\ \A s \in Session : changed(s) => s \in keeps \/ s \in goes
  BY DEF Sessions
<1>2. items = first \o second
  BY DEF SessionItems
<1>. HIDE DEF keeps, goes
<1>3. /\ Cardinality(keeps) \in Nat /\ DOMAIN kept = 1 .. Cardinality(keeps) /\ Range(kept) = keeps
      /\ Cardinality(goes) \in Nat /\ DOMAIN gone = 1 .. Cardinality(goes) /\ Range(gone) = goes
  <2>1. IsFiniteSet(keeps) /\ IsFiniteSet(goes)
    BY <1>1, FS_Subset DEF FiniteTables
  <2>2. keeps \in SUBSET Nat /\ goes \in SUBSET Nat
    BY <1>1, CockpitAssumption
  <2>3. /\ Cardinality(keeps) \in Nat /\ DOMAIN kept = 1 .. Cardinality(keeps)
        /\ Range(kept) = keeps
    BY <2>1, <2>2, SortedHasAll
  <2>4. /\ Cardinality(goes) \in Nat /\ DOMAIN gone = 1 .. Cardinality(goes)
        /\ Range(gone) = goes
    BY <2>1, <2>2, SortedHasAll
  <2>. QED  BY <2>3, <2>4
<1>. HIDE DEF kept, gone
<1>4. IsSeq(first) /\ Range(first) = {item(s) : s \in keeps}
  <2>1. PICK f : f = [s \in keeps |-> item(s)]
    OBVIOUS
  <2>2. \A i \in DOMAIN kept : kept[i] \in keeps
    BY <1>3 DEF Range
  <2>3. PICK r : r = first
    OBVIOUS
  <2>4. r = [i \in DOMAIN kept |-> f[kept[i]]]
    BY <2>1, <2>2, <2>3
  <2>. HIDE DEF first, item
  <2>5. IsSeq(r) /\ \A y : y \in Range(r) <=> \E x \in keeps : y = f[x]
    <3>1. PICK n, l : n = Cardinality(keeps) /\ l = kept
      OBVIOUS
    <3>2. n \in Nat /\ DOMAIN l = 1 .. n /\ Range(l) = keeps /\ MadeOf(l, f, r)
      BY <1>3, <2>4, <3>1 DEF MadeOf
    <3>3. IsSeq(r) /\ \A y : y \in Range(r) <=> \E x \in Range(l) : y = f[x]
      BY <3>2, MadeOfList
    <3>. QED  BY <3>2, <3>3
  <2>. QED  BY <2>1, <2>3, <2>5
<1>5. IsSeq(second) /\ Range(second) = {out(s) : s \in goes}
  <2>1. PICK f : f = [s \in goes |-> out(s)]
    OBVIOUS
  <2>2. \A i \in DOMAIN gone : gone[i] \in goes
    BY <1>3 DEF Range
  <2>3. PICK r : r = second
    OBVIOUS
  <2>4. r = [i \in DOMAIN gone |-> f[gone[i]]]
    BY <2>1, <2>2, <2>3
  <2>. HIDE DEF second, out
  <2>5. IsSeq(r) /\ \A y : y \in Range(r) <=> \E x \in goes : y = f[x]
    <3>1. PICK n, l : n = Cardinality(goes) /\ l = gone
      OBVIOUS
    <3>2. n \in Nat /\ DOMAIN l = 1 .. n /\ Range(l) = goes /\ MadeOf(l, f, r)
      BY <1>3, <2>4, <3>1 DEF MadeOf
    <3>3. IsSeq(r) /\ \A y : y \in Range(r) <=> \E x \in Range(l) : y = f[x]
      BY <3>2, MadeOfList
    <3>. QED  BY <3>2, <3>3
  <2>. QED  BY <2>1, <2>3, <2>5
<1>. HIDE DEF first, second
<1>6. IsSeq(items) /\ Range(items) = {item(s) : s \in keeps} \cup {out(s) : s \in goes}
  BY <1>2, <1>4, <1>5, CatIsSeq, RangeOfCat
<1>7. \A s \in keeps : /\ item(s).id = s /\ item(s).change = next.sessions[s].status
                       /\ ~OfMessage(item(s))
  BY DEF Item, OfMessage
<1>8. \A s \in goes : out(s).id = s /\ out(s).change = "absent" /\ ~OfMessage(out(s))
  BY DEF Item, OfMessage
<1>9. \A s \in goes : next.sessions[s].status = "absent"
  BY <1>1 DEF Sessions
<1>. HIDE DEF item, out
<1>10. \A s \in keeps : ~OfMessage(item(s)) /\ TellsNext(next, item(s))
  BY <1>1, <1>7 DEF TellsNext
<1>11. \A s \in goes : ~OfMessage(out(s)) /\ TellsNext(next, out(s))
  BY <1>1, <1>8, <1>9 DEF TellsNext
<1>12. \A s \in Session : changed(s) => \E it \in Range(items) : ~OfMessage(it) /\ it.id = s
  BY <1>1, <1>6, <1>7, <1>8
<1>. QED  BY <1>6, <1>10, <1>11, <1>12

LEMMA MessagesTold ==
    ASSUME FiniteTables, NEW prev, NEW next,
           NEW items, items = MessageItems(prev, next)
    PROVE  /\ IsSeq(items)
           /\ \A it \in Range(items) : OfMessage(it) /\ TellsNext(next, it)
           /\ \A m \in Messages(next) :
                  prev.messages[m].delivery # next.messages[m].delivery =>
                      \E it \in Range(items) : OfMessage(it) /\ it.id = m
<1>. DEFINE changed(m) == prev.messages[m].delivery # next.messages[m].delivery
            item(m) == Item(IF m \in Messages(prev) THEN "delivery_changed"
                                                    ELSE "message_added",
                            m, next.messages[m].delivery)
            keeps == {m \in Messages(next) : changed(m)}
            kept == Sorted(keeps, <)
            first == [i \in DOMAIN kept |-> item(kept[i])]
<1>1. keeps \in SUBSET Message /\ \A m \in Messages(next) : changed(m) => m \in keeps
  BY DEF Messages
<1>2. items = first
  BY DEF MessageItems
<1>. HIDE DEF keeps
<1>3. Cardinality(keeps) \in Nat /\ DOMAIN kept = 1 .. Cardinality(keeps) /\ Range(kept) = keeps
  <2>1. IsFiniteSet(keeps) /\ keeps \in SUBSET Nat
    BY <1>1, FS_Subset, CockpitAssumption DEF FiniteTables
  <2>. QED  BY <2>1, SortedHasAll
<1>. HIDE DEF kept
<1>4. IsSeq(first) /\ Range(first) = {item(m) : m \in keeps}
  <2>1. PICK f : f = [m \in keeps |-> item(m)]
    OBVIOUS
  <2>2. \A i \in DOMAIN kept : kept[i] \in keeps
    BY <1>3 DEF Range
  <2>3. PICK r : r = first
    OBVIOUS
  <2>4. r = [i \in DOMAIN kept |-> f[kept[i]]]
    BY <2>1, <2>2, <2>3
  <2>. HIDE DEF first, item
  <2>5. IsSeq(r) /\ \A y : y \in Range(r) <=> \E x \in keeps : y = f[x]
    <3>1. PICK n, l : n = Cardinality(keeps) /\ l = kept
      OBVIOUS
    <3>2. n \in Nat /\ DOMAIN l = 1 .. n /\ Range(l) = keeps /\ MadeOf(l, f, r)
      BY <1>3, <2>4, <3>1 DEF MadeOf
    <3>3. IsSeq(r) /\ \A y : y \in Range(r) <=> \E x \in Range(l) : y = f[x]
      BY <3>2, MadeOfList
    <3>. QED  BY <3>2, <3>3
  <2>. QED  BY <2>1, <2>3, <2>5
<1>. HIDE DEF first
<1>5. \A m \in keeps : /\ item(m).id = m /\ item(m).change = next.messages[m].delivery
                       /\ OfMessage(item(m))
  BY DEF Item, OfMessage
<1>. HIDE DEF item
<1>6. \A m \in keeps : OfMessage(item(m)) /\ TellsNext(next, item(m))
  BY <1>1, <1>5 DEF TellsNext
<1>7. \A m \in Messages(next) : changed(m) => \E it \in Range(items) : OfMessage(it) /\ it.id = m
  BY <1>1, <1>2, <1>4, <1>5
<1>. QED  BY <1>2, <1>4, <1>6, <1>7

(* The statuses after the first k items: the new ones where they tell it.  *)
SaysSession(items, k, s) == \E j \in 1 .. k : ~OfMessage(items[j]) /\ items[j].id = s
SaysMessage(items, k, m) == \E j \in 1 .. k : OfMessage(items[j]) /\ items[j].id = m
After(prev, next, items, k) ==
    [sessions |-> [s \in Session |-> IF SaysSession(items, k, s)
                                     THEN next.sessions[s].status ELSE prev.sessions[s].status],
     messages |-> [m \in Message |-> IF SaysMessage(items, k, m)
                                     THEN next.messages[m].delivery
                                     ELSE prev.messages[m].delivery]]

LEMMA OneMoreTold ==
    ASSUME NEW prev, NEW next, NEW items, NEW k \in Nat \ {0}, TellsNext(next, items[k])
    PROVE  Told(After(prev, next, items, k - 1), items[k]) = After(prev, next, items, k)
<1>1. \A s : /\ SaysSession(items, k, s) <=> \/ SaysSession(items, k - 1, s)
                                             \/ ~OfMessage(items[k]) /\ items[k].id = s
             /\ SaysMessage(items, k, s) <=> \/ SaysMessage(items, k - 1, s)
                                             \/ OfMessage(items[k]) /\ items[k].id = s
  <2>1. \A j : j \in 1 .. k <=> j \in 1 .. k - 1 \/ j = k
    OBVIOUS
  <2>. QED  BY <2>1 DEF SaysSession, SaysMessage
<1>2. PICK a, b, x, y, c, d :
          /\ a = After(prev, next, items, k - 1) /\ b = After(prev, next, items, k)
          /\ x = a.sessions /\ y = a.messages /\ c = b.sessions /\ d = b.messages
  OBVIOUS
<1>3. a = [sessions |-> x, messages |-> y] /\ b = [sessions |-> c, messages |-> d]
  BY <1>2 DEF After
<1>4. /\ DOMAIN x = Session /\ x = [s \in Session |-> x[s]]
      /\ DOMAIN y = Message /\ y = [m \in Message |-> y[m]]
      /\ c = [s \in Session |-> c[s]] /\ d = [m \in Message |-> d[m]]
      /\ \A s \in Session : /\ x[s] = IF SaysSession(items, k - 1, s)
                                       THEN next.sessions[s].status ELSE prev.sessions[s].status
                            /\ c[s] = IF SaysSession(items, k, s)
                                       THEN next.sessions[s].status ELSE prev.sessions[s].status
      /\ \A m \in Message : /\ y[m] = IF SaysMessage(items, k - 1, m)
                                       THEN next.messages[m].delivery
                                       ELSE prev.messages[m].delivery
                            /\ d[m] = IF SaysMessage(items, k, m)
                                       THEN next.messages[m].delivery
                                       ELSE prev.messages[m].delivery
  BY <1>2 DEF After
<1>5. PICK it, i : it = items[k] /\ i = it.id
  OBVIOUS
<1>6. CASE OfMessage(it)
  <2>1. i \in Message /\ it.change = next.messages[i].delivery
    BY <1>5, <1>6 DEF TellsNext
  <2>2. \A s \in Session : c[s] = x[s]
    BY <1>1, <1>4, <1>5, <1>6
  <2>3. c = x
    BY <1>4, <2>2
  <2>4. PICK e : e = [y EXCEPT ![i] = it.change]
    OBVIOUS
  <2>5. \A m \in Message : d[m] = e[m]
    BY <1>1, <1>4, <1>5, <1>6, <2>1, <2>4
  <2>6. d = e
    BY <1>4, <2>4, <2>5
  <2>7. Told(a, it) = [a EXCEPT !.messages[i] = it.change]
    BY <1>5, <1>6 DEF Told, OfMessage
  <2>8. Told(a, it) = [sessions |-> x, messages |-> e]
    BY <1>3, <2>4, <2>7
  <2>. QED  BY <1>2, <1>3, <1>5, <2>3, <2>6, <2>8
<1>7. CASE ~OfMessage(it)
  <2>1. i \in Session /\ it.change = next.sessions[i].status
    BY <1>5, <1>7 DEF TellsNext
  <2>2. \A m \in Message : d[m] = y[m]
    BY <1>1, <1>4, <1>5, <1>7
  <2>3. d = y
    BY <1>4, <2>2
  <2>4. PICK e : e = [x EXCEPT ![i] = it.change]
    OBVIOUS
  <2>5. \A s \in Session : c[s] = e[s]
    BY <1>1, <1>4, <1>5, <1>7, <2>1, <2>4
  <2>6. c = e
    BY <1>4, <2>4, <2>5
  <2>7. Told(a, it) = [a EXCEPT !.sessions[i] = it.change]
    BY <1>5, <1>7 DEF Told, OfMessage
  <2>8. Told(a, it) = [sessions |-> e, messages |-> y]
    BY <1>3, <2>4, <2>7
  <2>. QED  BY <1>2, <1>3, <1>5, <2>3, <2>6, <2>8
<1>. QED  BY <1>6, <1>7

LEMMA AllTold ==
    ASSUME NEW prev, NEW next, NEW items, NEW n \in Nat, DOMAIN items = 1 .. n,
           \A k \in 1 .. n : TellsNext(next, items[k])
    PROVE  FoldLeft(Told, States(prev), items) = After(prev, next, items, n)
<1>1. PICK base : base = States(prev)
  OBVIOUS
<1>2. PICK after : Tells(items, base, n, after) /\ FoldLeft(Told, base, items) = after[n]
  BY ToldOneByOne
<1>. DEFINE Bad == {k \in 0 .. n : after[k] # After(prev, next, items, k)}
<1>3. SUFFICES ASSUME Bad # {} PROVE FALSE
  BY <1>1, <1>2
<1>4. Bad \in SUBSET Nat
  OBVIOUS
<1>5. PICK k \in Bad : \A j \in Bad : k <= j
  <2>. HIDE DEF Bad
  <2>. QED  BY <1>3, <1>4, LeastNumber
<1>6. k # 0
  <2>1. \A s : ~SaysSession(items, 0, s) /\ ~SaysMessage(items, 0, s)
    BY DEF SaysSession, SaysMessage
  <2>2. After(prev, next, items, 0) = base
    BY <1>1, <2>1 DEF After, States
  <2>3. after[0] = base
    BY <1>2 DEF Tells
  <2>. QED  BY <2>2, <2>3
<1>7. k \in 1 .. n /\ k - 1 \in 0 .. n /\ ~(k <= k - 1) /\ k \in Nat \ {0}
  BY <1>6
<1>8. k - 1 \notin Bad
  <2>. HIDE DEF Bad
  <2>. QED  BY <1>5, <1>7
<1>9. after[k - 1] = After(prev, next, items, k - 1)
  BY <1>7, <1>8
<1>10. after[k] = Told(after[k - 1], items[k])
  BY <1>2, <1>7 DEF Tells
<1>11. after[k] = After(prev, next, items, k)
  BY <1>7, <1>9, <1>10, OneMoreTold
<1>. QED  BY <1>11

(* The end of the strip is what was appended to it last.                   *)
LEMMA LastOfIs ==
    ASSUME NEW l, IsSeq(l), NEW k \in Nat, k <= Len(l)
    PROVE  /\ Len(l) \in Nat /\ IsSeq(LastOf(l, k))
           /\ DOMAIN LastOf(l, k) = 1 .. k /\ Len(LastOf(l, k)) = k
           /\ \A i \in 1 .. k : LastOf(l, k)[i] = l[Len(l) - k + i]
<1>1. PICK set : l \in Seq(set)
  BY DEF IsSeq
<1>2. PICK n \in Nat : n = Len(l)
  BY <1>1
<1>3. LastOf(l, k) = SubSeq(l, n - k + 1, n)
  <2>1. CASE n > k
    BY <1>2, <2>1 DEF LastOf
  <2>2. CASE ~(n > k)
    <3>1. n - k + 1 = 1
      BY <1>2, <2>2
    <3>. QED  BY <1>2, <2>2, <3>1 DEF LastOf
  <2>. QED  BY <2>1, <2>2
<1>4. PICK a : a = n - k + 1
  OBVIOUS
<1>5. a \in 1 .. n + 1 /\ n - a + 1 = k /\ \A i \in 1 .. k : a + i - 1 = n - k + i
  BY <1>2, <1>4
<1>6. PICK r : r = SubSeq(l, a, n)
  OBVIOUS
<1>7. /\ r \in Seq(set) /\ Len(r) = n - a + 1 /\ DOMAIN r = 1 .. n - a + 1
      /\ \A i \in 1 .. n - a + 1 : r[i] = l[a + i - 1]
  BY <1>1, <1>2, <1>5, <1>6
<1>8. IsSeq(r)
  BY <1>7 DEF IsSeq
<1>. QED  BY <1>2, <1>3, <1>4, <1>5, <1>6, <1>7, <1>8

LEMMA NewEnd ==
    ASSUME NEW a, IsSeq(a), NEW items, IsSeq(items), NEW n, n = Len(items), n <= ActivityCap
    PROVE  /\ n \in Nat /\ DOMAIN items = 1 .. n
           /\ LastOf(AppendActivity(a, items), n) = items
<1>1. PICK set, set2 : a \in Seq(set) /\ items \in Seq(set2)
  BY DEF IsSeq
<1>2. PICK all : all = set \cup set2
  OBVIOUS
<1>3. a \in Seq(all) /\ items \in Seq(all)
  BY <1>1, <1>2
<1>4. PICK p \in Nat : p = Len(a)
  BY <1>3
<1>5. PICK l : l = a \o items
  OBVIOUS
<1>6. /\ n \in Nat /\ DOMAIN items = 1 .. n /\ l \in Seq(all) /\ Len(l) = p + n
      /\ \A i \in p + 1 .. p + n : l[i] = items[i - p]
  BY <1>3, <1>4, <1>5
<1>7. IsSeq(l)
  BY <1>6 DEF IsSeq
<1>8. PICK cap \in Nat : cap = ActivityCap
  BY CockpitAssumption
<1>9. PICK r : r = LastOf(l, cap)
  OBVIOUS
<1>10. AppendActivity(a, items) = r
  BY <1>5, <1>8, <1>9 DEF AppendActivity
<1>11. \A i \in 1 .. n : l[p + i] = items[i]
  <2>1. SUFFICES ASSUME NEW i \in 1 .. n PROVE l[p + i] = items[i]
    OBVIOUS
  <2>2. p + i \in p + 1 .. p + n /\ (p + i) - p = i
    BY <1>6
  <2>. QED  BY <1>6, <2>2
<1>12. IsSeq(r) /\ n <= Len(r) /\ \A i \in 1 .. n : r[Len(r) - n + i] = l[p + i]
  <2>1. CASE p + n <= cap
    <3>0. ~(Len(l) > cap)
      BY <1>6, <2>1
    <3>1. r = SubSeq(l, 1, Len(l))
      BY <1>9, <3>0 DEF LastOf
    <3>2. r = l
      BY <1>6, <3>1
    <3>3. Len(r) = p + n /\ n <= p + n /\ \A i \in 1 .. n : (p + n) - n + i = p + i
      BY <1>6, <3>2
    <3>. QED  BY <1>7, <3>2, <3>3
  <2>2. CASE ~(p + n <= cap)
    <3>1. cap <= Len(l)
      BY <1>6, <2>2
    <3>2. Len(r) = cap /\ \A i \in 1 .. cap : r[i] = l[Len(l) - cap + i]
      BY <1>7, <1>9, <3>1, LastOfIs
    <3>3. IsSeq(r)
      BY <1>7, <1>8, <1>9, CockpitAssumption, LastOfFits
    <3>4. ASSUME NEW i \in 1 .. n
          PROVE  r[cap - n + i] = l[p + i]
      <4>1. cap - n + i \in 1 .. cap /\ (p + n) - cap + (cap - n + i) = p + i
        BY <1>6, <1>8
      <4>. QED  BY <1>6, <3>2, <4>1
    <3>. QED  BY <1>8, <3>2, <3>3, <3>4
  <2>. QED  BY <2>1, <2>2
<1>13. PICK e : e = LastOf(r, n)
  OBVIOUS
<1>14. IsSeq(e) /\ DOMAIN e = 1 .. n /\ \A i \in 1 .. n : e[i] = items[i]
  <2>1. IsSeq(e) /\ DOMAIN e = 1 .. n /\ \A i \in 1 .. n : e[i] = r[Len(r) - n + i]
    BY <1>6, <1>12, <1>13, LastOfIs
  <2>. QED  BY <1>11, <1>12, <2>1
<1>15. e = items
  <2>1. PICK x : e \in Seq(x)
    BY <1>14 DEF IsSeq
  <2>2. e = [i \in DOMAIN e |-> e[i]] /\ items = [i \in DOMAIN items |-> items[i]]
    BY <1>3, <2>1
  <2>. QED  BY <1>6, <1>14, <2>2
<1>. QED  BY <1>6, <1>10, <1>13, <1>15

LEMMA DiffTells ==
    ASSUME FiniteTables, NEW prev, NEW next,
           NEW items, items = DiffSnapshots(prev, next)
    PROVE  /\ IsSeq(items)
           /\ \A it \in Range(items) : TellsNext(next, it)
           /\ \A s \in Session :
                  prev.sessions[s].status # next.sessions[s].status =>
                      \E it \in Range(items) : ~OfMessage(it) /\ it.id = s
           /\ \A m \in Messages(next) :
                  prev.messages[m].delivery # next.messages[m].delivery =>
                      \E it \in Range(items) : OfMessage(it) /\ it.id = m
<1>1. PICK k, l : k = SessionItems(prev, next) /\ l = MessageItems(prev, next)
  OBVIOUS
<1>2. items = k \o l
  BY <1>1 DEF DiffSnapshots
<1>3. IsSeq(k) /\ IsSeq(l)
  BY <1>1, SessionsTold, MessagesTold
<1>4. IsSeq(items) /\ Range(items) = Range(k) \cup Range(l)
  BY <1>2, <1>3, CatIsSeq, RangeOfCat
<1>5. \A it \in Range(items) : TellsNext(next, it)
  <2>1. \A it \in Range(k) : TellsNext(next, it)
    BY <1>1, SessionsTold
  <2>2. \A it \in Range(l) : TellsNext(next, it)
    BY <1>1, MessagesTold
  <2>. QED  BY <1>4, <2>1, <2>2
<1>6. ASSUME NEW s \in Session, prev.sessions[s].status # next.sessions[s].status
      PROVE  \E it \in Range(items) : ~OfMessage(it) /\ it.id = s
  <2>1. \E it \in Range(k) : ~OfMessage(it) /\ it.id = s
    BY <1>1, <1>6, SessionsTold
  <2>. QED  BY <1>4, <2>1
<1>7. ASSUME NEW m \in Messages(next), prev.messages[m].delivery # next.messages[m].delivery
      PROVE  \E it \in Range(items) : OfMessage(it) /\ it.id = m
  <2>1. \E it \in Range(l) : OfMessage(it) /\ it.id = m
    BY <1>1, <1>7, MessagesTold
  <2>. QED  BY <1>4, <2>1
<1>. QED  BY <1>4, <1>5, <1>6, <1>7

LEMMA SnapshotTold ==
    ASSUME FiniteTables, NEW prev, NEW next, NEW a, IsSeq(a),
           NEW items, items = DiffSnapshots(prev, next), Len(items) <= ActivityCap,
           NEW told,
           told = FoldLeft(Told, States(prev), LastOf(AppendActivity(a, items), Len(items)))
    PROVE  /\ told.sessions = States(next).sessions
           /\ \A m \in Messages(next) : told.messages[m] = next.messages[m].delivery
<1>1. PICK n : n = Len(items)
  OBVIOUS
<1>2. IsSeq(items) /\ \A it \in Range(items) : TellsNext(next, it)
  BY DiffTells
<1>3. n \in Nat /\ DOMAIN items = 1 .. n /\ LastOf(AppendActivity(a, items), n) = items
  BY <1>1, <1>2, NewEnd
<1>4. \A k \in 1 .. n : TellsNext(next, items[k])
  BY <1>2, <1>3 DEF Range
<1>5. told = After(prev, next, items, n)
  BY <1>1, <1>3, <1>4, AllTold
<1>6. ASSUME NEW s \in Session
      PROVE  told.sessions[s] = next.sessions[s].status
  <2>1. CASE prev.sessions[s].status = next.sessions[s].status
    BY <1>5, <2>1 DEF After
  <2>2. CASE prev.sessions[s].status # next.sessions[s].status
    <3>1. \E it \in Range(items) : ~OfMessage(it) /\ it.id = s
      BY <2>2, DiffTells
    <3>2. SaysSession(items, n, s)
      BY <1>3, <3>1 DEF SaysSession, Range
    <3>. QED  BY <1>5, <3>2 DEF After
  <2>. QED  BY <2>1, <2>2
<1>7. ASSUME NEW m \in Messages(next)
      PROVE  told.messages[m] = next.messages[m].delivery
  <2>0. m \in Message
    BY DEF Messages
  <2>1. CASE prev.messages[m].delivery = next.messages[m].delivery
    BY <1>5, <2>0, <2>1 DEF After
  <2>2. CASE prev.messages[m].delivery # next.messages[m].delivery
    <3>1. \E it \in Range(items) : OfMessage(it) /\ it.id = m
      BY <2>2, DiffTells
    <3>2. SaysMessage(items, n, m)
      BY <1>3, <3>1 DEF SaysMessage, Range
    <3>. QED  BY <1>5, <2>0, <3>2 DEF After
  <2>. QED  BY <2>1, <2>2
<1>8. told.sessions = States(next).sessions
  <2>1. PICK x : x = told.sessions
    OBVIOUS
  <2>2. x = [s \in Session |-> x[s]]
    BY <1>5, <2>1 DEF After
  <2>3. States(next).sessions = [s \in Session |-> next.sessions[s].status]
    BY DEF States
  <2>4. \A s \in Session : x[s] = next.sessions[s].status
    BY <1>6, <2>1
  <2>. QED  BY <2>1, <2>2, <2>3, <2>4
<1>. QED  BY <1>7, <1>8

LEMMA StripStep ==
    ASSUME FiniteTables, ViewFits(v), [Next]_vars,
           pc = "messages", why # "start", pc' = "draw"
    PROVE  LET items == DiffSnapshots(v.snapshot, v'.snapshot)
               new == LastOf(v'.activity, Len(items))
               told == FoldLeft(Told, States(v.snapshot), new)
           IN  Len(items) <= ActivityCap =>
                   /\ told.sessions = States(v'.snapshot).sessions
                   /\ \A m \in Messages(v'.snapshot) :
                          told.messages[m] = v'.snapshot.messages[m].delivery
<1>1. LoadMessages
  <2>1. ~UNCHANGED vars
    BY DEF vars
  <2>2. ~(Draw \/ EndOfInput \/ TakeKey \/ LoadAttach \/ Suspend \/ Mutate
          \/ MutationFails \/ LoadSessions \/ LoadRefused \/ Tick \/ Detach)
    BY DEF Draw, EndOfInput, TakeKey, LoadAttach, Suspend, Mutate, MutationFails,
       LoadSessions, LoadRefused, Tick, Detach
  <2>3. ~StoreThrows
    BY DEF StoreThrows, EndWith
  <2>4. ~(RendererUp \/ SuspendAfterClose \/ CtrlC \/ Others \/ \E k \in Typed : PressKey(k))
    BY DEF RendererUp, SuspendAfterClose, CtrlC, Others, PressKey
  <2>. QED  BY <2>1, <2>2, <2>3, <2>4 DEF Next, Loop
<1>2. PICK w, r, snap : /\ w = v /\ r = v'
                        /\ snap = [sessions |-> loaded, messages |-> ReadMessages(store)]
  OBVIOUS
<1>3. r = ApplySnapshot(w, snap)
  BY <1>1, <1>2 DEF LoadMessages
<1>4. WholeView(w) /\ IsSeq(w.activity)
  BY <1>2 DEF ViewFits, ShortStrip
<1>5. PICK items : items = DiffSnapshots(w.snapshot, snap)
  OBVIOUS
<1>6. r.snapshot = snap /\ r.activity = AppendActivity(w.activity, items)
  BY <1>3, <1>4, <1>5 DEF WholeView, ApplySnapshot
<1>7. PICK prev, a : prev = w.snapshot /\ a = w.activity
  OBVIOUS
<1>8. PICK told : told = FoldLeft(Told, States(prev),
                                  LastOf(AppendActivity(a, items), Len(items)))
  OBVIOUS
<1>9. ASSUME Len(items) <= ActivityCap
      PROVE  /\ told.sessions = States(snap).sessions
             /\ \A m \in Messages(snap) : told.messages[m] = snap.messages[m].delivery
  BY <1>4, <1>5, <1>7, <1>8, <1>9, SnapshotTold
<1>. QED  BY <1>2, <1>5, <1>6, <1>7, <1>8, <1>9

(* For finitely many Sessions and Messages and a strip of any length: what *)
(* diffSnapshots puts on the activity strip in a refresh of CockpitApp, in *)
(* its order, turns the statuses on screen before into those on screen     *)
(* after, whatever other processes did between the two.                    *)
THEOREM StripIsComplete == FiniteTables => (Spec => StripTellsEveryChange)
<1>. SUFFICES ASSUME FiniteTables PROVE Spec => StripTellsEveryChange
  OBVIOUS
<1>1. Init => DialogInv /\ ScreenInv
  BY InitDialog, InitScreen
<1>2. DialogInv /\ ScreenInv /\ [Next]_vars => DialogInv' /\ ScreenInv'
  BY ScreenInductive
<1>3. DialogInv /\ ScreenInv /\ [Next]_vars =>
          [pc = "messages" /\ why # "start" /\ pc' = "draw" =>
               LET items == DiffSnapshots(v.snapshot, v'.snapshot)
                   new == LastOf(v'.activity, Len(items))
                   told == FoldLeft(Told, States(v.snapshot), new)
               IN  Len(items) <= ActivityCap =>
                       /\ told.sessions = States(v'.snapshot).sessions
                       /\ \A m \in Messages(v'.snapshot) :
                              told.messages[m] = v'.snapshot.messages[m].delivery]_<<pc, v>>
  BY StripStep DEF ScreenInv
<1>. QED  BY <1>1, <1>2, <1>3, PTL DEF Spec, StripTellsEveryChange
=============================================================================
