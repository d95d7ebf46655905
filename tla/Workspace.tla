----------------------------- MODULE Workspace -----------------------------
(***************************************************************************)
(* The processes that share one Workspace's state.db: CLI commands, the    *)
(* MCP server of each agent, the TUI.  Each runs one operation of @asem/ops *)
(* at a time; an operation is a chain of store statements, multiplexer     *)
(* commands and file writes with an await between any two of them, so the  *)
(* operations of different processes interleave at exactly these points.   *)
(*                                                                         *)
(* op[p].row is the row an operation read (or prepared) before an await    *)
(* and uses after it.                                                      *)
(***************************************************************************)
EXTENDS Store

CONSTANTS
    Proc,       \* processes that run operations
    Kinds,      \* bound: the operations called in an instance
    Faults,     \* bound: the failures that happen in an instance
    Probed,     \* statuses the LivenessProbe port may report; {} as shipped
    AutoStart,  \* muxes whose create sequence starts the launch script
    QuietClose  \* muxes whose close sequence ignores its own errors

OperationKinds == {"create", "init", "close", "delete", "send", "report",
                   "refresh"}

FaultKinds ==
    {"create",   \* the mux create sequence fails, perhaps half way
     "script",   \* launch.sh cannot be written
     "run",      \* run_in_pane, before_paste or the prompt paste fails
     "cleanup",  \* the best-effort close after a failed create fails
     "busy",     \* a write of the store throws (SQLITE_BUSY)
     "files",    \* init-session cannot write its token or pointer file
     "close",    \* the mux close sequence fails and the pane lives on
     "send",     \* the mux send sequence fails though the pane is there
     "pane",     \* somebody kills a pane
     "crash"}    \* a process dies between two steps

ASSUME WorkspaceAssumption ==
    /\ Kinds \subseteq OperationKinds
    /\ Faults \subseteq FaultKinds
    /\ Probed \subseteq Statuses
    /\ AutoStart \subseteq Mux
    /\ QuietClose \subseteq Mux
    /\ "none" \notin AutoStart

VARIABLES
    rows,      \* table sessions
    msgs,      \* table messages
    drawn,     \* number of message UUIDs drawn
    ids,       \* session UUIDs drawn
    pane,      \* the pane of each session, owned by asem or borrowed
    script,    \* sessions whose launch.sh is on disk
    launched,  \* sessions whose launch.sh was run in their pane
    typed,     \* messages whose text reached the target pane
    tokens,    \* sessions whose .asem/tokens file is on disk
    pointer,   \* .asem/current-session.json of the worktree
    op         \* what each process is doing

storeVars == <<rows, msgs>>
idVars == <<drawn, ids>>
paneVars == <<pane, script, launched, typed>>
fileVars == <<tokens, pointer>>
vars == <<rows, msgs, drawn, ids, pane, script, launched, typed,
          tokens, pointer, op>>

(* "open": nothing runs in it; "boot": about to run launch.sh by itself;   *)
(* "host": a pane that init-session found and asem does not own.           *)
PaneStates == {"absent", "open", "boot", "agent", "host"}
OwnPane == {"open", "boot", "agent"}

CreateSteps == {"c_mux", "c_script", "c_run", "c_insert"}
InitSteps == {"i_insert", "i_token", "i_pointer"}
CloseSteps == {"x_mux", "x_update"}
SendSteps == {"s_insert", "s_notify", "s_delivered", "s_failed"}
StoreSteps == {"c_insert", "i_insert", "x_update", "d_tx", "s_insert",
               "s_delivered", "s_failed", "r_probe"}
Steps == CreateSteps \cup InitSteps \cup CloseSteps \cup {"d_tx"}
             \cup SendSteps \cup {"r_probe"}

Operation == [pc   : Steps \cup {"idle"},
              id   : SessionId \cup {Null},
              row  : Row,
              from : SessionId \cup {Null},
              kind : {"message", "report"},
              msg  : 0 .. MaxMessages]

Idle == [pc |-> "idle", id |-> Null, row |-> EmptyRow, from |-> Null,
         kind |-> "message", msg |-> 0]

TypeOK ==
    /\ rows \in [SessionId -> Row]
    /\ msgs \in [MessageId -> Message]
    /\ drawn \in 0 .. MaxMessages
    /\ ids \subseteq SessionId
    /\ pane \in [SessionId -> PaneStates]
    /\ script \subseteq SessionId
    /\ launched \subseteq SessionId
    /\ typed \subseteq MessageId
    /\ tokens \subseteq SessionId
    /\ pointer \in SessionId \cup {Null}
    /\ op \in [Proc -> Operation]
    /\ \A p \in Proc :
           /\ op[p].pc # "idle" => op[p].id \in SessionId
           /\ op[p].pc \in SendSteps => op[p].msg \in MessageId

Init ==
    /\ rows = [i \in SessionId |-> EmptyRow]
    /\ msgs = [m \in MessageId |-> EmptyMessage]
    /\ drawn = 0
    /\ ids = {}
    /\ pane = [i \in SessionId |-> "absent"]
    /\ script = {}
    /\ launched = {}
    /\ typed = {}
    /\ tokens = {}
    /\ pointer = Null
    /\ op = [p \in Proc |-> Idle]

----------------------------------------------------------------------------

Start(p, kind, o) ==
    /\ kind \in Kinds
    /\ op[p].pc = "idle"
    /\ op' = [op EXCEPT ![p] = o]

At(p, step) == op[p].pc = step
Goto(p, step) == op' = [op EXCEPT ![p].pc = step]
Finish(p) == op' = [op EXCEPT ![p] = Idle]

(* mutant: identifiers are used again once their row is deleted            *)
NotInUse(i) == ~Stored(rows, i) /\ \A p \in Proc : op[p].id # i

(* idGenerator.nextId: a UUID nobody ever had.                             *)
Fresh(i) == i \notin ids

DrawId(i) == Fresh(i) /\ ids' = ids \cup {i}

Parents == {i \in SessionId : Stored(rows, i)} \cup {Null}

SetPane(i, state) == pane' = [pane EXCEPT ![i] = state]

----------------------------------------------------------------------------
(* createSession.  The checks up to the UUID only read: they are one step, *)
(* for whatever they saw may have changed by the next step anyway.         *)

CreateBegin(p) ==
    \E i \in SessionId, n \in Name, par \in Parents, m \in Mux \ {"none"} :
        /\ ~NameTaken(rows, n)
        /\ DrawId(i)
        /\ Start(p, "create", [Idle EXCEPT !.pc = "c_mux", !.id = i,
                                           !.row = RunningRow(n, par, m, TRUE)])
        /\ UNCHANGED <<storeVars, drawn, paneVars, fileVars>>

(* The zellij layout runs launch.sh from the start, before it is written.  *)
MuxCreate(p) ==
    /\ At(p, "c_mux")
    /\ SetPane(op[p].id, IF op[p].row.mux \in AutoStart THEN "boot" ELSE "open")
    /\ Goto(p, "c_script")
    /\ UNCHANGED <<storeVars, idVars, script, launched, typed, fileVars>>

(* The cleanup of this step runs with the variables known before create;   *)
(* every close sequence names a mux ref, which is not one of them: it      *)
(* fails to interpolate and closes nothing.                                *)
MuxCreateFail(p) ==
    /\ At(p, "c_mux")
    /\ "create" \in Faults
    /\ \E state \in {"absent", "open"} : SetPane(op[p].id, state)
    /\ Finish(p)
    /\ UNCHANGED <<storeVars, idVars, script, launched, typed, fileVars>>

WriteScript(p) ==
    /\ At(p, "c_script")
    /\ script' = script \cup {op[p].id}
    /\ Goto(p, "c_run")
    /\ UNCHANGED <<storeVars, idVars, pane, launched, typed, fileVars>>

(* writeFileAtomic rejects: nothing catches it.                            *)
WriteScriptFail(p) ==
    /\ At(p, "c_script")
    /\ "script" \in Faults
    /\ Finish(p)
    /\ UNCHANGED <<storeVars, idVars, paneVars, fileVars>>

(* mutant: run_in_pane's errors are ignored                                *)
RunUnchecked(p) ==
    LET i == op[p].id IN
    /\ At(p, "c_run")
    /\ IF pane[i] = "open"
         THEN SetPane(i, "agent") /\ launched' = launched \cup {i}
         ELSE UNCHANGED <<pane, launched>>
    /\ Goto(p, "c_insert")
    /\ UNCHANGED <<storeVars, idVars, script, typed, fileVars>>

(* run_in_pane and, for paste_prompt agents, before_paste and send.        *)
RunInPane(p) ==
    LET i == op[p].id IN
    /\ At(p, "c_run")
    /\ IF op[p].row.mux \in AutoStart
         THEN UNCHANGED <<pane, launched>>
         ELSE /\ pane[i] # "absent"
              /\ SetPane(i, "agent")
              /\ launched' = launched \cup {i}
    /\ Goto(p, "c_insert")
    /\ UNCHANGED <<storeVars, idVars, script, typed, fileVars>>

(* mutant: the failed create leaves its pane behind                        *)
NoCleanup(i) == UNCHANGED pane

(* attemptMuxCleanup, with the mux refs known                              *)
Cleanup(i) ==
    \/ SetPane(i, "absent")
    \/ "cleanup" \in Faults /\ UNCHANGED pane

RunFail(p) ==
    LET i == op[p].id IN
    /\ At(p, "c_run")
    /\ "run" \in Faults \/ pane[i] = "absent"
    /\ \/ UNCHANGED launched
       \/ pane[i] # "absent" /\ launched' = launched \cup {i}
    /\ Cleanup(i)
    /\ Finish(p)
    /\ UNCHANGED <<storeVars, idVars, script, typed, fileVars>>

InsertRow(p) ==
    /\ At(p, "c_insert")
    /\ ~NameTaken(rows, op[p].row.name)
    /\ rows' = InsertSession(rows, op[p].id, op[p].row)
    /\ Finish(p)
    /\ UNCHANGED <<msgs, idVars, paneVars, fileVars>>

InsertConflict(p) ==
    /\ At(p, "c_insert")
    /\ NameTaken(rows, op[p].row.name)
    /\ Cleanup(op[p].id)
    /\ Finish(p)
    /\ UNCHANGED <<storeVars, idVars, script, launched, typed, fileVars>>

Create(p) ==
    \/ CreateBegin(p) \/ MuxCreate(p) \/ MuxCreateFail(p)
    \/ WriteScript(p) \/ WriteScriptFail(p) \/ RunInPane(p) \/ RunFail(p)
    \/ InsertRow(p) \/ InsertConflict(p)

(* What the pane of an AutoStart mux does on its own: bash launch.sh, once. *)
PaneBoot(i) ==
    /\ pane[i] = "boot"
    /\ IF i \in script
         THEN SetPane(i, "agent") /\ launched' = launched \cup {i}
         ELSE SetPane(i, "open") /\ UNCHANGED launched
    /\ UNCHANGED <<storeVars, idVars, script, typed, fileVars, op>>

PaneDies(i) ==
    /\ "pane" \in Faults
    /\ pane[i] \in OwnPane
    /\ SetPane(i, "absent")
    /\ UNCHANGED <<storeVars, idVars, script, launched, typed, fileVars, op>>

----------------------------------------------------------------------------
(* initSession: registers the pane it is called from, which it borrows.    *)

InitBegin(p) ==
    \E i \in SessionId, n \in Name, par \in Parents, m \in Mux :
        /\ DrawId(i)
        /\ SetPane(i, IF m = "none" THEN "absent" ELSE "host")
        /\ Start(p, "init", [Idle EXCEPT !.pc = "i_insert", !.id = i,
                                         !.row = RunningRow(n, par, m, FALSE)])
        /\ UNCHANGED <<storeVars, drawn, script, launched, typed, fileVars>>

InitInsert(p) ==
    /\ At(p, "i_insert")
    /\ ~NameTaken(rows, op[p].row.name)
    /\ rows' = InsertSession(rows, op[p].id, op[p].row)
    /\ Goto(p, "i_token")
    /\ UNCHANGED <<msgs, idVars, paneVars, fileVars>>

InitConflict(p) ==
    /\ At(p, "i_insert")
    /\ NameTaken(rows, op[p].row.name)
    /\ Finish(p)
    /\ UNCHANGED <<storeVars, idVars, paneVars, fileVars>>

InitToken(p) ==
    /\ At(p, "i_token")
    /\ tokens' = tokens \cup {op[p].id}
    /\ Goto(p, "i_pointer")
    /\ UNCHANGED <<storeVars, idVars, paneVars, pointer>>

InitPointer(p) ==
    /\ At(p, "i_pointer")
    /\ pointer' = op[p].id
    /\ Finish(p)
    /\ UNCHANGED <<storeVars, idVars, paneVars, tokens>>

(* mutant: a token file that cannot be written is ignored                  *)
InitFilesIgnored(p) ==
    /\ op[p].pc \in {"i_token", "i_pointer"}
    /\ "files" \in Faults
    /\ IF At(p, "i_token") THEN Goto(p, "i_pointer") ELSE Finish(p)
    /\ UNCHANGED <<storeVars, idVars, paneVars, fileVars>>

InitFilesFail(p) ==
    /\ op[p].pc \in {"i_token", "i_pointer"}
    /\ "files" \in Faults
    /\ Finish(p)
    /\ UNCHANGED <<storeVars, idVars, paneVars, fileVars>>

InitSession(p) ==
    \/ InitBegin(p) \/ InitInsert(p) \/ InitConflict(p)
    \/ InitToken(p) \/ InitPointer(p) \/ InitFilesFail(p)

----------------------------------------------------------------------------
(* closeSession                                                            *)

(* mutant: the owner of the pane is not asked for                          *)
PaneMayLive(row) == Live(row)

NeedsMuxClose(row) == Live(row) /\ row.owned

CloseBegin(p) ==
    \E i \in SessionId :
        /\ Stored(rows, i)
        /\ rows[i].status # "closed"
        /\ Start(p, "close",
                 [Idle EXCEPT !.id = i, !.row = rows[i],
                              !.pc = IF NeedsMuxClose(rows[i])
                                       THEN "x_mux" ELSE "x_update"])
        /\ UNCHANGED <<storeVars, idVars, paneVars, fileVars>>

CloseMux(p) ==
    /\ At(p, "x_mux")
    /\ pane[op[p].id] # "absent"
    /\ SetPane(op[p].id, "absent")
    /\ Goto(p, "x_update")
    /\ UNCHANGED <<storeVars, idVars, script, launched, typed, fileVars>>

(* The sequence fails when the pane is gone already.  Only force, or a     *)
(* sequence that ignores its errors, goes on to the update.                *)
CloseMuxFail(p) ==
    /\ At(p, "x_mux")
    /\ pane[op[p].id] = "absent" \/ "close" \in Faults
    /\ \/ Goto(p, "x_update")
       \/ op[p].row.mux \notin QuietClose /\ Finish(p)
    /\ UNCHANGED <<storeVars, idVars, paneVars, fileVars>>

(* The update has no guard on the status the row has by now.               *)
CloseUpdate(p) ==
    /\ At(p, "x_update")
    /\ rows' = UpdateClosed(rows, op[p].id)
    /\ Finish(p)
    /\ UNCHANGED <<msgs, idVars, paneVars, fileVars>>

Close(p) ==
    CloseBegin(p) \/ CloseMux(p) \/ CloseMuxFail(p) \/ CloseUpdate(p)

----------------------------------------------------------------------------
(* deleteSession, with force                                               *)

(* mutant: a live Session is not refused                                   *)
DeleteAnyBegin(p) ==
    \E i \in SessionId :
        /\ Stored(rows, i)
        /\ Start(p, "delete", [Idle EXCEPT !.pc = "d_tx", !.id = i,
                                           !.row = rows[i]])
        /\ UNCHANGED <<storeVars, idVars, paneVars, fileVars>>

DeleteBegin(p) ==
    \E i \in SessionId :
        /\ Stored(rows, i)
        /\ ~Live(rows[i])
        /\ Start(p, "delete", [Idle EXCEPT !.pc = "d_tx", !.id = i,
                                           !.row = rows[i]])
        /\ UNCHANGED <<storeVars, idVars, paneVars, fileVars>>

(* begin ... commit: one step, which reads no status again                 *)
DeleteTx(p) ==
    LET i == op[p].id IN
    /\ At(p, "d_tx")
    /\ msgs' = DeleteRelatedMessages(msgs, i)
    /\ rows' = DeleteSession(OrphanChildren(rows, i), i)
    /\ Finish(p)
    /\ UNCHANGED <<idVars, paneVars, fileVars>>

Delete(p) == DeleteBegin(p) \/ DeleteTx(p)

----------------------------------------------------------------------------
(* sendMessage, reportParent and the deliver they share                    *)

Deliver(p, called, from, to, kind) ==
    /\ drawn < MaxMessages
    /\ drawn' = drawn + 1
    /\ Start(p, called, [Idle EXCEPT !.pc = "s_insert", !.id = to,
                                     !.row = rows[to], !.from = from,
                                     !.kind = kind, !.msg = drawn + 1])
    /\ UNCHANGED <<storeVars, ids, paneVars, fileVars>>

(* A null sender is the operator or an anonymous human.                    *)
SendBegin(p) ==
    \E from \in Parents, to \in SessionId, kind \in {"message", "report"} :
        Stored(rows, to) /\ Deliver(p, "send", from, to, kind)

ReportBegin(p) ==
    \E from \in SessionId :
        /\ Stored(rows, from)
        /\ rows[from].parent \in SessionId
        /\ Stored(rows, rows[from].parent)
        /\ Deliver(p, "report", from, rows[from].parent, "report")

SendInsert(p) ==
    /\ At(p, "s_insert")
    /\ msgs' = InsertMessage(msgs, op[p].msg,
                   [from |-> op[p].from, to |-> op[p].id,
                    kind |-> op[p].kind, delivery |-> "undelivered"])
    /\ IF op[p].row.mux = "none" THEN Finish(p) ELSE Goto(p, "s_notify")
    /\ UNCHANGED <<rows, idVars, paneVars, fileVars>>

Notify(p) ==
    /\ At(p, "s_notify")
    /\ pane[op[p].id] # "absent"
    /\ typed' = typed \cup {op[p].msg}
    /\ Goto(p, "s_delivered")
    /\ UNCHANGED <<storeVars, idVars, pane, script, launched, fileVars>>

(* mutant: a failed sequence counts as delivered                           *)
NotifyIgnoringErrors(p) ==
    /\ At(p, "s_notify")
    /\ pane[op[p].id] = "absent" \/ "send" \in Faults
    /\ Goto(p, "s_delivered")
    /\ UNCHANGED <<storeVars, idVars, paneVars, fileVars>>

(* mutant: a failed sequence ends the operation                            *)
NotifyGivesUp(p) ==
    /\ At(p, "s_notify")
    /\ pane[op[p].id] = "absent" \/ "send" \in Faults
    /\ Finish(p)
    /\ UNCHANGED <<storeVars, idVars, paneVars, fileVars>>

(* No pane, no template, or a sequence that fails before or after typing.  *)
NotifyFail(p) ==
    /\ At(p, "s_notify")
    /\ pane[op[p].id] = "absent" \/ "send" \in Faults
    /\ \/ UNCHANGED typed
       \/ pane[op[p].id] # "absent" /\ typed' = typed \cup {op[p].msg}
    /\ Goto(p, "s_failed")
    /\ UNCHANGED <<storeVars, idVars, pane, script, launched, fileVars>>

MarkDelivered(p) ==
    /\ At(p, "s_delivered")
    /\ msgs' = MarkMessage(msgs, op[p].msg, "delivered")
    /\ Finish(p)
    /\ UNCHANGED <<rows, idVars, paneVars, fileVars>>

MarkFailed(p) ==
    /\ At(p, "s_failed")
    /\ msgs' = MarkMessage(msgs, op[p].msg, "failed")
    /\ Finish(p)
    /\ UNCHANGED <<rows, idVars, paneVars, fileVars>>

Send(p) ==
    \/ SendBegin(p) \/ ReportBegin(p) \/ SendInsert(p) \/ Notify(p)
    \/ NotifyFail(p) \/ MarkDelivered(p) \/ MarkFailed(p)

----------------------------------------------------------------------------
(* refreshLiveness of one row, as listSessions and getSession call it      *)

RefreshBegin(p) ==
    \E i \in SessionId :
        /\ Live(rows[i])
        /\ Start(p, "refresh", [Idle EXCEPT !.pc = "r_probe", !.id = i,
                                            !.row = rows[i]])
        /\ UNCHANGED <<storeVars, idVars, paneVars, fileVars>>

RefreshSame(p) ==
    /\ At(p, "r_probe")
    /\ Finish(p)
    /\ UNCHANGED <<storeVars, idVars, paneVars, fileVars>>

(* mutant: an unchanged status is written back too                         *)
RefreshAlways(p) ==
    /\ At(p, "r_probe")
    /\ \E status \in Probed \cup {op[p].row.status} :
           rows' = UpdateStatus(rows, op[p].id, status)
    /\ Finish(p)
    /\ UNCHANGED <<msgs, idVars, paneVars, fileVars>>

RefreshWrite(p) ==
    /\ At(p, "r_probe")
    /\ \E status \in Probed \ {op[p].row.status} :
           rows' = UpdateStatus(rows, op[p].id, status)
    /\ Finish(p)
    /\ UNCHANGED <<msgs, idVars, paneVars, fileVars>>

Refresh(p) == RefreshBegin(p) \/ RefreshSame(p) \/ RefreshWrite(p)

----------------------------------------------------------------------------

(* A write waits five seconds for its turn, then throws out of the         *)
(* operation: nothing catches it, a pane already made is left alone.       *)
Busy(p) ==
    /\ op[p].pc \in StoreSteps
    /\ "busy" \in Faults
    /\ Finish(p)
    /\ UNCHANGED <<storeVars, idVars, paneVars, fileVars>>

(* A process dies; what it had done stays done.                            *)
Crash(p) ==
    /\ "crash" \in Faults
    /\ op[p].pc # "idle"
    /\ Finish(p)
    /\ UNCHANGED <<storeVars, idVars, paneVars, fileVars>>

Act(p) ==
    \/ Create(p) \/ InitSession(p) \/ Close(p) \/ Delete(p)
    \/ Send(p) \/ Refresh(p) \/ Busy(p)

Next ==
    \/ \E p \in Proc : Act(p) \/ Crash(p)
    \/ \E i \in SessionId : PaneBoot(i) \/ PaneDies(i)

Spec == Init /\ [][Next]_vars

(* The event loop of a process resumes an operation whose await settled;   *)
(* multiplexer commands are assumed to end, one way or the other.  Nobody  *)
(* is obliged to call an operation.                                        *)
Resume(p) == op[p].pc # "idle" /\ Act(p)

FairSpec == Spec /\ \A p \in Proc : WF_vars(Resume(p))

----------------------------------------------------------------------------
(* Safety                                                                  *)

(* A pane that asem made belongs to a Session that list_sessions shows as  *)
(* live or to a create still under way: failed creates and closes clean    *)
(* up (create-session.ts, close-session.ts).                               *)
PaneAccounted ==
    \A i \in SessionId :
        pane[i] \in OwnPane =>
            \/ Live(rows[i])
            \/ \E p \in Proc : op[p].id = i /\ op[p].pc \in CreateSteps

(* A row that create-session wrote stands for a Session whose launch       *)
(* script was run, or is about to be (create-session.ts, step 9).          *)
RowsWereLaunched ==
    \A i \in SessionId :
        Stored(rows, i) /\ rows[i].owned => i \in launched \/ pane[i] = "boot"

(* Parent links never form a cycle, though parents are deleted while       *)
(* children are being created and links to the deleted survive: every set  *)
(* of Sessions has a member whose parent is outside.  A cycle would drop   *)
(* its Sessions from the TUI's tree (resolveParent, DeleteTx, tree.ts).    *)
TreeAcyclic ==
    \A S \in SUBSET {i \in SessionId : Stored(rows, i)} :
        S # {} => \E i \in S : rows[i].parent \notin S

(* The current-session pointer always finds its token file, whenever       *)
(* init-session dies or fails (FileCurrentSessionResolver).                *)
PointerHasToken == pointer # Null => pointer \in tokens

(* A Message is marked delivered only when its text reached the pane of    *)
(* its target (deliver, recordDeliveryError).                              *)
DeliveredWasTyped ==
    \A m \in MessageId : msgs[m].delivery = "delivered" => m \in typed

----------------------------------------------------------------------------
(* Action properties                                                       *)

Inserting(p) == op[p].pc \in CreateSteps \cup {"i_insert"}

Gone(i) ==
    /\ i \in ids
    /\ ~Stored(rows, i)
    /\ \A p \in Proc : op[p].id = i => ~Inserting(p)

(* A Session that was deleted, or whose create failed, never gets a row    *)
(* again, whatever close, delete, refresh or send still do with the row    *)
(* they read (create-session.ts, updateSession).                           *)
NoRowComesBack == [][\A i \in SessionId : Gone(i) => Gone(i)']_vars

(* No step removes the row of a Session that is live at that moment,       *)
(* though deleteSession tests the status some steps earlier.               *)
OnlyDeadRowsDeleted ==
    [][\A i \in SessionId :
          Stored(rows, i) /\ ~Stored(rows', i) => ~Live(rows[i])]_vars

(* A closed Session is never shown live again, though a refresh writes the *)
(* status it derived from a row read before the close (refreshLiveness,    *)
(* with a probe that answers the status of the row it is given).           *)
ClosedIsFinal ==
    [][\A i \in SessionId :
          rows[i].status = "closed" => rows'[i].status \in {"closed", "absent"}]_vars

(* asem never closes a pane it borrowed (init-session.ts, close-session.ts). *)
HostPaneUntouched ==
    [][\A i \in SessionId : pane[i] = "host" => pane'[i] = "host"]_vars

----------------------------------------------------------------------------
(* Liveness                                                                *)

(* A recorded Message whose target has a transport gets its outcome, unless *)
(* it is deleted first (deliver).                                          *)
OutcomeRecorded ==
    \A m \in MessageId :
        (\E p \in Proc : op[p].msg = m /\ At(p, "s_notify"))
            ~> msgs[m].delivery \in {"delivered", "failed", "absent"}

----------------------------------------------------------------------------
(* What the repository says and the code does not do                       *)

NoDanglingParent ==
    \A i \in SessionId :
        rows[i].parent # Null => Stored(rows, rows[i].parent)

NoDanglingMessage ==
    \A m \in MessageId :
        msgs[m].delivery # "absent" =>
            /\ Stored(rows, msgs[m].to)
            /\ msgs[m].from # Null => Stored(rows, msgs[m].from)

(* "Forced parent deletion clears direct child parent links"               *)
(* (delete-session.ts:21), and the Messages from and to a Session go with  *)
(* it: nothing in the tables names a Session that is gone.                 *)
NothingDangles == NoDanglingParent /\ NoDanglingMessage

(* "do not re-stamp closed_at" (close-session.ts:145).                     *)
ClosedStampedOnce ==
    [][\A i \in SessionId :
          rows[i].closedAt # 0 /\ Stored(rows', i)
              => rows'[i].closedAt = rows[i].closedAt]_vars
=============================================================================
