-------------------------- MODULE Workspace_Proofs --------------------------
(***************************************************************************)
(* Theorems about Workspace, for any number of processes, Sessions, names, *)
(* multiplexers and Messages, and any faults.                              *)
(***************************************************************************)
EXTENDS Workspace, TLAPS

OpOK ==
    /\ op \in [Proc -> Operation]
    /\ \A p \in Proc :
           /\ op[p].pc # "idle" => op[p].id \in SessionId
           /\ op[p].pc \in SendSteps => op[p].msg \in MessageId

(* What a step does to op keeps its type.                                  *)
LEMMA OpTypes ==
    ASSUME OpOK, NEW p \in Proc
    PROVE  /\ Idle \in Operation
           /\ op[p] \in Operation
           /\ Finish(p) => OpOK'
           /\ \A step \in Steps :
                  /\ Goto(p, step)
                  /\ ~At(p, "idle")
                  /\ step \in SendSteps => op[p].pc \in SendSteps
                  => OpOK'
           /\ \A kind, o :
                  /\ Start(p, kind, o)
                  /\ o \in Operation
                  /\ o.id \in SessionId
                  /\ o.pc \in SendSteps => o.msg \in MessageId
                  => OpOK'
<1>1. Idle \in Operation
  BY StoreAssumption DEF Idle, Operation, Row, EmptyRow
<1>2. op[p] \in Operation
  BY DEF OpOK
<1>3. Finish(p) => OpOK'
  BY <1>1 DEF OpOK, Finish, Idle, SendSteps
<1>4. ASSUME NEW step \in Steps, Goto(p, step), ~At(p, "idle"),
             step \in SendSteps => op[p].pc \in SendSteps
      PROVE  OpOK'
  <2>1. [op[p] EXCEPT !.pc = step] \in Operation
    BY <1>2 DEF Operation
  <2>2. op' = [op EXCEPT ![p] = [op[p] EXCEPT !.pc = step]]
    BY <1>4 DEF Goto
  <2>3. op' \in [Proc -> Operation]
    BY <2>1, <2>2 DEF OpOK
  <2>4. /\ op'[p].id = op[p].id
        /\ op'[p].msg = op[p].msg
        /\ op'[p].pc = step
    BY <2>2, <1>2 DEF OpOK, Operation
  <2>5. \A q \in Proc \ {p} : op'[q] = op[q]
    BY <2>2 DEF OpOK
  <2>. QED  BY <2>3, <2>4, <2>5, <1>4 DEF OpOK, At
<1>5. ASSUME NEW kind, NEW o, Start(p, kind, o), o \in Operation,
             o.id \in SessionId, o.pc \in SendSteps => o.msg \in MessageId
      PROVE  OpOK'
  BY <1>5 DEF OpOK, Start
<1>. QED  BY <1>1, <1>2, <1>3, <1>4, <1>5

(* The statements of the store keep the types of its two tables.           *)
LEMMA StoreTypes ==
    ASSUME NEW table \in [SessionId -> Row], NEW i \in SessionId
    PROVE  /\ \A row \in Row : InsertSession(table, i, row) \in [SessionId -> Row]
           /\ \A s \in Statuses : UpdateStatus(table, i, s) \in [SessionId -> Row]
           /\ UpdateClosed(table, i) \in [SessionId -> Row]
           /\ DeleteSession(table, i) \in [SessionId -> Row]
           /\ OrphanChildren(table, i) \in [SessionId -> Row]
<1>1. ASSUME NEW row \in Row
      PROVE  InsertSession(table, i, row) \in [SessionId -> Row]
  BY DEF InsertSession
<1>2. ASSUME NEW s \in Statuses
      PROVE  UpdateStatus(table, i, s) \in [SessionId -> Row]
  BY DEF UpdateStatus, Row
<1>3. UpdateClosed(table, i) \in [SessionId -> Row]
  <2>1. NextStamp(table[i].closedAt) \in 0 .. MaxStamps
    BY StoreAssumption DEF NextStamp, Row
  <2>. QED  BY <2>1 DEF UpdateClosed, Row, Statuses
<1>4. EmptyRow \in Row
  BY StoreAssumption DEF EmptyRow, Row
<1>5. DeleteSession(table, i) \in [SessionId -> Row]
  BY <1>4 DEF DeleteSession
<1>6. OrphanChildren(table, i) \in [SessionId -> Row]
  BY DEF OrphanChildren, Row
<1>. QED  BY <1>1, <1>2, <1>3, <1>5, <1>6

LEMMA MessageTypes ==
    ASSUME NEW table \in [MessageId -> Message], NEW m \in MessageId
    PROVE  /\ \A msg \in Message : InsertMessage(table, m, msg) \in [MessageId -> Message]
           /\ \A d \in {"delivered", "failed"} :
                  MarkMessage(table, m, d) \in [MessageId -> Message]
           /\ \A i \in SessionId :
                  DeleteRelatedMessages(table, i) \in [MessageId -> Message]
<1>1. EmptyMessage \in Message
  BY DEF EmptyMessage, Message
<1>2. \A i \in SessionId : DeleteRelatedMessages(table, i) \in [MessageId -> Message]
  BY <1>1 DEF DeleteRelatedMessages
<1>3. \A msg \in Message : InsertMessage(table, m, msg) \in [MessageId -> Message]
  BY DEF InsertMessage
<1>4. \A d \in {"delivered", "failed"} :
          MarkMessage(table, m, d) \in [MessageId -> Message]
  BY DEF MarkMessage, Message
<1>. QED  BY <1>2, <1>3, <1>4

(* Every action keeps the types.  Where an action leaves a group of        *)
(* variables alone nothing is to be shown for it; OpTypes has the rest of  *)
(* what op needs.                                                          *)
TablesOK ==
    /\ rows \in [SessionId -> Row]
    /\ msgs \in [MessageId -> Message]
    /\ drawn \in 0 .. MaxMessages
    /\ ids \subseteq SessionId

WorldOK ==
    /\ pane \in [SessionId -> PaneStates]
    /\ script \subseteq SessionId
    /\ launched \subseteq SessionId
    /\ typed \subseteq MessageId
    /\ tokens \subseteq SessionId
    /\ pointer \in SessionId \cup {Null}

LEMMA TypeParts == TypeOK <=> TablesOK /\ WorldOK /\ OpOK
  BY DEF TypeOK, TablesOK, WorldOK, OpOK

LEMMA CreateTypes ==
    ASSUME TablesOK, WorldOK, OpOK, NEW p \in Proc, Create(p)
    PROVE  TablesOK' /\ WorldOK' /\ OpOK'
<1>. USE DEF TablesOK, WorldOK
<1>1. CASE CreateBegin(p)
  <2>1. PICK i \in SessionId, n \in Name, par \in Parents, m \in Mux \ {"none"} :
            /\ DrawId(i)
            /\ Start(p, "create", [Idle EXCEPT !.pc = "c_mux", !.id = i,
                                     !.row = RunningRow(n, par, m, TRUE)])
    BY <1>1 DEF CreateBegin
  <2>2. RunningRow(n, par, m, TRUE) \in Row
    BY StoreAssumption DEF RunningRow, Row, Parents, Statuses, LiveStatuses
  <2>3. OpOK'
    <3>. DEFINE o == [Idle EXCEPT !.pc = "c_mux", !.id = i,
                                  !.row = RunningRow(n, par, m, TRUE)]
    <3>1. o \in Operation /\ o.id \in SessionId /\ o.pc = "c_mux"
      BY <2>2, OpTypes DEF Operation, Idle, Steps, CreateSteps
    <3>2. Start(p, "create", o)
      BY <2>1
    <3>. HIDE DEF o
    <3>. QED  BY <3>1, <3>2, OpTypes DEF SendSteps
  <2>4. TablesOK' /\ WorldOK'
    BY <1>1, <2>1 DEF CreateBegin, DrawId, storeVars, paneVars, fileVars
  <2>. QED  BY <2>3, <2>4
<1>2. CASE MuxCreate(p)
  <2>1. OpOK'
    BY <1>2, OpTypes DEF MuxCreate, At, Steps, CreateSteps, SendSteps
  <2>. QED  BY <1>2, <2>1
            DEF MuxCreate, SetPane, PaneStates, storeVars, idVars, fileVars
<1>3. CASE MuxCreateFail(p)
  <2>1. OpOK'
    BY <1>3, OpTypes DEF MuxCreateFail
  <2>. QED  BY <1>3, <2>1
            DEF MuxCreateFail, SetPane, PaneStates, storeVars, idVars, fileVars
<1>4. CASE WriteScript(p)
  <2>1. OpOK'
    BY <1>4, OpTypes DEF WriteScript, At, Steps, CreateSteps, SendSteps
  <2>2. op[p].id \in SessionId
    BY <1>4 DEF WriteScript, At, OpOK
  <2>. QED  BY <1>4, <2>1, <2>2 DEF WriteScript, storeVars, idVars, fileVars
<1>5. CASE WriteScriptFail(p)
  BY <1>5, OpTypes DEF WriteScriptFail, storeVars, idVars, paneVars, fileVars
<1>6. CASE RunInPane(p)
  <2>1. OpOK'
    BY <1>6, OpTypes DEF RunInPane, At, Steps, CreateSteps, SendSteps
  <2>2. op[p].id \in SessionId
    BY <1>6 DEF RunInPane, At, OpOK
  <2>. QED  BY <1>6, <2>1, <2>2
            DEF RunInPane, SetPane, PaneStates, storeVars, idVars, fileVars
<1>7. CASE RunFail(p)
  <2>1. OpOK'
    BY <1>7, OpTypes DEF RunFail
  <2>2. op[p].id \in SessionId
    BY <1>7 DEF RunFail, At, OpOK
  <2>. QED  BY <1>7, <2>1, <2>2
            DEF RunFail, Cleanup, SetPane, PaneStates, storeVars, idVars, fileVars
<1>8. CASE InsertRow(p)
  <2>1. OpOK'
    BY <1>8, OpTypes DEF InsertRow
  <2>2. op[p].row \in Row
    BY OpTypes DEF Operation
  <2>. QED  BY <1>8, <2>1, <2>2
            DEF InsertRow, InsertSession, idVars, paneVars, fileVars
<1>9. CASE InsertConflict(p)
  <2>1. OpOK'
    BY <1>9, OpTypes DEF InsertConflict
  <2>. QED  BY <1>9, <2>1
            DEF InsertConflict, Cleanup, SetPane, PaneStates, storeVars, idVars,
                fileVars
<1>. QED  BY <1>1, <1>2, <1>3, <1>4, <1>5, <1>6, <1>7, <1>8, <1>9 DEF Create

LEMMA InitTypes ==
    ASSUME TablesOK, WorldOK, OpOK, NEW p \in Proc, InitSession(p)
    PROVE  TablesOK' /\ WorldOK' /\ OpOK'
<1>. USE DEF TablesOK, WorldOK
<1>1. CASE InitBegin(p)
  <2>1. PICK i \in SessionId, n \in Name, par \in Parents, m \in Mux :
            /\ DrawId(i)
            /\ SetPane(i, IF m = "none" THEN "absent" ELSE "host")
            /\ Start(p, "init", [Idle EXCEPT !.pc = "i_insert", !.id = i,
                                   !.row = RunningRow(n, par, m, FALSE)])
    BY <1>1 DEF InitBegin
  <2>2. RunningRow(n, par, m, FALSE) \in Row
    BY StoreAssumption DEF RunningRow, Row, Parents, Statuses, LiveStatuses
  <2>3. OpOK'
    <3>. DEFINE o == [Idle EXCEPT !.pc = "i_insert", !.id = i,
                                  !.row = RunningRow(n, par, m, FALSE)]
    <3>1. o \in Operation /\ o.id \in SessionId /\ o.pc = "i_insert"
      BY <2>2, OpTypes DEF Operation, Idle, Steps, InitSteps
    <3>2. Start(p, "init", o)
      BY <2>1
    <3>. HIDE DEF o
    <3>. QED  BY <3>1, <3>2, OpTypes DEF SendSteps
  <2>4. TablesOK' /\ WorldOK'
    BY <1>1, <2>1 DEF InitBegin, DrawId, SetPane, PaneStates, storeVars, fileVars
  <2>. QED  BY <2>3, <2>4
<1>2. CASE InitInsert(p)
  <2>1. OpOK'
    BY <1>2, OpTypes DEF InitInsert, At, Steps, InitSteps, SendSteps
  <2>2. op[p].row \in Row
    BY OpTypes DEF Operation
  <2>. QED  BY <1>2, <2>1, <2>2
            DEF InitInsert, InsertSession, idVars, paneVars, fileVars
<1>3. CASE InitConflict(p)
  BY <1>3, OpTypes DEF InitConflict, storeVars, idVars, paneVars, fileVars
<1>4. CASE InitToken(p)
  <2>1. OpOK'
    BY <1>4, OpTypes DEF InitToken, At, Steps, InitSteps, SendSteps
  <2>2. op[p].id \in SessionId
    BY <1>4 DEF InitToken, At, OpOK
  <2>. QED  BY <1>4, <2>1, <2>2 DEF InitToken, storeVars, idVars, paneVars
<1>5. CASE InitPointer(p)
  <2>1. OpOK'
    BY <1>5, OpTypes DEF InitPointer
  <2>2. op[p].id \in SessionId
    BY <1>5 DEF InitPointer, At, OpOK
  <2>. QED  BY <1>5, <2>1, <2>2 DEF InitPointer, storeVars, idVars, paneVars
<1>6. CASE InitFilesFail(p)
  BY <1>6, OpTypes DEF InitFilesFail, storeVars, idVars, paneVars, fileVars
<1>. QED  BY <1>1, <1>2, <1>3, <1>4, <1>5, <1>6 DEF InitSession

LEMMA CloseTypes ==
    ASSUME TablesOK, WorldOK, OpOK, NEW p \in Proc, Close(p)
    PROVE  TablesOK' /\ WorldOK' /\ OpOK'
<1>. USE DEF TablesOK, WorldOK
<1>1. CASE CloseBegin(p)
  <2>1. PICK i \in SessionId :
            Start(p, "close", [Idle EXCEPT !.id = i, !.row = rows[i],
                                 !.pc = IF NeedsMuxClose(rows[i])
                                          THEN "x_mux" ELSE "x_update"])
    BY <1>1 DEF CloseBegin
  <2>2. OpOK'
    <3>. DEFINE o == [Idle EXCEPT !.id = i, !.row = rows[i],
                                  !.pc = IF NeedsMuxClose(rows[i])
                                           THEN "x_mux" ELSE "x_update"]
    <3>1. o \in Operation /\ o.id \in SessionId /\ o.pc \in CloseSteps
      BY OpTypes DEF Operation, Idle, Steps, CloseSteps
    <3>2. Start(p, "close", o)
      BY <2>1
    <3>. HIDE DEF o
    <3>. QED  BY <3>1, <3>2, OpTypes DEF SendSteps, CloseSteps
  <2>. QED  BY <1>1, <2>2 DEF CloseBegin, storeVars, idVars, paneVars, fileVars
<1>2. CASE CloseMux(p)
  <2>1. OpOK'
    BY <1>2, OpTypes DEF CloseMux, At, Steps, CloseSteps, SendSteps
  <2>. QED  BY <1>2, <2>1
            DEF CloseMux, SetPane, PaneStates, storeVars, idVars, fileVars
<1>3. CASE CloseMuxFail(p)
  <2>1. OpOK'
    BY <1>3, OpTypes DEF CloseMuxFail, At, Steps, CloseSteps, SendSteps
  <2>. QED  BY <1>3, <2>1 DEF CloseMuxFail, storeVars, idVars, paneVars, fileVars
<1>4. CASE CloseUpdate(p)
  <2>1. OpOK'
    BY <1>4, OpTypes DEF CloseUpdate
  <2>2. op[p].id \in SessionId
    BY <1>4 DEF CloseUpdate, At, OpOK
  <2>3. rows' \in [SessionId -> Row]
    BY <1>4, <2>2, StoreTypes DEF CloseUpdate
  <2>. QED  BY <1>4, <2>1, <2>3 DEF CloseUpdate, idVars, paneVars, fileVars
<1>. QED  BY <1>1, <1>2, <1>3, <1>4 DEF Close

LEMMA DeleteTypes ==
    ASSUME TablesOK, WorldOK, OpOK, NEW p \in Proc, Delete(p)
    PROVE  TablesOK' /\ WorldOK' /\ OpOK'
<1>. USE DEF TablesOK, WorldOK
<1>1. CASE DeleteBegin(p)
  <2>1. PICK i \in SessionId :
            Start(p, "delete", [Idle EXCEPT !.pc = "d_tx", !.id = i,
                                            !.row = rows[i]])
    BY <1>1 DEF DeleteBegin
  <2>2. OpOK'
    <3>. DEFINE o == [Idle EXCEPT !.pc = "d_tx", !.id = i, !.row = rows[i]]
    <3>1. o \in Operation /\ o.id \in SessionId /\ o.pc = "d_tx"
      BY OpTypes DEF Operation, Idle, Steps
    <3>2. Start(p, "delete", o)
      BY <2>1
    <3>. HIDE DEF o
    <3>. QED  BY <3>1, <3>2, OpTypes DEF SendSteps
  <2>. QED  BY <1>1, <2>2 DEF DeleteBegin, storeVars, idVars, paneVars, fileVars
<1>2. CASE DeleteTx(p)
  <2>1. OpOK'
    BY <1>2, OpTypes DEF DeleteTx
  <2>2. op[p].id \in SessionId
    BY <1>2 DEF DeleteTx, At, OpOK
  <2>3. rows' \in [SessionId -> Row]
    BY <1>2, <2>2, StoreTypes DEF DeleteTx
  <2>4. msgs' \in [MessageId -> Message]
    <3>1. EmptyMessage \in Message
      BY DEF EmptyMessage, Message
    <3>. QED  BY <3>1, <1>2 DEF DeleteTx, DeleteRelatedMessages
  <2>. QED  BY <1>2, <2>1, <2>3, <2>4 DEF DeleteTx, idVars, paneVars, fileVars
<1>. QED  BY <1>1, <1>2 DEF Delete

LEMMA SendTypes ==
    ASSUME TablesOK, WorldOK, OpOK, NEW p \in Proc, Send(p)
    PROVE  TablesOK' /\ WorldOK' /\ OpOK'
<1>. USE DEF TablesOK, WorldOK
<1>1. ASSUME NEW called, NEW from \in SessionId \cup {Null}, NEW to \in SessionId,
             NEW kind \in {"message", "report"},
             Deliver(p, called, from, to, kind)
      PROVE  TablesOK' /\ WorldOK' /\ OpOK'
  <2>1. OpOK'
    <3>. DEFINE o == [Idle EXCEPT !.pc = "s_insert", !.id = to, !.row = rows[to],
                                  !.from = from, !.kind = kind,
                                  !.msg = drawn + 1]
    <3>1. drawn + 1 \in MessageId
      BY <1>1, StoreAssumption DEF Deliver, MessageId
    <3>2. drawn + 1 \in 0 .. MaxMessages
      BY <3>1, StoreAssumption DEF MessageId
    <3>3. /\ o \in Operation /\ o.id \in SessionId
          /\ o.msg = drawn + 1
      BY <3>2, OpTypes DEF Operation, Idle, Steps, SendSteps
    <3>4. Start(p, called, o)
      BY <1>1 DEF Deliver
    <3>. HIDE DEF o
    <3>. QED  BY <3>1, <3>3, <3>4, OpTypes
  <2>2. drawn' \in 0 .. MaxMessages
    BY <1>1, StoreAssumption DEF Deliver
  <2>. QED  BY <1>1, <2>1, <2>2 DEF Deliver, storeVars, paneVars, fileVars
<1>2. CASE SendBegin(p)
  BY <1>1, <1>2 DEF SendBegin, Parents
<1>3. CASE ReportBegin(p)
  BY <1>1, <1>3 DEF ReportBegin
<1>4. CASE SendInsert(p)
  <2>1. OpOK'
    BY <1>4, OpTypes DEF SendInsert, At, Steps, SendSteps
  <2>2. op[p].msg \in MessageId /\ op[p].id \in SessionId
    BY <1>4 DEF SendInsert, At, OpOK, SendSteps
  <2>3. [from |-> op[p].from, to |-> op[p].id, kind |-> op[p].kind,
         delivery |-> "undelivered"] \in Message
    BY <2>2, OpTypes DEF Operation, Message
  <2>4. msgs' \in [MessageId -> Message]
    BY <1>4, <2>2, <2>3, MessageTypes DEF SendInsert
  <2>. QED  BY <1>4, <2>1, <2>4 DEF SendInsert, idVars, paneVars, fileVars
<1>5. CASE Notify(p)
  <2>1. OpOK'
    BY <1>5, OpTypes DEF Notify, At, Steps, SendSteps
  <2>2. op[p].msg \in MessageId
    BY <1>5 DEF Notify, At, OpOK, SendSteps
  <2>. QED  BY <1>5, <2>1, <2>2 DEF Notify, storeVars, idVars, fileVars
<1>6. CASE NotifyFail(p)
  <2>1. OpOK'
    BY <1>6, OpTypes DEF NotifyFail, At, Steps, SendSteps
  <2>2. op[p].msg \in MessageId
    BY <1>6 DEF NotifyFail, At, OpOK, SendSteps
  <2>. QED  BY <1>6, <2>1, <2>2 DEF NotifyFail, storeVars, idVars, fileVars
<1>7. CASE MarkDelivered(p)
  <2>1. OpOK'
    BY <1>7, OpTypes DEF MarkDelivered
  <2>2. op[p].msg \in MessageId
    BY <1>7 DEF MarkDelivered, At, OpOK, SendSteps
  <2>3. msgs' \in [MessageId -> Message]
    BY <1>7, <2>2, MessageTypes DEF MarkDelivered
  <2>. QED  BY <1>7, <2>1, <2>3 DEF MarkDelivered, idVars, paneVars, fileVars
<1>8. CASE MarkFailed(p)
  <2>1. OpOK'
    BY <1>8, OpTypes DEF MarkFailed
  <2>2. op[p].msg \in MessageId
    BY <1>8 DEF MarkFailed, At, OpOK, SendSteps
  <2>3. msgs' \in [MessageId -> Message]
    BY <1>8, <2>2, MessageTypes DEF MarkFailed
  <2>. QED  BY <1>8, <2>1, <2>3 DEF MarkFailed, idVars, paneVars, fileVars
<1>. QED  BY <1>2, <1>3, <1>4, <1>5, <1>6, <1>7, <1>8 DEF Send

LEMMA RefreshTypes ==
    ASSUME TablesOK, WorldOK, OpOK, NEW p \in Proc, Refresh(p)
    PROVE  TablesOK' /\ WorldOK' /\ OpOK'
<1>. USE DEF TablesOK, WorldOK
<1>1. CASE RefreshBegin(p)
  <2>1. PICK i \in SessionId :
            Start(p, "refresh", [Idle EXCEPT !.pc = "r_probe", !.id = i,
                                             !.row = rows[i]])
    BY <1>1 DEF RefreshBegin
  <2>2. OpOK'
    <3>. DEFINE o == [Idle EXCEPT !.pc = "r_probe", !.id = i, !.row = rows[i]]
    <3>1. o \in Operation /\ o.id \in SessionId /\ o.pc = "r_probe"
      BY OpTypes DEF Operation, Idle, Steps
    <3>2. Start(p, "refresh", o)
      BY <2>1
    <3>. HIDE DEF o
    <3>. QED  BY <3>1, <3>2, OpTypes DEF SendSteps
  <2>. QED  BY <1>1, <2>2 DEF RefreshBegin, storeVars, idVars, paneVars, fileVars
<1>2. CASE RefreshSame(p)
  BY <1>2, OpTypes DEF RefreshSame, storeVars, idVars, paneVars, fileVars
<1>3. CASE RefreshWrite(p)
  <2>1. OpOK'
    BY <1>3, OpTypes DEF RefreshWrite
  <2>2. op[p].id \in SessionId
    BY <1>3 DEF RefreshWrite, At, OpOK
  <2>3. PICK status \in Statuses : rows' = UpdateStatus(rows, op[p].id, status)
    BY <1>3, WorkspaceAssumption DEF RefreshWrite
  <2>4. rows' \in [SessionId -> Row]
    BY <2>2, <2>3, StoreTypes
  <2>. QED  BY <1>3, <2>1, <2>4 DEF RefreshWrite, idVars, paneVars, fileVars
<1>. QED  BY <1>1, <1>2, <1>3 DEF Refresh

LEMMA TypeStep == TypeOK /\ [Next]_vars => TypeOK'
<1>. SUFFICES ASSUME TypeOK, [Next]_vars
              PROVE  TypeOK'
  OBVIOUS
<1>0. TablesOK /\ WorldOK /\ OpOK
  BY TypeParts
<1>. SUFFICES TablesOK' /\ WorldOK' /\ OpOK'
  BY DEF TypeOK, TablesOK, WorldOK, OpOK
<1>1. ASSUME NEW p \in Proc, Act(p)
      PROVE  TablesOK' /\ WorldOK' /\ OpOK'
  BY <1>0, <1>1, CreateTypes, InitTypes, CloseTypes, DeleteTypes, SendTypes,
     RefreshTypes, OpTypes
     DEF Act, Busy, TablesOK, WorldOK, storeVars, idVars, paneVars, fileVars
<1>2. ASSUME NEW p \in Proc, Crash(p)
      PROVE  TablesOK' /\ WorldOK' /\ OpOK'
  BY <1>0, <1>2, OpTypes
     DEF Crash, TablesOK, WorldOK, storeVars, idVars, paneVars, fileVars
<1>3. ASSUME NEW i \in SessionId, PaneBoot(i) \/ PaneDies(i)
      PROVE  TablesOK' /\ WorldOK' /\ OpOK'
  BY <1>0, <1>3
     DEF PaneBoot, PaneDies, SetPane, PaneStates, TablesOK, WorldOK, OpOK,
         storeVars, idVars, fileVars
<1>4. CASE UNCHANGED vars
  BY <1>0, <1>4 DEF vars, TablesOK, WorldOK, OpOK
<1>. QED  BY <1>1, <1>2, <1>3, <1>4 DEF Next

(* Every reachable state is well typed.                                    *)
THEOREM TypeCorrect == Spec => []TypeOK
<1>1. Init => TypeOK
  <2>. SUFFICES ASSUME Init PROVE TypeOK
    OBVIOUS
  <2>1. EmptyRow \in Row /\ EmptyMessage \in Message /\ Idle \in Operation
    BY StoreAssumption
       DEF EmptyRow, Row, EmptyMessage, Message, Idle, Operation
  <2>2. TablesOK /\ WorldOK
    BY <2>1, StoreAssumption DEF Init, TablesOK, WorldOK, PaneStates
  <2>3. OpOK
    BY <2>1 DEF Init, OpOK, Idle, SendSteps
  <2>. QED  BY <2>2, <2>3, TypeParts
<1>. QED  BY <1>1, TypeStep, PTL DEF Spec

-----------------------------------------------------------------------------
(***************************************************************************)
(* What a step can do to the table of Sessions and to the creates under    *)
(* way: all that the theorems below need to know of the thirty actions.    *)
(***************************************************************************)

OthersStay(p) == \A q \in Proc \ {p} : op'[q] = op[q]

(* A create or an init starts with a UUID of its own.                      *)
Draws(p) ==
    /\ rows' = rows
    /\ Inserting(p)'
    /\ op'[p].id \in SessionId \ ids
    /\ ids' = ids \cup {op'[p].id}
    /\ op'[p].row.parent \in Parents

(* It writes its row.                                                      *)
Inserts(p) ==
    /\ Inserting(p) /\ ~Inserting(p)'
    /\ rows' = [rows EXCEPT ![op[p].id] = op[p].row]
    /\ ids' = ids

(* Columns other than the parent change, of a row that stays.              *)
Updates(p) ==
    /\ ~Inserting(p)'
    /\ ids' = ids
    /\ \A i \in SessionId : /\ rows'[i].parent = rows[i].parent
                            /\ Stored(rows', i) <=> Stored(rows, i)

(* Rows go and parent links are cut.                                       *)
Removes(p) ==
    /\ ~Inserting(p)'
    /\ ids' = ids
    /\ \A i \in SessionId : /\ rows'[i].parent \in {rows[i].parent, Null}
                            /\ Stored(rows', i) => Stored(rows, i)

(* Everything else.                                                        *)
Passes(p) ==
    /\ rows' = rows /\ ids' = ids
    /\ Inserting(p)' => /\ Inserting(p)
                        /\ op'[p].id = op[p].id
                        /\ op'[p].row = op[p].row

StepOf(p) ==
    /\ OthersStay(p)
    /\ Draws(p) \/ Inserts(p) \/ Updates(p) \/ Removes(p) \/ Passes(p)

(* How the helpers that change op do so.                                   *)
LEMMA OpMoves ==
    ASSUME TypeOK, NEW p \in Proc
    PROVE  /\ Finish(p) => OthersStay(p) /\ ~Inserting(p)'
           /\ \A kind, o : Start(p, kind, o) => OthersStay(p) /\ op'[p] = o
           /\ \A step : Goto(p, step) =>
                  /\ OthersStay(p)
                  /\ op'[p].pc = step
                  /\ op'[p].id = op[p].id
                  /\ op'[p].row = op[p].row
<1>1. Finish(p) => OthersStay(p) /\ ~Inserting(p)'
  BY DEF TypeOK, Finish, OthersStay, Inserting, Idle, CreateSteps
<1>2. ASSUME NEW kind, NEW o, Start(p, kind, o)
      PROVE  OthersStay(p) /\ op'[p] = o
  BY <1>2 DEF TypeOK, Start, OthersStay
<1>3. ASSUME NEW step, Goto(p, step)
      PROVE  /\ OthersStay(p)
             /\ op'[p].pc = step
             /\ op'[p].id = op[p].id
             /\ op'[p].row = op[p].row
  BY <1>3 DEF TypeOK, Goto, OthersStay, Operation
<1>. QED  BY <1>1, <1>2, <1>3

LEMMA CreateShape ==
    ASSUME TypeOK, NEW p \in Proc, Create(p) \/ InitSession(p)
    PROVE  StepOf(p)
<1>1. CASE CreateBegin(p)
  <2>1. PICK i \in SessionId, n \in Name, par \in Parents, m \in Mux \ {"none"} :
            /\ DrawId(i)
            /\ Start(p, "create", [Idle EXCEPT !.pc = "c_mux", !.id = i,
                                     !.row = RunningRow(n, par, m, TRUE)])
    BY <1>1 DEF CreateBegin
  <2>. DEFINE o == [Idle EXCEPT !.pc = "c_mux", !.id = i,
                                !.row = RunningRow(n, par, m, TRUE)]
  <2>2. o.pc = "c_mux" /\ o.id = i /\ o.row.parent = par
    BY DEF Idle, RunningRow
  <2>3. Start(p, "create", o)
    BY <2>1
  <2>. HIDE DEF o
  <2>4. op'[p] = o /\ OthersStay(p)
    BY <2>3, OpMoves
  <2>. QED  BY <1>1, <2>1, <2>2, <2>4
            DEF StepOf, Draws, Inserting, CreateSteps, DrawId, Fresh,
                CreateBegin, storeVars
<1>2. CASE InitBegin(p)
  <2>1. PICK i \in SessionId, n \in Name, par \in Parents, m \in Mux :
            /\ DrawId(i)
            /\ Start(p, "init", [Idle EXCEPT !.pc = "i_insert", !.id = i,
                                   !.row = RunningRow(n, par, m, FALSE)])
    BY <1>2 DEF InitBegin
  <2>. DEFINE o == [Idle EXCEPT !.pc = "i_insert", !.id = i,
                                !.row = RunningRow(n, par, m, FALSE)]
  <2>2. o.pc = "i_insert" /\ o.id = i /\ o.row.parent = par
    BY DEF Idle, RunningRow
  <2>3. Start(p, "init", o)
    BY <2>1
  <2>. HIDE DEF o
  <2>4. op'[p] = o /\ OthersStay(p)
    BY <2>3, OpMoves
  <2>. QED  BY <1>2, <2>1, <2>2, <2>4
            DEF StepOf, Draws, Inserting, DrawId, Fresh, InitBegin, storeVars
<1>3. CASE MuxCreate(p) \/ WriteScript(p) \/ RunInPane(p)
  BY <1>3, OpMoves
     DEF MuxCreate, WriteScript, RunInPane, At, StepOf, Passes, Inserting,
         CreateSteps, storeVars, idVars
<1>4. CASE \/ MuxCreateFail(p) \/ WriteScriptFail(p) \/ RunFail(p)
           \/ InsertConflict(p)
  BY <1>4, OpMoves
     DEF MuxCreateFail, WriteScriptFail, RunFail, InsertConflict,
         StepOf, Passes, storeVars, idVars
<1>5. CASE InsertRow(p)
  BY <1>5, OpMoves
     DEF InsertRow, InsertSession, At, StepOf, Inserts, Inserting, CreateSteps,
         idVars
<1>6. CASE InitInsert(p)
  BY <1>6, OpMoves
     DEF InitInsert, InsertSession, At, StepOf, Inserts, Inserting, CreateSteps,
         idVars
<1>7. CASE InitToken(p)
  BY <1>7, OpMoves
     DEF InitToken, StepOf, Passes, Inserting, CreateSteps, storeVars, idVars
<1>8. CASE InitConflict(p) \/ InitPointer(p) \/ InitFilesFail(p)
  BY <1>8, OpMoves
     DEF InitConflict, InitPointer, InitFilesFail, StepOf, Passes, storeVars,
         idVars
<1>. QED  BY <1>1, <1>2, <1>3, <1>4, <1>5, <1>6, <1>7, <1>8
          DEF Create, InitSession

LEMMA CloseShape ==
    ASSUME TypeOK, NEW p \in Proc, Close(p) \/ Refresh(p)
    PROVE  StepOf(p)
<1>1. CASE CloseBegin(p)
  <2>1. PICK i \in SessionId :
            Start(p, "close", [Idle EXCEPT !.id = i, !.row = rows[i],
                                 !.pc = IF NeedsMuxClose(rows[i])
                                          THEN "x_mux" ELSE "x_update"])
    BY <1>1 DEF CloseBegin
  <2>. DEFINE o == [Idle EXCEPT !.id = i, !.row = rows[i],
                                !.pc = IF NeedsMuxClose(rows[i])
                                         THEN "x_mux" ELSE "x_update"]
  <2>2. o.pc \in CloseSteps
    BY DEF Idle, CloseSteps
  <2>3. Start(p, "close", o)
    BY <2>1
  <2>. HIDE DEF o
  <2>4. op'[p] = o /\ OthersStay(p)
    BY <2>3, OpMoves
  <2>. QED  BY <1>1, <2>2, <2>4
            DEF StepOf, Passes, Inserting, CreateSteps, CloseSteps, CloseBegin,
                storeVars, idVars
<1>2. CASE CloseMux(p) \/ CloseMuxFail(p)
  BY <1>2, OpMoves
     DEF CloseMux, CloseMuxFail, StepOf, Passes, Inserting, CreateSteps,
         storeVars, idVars
<1>3. CASE CloseUpdate(p)
  <2>1. \A i \in SessionId : /\ rows'[i].parent = rows[i].parent
                             /\ Stored(rows', i) <=> Stored(rows, i)
    BY <1>3 DEF CloseUpdate, UpdateClosed, TypeOK, Row, Stored
  <2>. QED  BY <1>3, <2>1, OpMoves DEF CloseUpdate, StepOf, Updates, idVars
<1>4. CASE RefreshBegin(p)
  <2>1. PICK i \in SessionId :
            Start(p, "refresh", [Idle EXCEPT !.pc = "r_probe", !.id = i,
                                             !.row = rows[i]])
    BY <1>4 DEF RefreshBegin
  <2>. DEFINE o == [Idle EXCEPT !.pc = "r_probe", !.id = i, !.row = rows[i]]
  <2>2. o.pc = "r_probe"
    BY DEF Idle
  <2>3. Start(p, "refresh", o)
    BY <2>1
  <2>. HIDE DEF o
  <2>4. op'[p] = o /\ OthersStay(p)
    BY <2>3, OpMoves
  <2>. QED  BY <1>4, <2>2, <2>4
            DEF StepOf, Passes, Inserting, CreateSteps, RefreshBegin, storeVars,
                idVars
<1>5. CASE RefreshSame(p)
  BY <1>5, OpMoves DEF RefreshSame, StepOf, Passes, storeVars, idVars
<1>6. CASE RefreshWrite(p)
  <2>1. PICK status \in Statuses : rows' = UpdateStatus(rows, op[p].id, status)
    BY <1>6, WorkspaceAssumption DEF RefreshWrite
  <2>2. status # "absent"
    BY DEF Statuses, LiveStatuses
  <2>3. \A i \in SessionId : /\ rows'[i].parent = rows[i].parent
                             /\ Stored(rows', i) <=> Stored(rows, i)
    BY <2>1, <2>2 DEF UpdateStatus, TypeOK, Row, Stored
  <2>. QED  BY <1>6, <2>3, OpMoves DEF RefreshWrite, StepOf, Updates, idVars
<1>. QED  BY <1>1, <1>2, <1>3, <1>4, <1>5, <1>6 DEF Close, Refresh

LEMMA DeleteShape ==
    ASSUME TypeOK, NEW p \in Proc, Delete(p)
    PROVE  StepOf(p)
<1>1. CASE DeleteBegin(p)
  <2>1. PICK i \in SessionId :
            Start(p, "delete", [Idle EXCEPT !.pc = "d_tx", !.id = i,
                                            !.row = rows[i]])
    BY <1>1 DEF DeleteBegin
  <2>. DEFINE o == [Idle EXCEPT !.pc = "d_tx", !.id = i, !.row = rows[i]]
  <2>2. o.pc = "d_tx"
    BY DEF Idle
  <2>3. Start(p, "delete", o)
    BY <2>1
  <2>. HIDE DEF o
  <2>4. op'[p] = o /\ OthersStay(p)
    BY <2>3, OpMoves
  <2>. QED  BY <1>1, <2>2, <2>4
            DEF StepOf, Passes, Inserting, CreateSteps, DeleteBegin, storeVars,
                idVars
<1>2. CASE DeleteTx(p)
  <2>1. \A i \in SessionId : /\ rows'[i].parent \in {rows[i].parent, Null}
                             /\ Stored(rows', i) => Stored(rows, i)
    BY <1>2 DEF DeleteTx, DeleteSession, OrphanChildren, EmptyRow, TypeOK, Row,
                Stored
  <2>. QED  BY <1>2, <2>1, OpMoves DEF DeleteTx, StepOf, Removes, idVars
<1>. QED  BY <1>1, <1>2 DEF Delete

LEMMA SendShape ==
    ASSUME TypeOK, NEW p \in Proc, Send(p)
    PROVE  StepOf(p)
<1>1. ASSUME NEW called, NEW from, NEW to, NEW kind,
             Deliver(p, called, from, to, kind)
      PROVE  StepOf(p)
  <2>. DEFINE o == [Idle EXCEPT !.pc = "s_insert", !.id = to, !.row = rows[to],
                                !.from = from, !.kind = kind, !.msg = drawn + 1]
  <2>1. o.pc = "s_insert"
    BY DEF Idle
  <2>2. Start(p, called, o)
    BY <1>1 DEF Deliver
  <2>. HIDE DEF o
  <2>3. op'[p] = o /\ OthersStay(p)
    BY <2>2, OpMoves
  <2>. QED  BY <1>1, <2>1, <2>3
            DEF Deliver, StepOf, Passes, Inserting, CreateSteps, storeVars
<1>2. CASE SendBegin(p) \/ ReportBegin(p)
  BY <1>1, <1>2 DEF SendBegin, ReportBegin
<1>3. CASE SendInsert(p)
  BY <1>3, OpMoves
     DEF SendInsert, StepOf, Passes, Inserting, CreateSteps, idVars
<1>4. CASE Notify(p) \/ NotifyFail(p)
  BY <1>4, OpMoves
     DEF Notify, NotifyFail, StepOf, Passes, Inserting, CreateSteps, storeVars,
         idVars
<1>5. CASE MarkDelivered(p) \/ MarkFailed(p)
  BY <1>5, OpMoves
     DEF MarkDelivered, MarkFailed, StepOf, Passes, idVars
<1>. QED  BY <1>2, <1>3, <1>4, <1>5 DEF Send

LEMMA StepShapeOf ==
    ASSUME TypeOK, NEW p \in Proc, Act(p) \/ Crash(p)
    PROVE  StepOf(p)
<1>1. CASE Crash(p) \/ Busy(p)
  BY <1>1, OpMoves DEF Crash, Busy, StepOf, Passes, storeVars, idVars
<1>. QED  BY <1>1, CreateShape, CloseShape, DeleteShape, SendShape DEF Act

LEMMA StepShape ==
    ASSUME TypeOK, [Next]_vars
    PROVE  \/ \E p \in Proc : StepOf(p)
           \/ UNCHANGED <<rows, ids, op>>
<1>1. ASSUME NEW i \in SessionId, PaneBoot(i) \/ PaneDies(i)
      PROVE  UNCHANGED <<rows, ids, op>>
  BY <1>1 DEF PaneBoot, PaneDies, storeVars, idVars
<1>2. CASE UNCHANGED vars
  BY <1>2 DEF vars
<1>. QED  BY <1>1, <1>2, StepShapeOf DEF Next

-----------------------------------------------------------------------------
(***************************************************************************)
(* Parent links.                                                           *)
(***************************************************************************)

(* Nothing names i as its parent, or is about to.                          *)
Childless(i) ==
    /\ \A j \in SessionId : rows[j].parent # i
    /\ \A q \in Proc : Inserting(q) => op[q].row.parent # i

(* TreeAcyclic is not inductive: inserting a row keeps it only because the *)
(* row's UUID, drawn when the parent was looked up, has no children yet.   *)
TreeInv ==
    /\ TreeAcyclic
    /\ \A i \in SessionId : Stored(rows, i) => i \in ids
    /\ \A i \in SessionId : rows[i].parent \in ids \cup {Null}
    /\ \A p \in Proc : Inserting(p) =>
           /\ op[p].id \in ids
           /\ ~Stored(rows, op[p].id)
           /\ op[p].row.parent \in ids \cup {Null}
           /\ Childless(op[p].id)
    /\ \A p, q \in Proc :
           Inserting(p) /\ Inserting(q) /\ p # q => op[p].id # op[q].id

(* A table with no more Sessions, and no other links, is acyclic if the    *)
(* one before was.                                                         *)
LEMMA CutsKeepTree ==
    ASSUME TreeAcyclic,
           \A i \in SessionId : /\ rows'[i].parent \in {rows[i].parent, Null}
                                /\ Stored(rows', i) => Stored(rows, i)
    PROVE  TreeAcyclic'
<1>. SUFFICES ASSUME NEW S \in SUBSET {i \in SessionId : Stored(rows', i)}, S # {}
              PROVE  \E i \in S : rows'[i].parent \notin S
  BY DEF TreeAcyclic
<1>1. S \in SUBSET {i \in SessionId : Stored(rows, i)}
  OBVIOUS
<1>2. PICK i \in S : rows[i].parent \notin S
  BY <1>1 DEF TreeAcyclic
<1>3. Null \notin S
  BY StoreAssumption
<1>. QED  BY <1>2, <1>3

LEMMA LeafKeepsTree ==
    ASSUME TypeOK, TreeAcyclic, NEW i \in SessionId, NEW row \in Row,
           \A j \in SessionId : rows[j].parent # i,
           row.parent # i,
           rows' = [rows EXCEPT ![i] = row]
    PROVE  TreeAcyclic'
<1>. SUFFICES ASSUME NEW S \in SUBSET {j \in SessionId : Stored(rows', j)}, S # {}
              PROVE  \E j \in S : rows'[j].parent \notin S
  BY DEF TreeAcyclic
<1>1. /\ rows'[i] = row
      /\ \A j \in SessionId \ {i} : rows'[j] = rows[j]
  BY DEF TypeOK
<1>2. CASE S \subseteq {i}
  BY <1>1, <1>2
<1>3. CASE ~(S \subseteq {i})
  <2>1. S \ {i} \in SUBSET {j \in SessionId : Stored(rows, j)}
    BY <1>1 DEF Stored
  <2>2. PICK j \in S \ {i} : rows[j].parent \notin S \ {i}
    BY <1>3, <2>1 DEF TreeAcyclic
  <2>3. rows[j].parent # i
    OBVIOUS
  <2>. QED  BY <1>1, <2>2, <2>3
<1>. QED  BY <1>2, <1>3

LEMMA TreeStep == TypeOK /\ TypeOK' /\ TreeInv /\ [Next]_vars => TreeInv'
<1>. SUFFICES ASSUME TypeOK, TypeOK', TreeInv, [Next]_vars
              PROVE  TreeInv'
  OBVIOUS
<1>1. ASSUME NEW p \in Proc, OthersStay(p), Draws(p)
      PROVE  TreeInv'
  <2>1. TreeAcyclic'
    BY <1>1 DEF Draws, TreeInv, TreeAcyclic
  <2>2. \A q \in Proc \ {p} : Inserting(q)' <=> Inserting(q)
    BY <1>1 DEF OthersStay, Inserting
  <2>3. op'[p].row.parent \in ids \cup {Null}
    BY <1>1 DEF Draws, Parents, TreeInv
  <2>4. Childless(op[p].id)'
    BY <1>1, <2>2, <2>3, StoreAssumption DEF Draws, OthersStay, TreeInv, Childless
  <2>5. \A q \in Proc \ {p} : Inserting(q) => op'[p].row.parent # op[q].id
    BY <1>1, StoreAssumption DEF Draws, Parents, TreeInv, TypeOK
  <2>6. \A q \in Proc \ {p} : Inserting(q) => Childless(op[q].id)'
    BY <1>1, <2>2, <2>5 DEF Draws, OthersStay, TreeInv, Childless
  <2>. QED  BY <1>1, <2>1, <2>2, <2>3, <2>4, <2>6 DEF Draws, OthersStay, TreeInv
<1>2. ASSUME NEW p \in Proc, OthersStay(p), Inserts(p)
      PROVE  TreeInv'
  <2>1. op[p].row \in Row /\ op[p].id \in SessionId
    BY <1>2 DEF TypeOK, Operation, Inserts, Inserting, CreateSteps
  <2>2. TreeAcyclic'
    BY <1>2, <2>1, LeafKeepsTree DEF Inserts, TreeInv, Childless
  <2>3. \A q \in Proc \ {p} : Inserting(q)' <=> Inserting(q)
    BY <1>2 DEF OthersStay, Inserting
  <2>4. /\ rows'[op[p].id] = op[p].row
        /\ \A i \in SessionId \ {op[p].id} : rows'[i] = rows[i]
    BY <1>2, <2>1 DEF Inserts, TypeOK
  <2>5. \A q \in Proc \ {p} : Inserting(q) =>
            ~Stored(rows', op[q].id) /\ Childless(op[q].id)'
    BY <1>2, <2>1, <2>3, <2>4
       DEF Inserts, OthersStay, TreeInv, Childless, Stored, TypeOK
  <2>. QED  BY <1>2, <2>1, <2>2, <2>3, <2>4, <2>5
            DEF Inserts, OthersStay, TreeInv, Stored
<1>3. ASSUME NEW p \in Proc, OthersStay(p), Updates(p) \/ Removes(p)
      PROVE  TreeInv'
  <2>1. \A i \in SessionId : /\ rows'[i].parent \in {rows[i].parent, Null}
                             /\ Stored(rows', i) => Stored(rows, i)
    BY <1>3 DEF Updates, Removes
  <2>2. TreeAcyclic'
    BY <2>1, CutsKeepTree DEF TreeInv
  <2>3. \A q \in Proc : Inserting(q)' => q # p /\ Inserting(q) /\ op'[q] = op[q]
    BY <1>3 DEF OthersStay, Inserting, Updates, Removes
  <2>4. \A q \in Proc : Inserting(q)' =>
            ~Stored(rows', op[q].id) /\ Childless(op[q].id)'
    BY <2>1, <2>3, StoreAssumption DEF TreeInv, Childless, Inserting, CreateSteps, TypeOK
  <2>5. ids' = ids
    BY <1>3 DEF Updates, Removes
  <2>. QED  BY <2>1, <2>2, <2>3, <2>4, <2>5 DEF TreeInv
<1>4. ASSUME NEW p \in Proc, OthersStay(p), Passes(p)
      PROVE  TreeInv'
  <2>1. \A q \in Proc : Inserting(q)' => /\ Inserting(q)
                                         /\ op'[q].id = op[q].id
                                         /\ op'[q].row = op[q].row
    BY <1>4 DEF OthersStay, Inserting, Passes
  <2>2. \A q \in Proc : Inserting(q)' => Childless(op[q].id)'
    BY <1>4, <2>1 DEF TreeInv, Childless, Passes
  <2>. QED  BY <1>4, <2>1, <2>2 DEF TreeInv, TreeAcyclic, Passes
<1>5. CASE UNCHANGED <<rows, ids, op>>
  BY <1>5 DEF TreeInv, TreeAcyclic, Childless, Inserting
<1>. QED  BY <1>1, <1>2, <1>3, <1>4, <1>5, StepShape DEF StepOf

(* Parent links never form a cycle, whatever the processes do and however  *)
(* they fail: a link may name a Session that is gone, but UUIDs are not    *)
(* given twice, so it never comes to name a descendant.                    *)
THEOREM TreeStaysAcyclic == Spec => []TreeAcyclic
<1>1. Init => TreeInv
  BY StoreAssumption
     DEF Init, TreeInv, TreeAcyclic, Stored, EmptyRow, Inserting, Idle, CreateSteps
<1>2. TreeInv => TreeAcyclic
  BY DEF TreeInv
<1>. QED  BY <1>1, <1>2, TypeCorrect, TreeStep, PTL DEF Spec

-----------------------------------------------------------------------------

(* What is gone stays gone, whichever of the shapes a step has.            *)
LEMMA GoneStep ==
    ASSUME TypeOK, [Next]_vars, NEW i \in SessionId, Gone(i)
    PROVE  Gone(i)'
<1>1. ASSUME NEW p \in Proc, StepOf(p)
      PROVE  Gone(i)'
  <2>1. \A q \in Proc \ {p} : op'[q].id = i => ~Inserting(q)'
    BY <1>1 DEF StepOf, OthersStay, Gone, Inserting
  <2>2. i \in ids'
    BY <1>1 DEF StepOf, Draws, Inserts, Updates, Removes, Passes, Gone
  <2>3. op'[p].id = i => ~Inserting(p)'
    BY <1>1 DEF StepOf, Draws, Inserts, Updates, Removes, Passes, Gone
  <2>4. ~Stored(rows', i)
    BY <1>1 DEF StepOf, Draws, Inserts, Updates, Removes, Passes, Gone, Stored,
                TypeOK
  <2>. QED  BY <2>1, <2>2, <2>3, <2>4 DEF Gone
<1>2. CASE UNCHANGED <<rows, ids, op>>
  BY <1>2 DEF Gone, Inserting
<1>. QED  BY <1>1, <1>2, StepShape

(* No operation, however stale the row it read, brings back a Session that *)
(* was deleted or whose creation failed.                                   *)
THEOREM GoneIsForever == Spec => NoRowComesBack
<1>1. TypeOK /\ [Next]_vars => [\A i \in SessionId : Gone(i) => Gone(i)']_vars
  BY GoneStep
<1>. QED  BY <1>1, TypeCorrect, PTL DEF Spec, NoRowComesBack

-----------------------------------------------------------------------------
(***************************************************************************)
(* What is recorded against what was done: the outcome of Messages and the *)
(* files of init-session.  Each needs to know of the step before the       *)
(* record is made.                                                         *)
(***************************************************************************)

MessageInv ==
    /\ DeliveredWasTyped
    /\ \A p \in Proc : op[p].pc = "s_delivered" => op[p].msg \in typed

TokenInv ==
    /\ PointerHasToken
    /\ \A p \in Proc : op[p].pc = "i_pointer" => op[p].id \in tokens

(* A step of p that records nothing new: but for p, and then p is told so. *)
RecordsTyped(p) ==
    /\ typed \subseteq typed'
    /\ \A m \in MessageId :
           msgs'[m].delivery = "delivered" =>
               msgs[m].delivery = "delivered" \/ m \in typed
    /\ op'[p].pc = "s_delivered" => op'[p].msg \in typed'

RecordsToken(p) ==
    /\ tokens \subseteq tokens'
    /\ pointer' # pointer => pointer' \in tokens
    /\ op'[p].pc = "i_pointer" => op'[p].id \in tokens'

Records(p) == OthersStay(p) /\ RecordsTyped(p) /\ RecordsToken(p)

LEMMA QuietRecords ==
    ASSUME TypeOK, NEW p \in Proc,
           UNCHANGED msgs, typed \subseteq typed',
           tokens \subseteq tokens', UNCHANGED pointer,
           \/ Finish(p)
           \/ \E kind, o : /\ Start(p, kind, o)
                           /\ o.pc \notin {"s_delivered", "i_pointer"}
           \/ \E step : Goto(p, step) /\ step \notin {"s_delivered", "i_pointer"}
    PROVE  Records(p)
<1>1. OthersStay(p)
  BY OpMoves
<1>2. op'[p].pc \notin {"s_delivered", "i_pointer"}
  <2>1. CASE Finish(p)
    BY <2>1 DEF TypeOK, Finish, Idle
  <2>. QED  BY <2>1, OpMoves
<1>. QED  BY <1>1, <1>2 DEF Records, RecordsTyped, RecordsToken

LEMMA CreateRecords ==
    ASSUME TypeOK, TokenInv, NEW p \in Proc, Create(p) \/ InitSession(p)
    PROVE  Records(p)
<1>1. CASE CreateBegin(p)
  <2>1. PICK i \in SessionId, n \in Name, par \in Parents, m \in Mux \ {"none"} :
            Start(p, "create", [Idle EXCEPT !.pc = "c_mux", !.id = i,
                                     !.row = RunningRow(n, par, m, TRUE)])
    BY <1>1 DEF CreateBegin
  <2>. DEFINE o == [Idle EXCEPT !.pc = "c_mux", !.id = i,
                                !.row = RunningRow(n, par, m, TRUE)]
  <2>2. o.pc = "c_mux" /\ Start(p, "create", o)
    BY <2>1 DEF Idle
  <2>. HIDE DEF o
  <2>. QED  BY <1>1, <2>2, QuietRecords
            DEF CreateBegin, storeVars, paneVars, fileVars
<1>2. CASE InitBegin(p)
  <2>1. PICK i \in SessionId, n \in Name, par \in Parents, m \in Mux :
            Start(p, "init", [Idle EXCEPT !.pc = "i_insert", !.id = i,
                                   !.row = RunningRow(n, par, m, FALSE)])
    BY <1>2 DEF InitBegin
  <2>. DEFINE o == [Idle EXCEPT !.pc = "i_insert", !.id = i,
                                !.row = RunningRow(n, par, m, FALSE)]
  <2>2. o.pc = "i_insert" /\ Start(p, "init", o)
    BY <2>1 DEF Idle
  <2>. HIDE DEF o
  <2>. QED  BY <1>2, <2>2, QuietRecords DEF InitBegin, storeVars, fileVars
<1>3. CASE \/ MuxCreate(p) \/ MuxCreateFail(p) \/ WriteScript(p)
           \/ WriteScriptFail(p) \/ RunInPane(p) \/ RunFail(p)
           \/ InsertRow(p) \/ InsertConflict(p) \/ InitInsert(p)
           \/ InitConflict(p) \/ InitFilesFail(p)
  BY <1>3, QuietRecords
     DEF MuxCreate, MuxCreateFail, WriteScript, WriteScriptFail, RunInPane, RunFail,
         InsertRow, InsertConflict, InitInsert, InitConflict, InitFilesFail,
         storeVars, paneVars, fileVars
<1>4. CASE InitToken(p)
  BY <1>4, OpMoves
     DEF InitToken, Records, RecordsTyped, RecordsToken, storeVars, paneVars
<1>5. CASE InitPointer(p)
  <2>1. op[p].id \in tokens
    BY <1>5 DEF InitPointer, At, TokenInv
  <2>2. OthersStay(p) /\ op'[p].pc = "idle"
    BY <1>5, OpMoves DEF InitPointer, Finish, Idle, TypeOK
  <2>. QED  BY <1>5, <2>1, <2>2
            DEF InitPointer, Records, RecordsTyped, RecordsToken, storeVars, paneVars
<1>. QED  BY <1>1, <1>2, <1>3, <1>4, <1>5 DEF Create, InitSession

LEMMA SendRecords ==
    ASSUME TypeOK, MessageInv, NEW p \in Proc, Send(p)
    PROVE  Records(p)
<1>1. ASSUME NEW called, NEW from, NEW to, NEW kind,
             Deliver(p, called, from, to, kind)
      PROVE  Records(p)
  <2>. DEFINE o == [Idle EXCEPT !.pc = "s_insert", !.id = to, !.row = rows[to],
                                !.from = from, !.kind = kind, !.msg = drawn + 1]
  <2>1. o.pc = "s_insert" /\ Start(p, called, o)
    BY <1>1 DEF Deliver, Idle
  <2>. HIDE DEF o
  <2>. QED  BY <1>1, <2>1, QuietRecords DEF Deliver, storeVars, paneVars, fileVars
<1>2. CASE SendBegin(p) \/ ReportBegin(p)
  BY <1>1, <1>2 DEF SendBegin, ReportBegin
<1>3. op[p].pc \in SendSteps => op[p].msg \in MessageId
  BY DEF TypeOK
<1>4. CASE SendInsert(p)
  <2>1. \A m \in MessageId : msgs'[m].delivery = "delivered" =>
            msgs[m].delivery = "delivered"
    BY <1>4 DEF SendInsert, InsertMessage, TypeOK
  <2>2. OthersStay(p) /\ op'[p].pc \in {"idle", "s_notify"}
    <3>1. CASE Finish(p)
      BY <3>1, OpMoves DEF Finish, Idle, TypeOK
    <3>. QED  BY <1>4, <3>1, OpMoves DEF SendInsert
  <2>3. UNCHANGED <<typed, tokens, pointer>>
    BY <1>4 DEF SendInsert, paneVars, fileVars
  <2>. QED  BY <2>1, <2>2, <2>3 DEF Records, RecordsTyped, RecordsToken
<1>5. CASE Notify(p)
  <2>1. Goto(p, "s_delivered")
    BY <1>5 DEF Notify
  <2>2. OthersStay(p) /\ op'[p].pc = "s_delivered"
    BY <2>1, OpMoves
  <2>3. op'[p].msg = op[p].msg
    BY <2>1 DEF Goto, TypeOK, Operation
  <2>4. typed' = typed \cup {op[p].msg} /\ UNCHANGED <<msgs, tokens, pointer>>
    BY <1>5 DEF Notify, storeVars, fileVars
  <2>. QED  BY <2>2, <2>3, <2>4 DEF Records, RecordsTyped, RecordsToken
<1>6. CASE NotifyFail(p)
  BY <1>6, QuietRecords DEF NotifyFail, storeVars, fileVars
<1>7. CASE MarkDelivered(p)
  <2>1. op[p].msg \in typed /\ op[p].msg \in MessageId
    BY <1>3, <1>7 DEF MarkDelivered, At, MessageInv, SendSteps
  <2>2. \A m \in MessageId \ {op[p].msg} : msgs'[m] = msgs[m]
    BY <1>7, <2>1 DEF MarkDelivered, MarkMessage, TypeOK
  <2>3. OthersStay(p) /\ op'[p].pc = "idle"
    BY <1>7, OpMoves DEF MarkDelivered, Finish, Idle, TypeOK
  <2>. QED  BY <1>7, <2>1, <2>2, <2>3
            DEF MarkDelivered, Records, RecordsTyped, RecordsToken, paneVars, fileVars
<1>8. CASE MarkFailed(p)
  <2>1. op[p].msg \in MessageId
    BY <1>3, <1>8 DEF MarkFailed, At, SendSteps
  <2>2. \A m \in MessageId : msgs'[m].delivery = "delivered" =>
            msgs[m].delivery = "delivered"
    BY <1>8, <2>1 DEF MarkFailed, MarkMessage, TypeOK, Message
  <2>3. OthersStay(p) /\ op'[p].pc = "idle"
    BY <1>8, OpMoves DEF MarkFailed, Finish, Idle, TypeOK
  <2>. QED  BY <1>8, <2>2, <2>3
            DEF MarkFailed, Records, RecordsTyped, RecordsToken, paneVars, fileVars
<1>. QED  BY <1>2, <1>4, <1>5, <1>6, <1>7, <1>8 DEF Send

LEMMA OtherRecords ==
    ASSUME TypeOK, NEW p \in Proc,
           Close(p) \/ Delete(p) \/ Refresh(p) \/ Busy(p) \/ Crash(p)
    PROVE  Records(p)
<1>1. CASE CloseBegin(p)
  <2>1. PICK i \in SessionId :
            Start(p, "close", [Idle EXCEPT !.id = i, !.row = rows[i],
                                 !.pc = IF NeedsMuxClose(rows[i])
                                          THEN "x_mux" ELSE "x_update"])
    BY <1>1 DEF CloseBegin
  <2>. DEFINE o == [Idle EXCEPT !.id = i, !.row = rows[i],
                                !.pc = IF NeedsMuxClose(rows[i])
                                         THEN "x_mux" ELSE "x_update"]
  <2>2. o.pc \in CloseSteps /\ Start(p, "close", o)
    BY <2>1 DEF Idle, CloseSteps
  <2>. HIDE DEF o
  <2>. QED  BY <1>1, <2>2, QuietRecords
            DEF CloseBegin, CloseSteps, storeVars, paneVars, fileVars
<1>2. CASE DeleteBegin(p)
  <2>1. PICK i \in SessionId :
            Start(p, "delete", [Idle EXCEPT !.pc = "d_tx", !.id = i,
                                            !.row = rows[i]])
    BY <1>2 DEF DeleteBegin
  <2>. DEFINE o == [Idle EXCEPT !.pc = "d_tx", !.id = i, !.row = rows[i]]
  <2>2. o.pc = "d_tx" /\ Start(p, "delete", o)
    BY <2>1 DEF Idle
  <2>. HIDE DEF o
  <2>. QED  BY <1>2, <2>2, QuietRecords DEF DeleteBegin, storeVars, paneVars, fileVars
<1>3. CASE DeleteTx(p)
  <2>1. \A m \in MessageId : msgs'[m].delivery = "delivered" =>
            msgs[m].delivery = "delivered"
    BY <1>3 DEF DeleteTx, DeleteRelatedMessages, EmptyMessage
  <2>2. OthersStay(p) /\ op'[p].pc = "idle"
    BY <1>3, OpMoves DEF DeleteTx, Finish, Idle, TypeOK
  <2>. QED  BY <1>3, <2>1, <2>2
            DEF DeleteTx, Records, RecordsTyped, RecordsToken, paneVars, fileVars
<1>4. CASE RefreshBegin(p)
  <2>1. PICK i \in SessionId :
            Start(p, "refresh", [Idle EXCEPT !.pc = "r_probe", !.id = i,
                                             !.row = rows[i]])
    BY <1>4 DEF RefreshBegin
  <2>. DEFINE o == [Idle EXCEPT !.pc = "r_probe", !.id = i, !.row = rows[i]]
  <2>2. o.pc = "r_probe" /\ Start(p, "refresh", o)
    BY <2>1 DEF Idle
  <2>. HIDE DEF o
  <2>. QED  BY <1>4, <2>2, QuietRecords DEF RefreshBegin, storeVars, paneVars, fileVars
<1>5. CASE \/ CloseMux(p) \/ CloseMuxFail(p) \/ CloseUpdate(p)
           \/ RefreshSame(p) \/ RefreshWrite(p) \/ Busy(p) \/ Crash(p)
  BY <1>5, QuietRecords
     DEF CloseMux, CloseMuxFail, CloseUpdate, RefreshSame, RefreshWrite, Busy, Crash,
         storeVars, paneVars, fileVars
<1>. QED  BY <1>1, <1>2, <1>3, <1>4, <1>5 DEF Close, Delete, Refresh

LEMMA RecordsStep ==
    ASSUME TypeOK, MessageInv, TokenInv, [Next]_vars
    PROVE  MessageInv' /\ TokenInv'
<1>1. ASSUME NEW p \in Proc, Act(p) \/ Crash(p)
      PROVE  MessageInv' /\ TokenInv'
  <2>1. Records(p)
    BY <1>1, CreateRecords, SendRecords, OtherRecords DEF Act
  <2>2. \A q \in Proc \ {p} : op'[q] = op[q]
    BY <2>1 DEF Records, OthersStay
  <2>3. MessageInv'
    BY <2>1, <2>2 DEF Records, RecordsTyped, MessageInv, DeliveredWasTyped
  <2>4. TokenInv'
    BY <2>1, <2>2 DEF Records, RecordsToken, TokenInv, PointerHasToken
  <2>. QED  BY <2>3, <2>4
<1>2. ASSUME NEW i \in SessionId, PaneBoot(i) \/ PaneDies(i)
      PROVE  UNCHANGED <<msgs, typed, tokens, pointer, op>>
  BY <1>2 DEF PaneBoot, PaneDies, storeVars, fileVars
<1>3. CASE UNCHANGED <<msgs, typed, tokens, pointer, op>>
  BY <1>3 DEF MessageInv, TokenInv, DeliveredWasTyped, PointerHasToken
<1>. QED  BY <1>1, <1>2, <1>3 DEF Next, vars

LEMMA NothingRecorded == Init => MessageInv /\ TokenInv
  BY DEF Init, MessageInv, TokenInv, DeliveredWasTyped, PointerHasToken,
         EmptyMessage, Idle

(* A Message is marked delivered only after its text reached the pane of   *)
(* its target, whoever else sends, closes or deletes meanwhile.            *)
THEOREM DeliveryIsEarned == Spec => []DeliveredWasTyped
<1>1. MessageInv => DeliveredWasTyped
  BY DEF MessageInv
<1>. QED  BY <1>1, NothingRecorded, RecordsStep, TypeCorrect, PTL DEF Spec

(* Whenever init-session dies or fails, and however many run, the pointer  *)
(* of the worktree names a Session whose token file is on disk.            *)
THEOREM PointerIsGood == Spec => []PointerHasToken
<1>1. TokenInv => PointerHasToken
  BY DEF TokenInv
<1>. QED  BY <1>1, NothingRecorded, RecordsStep, TypeCorrect, PTL DEF Spec

-----------------------------------------------------------------------------
(***************************************************************************)
(* What relates the panes of the multiplexers to the table of Sessions.    *)
(***************************************************************************)

(* Nobody else works on the Session that a create or an init is about to   *)
(* insert.                                                                 *)
AloneInv ==
    \A p \in Proc : op[p].pc # "idle" =>
        /\ op[p].id \in ids
        /\ \A q \in Proc \ {p} : Inserting(q) => op[q].id # op[p].id

(* What a step does to the operation of p, for all that AloneInv needs.    *)
Ends(p) == op'[p].pc = "idle"

Continues(p) ==
    /\ op[p].pc # "idle"
    /\ op'[p].id = op[p].id
    /\ Inserting(p)' => Inserting(p)

Begins(p) ==
    /\ Stored(rows, op'[p].id)
    /\ op'[p].id \in SessionId
    /\ ~Inserting(p)'

LEMMA Moves ==
    ASSUME TypeOK, NEW p \in Proc, Act(p) \/ Crash(p)
    PROVE  OthersStay(p) /\ (Ends(p) \/ Continues(p) \/ Begins(p) \/ Draws(p))
<1>1. Finish(p) => OthersStay(p) /\ Ends(p)
  BY DEF TypeOK, Finish, OthersStay, Ends, Idle
<1>2. ASSUME NEW step, op[p].pc # "idle", Goto(p, step),
             step \in CreateSteps \cup {"i_insert"} => Inserting(p)
      PROVE  OthersStay(p) /\ Continues(p)
  BY <1>2, OpMoves DEF Continues, Inserting
<1>3. ASSUME NEW kind, NEW o, Start(p, kind, o), o.id \in SessionId,
             Stored(rows, o.id),
             o.pc \in Steps \ (CreateSteps \cup {"i_insert"})
      PROVE  OthersStay(p) /\ Begins(p)
  BY <1>3, OpMoves DEF Begins, Inserting
<1>4. CASE Create(p) \/ InitSession(p)
  <2>1. CASE \/ MuxCreateFail(p) \/ WriteScriptFail(p) \/ RunFail(p)
             \/ InsertRow(p) \/ InsertConflict(p) \/ InitConflict(p)
             \/ InitPointer(p) \/ InitFilesFail(p)
    BY <1>1, <2>1
       DEF MuxCreateFail, WriteScriptFail, RunFail, InsertRow, InsertConflict,
           InitConflict, InitPointer, InitFilesFail
  <2>2. CASE MuxCreate(p) \/ WriteScript(p) \/ RunInPane(p)
    BY <1>2, <2>2 DEF MuxCreate, WriteScript, RunInPane, At, Inserting, CreateSteps
  <2>3. CASE InitInsert(p) \/ InitToken(p)
    BY <1>2, <2>3 DEF InitInsert, InitToken, At, CreateSteps
  <2>4. CASE CreateBegin(p) \/ InitBegin(p)
    <3>1. StepOf(p)
      BY <2>4, CreateShape DEF Create, InitSession
    <3>2. ids' # ids
      BY <2>4 DEF CreateBegin, InitBegin, DrawId, Fresh
    <3>. QED  BY <3>1, <3>2 DEF StepOf, Inserts, Updates, Removes, Passes
  <2>. QED  BY <1>4, <2>1, <2>2, <2>3, <2>4 DEF Create, InitSession
<1>5. CASE Close(p)
  <2>1. CASE CloseBegin(p)
    <3>1. PICK i \in SessionId :
              /\ Stored(rows, i)
              /\ Start(p, "close", [Idle EXCEPT !.id = i, !.row = rows[i],
                                     !.pc = IF NeedsMuxClose(rows[i])
                                              THEN "x_mux" ELSE "x_update"])
      BY <2>1 DEF CloseBegin
    <3>. DEFINE o == [Idle EXCEPT !.id = i, !.row = rows[i],
                                  !.pc = IF NeedsMuxClose(rows[i])
                                           THEN "x_mux" ELSE "x_update"]
    <3>2. o.id = i /\ o.pc \in CloseSteps
      BY DEF Idle, CloseSteps
    <3>3. Start(p, "close", o)
      BY <3>1
    <3>. HIDE DEF o
    <3>. QED  BY <1>3, <3>1, <3>2, <3>3 DEF Steps, CloseSteps, CreateSteps
  <2>2. CASE CloseMux(p)
    BY <1>2, <2>2 DEF CloseMux, At, CreateSteps
  <2>3. CASE CloseMuxFail(p)
    BY <1>1, <1>2, <2>3 DEF CloseMuxFail, At, CreateSteps
  <2>4. CASE CloseUpdate(p)
    BY <1>1, <2>4 DEF CloseUpdate
  <2>. QED  BY <1>5, <2>1, <2>2, <2>3, <2>4 DEF Close
<1>6. CASE Delete(p)
  <2>1. CASE DeleteBegin(p)
    <3>1. PICK i \in SessionId :
              /\ Stored(rows, i)
              /\ Start(p, "delete", [Idle EXCEPT !.pc = "d_tx", !.id = i,
                                                 !.row = rows[i]])
      BY <2>1 DEF DeleteBegin
    <3>. DEFINE o == [Idle EXCEPT !.pc = "d_tx", !.id = i, !.row = rows[i]]
    <3>2. o.id = i /\ o.pc = "d_tx"
      BY DEF Idle
    <3>3. Start(p, "delete", o)
      BY <3>1
    <3>. HIDE DEF o
    <3>. QED  BY <1>3, <3>1, <3>2, <3>3 DEF Steps, CreateSteps
  <2>2. CASE DeleteTx(p)
    BY <1>1, <2>2 DEF DeleteTx
  <2>. QED  BY <1>6, <2>1, <2>2 DEF Delete
<1>7. CASE Send(p)
  <2>1. ASSUME NEW called, NEW from, NEW to \in SessionId, NEW kind,
               Stored(rows, to), Deliver(p, called, from, to, kind)
        PROVE  OthersStay(p) /\ Begins(p)
    <3>. DEFINE o == [Idle EXCEPT !.pc = "s_insert", !.id = to, !.row = rows[to],
                                  !.from = from, !.kind = kind, !.msg = drawn + 1]
    <3>1. o.id = to /\ o.pc = "s_insert"
      BY DEF Idle
    <3>2. Start(p, called, o)
      BY <2>1 DEF Deliver
    <3>. HIDE DEF o
    <3>. QED  BY <1>3, <2>1, <3>1, <3>2 DEF Steps, SendSteps, CreateSteps
  <2>2. CASE SendBegin(p)
    BY <2>1, <2>2 DEF SendBegin
  <2>3. CASE ReportBegin(p)
    BY <2>1, <2>3 DEF ReportBegin
  <2>4. CASE SendInsert(p)
    BY <1>1, <1>2, <2>4 DEF SendInsert, At, CreateSteps
  <2>5. CASE Notify(p) \/ NotifyFail(p)
    BY <1>2, <2>5 DEF Notify, NotifyFail, At, CreateSteps
  <2>6. CASE MarkDelivered(p) \/ MarkFailed(p)
    BY <1>1, <2>6 DEF MarkDelivered, MarkFailed
  <2>. QED  BY <1>7, <2>2, <2>3, <2>4, <2>5, <2>6 DEF Send
<1>8. CASE Refresh(p)
  <2>1. CASE RefreshBegin(p)
    <3>1. PICK i \in SessionId :
              /\ Live(rows[i])
              /\ Start(p, "refresh", [Idle EXCEPT !.pc = "r_probe", !.id = i,
                                                  !.row = rows[i]])
      BY <2>1 DEF RefreshBegin
    <3>. DEFINE o == [Idle EXCEPT !.pc = "r_probe", !.id = i, !.row = rows[i]]
    <3>2. o.id = i /\ o.pc = "r_probe"
      BY DEF Idle
    <3>3. Start(p, "refresh", o)
      BY <3>1
    <3>4. Stored(rows, i)
      BY <3>1 DEF Live, LiveStatuses, Stored
    <3>. HIDE DEF o
    <3>. QED  BY <1>3, <3>2, <3>3, <3>4 DEF Steps, CreateSteps
  <2>2. CASE RefreshSame(p) \/ RefreshWrite(p)
    BY <1>1, <2>2 DEF RefreshSame, RefreshWrite
  <2>. QED  BY <1>8, <2>1, <2>2 DEF Refresh
<1>9. CASE Busy(p) \/ Crash(p)
  BY <1>1, <1>9 DEF Busy, Crash
<1>. QED  BY <1>4, <1>5, <1>6, <1>7, <1>8, <1>9 DEF Act

LEMMA AloneStep ==
    ASSUME TypeOK, TypeOK', TreeInv, AloneInv, [Next]_vars
    PROVE  AloneInv'
<1>1. ASSUME NEW p \in Proc, Act(p) \/ Crash(p)
      PROVE  AloneInv'
  <2>1. OthersStay(p)
    BY <1>1, Moves
  <2>2. ids \subseteq ids'
    <3>1. StepOf(p)
      BY <1>1, StepShapeOf
    <3>. QED  BY <3>1 DEF StepOf, Draws, Inserts, Updates, Removes, Passes
  <2>3. \A q \in Proc \ {p} : op'[q] = op[q]
    BY <2>1 DEF OthersStay
  <2>4. \A q \in Proc \ {p} : Inserting(q)' <=> Inserting(q)
    BY <2>3 DEF Inserting
  <2>5. \A q \in Proc : Inserting(q) => op[q].pc # "idle"
    BY DEF Inserting, CreateSteps
  <2>6. CASE Ends(p)
    <3>1. ~Inserting(p)'
      BY <2>6 DEF Ends, Inserting, CreateSteps
    <3>. QED  BY <2>2, <2>3, <2>4, <2>6, <3>1 DEF Ends, AloneInv
  <2>7. CASE Continues(p)
    BY <2>2, <2>3, <2>4, <2>5, <2>7 DEF Continues, AloneInv
  <2>8. CASE Begins(p)
    <3>1. op'[p].id \in ids
      BY <2>8 DEF Begins, TreeInv
    <3>2. \A q \in Proc : Inserting(q) => op[q].id # op'[p].id
      BY <2>8 DEF Begins, TreeInv
    <3>. QED  BY <2>2, <2>3, <2>4, <2>8, <3>1, <3>2 DEF Begins, AloneInv
  <2>9. CASE Draws(p)
    BY <2>2, <2>3, <2>4, <2>5, <2>9 DEF Draws, AloneInv
  <2>. QED  BY <1>1, <2>6, <2>7, <2>8, <2>9, Moves
<1>2. CASE UNCHANGED <<ids, op>>
  BY <1>2 DEF AloneInv, Inserting
<1>3. ASSUME NEW i \in SessionId, PaneBoot(i) \/ PaneDies(i)
      PROVE  UNCHANGED <<ids, op>>
  BY <1>3 DEF PaneBoot, PaneDies, idVars
<1>. QED  BY <1>1, <1>2, <1>3 DEF Next, vars

-----------------------------------------------------------------------------
(***************************************************************************)
(* Whose pane it is.                                                       *)
(***************************************************************************)

(* The pane of a row is owned or borrowed, as the row says.                *)
RowAgrees(i) ==
    Stored(rows, i) =>
        IF rows[i].owned THEN pane[i] # "host" ELSE pane[i] \notin OwnPane

(* The same of the row an operation is about to insert; and the operations *)
(* that close a pane do not do so to a borrowed one.                       *)
OpAgrees(p) ==
    /\ op[p].pc \in CreateSteps =>
           /\ op[p].row.owned /\ Live(op[p].row)
           /\ pane[op[p].id] # "host"
    /\ op[p].pc = "i_insert" =>
           ~op[p].row.owned /\ pane[op[p].id] \notin OwnPane
    /\ op[p].pc = "x_mux" => pane[op[p].id] # "host"

OwnerInv ==
    /\ \A i \in SessionId : pane[i] # "absent" => i \in ids
    /\ \A i \in SessionId : RowAgrees(i)
    /\ \A p \in Proc : OpAgrees(p)

(* A step that makes no pane, but perhaps changes what runs in one of      *)
(* asem's own, or ends it.                                                 *)
Tame ==
    \A i \in SessionId :
        /\ pane[i] = "host" <=> pane'[i] = "host"
        /\ pane'[i] \in OwnPane => pane[i] \in OwnPane

(* A step that makes no row, and changes the owner of none.                *)
QuietRows ==
    \A i \in SessionId :
        Stored(rows', i) => Stored(rows, i) /\ rows'[i].owned = rows[i].owned

LEMMA StoreQuiet ==
    ASSUME TypeOK, NEW i \in SessionId
    PROVE  /\ \A s \in Statuses : rows' = UpdateStatus(rows, i, s) => QuietRows
           /\ rows' = UpdateClosed(rows, i) => QuietRows
           /\ rows' = DeleteSession(OrphanChildren(rows, i), i) => QuietRows
<1>1. ASSUME NEW s \in Statuses, rows' = UpdateStatus(rows, i, s)
      PROVE  QuietRows
  BY <1>1 DEF UpdateStatus, QuietRows, TypeOK, Row, Stored
<1>2. ASSUME rows' = UpdateClosed(rows, i)
      PROVE  QuietRows
  BY <1>2 DEF UpdateClosed, QuietRows, TypeOK, Row, Stored
<1>3. ASSUME rows' = DeleteSession(OrphanChildren(rows, i), i)
      PROVE  QuietRows
  BY <1>3 DEF DeleteSession, OrphanChildren, EmptyRow, QuietRows, TypeOK, Row, Stored
<1>. QED  BY <1>1, <1>2, <1>3

LEMMA PaneTyped == TypeOK => pane \in [SessionId -> PaneStates]
  BY DEF TypeOK

LEMMA OpTyped ==
    ASSUME TypeOK, NEW p \in Proc
    PROVE  /\ op[p].pc # "idle" => op[p].id \in SessionId
           /\ op[p] \in Operation
  BY DEF TypeOK

(* Such a step by p keeps OwnerInv if what p is at agrees with it.         *)
LEMMA TameKeepsOwner ==
    ASSUME TypeOK, OwnerInv, Tame, QuietRows, ids \subseteq ids',
           TypeOK',
           \A q \in Proc : op'[q] = op[q] \/ OpAgrees(q)'
    PROVE  OwnerInv'
<1>0. \A i \in SessionId : pane[i] \in PaneStates /\ pane'[i] \in PaneStates
  BY DEF TypeOK
<1>1. \A i \in SessionId : pane'[i] # "absent" => i \in ids'
  BY <1>0 DEF OwnerInv, Tame, PaneStates, OwnPane
<1>2. \A i \in SessionId : RowAgrees(i)'
  BY DEF OwnerInv, RowAgrees, Tame, QuietRows
<1>3. ASSUME NEW q \in Proc, op'[q] = op[q]
      PROVE  OpAgrees(q)'
  <2>1. op[q].pc # "idle" => op[q].id \in SessionId
    BY OpTyped
  <2>2. OpAgrees(q)
    BY DEF OwnerInv
  <2>. QED  BY <1>3, <2>1, <2>2 DEF OpAgrees, Tame, CreateSteps
<1>. QED  BY <1>1, <1>2, <1>3 DEF OwnerInv

(* A step that makes the pane of a Session that only p works on.           *)
LEMMA PaneMadeKeepsOwner ==
    ASSUME TypeOK, TypeOK', TreeInv, TreeInv', AloneInv, AloneInv', OwnerInv,
           NEW p \in Proc, OthersStay(p), NEW i \in SessionId, NEW state,
           pane' = [pane EXCEPT ![i] = state], rows' = rows,
           ids \subseteq ids', i \in ids', ~Stored(rows, i),
           \/ Inserting(p) /\ i = op[p].id
           \/ Inserting(p)' /\ i = op'[p].id,
           OpAgrees(p)'
    PROVE  OwnerInv'
<1>1. pane'[i] = state /\ \A j \in SessionId \ {i} : pane'[j] = pane[j]
  BY PaneTyped
<1>2. \A j \in SessionId : pane'[j] # "absent" => j \in ids'
  BY <1>1 DEF OwnerInv
<1>3. \A j \in SessionId : RowAgrees(j)'
  BY <1>1 DEF OwnerInv, RowAgrees
<1>4. ASSUME NEW q \in Proc \ {p}
      PROVE  OpAgrees(q)'
  <2>1. op'[q] = op[q]
    BY DEF OthersStay
  <2>2. op[q].pc # "idle" => op[q].id \in SessionId /\ op[q].id # i
    BY <2>1, OpTyped DEF AloneInv
  <2>3. OpAgrees(q)
    BY DEF OwnerInv
  <2>. QED  BY <1>1, <2>1, <2>2, <2>3 DEF OpAgrees, CreateSteps
<1>. QED  BY <1>2, <1>3, <1>4 DEF OwnerInv

(* The insertion of a row.                                                 *)
LEMMA RowMadeKeepsOwner ==
    ASSUME TypeOK, TypeOK', AloneInv, OwnerInv,
           NEW p \in Proc, OthersStay(p), Inserting(p),
           rows' = InsertSession(rows, op[p].id, op[p].row),
           pane' = pane, ids' = ids, OpAgrees(p)'
    PROVE  OwnerInv'
<1>1. op[p].id \in SessionId
  BY OpTyped DEF Inserting, CreateSteps
<1>2. rows'[op[p].id] = op[p].row /\ \A j \in SessionId \ {op[p].id} : rows'[j] = rows[j]
  BY <1>1 DEF InsertSession, TypeOK
<1>3. OpAgrees(p)
  BY DEF OwnerInv
<1>4. \A j \in SessionId : RowAgrees(j)'
  BY <1>1, <1>2, <1>3 DEF OwnerInv, RowAgrees, OpAgrees, Stored, Inserting
<1>5. \A q \in Proc \ {p} : OpAgrees(q)'
  BY DEF OwnerInv, OpAgrees, OthersStay
<1>. QED  BY <1>4, <1>5 DEF OwnerInv

HostStays == \A i \in SessionId : pane[i] = "host" => pane'[i] = "host"

(* One line per way in which a step of p can leave op[p]: at a step that   *)
(* touches no pane any more, or one step further in the same operation.    *)
LEMMA OpAgreesNext ==
    ASSUME TypeOK, OwnerInv, NEW p \in Proc
    PROVE  /\ Finish(p) => OpAgrees(p)'
           /\ \A step : /\ Goto(p, step)
                        /\ step \notin CreateSteps \cup {"i_insert", "x_mux"}
                        => OpAgrees(p)'
           /\ \A step : /\ Goto(p, step)
                        /\ op[p].pc \in CreateSteps /\ step \in CreateSteps
                        /\ pane'[op[p].id] # "host"
                        => OpAgrees(p)'
           /\ \A kind, o : /\ Start(p, kind, o)
                           /\ o.pc \notin CreateSteps \cup {"i_insert", "x_mux"}
                           => OpAgrees(p)'
<1>1. Finish(p) => OpAgrees(p)'
  BY DEF TypeOK, Finish, Idle, OpAgrees, CreateSteps
<1>2. ASSUME NEW step, Goto(p, step),
             step \notin CreateSteps \cup {"i_insert", "x_mux"}
      PROVE  OpAgrees(p)'
  BY <1>2, OpMoves DEF OpAgrees
<1>3. ASSUME NEW step, Goto(p, step), op[p].pc \in CreateSteps,
             step \in CreateSteps, pane'[op[p].id] # "host"
      PROVE  OpAgrees(p)'
  <2>1. OpAgrees(p)
    BY DEF OwnerInv
  <2>. QED  BY <1>3, <2>1, OpMoves DEF OpAgrees, CreateSteps
<1>4. ASSUME NEW kind, NEW o, Start(p, kind, o),
             o.pc \notin CreateSteps \cup {"i_insert", "x_mux"}
      PROVE  OpAgrees(p)'
  BY <1>4, OpMoves DEF OpAgrees
<1>. QED  BY <1>1, <1>2, <1>3, <1>4

LEMMA CreateOwner ==
    ASSUME TypeOK, TypeOK', TreeInv, TreeInv', AloneInv, AloneInv', OwnerInv,
           NEW p \in Proc, Create(p)
    PROVE  OwnerInv' /\ HostStays
<1>0. OthersStay(p)
  BY Moves DEF Act
<1>a. \A q \in Proc \ {p} : op'[q] = op[q]
  BY <1>0 DEF OthersStay
<1>b. op[p].pc # "idle" => op[p].id \in SessionId
  BY OpTyped
<1>c. Inserting(p) => op[p].id \in ids /\ ~Stored(rows, op[p].id)
  BY DEF TreeInv
<1>d. op[p].pc \in CreateSteps => Inserting(p) /\ pane[op[p].id] # "host"
  BY DEF OwnerInv, OpAgrees, Inserting
<1>1. CASE CreateBegin(p)
  <2>1. PICK i \in SessionId, n \in Name, par \in Parents, m \in Mux \ {"none"} :
            /\ DrawId(i)
            /\ Start(p, "create", [Idle EXCEPT !.pc = "c_mux", !.id = i,
                                     !.row = RunningRow(n, par, m, TRUE)])
    BY <1>1 DEF CreateBegin
  <2>. DEFINE o == [Idle EXCEPT !.pc = "c_mux", !.id = i,
                                !.row = RunningRow(n, par, m, TRUE)]
  <2>2. o.pc = "c_mux" /\ o.id = i /\ o.row.owned /\ Live(o.row)
    BY DEF Idle, RunningRow, Live, LiveStatuses
  <2>3. Start(p, "create", o)
    BY <2>1
  <2>. HIDE DEF o
  <2>4. op'[p] = o
    BY <2>3, OpMoves
  <2>5. pane' = pane /\ rows' = rows
    BY <1>1 DEF CreateBegin, paneVars, storeVars
  <2>6. pane[i] = "absent"
    BY <2>1 DEF DrawId, Fresh, OwnerInv
  <2>7. OpAgrees(p)'
    BY <2>2, <2>4, <2>5, <2>6 DEF OpAgrees, CreateSteps
  <2>. QED  BY <1>a, <2>1, <2>5, <2>7, TameKeepsOwner
            DEF Tame, QuietRows, HostStays, DrawId
<1>2. CASE MuxCreate(p)
  <2>. DEFINE state == IF op[p].row.mux \in AutoStart THEN "boot" ELSE "open"
  <2>1. /\ pane' = [pane EXCEPT ![op[p].id] = state]
        /\ Goto(p, "c_script") /\ rows' = rows /\ ids' = ids
        /\ op[p].pc \in CreateSteps
    BY <1>2 DEF MuxCreate, SetPane, At, CreateSteps, storeVars, idVars
  <2>2. state # "host"
    OBVIOUS
  <2>. HIDE DEF state
  <2>3. op[p].id \in SessionId
    BY <1>b, <2>1 DEF CreateSteps
  <2>4. pane'[op[p].id] = state
    BY <2>1, <2>3, PaneTyped
  <2>5. OpAgrees(p)'
    BY <2>1, <2>2, <2>4, OpAgreesNext DEF CreateSteps
  <2>6. HostStays
    BY <1>d, <2>1, <2>3, PaneTyped DEF HostStays
  <2>. QED  BY <1>0, <1>c, <1>d, <2>1, <2>3, <2>5, <2>6, PaneMadeKeepsOwner
<1>3. CASE MuxCreateFail(p)
  <2>1. PICK state \in {"absent", "open"} : pane' = [pane EXCEPT ![op[p].id] = state]
    BY <1>3 DEF MuxCreateFail, SetPane
  <2>2. /\ Finish(p) /\ rows' = rows /\ ids' = ids
        /\ op[p].pc \in CreateSteps
    BY <1>3 DEF MuxCreateFail, At, CreateSteps, storeVars, idVars
  <2>3. op[p].id \in SessionId
    BY <1>b, <2>2 DEF CreateSteps
  <2>4. OpAgrees(p)'
    BY <2>2, OpAgreesNext
  <2>5. HostStays
    BY <1>d, <2>1, <2>2, <2>3, PaneTyped DEF HostStays
  <2>. QED  BY <1>0, <1>c, <1>d, <2>1, <2>2, <2>3, <2>4, <2>5, PaneMadeKeepsOwner
<1>4. CASE WriteScript(p)
  <2>1. pane' = pane /\ rows' = rows /\ ids' = ids
    BY <1>4 DEF WriteScript, storeVars, idVars
  <2>2. OpAgrees(p)'
    BY <1>4, <1>d, <2>1, OpAgreesNext DEF WriteScript, At, CreateSteps
  <2>. QED  BY <1>a, <2>1, <2>2, TameKeepsOwner DEF Tame, QuietRows, HostStays
<1>5. CASE WriteScriptFail(p)
  BY <1>a, <1>5, OpAgreesNext, TameKeepsOwner
     DEF WriteScriptFail, Tame, QuietRows, HostStays, storeVars, idVars, paneVars
<1>6. CASE RunInPane(p)
  <2>1. op[p].pc \in CreateSteps /\ op[p].id \in SessionId
    BY <1>6, <1>b DEF RunInPane, At, CreateSteps
  <2>2. pane[op[p].id] # "host"
    BY <1>d, <2>1
  <2>3. Tame
    BY <1>6, <2>1, <2>2, PaneTyped DEF RunInPane, SetPane, Tame, PaneStates, OwnPane
  <2>4. OpAgrees(p)'
    BY <1>6, <2>1, <2>2, <2>3, OpAgreesNext DEF RunInPane, Tame, CreateSteps
  <2>. QED  BY <1>a, <1>6, <2>3, <2>4, TameKeepsOwner
            DEF RunInPane, Tame, QuietRows, HostStays, storeVars, idVars
<1>7. CASE RunFail(p) \/ InsertConflict(p)
  <2>1. op[p].pc \in CreateSteps /\ op[p].id \in SessionId
    BY <1>7, <1>b DEF RunFail, InsertConflict, At, CreateSteps
  <2>2. pane[op[p].id] # "host"
    BY <1>d, <2>1
  <2>3. Tame
    BY <1>7, <2>1, <2>2, PaneTyped
       DEF RunFail, InsertConflict, Cleanup, SetPane, Tame, PaneStates, OwnPane
  <2>. QED  BY <1>a, <1>7, <2>3, OpAgreesNext, TameKeepsOwner
            DEF RunFail, InsertConflict, Tame, QuietRows, HostStays, storeVars, idVars
<1>8. CASE InsertRow(p)
  <2>1. Inserting(p)
    BY <1>8 DEF InsertRow, At, Inserting, CreateSteps
  <2>. QED  BY <1>0, <1>8, <2>1, OpAgreesNext, RowMadeKeepsOwner
            DEF InsertRow, HostStays, idVars, paneVars
<1>. QED  BY <1>1, <1>2, <1>3, <1>4, <1>5, <1>6, <1>7, <1>8 DEF Create

LEMMA InitOwner ==
    ASSUME TypeOK, TypeOK', TreeInv, TreeInv', AloneInv, AloneInv', OwnerInv,
           NEW p \in Proc, InitSession(p)
    PROVE  OwnerInv' /\ HostStays
<1>0. OthersStay(p)
  BY Moves DEF Act
<1>a. \A q \in Proc \ {p} : op'[q] = op[q]
  BY <1>0 DEF OthersStay
<1>1. CASE InitBegin(p)
  <2>1. PICK i \in SessionId, n \in Name, par \in Parents, m \in Mux :
            /\ DrawId(i)
            /\ SetPane(i, IF m = "none" THEN "absent" ELSE "host")
            /\ Start(p, "init", [Idle EXCEPT !.pc = "i_insert", !.id = i,
                                   !.row = RunningRow(n, par, m, FALSE)])
    BY <1>1 DEF InitBegin
  <2>. DEFINE o == [Idle EXCEPT !.pc = "i_insert", !.id = i,
                                !.row = RunningRow(n, par, m, FALSE)]
              state == IF m = "none" THEN "absent" ELSE "host"
  <2>2. o.pc = "i_insert" /\ o.id = i /\ ~o.row.owned
    BY DEF Idle, RunningRow
  <2>3. Start(p, "init", o) /\ pane' = [pane EXCEPT ![i] = state]
    BY <2>1 DEF SetPane
  <2>4. state \notin OwnPane
    BY DEF OwnPane
  <2>. HIDE DEF o, state
  <2>5. op'[p] = o
    BY <2>3, OpMoves
  <2>6. rows' = rows /\ ids' = ids \cup {i} /\ i \notin ids
    BY <1>1, <2>1 DEF InitBegin, DrawId, Fresh, storeVars
  <2>7. pane'[i] = state
    BY <2>3, PaneTyped
  <2>8. OpAgrees(p)'
    BY <2>2, <2>4, <2>5, <2>7 DEF OpAgrees, CreateSteps
  <2>9. HostStays
    BY <2>3, <2>6, PaneTyped DEF HostStays, OwnerInv
  <2>10. Inserting(p)' /\ op'[p].id = i /\ ~Stored(rows, i)
    BY <2>2, <2>5, <2>6 DEF Inserting, TreeInv
  <2>. QED  BY <1>0, <2>3, <2>6, <2>8, <2>9, <2>10, PaneMadeKeepsOwner
<1>2. CASE InitInsert(p)
  <2>1. Inserting(p)
    BY <1>2 DEF InitInsert, At, Inserting
  <2>2. OpAgrees(p)'
    BY <1>2, OpAgreesNext DEF InitInsert, CreateSteps
  <2>. QED  BY <1>0, <1>2, <2>1, <2>2, RowMadeKeepsOwner
            DEF InitInsert, HostStays, idVars, paneVars
<1>3. CASE InitToken(p)
  <2>1. OpAgrees(p)'
    BY <1>3, OpAgreesNext DEF InitToken, CreateSteps
  <2>. QED  BY <1>a, <1>3, <2>1, TameKeepsOwner
            DEF InitToken, Tame, QuietRows, HostStays, storeVars, idVars, paneVars
<1>4. CASE InitConflict(p) \/ InitPointer(p) \/ InitFilesFail(p)
  BY <1>a, <1>4, OpAgreesNext, TameKeepsOwner
     DEF InitConflict, InitPointer, InitFilesFail, Tame, QuietRows, HostStays,
         storeVars, idVars, paneVars
<1>. QED  BY <1>1, <1>2, <1>3, <1>4 DEF InitSession

LEMMA CloseOwner ==
    ASSUME TypeOK, TypeOK', OwnerInv, NEW p \in Proc, Close(p)
    PROVE  OwnerInv' /\ HostStays
<1>a. \A q \in Proc \ {p} : op'[q] = op[q]
  BY Moves DEF Act, OthersStay
<1>1. CASE CloseBegin(p)
  <2>1. PICK i \in SessionId :
            /\ Stored(rows, i)
            /\ Start(p, "close", [Idle EXCEPT !.id = i, !.row = rows[i],
                                   !.pc = IF NeedsMuxClose(rows[i])
                                            THEN "x_mux" ELSE "x_update"])
    BY <1>1 DEF CloseBegin
  <2>. DEFINE o == [Idle EXCEPT !.id = i, !.row = rows[i],
                                !.pc = IF NeedsMuxClose(rows[i])
                                         THEN "x_mux" ELSE "x_update"]
  <2>2. /\ o.id = i /\ o.pc \in CloseSteps
        /\ o.pc = "x_mux" => rows[i].owned
    BY DEF Idle, CloseSteps, NeedsMuxClose
  <2>3. Start(p, "close", o)
    BY <2>1
  <2>. HIDE DEF o
  <2>4. op'[p] = o
    BY <2>3, OpMoves
  <2>5. pane' = pane /\ rows' = rows /\ ids' = ids
    BY <1>1 DEF CloseBegin, storeVars, idVars, paneVars
  <2>6. OpAgrees(p)'
    BY <2>1, <2>2, <2>4, <2>5
       DEF OwnerInv, RowAgrees, OpAgrees, CloseSteps, CreateSteps
  <2>. QED  BY <1>a, <2>5, <2>6, TameKeepsOwner DEF Tame, QuietRows, HostStays
<1>2. CASE CloseMux(p)
  <2>1. op[p].id \in SessionId /\ pane[op[p].id] # "host"
    BY <1>2, OpTyped DEF CloseMux, At, OwnerInv, OpAgrees
  <2>2. Tame
    BY <1>2, <2>1, PaneTyped DEF CloseMux, SetPane, Tame, OwnPane
  <2>3. OpAgrees(p)'
    BY <1>2, OpAgreesNext DEF CloseMux, CreateSteps
  <2>. QED  BY <1>a, <1>2, <2>2, <2>3, TameKeepsOwner
            DEF CloseMux, Tame, QuietRows, HostStays, storeVars, idVars
<1>3. CASE CloseMuxFail(p)
  <2>1. OpAgrees(p)'
    BY <1>3, OpAgreesNext DEF CloseMuxFail, CreateSteps
  <2>. QED  BY <1>a, <1>3, <2>1, TameKeepsOwner
            DEF CloseMuxFail, Tame, QuietRows, HostStays, storeVars, idVars, paneVars
<1>4. CASE CloseUpdate(p)
  <2>1. op[p].id \in SessionId
    BY <1>4, OpTyped DEF CloseUpdate, At
  <2>2. QuietRows
    BY <1>4, <2>1, StoreQuiet DEF CloseUpdate
  <2>. QED  BY <1>a, <1>4, <2>2, OpAgreesNext, TameKeepsOwner
            DEF CloseUpdate, Tame, HostStays, idVars, paneVars
<1>. QED  BY <1>1, <1>2, <1>3, <1>4 DEF Close

(* The other operations touch no pane.                                     *)
LEMMA OtherOwner ==
    ASSUME TypeOK, TypeOK', OwnerInv, NEW p \in Proc,
           Delete(p) \/ Send(p) \/ Refresh(p) \/ Busy(p) \/ Crash(p)
    PROVE  OwnerInv' /\ HostStays
<1>a. \A q \in Proc \ {p} : op'[q] = op[q]
  BY Moves DEF Act, OthersStay
<1>1. ASSUME ids \subseteq ids', pane' = pane, QuietRows, OpAgrees(p)'
      PROVE  OwnerInv' /\ HostStays
  BY <1>a, <1>1, TameKeepsOwner DEF Tame, HostStays
<1>2. rows' = rows => QuietRows
  BY DEF QuietRows
<1>3. CASE DeleteBegin(p)
  <2>1. PICK i \in SessionId :
            Start(p, "delete", [Idle EXCEPT !.pc = "d_tx", !.id = i,
                                            !.row = rows[i]])
    BY <1>3 DEF DeleteBegin
  <2>. DEFINE o == [Idle EXCEPT !.pc = "d_tx", !.id = i, !.row = rows[i]]
  <2>2. o.pc = "d_tx" /\ Start(p, "delete", o)
    BY <2>1 DEF Idle
  <2>. HIDE DEF o
  <2>3. OpAgrees(p)'
    BY <2>2, OpAgreesNext DEF CreateSteps
  <2>. QED  BY <1>1, <1>2, <1>3, <2>3 DEF DeleteBegin, storeVars, idVars, paneVars
<1>4. CASE DeleteTx(p)
  <2>1. op[p].id \in SessionId
    BY <1>4, OpTyped DEF DeleteTx, At
  <2>2. QuietRows
    BY <1>4, <2>1, StoreQuiet DEF DeleteTx
  <2>. QED  BY <1>1, <1>4, <2>2, OpAgreesNext DEF DeleteTx, idVars, paneVars
<1>5. ASSUME NEW called, NEW from, NEW to, NEW kind,
             Deliver(p, called, from, to, kind)
      PROVE  OwnerInv' /\ HostStays
  <2>. DEFINE o == [Idle EXCEPT !.pc = "s_insert", !.id = to, !.row = rows[to],
                                !.from = from, !.kind = kind, !.msg = drawn + 1]
  <2>1. o.pc = "s_insert" /\ Start(p, called, o)
    BY <1>5 DEF Deliver, Idle
  <2>. HIDE DEF o
  <2>2. OpAgrees(p)'
    BY <2>1, OpAgreesNext DEF CreateSteps
  <2>. QED  BY <1>1, <1>2, <1>5, <2>2 DEF Deliver, storeVars, paneVars
<1>6. CASE SendBegin(p) \/ ReportBegin(p)
  BY <1>5, <1>6 DEF SendBegin, ReportBegin
<1>7. CASE SendInsert(p)
  BY <1>1, <1>2, <1>7, OpAgreesNext DEF SendInsert, CreateSteps, idVars, paneVars
<1>8. CASE Notify(p) \/ NotifyFail(p)
  BY <1>1, <1>2, <1>8, OpAgreesNext
     DEF Notify, NotifyFail, CreateSteps, storeVars, idVars
<1>9. CASE MarkDelivered(p) \/ MarkFailed(p)
  BY <1>1, <1>2, <1>9, OpAgreesNext DEF MarkDelivered, MarkFailed, idVars, paneVars
<1>10. CASE RefreshBegin(p)
  <2>1. PICK i \in SessionId :
            Start(p, "refresh", [Idle EXCEPT !.pc = "r_probe", !.id = i,
                                             !.row = rows[i]])
    BY <1>10 DEF RefreshBegin
  <2>. DEFINE o == [Idle EXCEPT !.pc = "r_probe", !.id = i, !.row = rows[i]]
  <2>2. o.pc = "r_probe" /\ Start(p, "refresh", o)
    BY <2>1 DEF Idle
  <2>. HIDE DEF o
  <2>3. OpAgrees(p)'
    BY <2>2, OpAgreesNext DEF CreateSteps
  <2>. QED  BY <1>1, <1>2, <1>10, <2>3 DEF RefreshBegin, storeVars, idVars, paneVars
<1>11. CASE RefreshSame(p) \/ Busy(p) \/ Crash(p)
  BY <1>1, <1>2, <1>11, OpAgreesNext
     DEF RefreshSame, Busy, Crash, storeVars, idVars, paneVars
<1>12. CASE RefreshWrite(p)
  <2>1. op[p].id \in SessionId
    BY <1>12, OpTyped DEF RefreshWrite, At
  <2>2. QuietRows
    BY <1>12, <2>1, StoreQuiet, WorkspaceAssumption DEF RefreshWrite
  <2>. QED  BY <1>1, <1>12, <2>2, OpAgreesNext DEF RefreshWrite, idVars, paneVars
<1>. QED  BY <1>3, <1>4, <1>6, <1>7, <1>8, <1>9, <1>10, <1>11, <1>12
          DEF Delete, Send, Refresh

LEMMA PaneOwner ==
    ASSUME TypeOK, TypeOK', OwnerInv, NEW i \in SessionId,
           PaneBoot(i) \/ PaneDies(i)
    PROVE  OwnerInv' /\ HostStays
<1>1. Tame
  BY PaneTyped DEF PaneBoot, PaneDies, SetPane, Tame, OwnPane
<1>2. rows' = rows /\ ids' = ids /\ op' = op
  BY DEF PaneBoot, PaneDies, storeVars, idVars
<1>. QED  BY <1>1, <1>2, TameKeepsOwner DEF Tame, QuietRows, HostStays

LEMMA OwnerStep ==
    ASSUME TypeOK, TypeOK', TreeInv, TreeInv', AloneInv, AloneInv', OwnerInv,
           [Next]_vars
    PROVE  OwnerInv' /\ HostStays
<1>1. ASSUME NEW p \in Proc, Act(p) \/ Crash(p)
      PROVE  OwnerInv' /\ HostStays
  BY <1>1, CreateOwner, InitOwner, CloseOwner, OtherOwner DEF Act
<1>2. CASE UNCHANGED vars
  BY <1>2 DEF vars, OwnerInv, RowAgrees, OpAgrees, HostStays
<1>. QED  BY <1>1, <1>2, PaneOwner DEF Next

LEMMA InitialInvariants == Init => TreeInv /\ AloneInv /\ OwnerInv
  BY StoreAssumption
     DEF Init, TreeInv, TreeAcyclic, AloneInv, OwnerInv, RowAgrees, OpAgrees,
         Stored, EmptyRow, Inserting, Idle, CreateSteps

(* Whatever fails, no operation closes or takes over a pane that           *)
(* init-session found: the owner that close reads is never stale, and no   *)
(* failed create cleans up somebody else's pane.                           *)
THEOREM BorrowedPanesSurvive == Spec => HostPaneUntouched
<1>1. TypeOK /\ TypeOK' /\ TreeInv /\ TreeInv' /\ AloneInv /\ [Next]_vars
          => AloneInv'
  BY AloneStep
<1>2. TypeOK /\ TypeOK' /\ TreeInv /\ TreeInv' /\ AloneInv /\ AloneInv'
          /\ OwnerInv /\ [Next]_vars => OwnerInv'
  BY OwnerStep
<1>3. TypeOK /\ TypeOK' /\ TreeInv /\ TreeInv' /\ AloneInv /\ AloneInv'
          /\ OwnerInv /\ [Next]_vars
          => [\A i \in SessionId : pane[i] = "host" => pane'[i] = "host"]_vars
  BY OwnerStep DEF HostStays
<1>. QED  BY <1>1, <1>2, <1>3, InitialInvariants, TypeCorrect, TreeStep, PTL
          DEF Spec, HostPaneUntouched

-----------------------------------------------------------------------------
(***************************************************************************)
(* What is deleted.                                                        *)
(***************************************************************************)

(* A Session whose delete is under way stays as dead as it was when its    *)
(* status was read.                                                        *)
DeadInv == \A p \in Proc : op[p].pc = "d_tx" => ~Live(rows[op[p].id])

(* A step that brings no Session to life, and one that removes no live one. *)
NoneRevives == \A i \in SessionId : Live(rows'[i]) => Live(rows[i])

OnlyDeadGo ==
    \A i \in SessionId : Stored(rows, i) /\ ~Stored(rows', i) => ~Live(rows[i])

LEMMA StoreRevives ==
    ASSUME TypeOK, NEW i \in SessionId
    PROVE  /\ \A s \in Statuses \ LiveStatuses :
                  rows' = UpdateStatus(rows, i, s) => NoneRevives /\ OnlyDeadGo
           /\ rows' = UpdateClosed(rows, i) => NoneRevives /\ OnlyDeadGo
           /\ rows' = DeleteSession(OrphanChildren(rows, i), i) =>
                  /\ NoneRevives
                  /\ ~Live(rows[i]) => OnlyDeadGo
<1>1. ASSUME NEW s \in Statuses \ LiveStatuses, rows' = UpdateStatus(rows, i, s)
      PROVE  NoneRevives /\ OnlyDeadGo
  BY <1>1 DEF UpdateStatus, NoneRevives, OnlyDeadGo, Live, TypeOK, Row, Stored,
              Statuses
<1>2. ASSUME rows' = UpdateClosed(rows, i)
      PROVE  NoneRevives /\ OnlyDeadGo
  BY <1>2 DEF UpdateClosed, NoneRevives, OnlyDeadGo, Live, LiveStatuses, TypeOK,
              Row, Stored
<1>3. ASSUME rows' = DeleteSession(OrphanChildren(rows, i), i)
      PROVE  NoneRevives /\ (~Live(rows[i]) => OnlyDeadGo)
  BY <1>3 DEF DeleteSession, OrphanChildren, EmptyRow, NoneRevives, OnlyDeadGo,
              Live, LiveStatuses, TypeOK, Row, Stored
<1>. QED  BY <1>1, <1>2, <1>3

(* Where the status of rows and the deletes under way can change.          *)
QuietStatus(p) == NoneRevives /\ OnlyDeadGo /\ op'[p].pc # "d_tx"

InsertsOwn(p) ==
    /\ Inserting(p)
    /\ rows' = InsertSession(rows, op[p].id, op[p].row)
    /\ op'[p].pc # "d_tx"

LEMMA DeadMoves ==
    ASSUME Probed \cap LiveStatuses = {},
           TypeOK, NEW p \in Proc, Act(p) \/ Crash(p)
    PROVE  QuietStatus(p) \/ InsertsOwn(p) \/ DeleteBegin(p) \/ DeleteTx(p)
<1>. USE DEF QuietStatus
<1>1. op[p].pc # "idle" => op[p].id \in SessionId
  BY OpTyped
<1>2. rows' = rows => NoneRevives /\ OnlyDeadGo
  BY DEF NoneRevives, OnlyDeadGo
<1>3. Finish(p) => op'[p].pc # "d_tx"
  BY DEF TypeOK, Finish, Idle
<1>4. \A step : Goto(p, step) => op'[p].pc = step
  BY OpMoves
<1>5. CASE CreateBegin(p) \/ InitBegin(p)
  <2>1. StepOf(p)
    BY <1>5, CreateShape DEF Create, InitSession
  <2>2. ids' # ids
    BY <1>5 DEF CreateBegin, InitBegin, DrawId, Fresh
  <2>3. Inserting(p)' /\ rows' = rows
    BY <2>1, <2>2 DEF StepOf, Draws, Inserts, Updates, Removes, Passes
  <2>. QED  BY <1>2, <2>3 DEF Inserting, CreateSteps
<1>6. CASE \/ MuxCreate(p) \/ MuxCreateFail(p) \/ WriteScript(p)
           \/ WriteScriptFail(p) \/ RunInPane(p) \/ RunFail(p)
           \/ InsertConflict(p) \/ InitConflict(p) \/ InitToken(p)
           \/ InitPointer(p) \/ InitFilesFail(p)
  BY <1>2, <1>3, <1>4, <1>6
     DEF MuxCreate, MuxCreateFail, WriteScript, WriteScriptFail, RunInPane, RunFail,
         InsertConflict, InitConflict, InitToken, InitPointer, InitFilesFail,
         storeVars
<1>7. CASE InsertRow(p) \/ InitInsert(p)
  BY <1>3, <1>4, <1>7
     DEF InsertRow, InitInsert, InsertsOwn, At, Inserting, CreateSteps
<1>8. CASE CloseBegin(p)
  <2>1. PICK i \in SessionId :
            Start(p, "close", [Idle EXCEPT !.id = i, !.row = rows[i],
                                 !.pc = IF NeedsMuxClose(rows[i])
                                          THEN "x_mux" ELSE "x_update"])
    BY <1>8 DEF CloseBegin
  <2>. DEFINE o == [Idle EXCEPT !.id = i, !.row = rows[i],
                                !.pc = IF NeedsMuxClose(rows[i])
                                         THEN "x_mux" ELSE "x_update"]
  <2>2. o.pc # "d_tx" /\ Start(p, "close", o)
    BY <2>1 DEF Idle
  <2>. HIDE DEF o
  <2>. QED  BY <1>2, <1>8, <2>2, OpMoves DEF CloseBegin, storeVars
<1>9. CASE CloseMux(p) \/ CloseMuxFail(p)
  BY <1>2, <1>3, <1>4, <1>9 DEF CloseMux, CloseMuxFail, storeVars
<1>10. CASE CloseUpdate(p)
  BY <1>1, <1>3, <1>10, StoreRevives DEF CloseUpdate, At
<1>11. ASSUME NEW called, NEW from, NEW to, NEW kind,
              Deliver(p, called, from, to, kind)
       PROVE  QuietStatus(p)
  <2>. DEFINE o == [Idle EXCEPT !.pc = "s_insert", !.id = to, !.row = rows[to],
                                !.from = from, !.kind = kind, !.msg = drawn + 1]
  <2>1. o.pc # "d_tx" /\ Start(p, called, o)
    BY <1>11 DEF Deliver, Idle
  <2>. HIDE DEF o
  <2>. QED  BY <1>2, <1>11, <2>1, OpMoves DEF Deliver, storeVars
<1>12. CASE SendBegin(p) \/ ReportBegin(p)
  BY <1>11, <1>12 DEF SendBegin, ReportBegin
<1>13. CASE \/ SendInsert(p) \/ Notify(p) \/ NotifyFail(p) \/ MarkDelivered(p)
            \/ MarkFailed(p) \/ RefreshSame(p) \/ Busy(p) \/ Crash(p)
  BY <1>2, <1>3, <1>4, <1>13
     DEF SendInsert, Notify, NotifyFail, MarkDelivered, MarkFailed, RefreshSame,
         Busy, Crash, storeVars
<1>14. CASE RefreshBegin(p)
  <2>1. PICK i \in SessionId :
            Start(p, "refresh", [Idle EXCEPT !.pc = "r_probe", !.id = i,
                                             !.row = rows[i]])
    BY <1>14 DEF RefreshBegin
  <2>. DEFINE o == [Idle EXCEPT !.pc = "r_probe", !.id = i, !.row = rows[i]]
  <2>2. o.pc # "d_tx" /\ Start(p, "refresh", o)
    BY <2>1 DEF Idle
  <2>. HIDE DEF o
  <2>. QED  BY <1>2, <1>14, <2>2, OpMoves DEF RefreshBegin, storeVars
<1>15. CASE RefreshWrite(p)
  <2>1. PICK s \in Probed : rows' = UpdateStatus(rows, op[p].id, s)
    BY <1>15 DEF RefreshWrite
  <2>2. s \in Statuses \ LiveStatuses
    BY WorkspaceAssumption
  <2>. QED  BY <1>1, <1>3, <1>15, <2>1, <2>2, StoreRevives DEF RefreshWrite, At
<1>. QED  BY <1>5, <1>6, <1>7, <1>8, <1>9, <1>10, <1>12, <1>13, <1>14, <1>15
          DEF Act, Create, InitSession, Close, Delete, Send, Refresh

LEMMA DeadStep ==
    ASSUME Probed \cap LiveStatuses = {},
           TypeOK, TreeInv, AloneInv, DeadInv, [Next]_vars
    PROVE  DeadInv' /\ OnlyDeadGo
<1>1. ASSUME NEW p \in Proc, Act(p) \/ Crash(p)
      PROVE  DeadInv' /\ OnlyDeadGo
  <2>1. \A q \in Proc \ {p} : op'[q] = op[q]
    BY <1>1, Moves DEF OthersStay
  <2>2. \A q \in Proc : op[q].pc # "idle" => op[q].id \in SessionId
    BY OpTyped
  <2>3. CASE QuietStatus(p)
    BY <2>1, <2>2, <2>3 DEF QuietStatus, NoneRevives, DeadInv
  <2>4. CASE InsertsOwn(p)
    <3>1. op[p].id \in SessionId /\ ~Stored(rows, op[p].id)
      BY <2>2, <2>4 DEF InsertsOwn, Inserting, CreateSteps, TreeInv
    <3>2. \A i \in SessionId \ {op[p].id} : rows'[i] = rows[i]
      BY <2>4 DEF InsertsOwn, InsertSession, TypeOK
    <3>3. OnlyDeadGo
      BY <3>1, <3>2 DEF OnlyDeadGo, Stored
    <3>4. \A q \in Proc \ {p} : op[q].pc = "d_tx" => op[q].id # op[p].id
      BY <2>4 DEF InsertsOwn, AloneInv
    <3>. QED  BY <2>1, <2>2, <2>4, <3>2, <3>3, <3>4 DEF InsertsOwn, DeadInv
  <2>5. CASE DeleteBegin(p)
    <3>1. PICK i \in SessionId :
              /\ ~Live(rows[i])
              /\ Start(p, "delete", [Idle EXCEPT !.pc = "d_tx", !.id = i,
                                                 !.row = rows[i]])
      BY <2>5 DEF DeleteBegin
    <3>. DEFINE o == [Idle EXCEPT !.pc = "d_tx", !.id = i, !.row = rows[i]]
    <3>2. o.id = i /\ Start(p, "delete", o)
      BY <3>1 DEF Idle
    <3>. HIDE DEF o
    <3>3. op'[p].id = i
      BY <3>2, OpMoves
    <3>4. rows' = rows
      BY <2>5 DEF DeleteBegin, storeVars
    <3>. QED  BY <2>1, <3>1, <3>3, <3>4 DEF DeadInv, OnlyDeadGo
  <2>6. CASE DeleteTx(p)
    <3>1. op[p].id \in SessionId /\ ~Live(rows[op[p].id])
      BY <2>2, <2>6 DEF DeleteTx, At, DeadInv
    <3>2. NoneRevives /\ OnlyDeadGo
      BY <2>6, <3>1, StoreRevives DEF DeleteTx
    <3>3. op'[p].pc = "idle"
      BY <2>6 DEF DeleteTx, Finish, Idle, TypeOK
    <3>. QED  BY <2>1, <2>2, <3>2, <3>3 DEF NoneRevives, DeadInv
  <2>. QED  BY <1>1, <2>3, <2>4, <2>5, <2>6, DeadMoves
<1>2. ASSUME NEW i \in SessionId, PaneBoot(i) \/ PaneDies(i)
      PROVE  UNCHANGED <<rows, op>>
  BY <1>2 DEF PaneBoot, PaneDies, storeVars
<1>3. CASE UNCHANGED <<rows, op>>
  BY <1>3 DEF DeadInv, OnlyDeadGo
<1>. QED  BY <1>1, <1>2, <1>3 DEF Next, vars

(* deleteSession tests the status and deletes some steps later: no live    *)
(* Session is removed, as long as no probe reports a dead one live.        *)
THEOREM DeletedWereDead ==
    ASSUME Probed \cap LiveStatuses = {}
    PROVE  Spec => OnlyDeadRowsDeleted
<1>1. TypeOK /\ TypeOK' /\ TreeInv /\ TreeInv' /\ AloneInv /\ [Next]_vars
          => AloneInv'
  BY AloneStep
<1>2. TypeOK /\ TreeInv /\ AloneInv /\ DeadInv /\ [Next]_vars => DeadInv'
  BY DeadStep
<1>3. TypeOK /\ TreeInv /\ AloneInv /\ DeadInv /\ [Next]_vars
          => [\A i \in SessionId :
                 Stored(rows, i) /\ ~Stored(rows', i) => ~Live(rows[i])]_vars
  BY DeadStep DEF OnlyDeadGo
<1>4. Init => DeadInv
  BY DEF Init, DeadInv, Idle
<1>. QED  BY <1>1, <1>2, <1>3, <1>4, InitialInvariants, TypeCorrect, TreeStep, PTL
          DEF Spec, OnlyDeadRowsDeleted

-----------------------------------------------------------------------------
(***************************************************************************)
(* Panes that nobody knows of.                                             *)
(***************************************************************************)

(* The code cleans up after these faults only, and the probe that ships    *)
(* never reports a dead Session.                                           *)
Tidy ==
    /\ Faults \subseteq {"run", "pane", "files", "send"}
    /\ Probed \subseteq LiveStatuses

(* PaneAccounted, and what close and delete rely on: the pane is gone by   *)
(* the time they give up the row.                                          *)
AccountInv ==
    /\ PaneAccounted
    /\ \A p \in Proc :
           op[p].pc \in {"x_update", "d_tx"} => pane[op[p].id] \notin OwnPane

NoneMade == \A i \in SessionId : pane'[i] \in OwnPane => pane[i] \in OwnPane

(* The row of a Session with a pane stays live.                            *)
LiveStay ==
    \A i \in SessionId :
        Live(rows[i]) /\ pane'[i] \in OwnPane => Live(rows'[i])

(* A create does not end before its pane does, or its row is there.        *)
CreateHandsOver(p) ==
    op[p].pc \in CreateSteps =>
        \/ op'[p].pc \in CreateSteps /\ op'[p].id = op[p].id
        \/ pane'[op[p].id] \notin OwnPane
        \/ Live(rows'[op[p].id])

GivesUpNoPane(p) ==
    op'[p].pc \in {"x_update", "d_tx"} => pane'[op'[p].id] \notin OwnPane

Careful(p) == NoneMade /\ LiveStay /\ CreateHandsOver(p) /\ GivesUpNoPane(p)

LEMMA CarefulStep ==
    ASSUME TypeOK, AccountInv, NEW p \in Proc, OthersStay(p), Careful(p)
    PROVE  AccountInv'
<1>. USE DEF Careful
<1>1. ASSUME NEW i \in SessionId, pane'[i] \in OwnPane
      PROVE  \/ Live(rows'[i])
             \/ \E q \in Proc : op'[q].id = i /\ op'[q].pc \in CreateSteps
  <2>1. \/ Live(rows[i])
        \/ \E q \in Proc : op[q].id = i /\ op[q].pc \in CreateSteps
    BY <1>1 DEF NoneMade, AccountInv, PaneAccounted
  <2>2. CASE Live(rows[i])
    BY <1>1, <2>2 DEF LiveStay
  <2>3. ASSUME NEW q \in Proc, op[q].id = i, op[q].pc \in CreateSteps
        PROVE  \/ Live(rows'[i])
               \/ op'[q].id = i /\ op'[q].pc \in CreateSteps
    BY <1>1, <2>3 DEF CreateHandsOver, OthersStay
  <2>. QED  BY <2>1, <2>2, <2>3
<1>2. \A q \in Proc : op[q].pc # "idle" => op[q].id \in SessionId
  BY OpTyped
<1>3. ASSUME NEW q \in Proc, op'[q].pc \in {"x_update", "d_tx"}
      PROVE  pane'[op'[q].id] \notin OwnPane
  BY <1>2, <1>3 DEF GivesUpNoPane, OthersStay, AccountInv, NoneMade
<1>. QED  BY <1>1, <1>3 DEF AccountInv, PaneAccounted

(* The new pane of a create is not one that anybody else gives up.         *)
LEMMA MuxCreateAccount ==
    ASSUME TypeOK, AloneInv, AccountInv, NEW p \in Proc, MuxCreate(p)
    PROVE  AccountInv'
<1>. DEFINE i == op[p].id
<1>1. /\ \A j \in SessionId \ {i} : pane'[j] = pane[j]
      /\ rows' = rows
  BY PaneTyped DEF MuxCreate, SetPane, storeVars
<1>2. op'[p].id = i /\ op'[p].pc = "c_script"
  BY OpMoves DEF MuxCreate
<1>3. \A q \in Proc \ {p} : op'[q] = op[q]
  BY Moves DEF Act, Create, OthersStay
<1>4. PaneAccounted'
  BY <1>1, <1>2, <1>3 DEF AccountInv, PaneAccounted, CreateSteps
<1>5. \A q \in Proc \ {p} : op[q].pc # "idle" => op[q].id # i /\ op[q].id \in SessionId
  BY OpTyped DEF AloneInv, MuxCreate, At, Inserting, CreateSteps
<1>. QED  BY <1>1, <1>2, <1>3, <1>4, <1>5 DEF AccountInv

LEMMA StoreAccounts ==
    ASSUME TypeOK, NEW i \in SessionId, pane' = pane
    PROVE  /\ \A s \in LiveStatuses : rows' = UpdateStatus(rows, i, s) => LiveStay
           /\ pane[i] \notin OwnPane =>
                  /\ rows' = UpdateClosed(rows, i) => LiveStay
                  /\ rows' = DeleteSession(OrphanChildren(rows, i), i) => LiveStay
<1>1. ASSUME NEW s \in LiveStatuses, rows' = UpdateStatus(rows, i, s)
      PROVE  LiveStay
  BY <1>1 DEF UpdateStatus, LiveStay, Live, TypeOK, Row
<1>2. ASSUME pane[i] \notin OwnPane, rows' = UpdateClosed(rows, i)
      PROVE  LiveStay
  BY <1>2 DEF UpdateClosed, LiveStay, TypeOK
<1>3. ASSUME pane[i] \notin OwnPane,
             rows' = DeleteSession(OrphanChildren(rows, i), i)
      PROVE  LiveStay
  BY <1>3 DEF DeleteSession, OrphanChildren, LiveStay, Live, TypeOK, Row
<1>. QED  BY <1>1, <1>2, <1>3

LEMMA CreateCareful ==
    ASSUME Tidy, TypeOK, TreeInv, OwnerInv, AccountInv, NEW p \in Proc,
           Create(p) \/ InitSession(p), ~MuxCreate(p)
    PROVE  Careful(p)
<1>. USE DEF Careful
<1>1. pane' = pane => NoneMade
  BY DEF NoneMade
<1>2. rows' = rows => LiveStay
  BY DEF LiveStay
<1>3. Finish(p) => GivesUpNoPane(p)
  BY DEF TypeOK, Finish, Idle, GivesUpNoPane
<1>4. \A step : Goto(p, step) => op'[p].pc = step /\ op'[p].id = op[p].id
  BY OpMoves
<1>5. op[p].pc \notin CreateSteps => CreateHandsOver(p)
  BY DEF CreateHandsOver
<1>6. op[p].pc # "idle" => op[p].id \in SessionId
  BY OpTyped
<1>7. CASE CreateBegin(p) \/ InitBegin(p)
  <2>1. StepOf(p)
    BY <1>7, CreateShape DEF Create, InitSession
  <2>2. ids' # ids
    BY <1>7 DEF CreateBegin, InitBegin, DrawId, Fresh
  <2>3. Inserting(p)' /\ rows' = rows
    BY <2>1, <2>2 DEF StepOf, Draws, Inserts, Updates, Removes, Passes
  <2>4. op[p].pc = "idle"
    BY <1>7 DEF CreateBegin, InitBegin, Start
  <2>5. NoneMade
    BY <1>7, PaneTyped
       DEF CreateBegin, InitBegin, SetPane, NoneMade, OwnPane, paneVars
  <2>. QED  BY <1>2, <1>5, <2>3, <2>4, <2>5
            DEF Inserting, GivesUpNoPane, CreateSteps
<1>8. CASE WriteScript(p)
  BY <1>1, <1>2, <1>4, <1>8
     DEF WriteScript, CreateSteps, CreateHandsOver, GivesUpNoPane, storeVars
<1>9. CASE MuxCreateFail(p) \/ WriteScriptFail(p)
  BY <1>9 DEF MuxCreateFail, WriteScriptFail, Tidy
<1>10. CASE RunInPane(p)
  <2>1. op[p].pc \in CreateSteps /\ op[p].id \in SessionId
    BY <1>6, <1>10 DEF RunInPane, At, CreateSteps
  <2>2. pane[op[p].id] # "host"
    BY <2>1 DEF OwnerInv, OpAgrees
  <2>3. NoneMade
    BY <1>10, <2>1, <2>2, PaneTyped
       DEF RunInPane, SetPane, NoneMade, PaneStates, OwnPane
  <2>. QED  BY <1>2, <1>4, <1>10, <2>3
            DEF RunInPane, CreateSteps, CreateHandsOver, GivesUpNoPane, storeVars
<1>11. CASE RunFail(p) \/ InsertConflict(p)
  <2>1. op[p].id \in SessionId
    BY <1>6, <1>11 DEF RunFail, InsertConflict, At
  <2>2. pane' = [pane EXCEPT ![op[p].id] = "absent"]
    BY <1>11 DEF RunFail, InsertConflict, Cleanup, SetPane, Tidy
  <2>3. NoneMade /\ pane'[op[p].id] \notin OwnPane
    BY <2>1, <2>2, PaneTyped DEF NoneMade, OwnPane
  <2>. QED  BY <1>2, <1>3, <1>11, <2>3
            DEF RunFail, InsertConflict, CreateHandsOver, storeVars
<1>12. CASE InsertRow(p) \/ InitInsert(p)
  <2>1. op[p].id \in SessionId /\ Inserting(p)
    BY <1>6, <1>12 DEF InsertRow, InitInsert, At, Inserting, CreateSteps
  <2>2. /\ rows'[op[p].id] = op[p].row
        /\ \A i \in SessionId \ {op[p].id} : rows'[i] = rows[i]
    BY <1>12, <2>1 DEF InsertRow, InitInsert, InsertSession, TypeOK
  <2>3. ~Live(rows[op[p].id])
    BY <2>1 DEF TreeInv, Stored, Live, LiveStatuses
  <2>4. LiveStay
    BY <2>2, <2>3 DEF LiveStay
  <2>5. CreateHandsOver(p)
    BY <2>2 DEF CreateHandsOver, OwnerInv, OpAgrees
  <2>. QED  BY <1>1, <1>3, <1>4, <1>12, <2>4, <2>5
            DEF InsertRow, InitInsert, GivesUpNoPane, paneVars
<1>13. CASE InitConflict(p) \/ InitToken(p) \/ InitPointer(p) \/ InitFilesFail(p)
  BY <1>1, <1>2, <1>3, <1>4, <1>5, <1>13
     DEF InitConflict, InitToken, InitPointer, InitFilesFail, At, CreateSteps,
         GivesUpNoPane, storeVars, paneVars
<1>. QED  BY <1>7, <1>8, <1>9, <1>10, <1>11, <1>12, <1>13 DEF Create, InitSession

(* A row that is not live, and is not about to be inserted, has no pane of *)
(* asem's any more.                                                        *)
LEMMA DeadHasNoPane ==
    ASSUME TreeInv, AccountInv, NEW i \in SessionId, Stored(rows, i),
           ~Live(rows[i])
    PROVE  pane[i] \notin OwnPane
  BY DEF AccountInv, PaneAccounted, TreeInv, Inserting

LEMMA OtherCareful ==
    ASSUME Tidy, TypeOK, TreeInv, OwnerInv, AccountInv, NEW p \in Proc,
           Close(p) \/ Delete(p) \/ Send(p) \/ Refresh(p) \/ Busy(p) \/ Crash(p)
    PROVE  Careful(p)
<1>. USE DEF Careful
<1>1. pane' = pane => NoneMade
  BY DEF NoneMade
<1>2. rows' = rows => LiveStay
  BY DEF LiveStay
<1>3. Finish(p) => GivesUpNoPane(p)
  BY DEF TypeOK, Finish, Idle, GivesUpNoPane
<1>4. \A step : Goto(p, step) => op'[p].pc = step /\ op'[p].id = op[p].id
  BY OpMoves
<1>5. op[p].pc \notin CreateSteps => CreateHandsOver(p)
  BY DEF CreateHandsOver
<1>6. op[p].pc # "idle" => op[p].id \in SessionId
  BY OpTyped
<1>7. ASSUME NEW kind, NEW o, Start(p, kind, o), rows' = rows, pane' = pane,
             o.pc \in {"x_update", "d_tx"} => pane[o.id] \notin OwnPane
      PROVE  Careful(p)
  <2>1. op'[p] = o /\ op[p].pc = "idle"
    BY <1>7, OpMoves DEF Start
  <2>. QED  BY <1>1, <1>2, <1>5, <1>7, <2>1 DEF GivesUpNoPane, CreateSteps
<1>8. CASE CloseBegin(p)
  <2>1. PICK i \in SessionId :
            /\ Stored(rows, i)
            /\ Start(p, "close", [Idle EXCEPT !.id = i, !.row = rows[i],
                                   !.pc = IF NeedsMuxClose(rows[i])
                                            THEN "x_mux" ELSE "x_update"])
    BY <1>8 DEF CloseBegin
  <2>. DEFINE o == [Idle EXCEPT !.id = i, !.row = rows[i],
                                !.pc = IF NeedsMuxClose(rows[i])
                                         THEN "x_mux" ELSE "x_update"]
  <2>2. /\ o.id = i /\ o.pc # "d_tx" /\ Start(p, "close", o)
        /\ o.pc = "x_update" => ~Live(rows[i]) \/ ~rows[i].owned
    BY <2>1 DEF Idle, NeedsMuxClose
  <2>. HIDE DEF o
  <2>3. ~rows[i].owned => pane[i] \notin OwnPane
    BY <2>1 DEF OwnerInv, RowAgrees
  <2>. QED  BY <1>7, <1>8, <2>1, <2>2, <2>3, DeadHasNoPane
            DEF CloseBegin, storeVars, paneVars
<1>9. CASE CloseMux(p)
  <2>1. op[p].id \in SessionId
    BY <1>6, <1>9 DEF CloseMux, At
  <2>2. NoneMade /\ pane'[op[p].id] \notin OwnPane
    BY <1>9, <2>1, PaneTyped DEF CloseMux, SetPane, NoneMade, OwnPane
  <2>. QED  BY <1>2, <1>4, <1>5, <1>9, <2>2
            DEF CloseMux, At, CreateSteps, GivesUpNoPane, storeVars
<1>10. CASE CloseMuxFail(p)
  <2>1. pane[op[p].id] = "absent"
    BY <1>10 DEF CloseMuxFail, Tidy
  <2>. QED  BY <1>1, <1>2, <1>3, <1>4, <1>5, <1>10, <2>1
            DEF CloseMuxFail, At, CreateSteps, GivesUpNoPane, OwnPane, storeVars,
                paneVars
<1>11. CASE CloseUpdate(p) \/ DeleteTx(p)
  <2>1. op[p].id \in SessionId /\ pane[op[p].id] \notin OwnPane
    BY <1>6, <1>11 DEF CloseUpdate, DeleteTx, At, AccountInv
  <2>2. LiveStay
    BY <1>11, <2>1, StoreAccounts DEF CloseUpdate, DeleteTx, paneVars
  <2>. QED  BY <1>1, <1>3, <1>5, <1>11, <2>2
            DEF CloseUpdate, DeleteTx, At, CreateSteps, paneVars
<1>12. CASE DeleteBegin(p)
  <2>1. PICK i \in SessionId :
            /\ Stored(rows, i) /\ ~Live(rows[i])
            /\ Start(p, "delete", [Idle EXCEPT !.pc = "d_tx", !.id = i,
                                               !.row = rows[i]])
    BY <1>12 DEF DeleteBegin
  <2>. DEFINE o == [Idle EXCEPT !.pc = "d_tx", !.id = i, !.row = rows[i]]
  <2>2. o.id = i /\ Start(p, "delete", o)
    BY <2>1 DEF Idle
  <2>. HIDE DEF o
  <2>. QED  BY <1>7, <1>12, <2>1, <2>2, DeadHasNoPane
            DEF DeleteBegin, storeVars, paneVars
<1>13. ASSUME NEW called, NEW from, NEW to, NEW kind,
              Deliver(p, called, from, to, kind)
       PROVE  Careful(p)
  <2>. DEFINE o == [Idle EXCEPT !.pc = "s_insert", !.id = to, !.row = rows[to],
                                !.from = from, !.kind = kind, !.msg = drawn + 1]
  <2>1. o.pc = "s_insert" /\ Start(p, called, o)
    BY <1>13 DEF Deliver, Idle
  <2>. HIDE DEF o
  <2>. QED  BY <1>7, <1>13, <2>1 DEF Deliver, storeVars, paneVars
<1>14. CASE SendBegin(p) \/ ReportBegin(p)
  BY <1>13, <1>14 DEF SendBegin, ReportBegin
<1>15. CASE \/ SendInsert(p) \/ Notify(p) \/ NotifyFail(p) \/ MarkDelivered(p)
            \/ MarkFailed(p) \/ RefreshSame(p)
  BY <1>1, <1>2, <1>3, <1>4, <1>5, <1>15
     DEF SendInsert, Notify, NotifyFail, MarkDelivered, MarkFailed, RefreshSame,
         At, CreateSteps, GivesUpNoPane, storeVars, paneVars
<1>16. CASE Busy(p) \/ Crash(p)
  BY <1>16 DEF Busy, Crash, Tidy
<1>17. CASE RefreshBegin(p)
  <2>1. PICK i \in SessionId :
            Start(p, "refresh", [Idle EXCEPT !.pc = "r_probe", !.id = i,
                                             !.row = rows[i]])
    BY <1>17 DEF RefreshBegin
  <2>. DEFINE o == [Idle EXCEPT !.pc = "r_probe", !.id = i, !.row = rows[i]]
  <2>2. o.pc = "r_probe" /\ Start(p, "refresh", o)
    BY <2>1 DEF Idle
  <2>. HIDE DEF o
  <2>. QED  BY <1>7, <1>17, <2>2 DEF RefreshBegin, storeVars, paneVars
<1>18. CASE RefreshWrite(p)
  <2>1. PICK s \in LiveStatuses : rows' = UpdateStatus(rows, op[p].id, s)
    BY <1>18 DEF RefreshWrite, Tidy
  <2>2. LiveStay
    BY <1>6, <1>18, <2>1, StoreAccounts DEF RefreshWrite, At, paneVars
  <2>. QED  BY <1>1, <1>3, <1>5, <1>18, <2>2
            DEF RefreshWrite, At, CreateSteps, paneVars
<1>. QED  BY <1>8, <1>9, <1>10, <1>11, <1>12, <1>14, <1>15, <1>16, <1>17, <1>18
          DEF Close, Delete, Send, Refresh

LEMMA AccountStep ==
    ASSUME Tidy, TypeOK, TreeInv, AloneInv, OwnerInv, AccountInv, [Next]_vars
    PROVE  AccountInv'
<1>1. ASSUME NEW p \in Proc, Act(p) \/ Crash(p)
      PROVE  AccountInv'
  <2>1. CASE MuxCreate(p)
    BY <2>1, MuxCreateAccount
  <2>2. CASE ~MuxCreate(p)
    <3>1. Careful(p)
      BY <1>1, <2>2, CreateCareful, OtherCareful DEF Act
    <3>. QED  BY <1>1, <3>1, Moves, CarefulStep
  <2>. QED  BY <2>1, <2>2
<1>2. ASSUME NEW i \in SessionId, PaneBoot(i) \/ PaneDies(i)
      PROVE  AccountInv'
  <2>1. NoneMade
    BY <1>2, PaneTyped DEF PaneBoot, PaneDies, SetPane, NoneMade, OwnPane
  <2>2. rows' = rows /\ op' = op
    BY <1>2 DEF PaneBoot, PaneDies, storeVars
  <2>3. \A q \in Proc : op[q].pc # "idle" => op[q].id \in SessionId
    BY OpTyped
  <2>. QED  BY <2>1, <2>2, <2>3 DEF AccountInv, PaneAccounted, NoneMade
<1>3. CASE UNCHANGED vars
  BY <1>3 DEF vars, AccountInv, PaneAccounted
<1>. QED  BY <1>1, <1>2, <1>3 DEF Next

(* However creates, closes and deletes of different processes interleave,  *)
(* and though prompts cannot be typed and panes are killed, asem never     *)
(* loses sight of a pane it made.  The faults of Tidy are the ones this    *)
(* takes; the run ws_leak shows a pane lost after others.                  *)
THEOREM NoPaneIsLost ==
    ASSUME Tidy
    PROVE  Spec => []PaneAccounted
<1>1. TypeOK /\ TypeOK' /\ TreeInv /\ TreeInv' /\ AloneInv /\ [Next]_vars
          => AloneInv'
  BY AloneStep
<1>2. TypeOK /\ TypeOK' /\ TreeInv /\ TreeInv' /\ AloneInv /\ AloneInv'
          /\ OwnerInv /\ [Next]_vars => OwnerInv'
  BY OwnerStep
<1>3. TypeOK /\ TreeInv /\ AloneInv /\ OwnerInv /\ AccountInv /\ [Next]_vars
          => AccountInv'
  BY AccountStep
<1>4. Init => AccountInv
  BY DEF Init, AccountInv, PaneAccounted, OwnPane, Idle
<1>5. AccountInv => PaneAccounted
  BY DEF AccountInv
<1>. QED  BY <1>1, <1>2, <1>3, <1>4, <1>5, InitialInvariants, TypeCorrect,
              TreeStep, PTL DEF Spec

-----------------------------------------------------------------------------
(***************************************************************************)
(* What is recorded of a Session: its status, and that it was launched.    *)
(***************************************************************************)

(* A row somebody is about to insert, or to refresh, was running when read. *)
RunsAt(p) ==
    Inserting(p) \/ op[p].pc = "r_probe" => op[p].row.status = "running"

StatusInv ==
    /\ \A i \in SessionId : rows[i].status \in {"absent", "running", "closed"}
    /\ \A p \in Proc : RunsAt(p)

(* A step after which every row is as it was, closed or gone.              *)
OnlyCloses ==
    \A i \in SessionId : rows'[i].status \in {rows[i].status, "closed", "absent"}

(* A step in which create-session gets no nearer to its row.               *)
NotLaunched(p) == op'[p].pc # "c_insert"

LEMMA StoreCloses ==
    ASSUME TypeOK, StatusInv, NEW i \in SessionId
    PROVE  /\ rows' = rows => OnlyCloses
           /\ rows' = UpdateStatus(rows, i, "closed") => OnlyCloses
           /\ rows' = UpdateClosed(rows, i) => OnlyCloses
           /\ rows' = DeleteSession(OrphanChildren(rows, i), i) => OnlyCloses
<1>1. rows' = rows => OnlyCloses
  BY DEF OnlyCloses
<1>2. rows' = UpdateStatus(rows, i, "closed") => OnlyCloses
  BY DEF UpdateStatus, OnlyCloses, TypeOK, Row
<1>3. rows' = UpdateClosed(rows, i) => OnlyCloses
  BY DEF UpdateClosed, OnlyCloses, TypeOK, Row
<1>4. rows' = DeleteSession(OrphanChildren(rows, i), i) => OnlyCloses
  BY DEF DeleteSession, OrphanChildren, EmptyRow, OnlyCloses, TypeOK, Row
<1>. QED  BY <1>1, <1>2, <1>3, <1>4

(* What the operations leave behind in op[p] when they are not at the      *)
(* insertion of a row: no step but RunInPane is followed by c_insert.      *)
LEMMA BeginMoves ==
    ASSUME TypeOK, NEW p \in Proc,
           \/ CreateBegin(p) \/ InitBegin(p) \/ CloseBegin(p) \/ DeleteBegin(p)
           \/ SendBegin(p) \/ ReportBegin(p) \/ RefreshBegin(p)
    PROVE  rows' = rows /\ NotLaunched(p) /\ (StatusInv => RunsAt(p)')
<1>1. ASSUME NEW kind, NEW o, Start(p, kind, o), o.pc # "c_insert",
             StatusInv => \/ o.row.status = "running"
                          \/ o.pc \in CloseSteps \cup {"d_tx", "s_insert"}
      PROVE  NotLaunched(p) /\ (StatusInv => RunsAt(p)')
  BY <1>1, OpMoves
     DEF RunsAt, NotLaunched, Inserting, CreateSteps, CloseSteps
<1>2. CASE CreateBegin(p)
  <2>1. PICK i \in SessionId, n \in Name, par \in Parents, m \in Mux \ {"none"} :
            Start(p, "create", [Idle EXCEPT !.pc = "c_mux", !.id = i,
                                     !.row = RunningRow(n, par, m, TRUE)])
    BY <1>2 DEF CreateBegin
  <2>. DEFINE o == [Idle EXCEPT !.pc = "c_mux", !.id = i,
                                !.row = RunningRow(n, par, m, TRUE)]
  <2>2. o.pc = "c_mux" /\ o.row.status = "running" /\ Start(p, "create", o)
    BY <2>1 DEF Idle, RunningRow
  <2>. HIDE DEF o
  <2>. QED  BY <1>1, <1>2, <2>2 DEF CreateBegin, storeVars
<1>3. CASE InitBegin(p)
  <2>1. PICK i \in SessionId, n \in Name, par \in Parents, m \in Mux :
            Start(p, "init", [Idle EXCEPT !.pc = "i_insert", !.id = i,
                                   !.row = RunningRow(n, par, m, FALSE)])
    BY <1>3 DEF InitBegin
  <2>. DEFINE o == [Idle EXCEPT !.pc = "i_insert", !.id = i,
                                !.row = RunningRow(n, par, m, FALSE)]
  <2>2. o.pc = "i_insert" /\ o.row.status = "running" /\ Start(p, "init", o)
    BY <2>1 DEF Idle, RunningRow
  <2>. HIDE DEF o
  <2>. QED  BY <1>1, <1>3, <2>2 DEF InitBegin, storeVars
<1>4. CASE CloseBegin(p)
  <2>1. PICK i \in SessionId :
            Start(p, "close", [Idle EXCEPT !.id = i, !.row = rows[i],
                                 !.pc = IF NeedsMuxClose(rows[i])
                                          THEN "x_mux" ELSE "x_update"])
    BY <1>4 DEF CloseBegin
  <2>. DEFINE o == [Idle EXCEPT !.id = i, !.row = rows[i],
                                !.pc = IF NeedsMuxClose(rows[i])
                                         THEN "x_mux" ELSE "x_update"]
  <2>2. o.pc \in CloseSteps /\ Start(p, "close", o)
    BY <2>1 DEF Idle, CloseSteps
  <2>. HIDE DEF o
  <2>. QED  BY <1>1, <1>4, <2>2 DEF CloseBegin, CloseSteps, storeVars
<1>5. CASE DeleteBegin(p)
  <2>1. PICK i \in SessionId :
            Start(p, "delete", [Idle EXCEPT !.pc = "d_tx", !.id = i,
                                            !.row = rows[i]])
    BY <1>5 DEF DeleteBegin
  <2>. DEFINE o == [Idle EXCEPT !.pc = "d_tx", !.id = i, !.row = rows[i]]
  <2>2. o.pc = "d_tx" /\ Start(p, "delete", o)
    BY <2>1 DEF Idle
  <2>. HIDE DEF o
  <2>. QED  BY <1>1, <1>5, <2>2 DEF DeleteBegin, storeVars
<1>6. ASSUME NEW called, NEW from, NEW to, NEW kind,
             Deliver(p, called, from, to, kind)
      PROVE  rows' = rows /\ NotLaunched(p) /\ (StatusInv => RunsAt(p)')
  <2>. DEFINE o == [Idle EXCEPT !.pc = "s_insert", !.id = to, !.row = rows[to],
                                !.from = from, !.kind = kind, !.msg = drawn + 1]
  <2>1. o.pc = "s_insert" /\ Start(p, called, o)
    BY <1>6 DEF Deliver, Idle
  <2>. HIDE DEF o
  <2>. QED  BY <1>1, <1>6, <2>1 DEF Deliver, storeVars
<1>7. CASE SendBegin(p) \/ ReportBegin(p)
  BY <1>6, <1>7 DEF SendBegin, ReportBegin
<1>8. CASE RefreshBegin(p)
  <2>1. PICK i \in SessionId :
            /\ Live(rows[i])
            /\ Start(p, "refresh", [Idle EXCEPT !.pc = "r_probe", !.id = i,
                                                !.row = rows[i]])
    BY <1>8 DEF RefreshBegin
  <2>. DEFINE o == [Idle EXCEPT !.pc = "r_probe", !.id = i, !.row = rows[i]]
  <2>2. /\ o.pc = "r_probe" /\ Start(p, "refresh", o)
        /\ StatusInv => o.row.status = "running"
    BY <2>1 DEF Idle, Live, LiveStatuses, StatusInv
  <2>. HIDE DEF o
  <2>. QED  BY <1>1, <1>8, <2>2 DEF RefreshBegin, storeVars
<1>. QED  BY <1>2, <1>3, <1>4, <1>5, <1>7, <1>8

(* The probe as shipped answers nothing; this takes one that at most       *)
(* confirms that a Session runs, or says that it was closed.               *)
LEMMA StatusMoves ==
    ASSUME Probed \subseteq {"running", "closed"},
           TypeOK, StatusInv, NEW p \in Proc, Act(p) \/ Crash(p)
    PROVE  RunsAt(p)' /\ (OnlyCloses \/ InsertsOwn(p))
<1>0. op[p].pc # "idle" => op[p].id \in SessionId
  BY OpTyped
<1>1. rows' = rows => OnlyCloses
  BY DEF OnlyCloses
<1>2. Finish(p) => RunsAt(p)'
  BY DEF TypeOK, Finish, Idle, RunsAt, Inserting, CreateSteps
<1>3. ASSUME NEW step, Goto(p, step), step # "r_probe",
             step \in CreateSteps \cup {"i_insert"} => Inserting(p)
      PROVE  RunsAt(p)'
  BY <1>3, OpMoves DEF StatusInv, RunsAt, Inserting
<1>4. CASE \/ CreateBegin(p) \/ InitBegin(p) \/ CloseBegin(p) \/ DeleteBegin(p)
           \/ SendBegin(p) \/ ReportBegin(p) \/ RefreshBegin(p)
  BY <1>1, <1>4, BeginMoves
<1>5. CASE \/ MuxCreateFail(p) \/ WriteScriptFail(p) \/ RunFail(p)
           \/ InsertConflict(p) \/ InitConflict(p) \/ InitPointer(p)
           \/ InitFilesFail(p) \/ MarkDelivered(p) \/ MarkFailed(p)
           \/ RefreshSame(p) \/ Busy(p) \/ Crash(p)
  BY <1>1, <1>2, <1>5
     DEF MuxCreateFail, WriteScriptFail, RunFail, InsertConflict, InitConflict,
         InitPointer, InitFilesFail, MarkDelivered, MarkFailed, RefreshSame, Busy,
         Crash, storeVars
<1>6. CASE \/ MuxCreate(p) \/ WriteScript(p) \/ RunInPane(p) \/ InitToken(p)
           \/ CloseMux(p) \/ CloseMuxFail(p)
           \/ SendInsert(p) \/ Notify(p) \/ NotifyFail(p)
  BY <1>1, <1>2, <1>3, <1>6
     DEF MuxCreate, WriteScript, RunInPane, InitToken, CloseMux, CloseMuxFail,
         SendInsert, Notify, NotifyFail, At, Inserting, CreateSteps, storeVars
<1>7. CASE InsertRow(p) \/ InitInsert(p)
  BY <1>2, <1>3, <1>7, OpMoves
     DEF InsertRow, InitInsert, InsertsOwn, At, Inserting, CreateSteps, Finish,
         Idle, TypeOK
<1>8. CASE CloseUpdate(p) \/ DeleteTx(p)
  BY <1>0, <1>2, <1>8, StoreCloses DEF CloseUpdate, DeleteTx, At
<1>9. CASE RefreshWrite(p)
  <2>1. op[p].row.status = "running"
    BY <1>9 DEF RefreshWrite, At, StatusInv, RunsAt
  <2>2. rows' = UpdateStatus(rows, op[p].id, "closed")
    BY <1>9, <2>1 DEF RefreshWrite
  <2>. QED  BY <1>0, <1>2, <1>9, <2>2, StoreCloses DEF RefreshWrite, At
<1>. QED  BY <1>4, <1>5, <1>6, <1>7, <1>8, <1>9
          DEF Act, Create, InitSession, Close, Delete, Send, Refresh

LEMMA StatusStep ==
    ASSUME Probed \subseteq {"running", "closed"},
           TypeOK, TreeInv, StatusInv, [Next]_vars
    PROVE  /\ StatusInv'
           /\ \A i \in SessionId : rows[i].status = "closed" =>
                                       rows'[i].status \in {"closed", "absent"}
<1>1. ASSUME NEW p \in Proc, Act(p) \/ Crash(p)
      PROVE  /\ StatusInv'
             /\ \A i \in SessionId : rows[i].status = "closed" =>
                                         rows'[i].status \in {"closed", "absent"}
  <2>1. RunsAt(p)' /\ (OnlyCloses \/ InsertsOwn(p))
    BY <1>1, StatusMoves
  <2>2. \A q \in Proc : RunsAt(q)'
    BY <1>1, <2>1, Moves DEF OthersStay, StatusInv, RunsAt, Inserting
  <2>3. CASE OnlyCloses
    BY <2>2, <2>3 DEF OnlyCloses, StatusInv
  <2>4. CASE InsertsOwn(p)
    <3>1. /\ op[p].id \in SessionId
          /\ ~Stored(rows, op[p].id)
          /\ op[p].row.status = "running"
      BY <2>4, OpTyped
         DEF InsertsOwn, Inserting, CreateSteps, TreeInv, StatusInv, RunsAt
    <3>2. /\ rows'[op[p].id] = op[p].row
          /\ \A i \in SessionId \ {op[p].id} : rows'[i] = rows[i]
      BY <2>4, <3>1 DEF InsertsOwn, InsertSession, TypeOK
    <3>. QED  BY <2>2, <3>1, <3>2 DEF StatusInv, Stored
  <2>. QED  BY <2>1, <2>3, <2>4
<1>2. ASSUME NEW i \in SessionId, PaneBoot(i) \/ PaneDies(i)
      PROVE  UNCHANGED <<rows, op>>
  BY <1>2 DEF PaneBoot, PaneDies, storeVars
<1>3. CASE UNCHANGED <<rows, op>>
  BY <1>3 DEF StatusInv, RunsAt, Inserting
<1>. QED  BY <1>1, <1>2, <1>3 DEF Next, vars

(* A closed Session is never shown live again, though refreshes write what *)
(* they found some steps after they read the row: it takes a probe that    *)
(* says of a running Session that it exited, or starts.                    *)
THEOREM ClosedStaysClosed ==
    ASSUME Probed \subseteq {"running", "closed"}
    PROVE  Spec => ClosedIsFinal
<1>1. Init => StatusInv
  BY DEF Init, StatusInv, RunsAt, EmptyRow, Idle, Inserting, CreateSteps
<1>2. TypeOK /\ TreeInv /\ StatusInv /\ [Next]_vars => StatusInv'
  BY StatusStep
<1>3. TypeOK /\ TreeInv /\ StatusInv /\ [Next]_vars
          => [\A i \in SessionId :
                 rows[i].status = "closed" => rows'[i].status \in {"closed", "absent"}]_vars
  BY StatusStep
<1>. QED  BY <1>1, <1>2, <1>3, InitialInvariants, TypeCorrect, TreeStep, PTL
          DEF Spec, ClosedIsFinal

-----------------------------------------------------------------------------

(* Where no pane starts the launch script by itself.                       *)
LaunchInv ==
    /\ \A i \in SessionId : Stored(rows, i) /\ rows[i].owned => i \in launched
    /\ \A p \in Proc : op[p].pc = "c_insert" => op[p].id \in launched

LEMMA LaunchMoves ==
    ASSUME AutoStart = {}, TypeOK, OwnerInv, LaunchInv,
           NEW p \in Proc, Act(p) \/ Crash(p)
    PROVE  /\ launched \subseteq launched'
           /\ op'[p].pc = "c_insert" => op'[p].id \in launched'
           /\ \/ QuietRows
              \/ InsertsOwn(p) /\ (op[p].row.owned => op[p].id \in launched)
<1>0. op[p].pc # "idle" => op[p].id \in SessionId
  BY OpTyped
<1>1. rows' = rows => QuietRows
  BY DEF QuietRows
<1>2. Finish(p) => op'[p].pc # "c_insert"
  BY DEF TypeOK, Finish, Idle
<1>3. \A step : Goto(p, step) => op'[p].pc = step /\ op'[p].id = op[p].id
  BY OpMoves
<1>4. CASE \/ CreateBegin(p) \/ InitBegin(p) \/ CloseBegin(p) \/ DeleteBegin(p)
           \/ SendBegin(p) \/ ReportBegin(p) \/ RefreshBegin(p)
  <2>1. launched' = launched
    BY <1>4 DEF CreateBegin, InitBegin, CloseBegin, DeleteBegin, SendBegin,
                ReportBegin, RefreshBegin, Deliver, paneVars
  <2>. QED  BY <1>1, <1>4, <2>1, BeginMoves DEF NotLaunched
<1>5. CASE \/ MuxCreateFail(p) \/ WriteScriptFail(p) \/ RunFail(p)
           \/ InsertConflict(p) \/ InitConflict(p) \/ InitPointer(p)
           \/ InitFilesFail(p) \/ MarkDelivered(p) \/ MarkFailed(p)
           \/ RefreshSame(p) \/ Busy(p) \/ Crash(p)
  BY <1>1, <1>2, <1>5
     DEF MuxCreateFail, WriteScriptFail, RunFail, InsertConflict, InitConflict,
         InitPointer, InitFilesFail, MarkDelivered, MarkFailed, RefreshSame, Busy,
         Crash, storeVars, paneVars
<1>6. CASE \/ MuxCreate(p) \/ WriteScript(p) \/ InitToken(p)
           \/ CloseMux(p) \/ CloseMuxFail(p)
           \/ SendInsert(p) \/ Notify(p) \/ NotifyFail(p)
  BY <1>1, <1>2, <1>3, <1>6
     DEF MuxCreate, WriteScript, InitToken, CloseMux, CloseMuxFail, SendInsert,
         Notify, NotifyFail, storeVars, paneVars
<1>7. CASE RunInPane(p)
  BY <1>1, <1>3, <1>7 DEF RunInPane, storeVars
<1>8. CASE InsertRow(p) \/ InitInsert(p)
  <2>1. op[p].row.owned => op[p].id \in launched
    BY <1>8 DEF InsertRow, InitInsert, At, LaunchInv, OwnerInv, OpAgrees
  <2>. QED  BY <1>2, <1>3, <1>8, <2>1
            DEF InsertRow, InitInsert, InsertsOwn, At, Inserting, CreateSteps,
                paneVars, Finish, Idle, TypeOK
<1>9. CASE CloseUpdate(p) \/ DeleteTx(p)
  BY <1>0, <1>2, <1>9, StoreQuiet DEF CloseUpdate, DeleteTx, At, paneVars
<1>10. CASE RefreshWrite(p)
  BY <1>0, <1>2, <1>10, StoreQuiet, WorkspaceAssumption
     DEF RefreshWrite, At, paneVars
<1>. QED  BY <1>4, <1>5, <1>6, <1>7, <1>8, <1>9, <1>10
          DEF Act, Create, InitSession, Close, Delete, Send, Refresh

LEMMA LaunchStep ==
    ASSUME AutoStart = {}, TypeOK, OwnerInv, LaunchInv, [Next]_vars
    PROVE  LaunchInv'
<1>1. ASSUME NEW p \in Proc, Act(p) \/ Crash(p)
      PROVE  LaunchInv'
  <2>1. /\ launched \subseteq launched'
        /\ op'[p].pc = "c_insert" => op'[p].id \in launched'
        /\ \/ QuietRows
           \/ InsertsOwn(p) /\ (op[p].row.owned => op[p].id \in launched)
    BY <1>1, LaunchMoves
  <2>2. \A q \in Proc : op'[q].pc = "c_insert" => op'[q].id \in launched'
    BY <1>1, <2>1, Moves DEF OthersStay, LaunchInv
  <2>3. CASE QuietRows
    BY <2>1, <2>2, <2>3 DEF QuietRows, LaunchInv
  <2>4. CASE InsertsOwn(p) /\ (op[p].row.owned => op[p].id \in launched)
    <3>1. op[p].id \in SessionId
      BY <2>4, OpTyped DEF InsertsOwn, Inserting, CreateSteps
    <3>2. /\ rows'[op[p].id] = op[p].row
          /\ \A i \in SessionId \ {op[p].id} : rows'[i] = rows[i]
      BY <2>4, <3>1 DEF InsertsOwn, InsertSession, TypeOK
    <3>. QED  BY <2>1, <2>2, <2>4, <3>1, <3>2 DEF LaunchInv, Stored
  <2>. QED  BY <2>1, <2>3, <2>4
<1>2. ASSUME NEW i \in SessionId, PaneBoot(i) \/ PaneDies(i)
      PROVE  UNCHANGED <<rows, op>> /\ launched \subseteq launched'
  BY <1>2 DEF PaneBoot, PaneDies, storeVars
<1>3. CASE UNCHANGED <<rows, op>> /\ launched \subseteq launched'
  BY <1>3 DEF LaunchInv
<1>. QED  BY <1>1, <1>2, <1>3 DEF Next, vars

(* A row of create-session stands for a Session whose launch script was    *)
(* run, however creates of one name race and whatever fails, as long as    *)
(* the multiplexer starts nothing by itself (all but zellij).              *)
THEOREM RowsStandForLaunches ==
    ASSUME AutoStart = {}
    PROVE  Spec => []RowsWereLaunched
<1>1. TypeOK /\ TypeOK' /\ TreeInv /\ TreeInv' /\ AloneInv /\ [Next]_vars
          => AloneInv'
  BY AloneStep
<1>2. TypeOK /\ TypeOK' /\ TreeInv /\ TreeInv' /\ AloneInv /\ AloneInv'
          /\ OwnerInv /\ [Next]_vars => OwnerInv'
  BY OwnerStep
<1>3. TypeOK /\ OwnerInv /\ LaunchInv /\ [Next]_vars => LaunchInv'
  BY LaunchStep
<1>4. Init => LaunchInv
  BY DEF Init, LaunchInv, Stored, EmptyRow, Idle
<1>5. LaunchInv => RowsWereLaunched
  BY DEF LaunchInv, RowsWereLaunched
<1>. QED  BY <1>1, <1>2, <1>3, <1>4, <1>5, InitialInvariants, TypeCorrect,
              TreeStep, PTL DEF Spec
=============================================================================
