------------------------------- MODULE Store -------------------------------
(***************************************************************************)
(* The two tables of ~/.asem/state.db, as values, and the scoped           *)
(* primitives of SqliteStore over them.  One statement of the store is one *)
(* operator here: SQLite makes each of them atomic, nothing more.          *)
(*                                                                         *)
(* A table is a total function from the identifiers that can ever be drawn *)
(* to rows; the row of an identifier that is not stored has status (or     *)
(* delivery) "absent".  All rows belong to one Workspace, the scope every  *)
(* query of the store is restricted to.                                    *)
(***************************************************************************)
EXTENDS Integers, FiniteSets

CONSTANTS
    SessionId,   \* the UUIDs sessions can be given
    Name,        \* the session names callers ask for
    Mux,         \* the multiplexer templates in use; "none" has no transport
    Null,        \* SQL null
    MaxMessages, \* bound: messages ever drawn
    MaxStamps    \* bound: times a closed_at can be told apart

ASSUME StoreAssumption ==
    /\ Null \notin SessionId
    /\ Null \notin Name
    /\ Null \notin Mux
    /\ MaxMessages \in Nat
    /\ MaxStamps \in Nat \ {0}

MessageId == 1 .. MaxMessages

LiveStatuses == {"starting", "running"}
Statuses == LiveStatuses \cup {"exited", "missing", "closed"}

(* closedAt is 0 for null and k for the k-th time the column was stamped;  *)
(* owned is FALSE when the mux ref carries asem_mux_owned = "false".       *)
Row == [name     : Name \cup {Null},
        parent   : SessionId \cup {Null},
        status   : Statuses \cup {"absent"},
        closedAt : 0 .. MaxStamps,
        mux      : Mux \cup {Null},
        owned    : BOOLEAN]

EmptyRow == [name |-> Null, parent |-> Null, status |-> "absent",
             closedAt |-> 0, mux |-> Null, owned |-> FALSE]

RunningRow(n, par, m, own) ==
    [name |-> n, parent |-> par, status |-> "running",
     closedAt |-> 0, mux |-> m, owned |-> own]

Message == [from     : SessionId \cup {Null},
            to       : SessionId \cup {Null},
            kind     : {"message", "report"},
            delivery : {"absent", "undelivered", "delivered", "failed"}]

EmptyMessage == [from |-> Null, to |-> Null, kind |-> "message",
                 delivery |-> "absent"]

----------------------------------------------------------------------------

Stored(rows, i) == rows[i].status # "absent"

Live(row) == row.status \in LiveStatuses

NameTaken(rows, n) == \E i \in SessionId : Stored(rows, i) /\ rows[i].name = n

(* insert into sessions; the caller has met the unique (workspace, name)   *)
(* index.                                                                  *)
InsertSession(rows, i, row) == [rows EXCEPT ![i] = row]

(* update sessions set ... where id = i: no status guard, and nothing      *)
(* happens when the row is gone.                                           *)
UpdateStatus(rows, i, status) ==
    IF Stored(rows, i) THEN [rows EXCEPT ![i].status = status] ELSE rows

NextStamp(at) == IF at < MaxStamps THEN at + 1 ELSE at

(* mutant: insert or replace instead of update                             *)
UpsertClosed(rows, i) ==
    [rows EXCEPT ![i].status = "closed",
                 ![i].closedAt = NextStamp(rows[i].closedAt)]

UpdateClosed(rows, i) ==
    IF Stored(rows, i)
      THEN [rows EXCEPT ![i].status = "closed",
                        ![i].closedAt = NextStamp(rows[i].closedAt)]
      ELSE rows

(* mutant: the row is nulled out, not removed                              *)
NullSession(rows, i) == [rows EXCEPT ![i] = Null]

DeleteSession(rows, i) == [rows EXCEPT ![i] = EmptyRow]

OrphanChildren(rows, i) ==
    [j \in SessionId |-> IF rows[j].parent = i
                           THEN [rows[j] EXCEPT !.parent = Null]
                           ELSE rows[j]]

Related(msg, i) == msg.from = i \/ msg.to = i

DeleteRelatedMessages(msgs, i) ==
    [m \in MessageId |-> IF Related(msgs[m], i) THEN EmptyMessage ELSE msgs[m]]

InsertMessage(msgs, m, msg) == [msgs EXCEPT ![m] = msg]

(* update messages set delivered_at, delivery_error where id = m           *)
MarkMessage(msgs, m, outcome) ==
    IF msgs[m].delivery = "absent" THEN msgs
    ELSE [msgs EXCEPT ![m].delivery = outcome]
=============================================================================
