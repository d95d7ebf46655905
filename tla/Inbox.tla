------------------------------- MODULE Inbox -------------------------------
(***************************************************************************)
(* The messages table as the pull side of the protocol sees it: Messages   *)
(* are appended under a rising sequence number, Sessions and their         *)
(* Messages are deleted, and the Agent of each Session reads its inbox     *)
(* with list_messages and wait_messages, holding an opaque cursor between  *)
(* the calls.  The store keeps nothing about a reader, so a response that  *)
(* is lost leaves no trace: the caller still holds the cursor before it.   *)
(***************************************************************************)
EXTENDS MessagePage, Sequences, SequencesExt

CONSTANTS
    Session,      \* the Sessions of one Workspace
    Reader,       \* bound: the Sessions whose Agent reads its inbox
    View,         \* bound: the queries of a reader; "undelivered" stands
                  \* for any narrower one than the plain "inbox"
    Null,         \* a human sender
    MaxMessages,  \* bound: Messages ever inserted
    Sizes,        \* bound: body sizes in bytes
    Limits,       \* bound: the page limits callers ask for
    TailLimit,    \* MESSAGE_PAGE_MAX_LIMIT
    Budget,       \* bodyBudgetBytes
    MaxPolls      \* bound: naps of one wait_messages call

ASSUME InboxAssumption ==
    /\ Reader \subseteq Session
    /\ "inbox" \in View
    /\ View \subseteq {"inbox", "undelivered"}
    /\ Null \notin Session
    /\ MaxMessages \in Nat
    /\ Sizes \subseteq Nat
    /\ Limits \subseteq Nat \ {0}
    /\ TailLimit \in Nat \ {0}
    /\ Budget \in Nat
    /\ MaxPolls \in Nat

VARIABLES
    table,     \* table[s]: the row with sequence s
    seq,       \* sqlite_sequence: the highest number ever given
    sessions,  \* Sessions that have a row
    held,      \* held[r][view]: position of the cursor r holds; -1: none
    call,      \* the long call the Agent of r is in
    got        \* got[r]: sequence numbers received from the inbox view

vars == <<table, seq, sessions, held, call, got>>
tableVars == <<table, seq, sessions>>

Sequence == 1 .. MaxMessages
Position == 0 .. MaxMessages

Row == [stored : BOOLEAN, from : Session \cup {Null}, to : Session \cup {Null},
        size : Sizes \cup {0}, delivered : BOOLEAN]

EmptyRow == [stored |-> FALSE, from |-> Null, to |-> Null, size |-> 0,
             delivered |-> FALSE]

NoCall == [kind |-> "none", view |-> "inbox", after |-> 0, limit |-> 1,
           left |-> 0]

Call == [kind : {"none", "wait", "latest"}, view : View, after : Position,
         limit : Limits \cup {1, TailLimit}, left : 0 .. MaxPolls]

TypeOK ==
    /\ table \in [Sequence -> Row]
    /\ seq \in Position
    /\ sessions \subseteq Session
    /\ held \in [Session -> [View -> Position \cup {-1}]]
    /\ call \in [Session -> Call]
    /\ got \in [Session -> Seq(Sequence)]

Init ==
    /\ table = [s \in Sequence |-> EmptyRow]
    /\ seq = 0
    /\ sessions = Session
    /\ held = [r \in Session |-> [v \in View |-> -1]]
    /\ call = [r \in Session |-> NoCall]
    /\ got = [r \in Session |-> <<>>]

----------------------------------------------------------------------------
(* Writers                                                                 *)

(* mutant: "integer primary key" without autoincrement                     *)
AfterLastRow ==
    LET used == {s \in Sequence : table[s].stored} IN EndOf(used, 0) + 1

(* integer primary key autoincrement: numbers of deleted rows stay used    *)
NextSequence == seq + 1

(* insertMessage: the target was looked up before and may be gone by now.  *)
Insert(from, to, size) ==
    /\ seq < MaxMessages
    /\ seq' = NextSequence
    /\ table' = [table EXCEPT ![NextSequence] =
                    [stored |-> TRUE, from |-> from, to |-> to, size |-> size,
                     delivered |-> FALSE]]
    /\ UNCHANGED <<sessions, held, call, got>>

(* Left out of instances where no view tells the difference.               *)
MarkDelivered(s) ==
    /\ "undelivered" \in View
    /\ table[s].stored /\ ~table[s].delivered
    /\ table' = [table EXCEPT ![s].delivered = TRUE]
    /\ UNCHANGED <<seq, sessions, held, call, got>>

Related(i) ==
    {s \in Sequence : table[s].stored /\ (table[s].from = i \/ table[s].to = i)}

Delete(i) ==
    /\ i \in sessions
    /\ sessions' = sessions \ {i}
    /\ table' = [s \in Sequence |->
                    IF s \in Related(i) THEN EmptyRow ELSE table[s]]
    /\ UNCHANGED <<seq, held, call, got>>

----------------------------------------------------------------------------
(* Readers                                                                 *)

InView(r, v, s) ==
    /\ table[s].stored /\ table[s].to = r
    /\ v = "undelivered" => ~table[s].delivered

(* mutant: a page starts with the row the cursor stands on                 *)
FromPosition(r, v, after) == {s \in Sequence : InView(r, v, s) /\ s >= after}

Behind(r, v, after) == {s \in Sequence : InView(r, v, s) /\ s > after}

BodySize == [s \in Sequence |-> table[s].size]

PageBehind(r, v, after, limit) ==
    Page(Behind(r, v, after), BodySize, limit, Budget)

Cursors ==
    {c \in [to : Session, view : View, after : Position] :
        c.after = held[c.to][c.view]}

(* mutant: the cursor's filter is not compared                             *)
SameInbox(c, r, v) == c.to = r

(* decodeMessageCursor: the cursor must name the query it is used for, as  *)
(* the caller is authenticated now; any other one is invalid_input.        *)
Binds(c, r, v) == c.to = r /\ c.view = v

(* The positions a call of r for view v can start from: a cursor somebody  *)
(* holds and the call accepts, or the beginning when r holds none yet (the *)
(* Agent protocol: synchronize once, then go on from the last cursor).     *)
Starts(r, v) ==
    {c.after : c \in {d \in Cursors : Binds(d, r, v)}}
        \cup (IF held[r][v] = -1 THEN {0} ELSE {})

(* The caller keeps nextCursor and consumes the page.                      *)
Answer(r, v, after, page) ==
    /\ held' = [held EXCEPT ![r][v] = EndOf(page, after)]
    /\ got' = IF v = "inbox"
                THEN [got EXCEPT ![r] = @ \o InOrder(page)]
                ELSE got

Ready(r) == r \in sessions /\ call[r].kind = "none"

(* listMessages with or without a cursor                                   *)
List(r) ==
    /\ Ready(r)
    /\ \E v \in View, limit \in Limits : \E after \in Starts(r, v) :
           Answer(r, v, after, PageBehind(r, v, after, limit))
    /\ UNCHANGED <<tableVars, call>>

(* listMessages with cursor "latest": tailSequence walks pages to the end. *)
LatestBegin(r) ==
    /\ Ready(r)
    /\ \E v \in View :
           call' = [call EXCEPT ![r] = [NoCall EXCEPT !.kind = "latest",
                                                      !.view = v,
                                                      !.limit = TailLimit]]
    /\ UNCHANGED <<tableVars, held, got>>

LatestStep(r) ==
    LET v == call[r].view
        page == PageBehind(r, v, call[r].after, TailLimit)
        after == EndOf(page, call[r].after)
    IN
    /\ call[r].kind = "latest"
    /\ IF page = Behind(r, v, call[r].after)
         THEN /\ held' = [held EXCEPT ![r][v] = after]
              /\ call' = [call EXCEPT ![r] = NoCall]
         ELSE /\ call' = [call EXCEPT ![r].after = after]
              /\ UNCHANGED held
    /\ UNCHANGED <<tableVars, got>>

(* waitMessages: only the plain inbox, only from a concrete cursor         *)
WaitBegin(r) ==
    /\ Ready(r)
    /\ \E c \in Cursors, limit \in Limits, left \in 0 .. MaxPolls :
           /\ Binds(c, r, "inbox")
           /\ call' = [call EXCEPT ![r] = [kind |-> "wait", view |-> "inbox",
                                           after |-> c.after, limit |-> limit,
                                           left |-> left]]
    /\ UNCHANGED <<tableVars, held, got>>

(* mutant: the deadline is tested before the table is read                 *)
DeadlineFirst(r) ==
    LET page == PageBehind(r, "inbox", call[r].after, call[r].limit) IN
    /\ call[r].kind = "wait"
    /\ IF call[r].left # 0 /\ page = {}
         THEN call' = [call EXCEPT ![r].left = @ - 1] /\ UNCHANGED <<held, got>>
         ELSE /\ Answer(r, "inbox", call[r].after,
                        IF call[r].left = 0 THEN {} ELSE page)
              /\ call' = [call EXCEPT ![r] = NoCall]
    /\ UNCHANGED tableVars

(* One turn of the poll loop: a page, or the deadline, or another nap.     *)
WaitPoll(r) ==
    LET page == PageBehind(r, "inbox", call[r].after, call[r].limit) IN
    /\ call[r].kind = "wait"
    /\ IF page = {} /\ call[r].left # 0
         THEN call' = [call EXCEPT ![r].left = @ - 1] /\ UNCHANGED <<held, got>>
         ELSE /\ Answer(r, "inbox", call[r].after, page)
              /\ call' = [call EXCEPT ![r] = NoCall]
    /\ UNCHANGED tableVars

----------------------------------------------------------------------------

Write ==
    \/ \E from \in Session \cup {Null}, to \in Session, size \in Sizes :
           Insert(from, to, size)
    \/ \E s \in Sequence : MarkDelivered(s)
    \/ \E i \in Session : Delete(i)

Read(r) ==
    List(r) \/ LatestBegin(r) \/ LatestStep(r) \/ WaitBegin(r) \/ WaitPoll(r)

Next == Write \/ \E r \in Reader : Read(r)

Spec == Init /\ [][Next]_vars

(* A call that was made runs on: every nap ends and the store answers.     *)
FairSpec ==
    Spec /\ \A r \in Reader : WF_vars(LatestStep(r)) /\ WF_vars(WaitPoll(r))

----------------------------------------------------------------------------
(* Properties                                                              *)

(* What the inbox of r still has for it.                                   *)
Pending(r) == {s \in Sequence : InView(r, "inbox", s) /\ s > held[r]["inbox"]}

Promise == INSTANCE ReliableInbox WITH
               inbox <- [r \in Session |-> InOrder(Pending(r))],
               last <- seq

(* Readers get every Message once, in order, with no gap, whatever writers *)
(* and deletions do between two calls, between two pages, or while a call  *)
(* polls (message protocol design, Required Agent protocol).               *)
ReceivesReliably == Promise!Spec

(* A row never appears at or before a position that a reader holds or a    *)
(* call of it has reached: a cursor cannot skip what is yet to come        *)
(* (migration v5, autoincrement).                                          *)
InsertsAheadOfCursors ==
    [][\A s \in Sequence, r \in Session :
          ~table[s].stored /\ table'[s].stored =>
              /\ s > call[r].after
              /\ \A v \in View : s > held[r][v]]_vars

(* A Message that is there before a wait gives up is handed over by that   *)
(* wait, if it is the oldest and nobody deletes it or reads it elsewhere.  *)
WaitHandsOver ==
    \A r \in Session, s \in Sequence :
        (/\ call[r].kind = "wait"
         /\ s \in Behind(r, "inbox", call[r].after)
         /\ UpTo(Behind(r, "inbox", call[r].after), s) = {s})
            ~> \/ s \in ToSet(got[r])
               \/ ~table[s].stored
=============================================================================
