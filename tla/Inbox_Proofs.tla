---------------------------- MODULE Inbox_Proofs ----------------------------
(***************************************************************************)
(* Theorems about Inbox, for any number of Sessions and Messages, any      *)
(* limits and any budget: no cursor gets ahead of the numbers of Messages  *)
(* to come, and Inbox implements ReliableInbox.                            *)
(***************************************************************************)
EXTENDS Inbox, MessagePage_Proofs

(* The end of a page that is not empty is one of its rows: a set of        *)
(* numbers with an upper bound has a largest one.                          *)
LEMMA EndOfPage ==
    ASSUME NEW top \in Nat, NEW page \in SUBSET (1 .. top), NEW after,
           NEW end, end = EndOf(page, after)
    PROVE  /\ page = {} => end = after
           /\ page # {} => end \in page /\ \A t \in page : t <= end
<1>. SUFFICES ASSUME page # {}
              PROVE  \E s \in page : \A t \in page : t <= s
  BY DEF EndOf
<1>. DEFINE gaps == {g \in Nat : \E s \in page : g = top - s}
<1>0. \A s \in page : s \in Nat /\ top - s \in Nat
  OBVIOUS
<1>1. gaps \subseteq Nat /\ gaps # {}
  BY <1>0
<1>2. gaps \in SUBSET Nat
  BY <1>1
<1>3. PICK gap \in gaps : \A g \in gaps : gap <= g
  BY <1>1, <1>2, LeastNumber
<1>4. PICK s \in page : gap = top - s
  OBVIOUS
<1>5. \A t \in page : top - t \in gaps
  BY <1>0
<1>. HIDE DEF gaps
<1>6. \A t \in page : t <= s
  BY <1>0, <1>3, <1>4, <1>5
<1>. QED  BY <1>6

(* Everything that is stored, held or read behind has a number already     *)
(* given: seq, unlike the rows of the table, never falls.                  *)
AheadInv ==
    /\ seq \in Position
    /\ table \in [Sequence -> Row]
    /\ held \in [Session -> [View -> Position \cup {-1}]]
    /\ call \in [Session -> Call]
    /\ \A s \in Sequence : table[s].stored => s <= seq
    /\ \A r \in Session : call[r].after <= seq
    /\ \A r \in Session, v \in View : held[r][v] <= seq

LEMMA PageIsStored ==
    ASSUME AheadInv, NEW r, NEW v, NEW after \in Position, after <= seq, NEW limit
    PROVE  EndOf(PageBehind(r, v, after, limit), after) \in 0 .. seq
<1>1. seq \in Nat /\ Sequence = 1 .. MaxMessages /\ MaxMessages \in Nat
  BY InboxAssumption DEF AheadInv, Position, Sequence
<1>2. PageBehind(r, v, after, limit) \in SUBSET (1 .. seq)
  <2>1. PageBehind(r, v, after, limit) \subseteq Behind(r, v, after)
    BY DEF PageBehind, Page
  <2>2. Behind(r, v, after) \subseteq 1 .. seq
    BY <1>1 DEF Behind, InView, AheadInv
  <2>. QED  BY <2>1, <2>2
<1>3. after \in 0 .. seq
  BY <1>1 DEF Position
<1>4. EndOf(PageBehind(r, v, after, limit), after)
          \in PageBehind(r, v, after, limit) \cup {after}
  BY <1>1, <1>2, EndOfPage
<1>. QED  BY <1>1, <1>2, <1>3, <1>4

(* What a step must show of the cursors it moves and of the calls it is in. *)
LEMMA ReadersKeepAhead ==
    ASSUME AheadInv, UNCHANGED tableVars,
           held' \in [Session -> [View -> Position \cup {-1}]],
           call' \in [Session -> Call],
           \A r \in Session : call'[r].after <= seq,
           \A r \in Session, v \in View : held'[r][v] <= seq
    PROVE  AheadInv'
  BY DEF AheadInv, tableVars

LEMMA CallTypes ==
    ASSUME AheadInv
    PROVE  /\ NoCall \in Call /\ NoCall.after = 0
           /\ \A r \in Session : /\ call[r] \in Call
                                  /\ call[r].after \in Position
                                  /\ call[r].after <= seq
           /\ 0 \in Position /\ 0 <= seq
           /\ \A k \in 0 .. seq : k \in Position /\ k <= seq
  BY InboxAssumption DEF AheadInv, NoCall, Call, Position

LEMMA AnswerAhead ==
    ASSUME AheadInv, NEW r \in Session, NEW v \in View, NEW after, NEW page,
           EndOf(page, after) \in 0 .. seq, Answer(r, v, after, page)
    PROVE  /\ held' \in [Session -> [View -> Position \cup {-1}]]
           /\ \A q \in Session, w \in View : held'[q][w] <= seq
<1>. DEFINE end == EndOf(page, after)
<1>1. held' = [held EXCEPT ![r][v] = end]
  BY DEF Answer
<1>2. end \in Position /\ end <= seq
  BY CallTypes
<1>. HIDE DEF end
<1>. QED  BY <1>1, <1>2 DEF AheadInv

LEMMA WriteAhead ==
    ASSUME AheadInv, Write
    PROVE  AheadInv'
<1>0. seq \in Nat /\ MaxMessages \in Nat
  BY InboxAssumption DEF AheadInv, Position
<1>1. ASSUME NEW from \in Session \cup {Null}, NEW to \in Session,
             NEW size \in Sizes, Insert(from, to, size)
      PROVE  AheadInv'
  <2>. DEFINE row == [stored |-> TRUE, from |-> from, to |-> to, size |-> size,
                      delivered |-> FALSE]
  <2>1. row \in Row
    BY DEF Row
  <2>2. /\ seq' = seq + 1 /\ seq' \in Position
        /\ table' = [table EXCEPT ![seq + 1] = row]
        /\ UNCHANGED <<held, call>>
    BY <1>0, <1>1 DEF Insert, NextSequence, Position
  <2>. HIDE DEF row
  <2>3. table' \in [Sequence -> Row]
    BY <2>1, <2>2 DEF AheadInv
  <2>4. \A s \in Sequence : table'[s].stored => s <= seq + 1
    BY <1>0, <2>2 DEF AheadInv, Sequence
  <2>5. \A k \in Position \cup {-1} : k <= seq => k <= seq + 1
    BY <1>0 DEF Position
  <2>6. \A r \in Session : call[r].after <= seq + 1
    BY <2>5, CallTypes
  <2>7. \A r \in Session, v \in View : held[r][v] <= seq + 1
    BY <2>5 DEF AheadInv
  <2>. QED  BY <2>2, <2>3, <2>4, <2>6, <2>7 DEF AheadInv
<1>2. ASSUME NEW s \in Sequence, MarkDelivered(s)
      PROVE  AheadInv'
  BY <1>2 DEF MarkDelivered, AheadInv, Row
<1>3. ASSUME NEW i \in Session, Delete(i)
      PROVE  AheadInv'
  <2>1. EmptyRow \in Row /\ ~EmptyRow.stored
    BY DEF EmptyRow, Row
  <2>. QED  BY <1>3, <2>1 DEF Delete, AheadInv
<1>. QED  BY <1>1, <1>2, <1>3 DEF Write

LEMMA ReadAhead ==
    ASSUME AheadInv, NEW r \in Reader, Read(r)
    PROVE  AheadInv'
<1>. r \in Session
  BY InboxAssumption
<1>a. /\ \A c \in Cursors : /\ c.to \in Session /\ c.view \in View
                            /\ c.after \in Position /\ c.after <= seq
  BY DEF Cursors, AheadInv
<1>1. CASE List(r)
  <2>1. PICK v \in View, limit \in Limits : \E after \in Starts(r, v) :
            Answer(r, v, after, PageBehind(r, v, after, limit))
    BY <1>1 DEF List
  <2>2. PICK after \in Starts(r, v) :
            Answer(r, v, after, PageBehind(r, v, after, limit))
    BY <2>1
  <2>3. after \in Position /\ after <= seq
    BY <1>a, CallTypes DEF Starts
  <2>. QED  BY <1>1, <2>2, <2>3, PageIsStored, AnswerAhead, ReadersKeepAhead, CallTypes
            DEF List, AheadInv
<1>2. CASE LatestBegin(r)
  <2>1. PICK v \in View :
            call' = [call EXCEPT ![r] = [NoCall EXCEPT !.kind = "latest",
                                                       !.view = v,
                                                       !.limit = TailLimit]]
    BY <1>2 DEF LatestBegin
  <2>. DEFINE c == [NoCall EXCEPT !.kind = "latest", !.view = v, !.limit = TailLimit]
  <2>2. c \in Call /\ c.after = 0
    BY CallTypes DEF NoCall, Call
  <2>3. call' = [call EXCEPT ![r] = c]
    BY <2>1
  <2>. HIDE DEF c
  <2>. QED  BY <1>2, <2>2, <2>3, CallTypes, ReadersKeepAhead DEF LatestBegin, AheadInv
<1>3. CASE LatestStep(r)
  <2>. DEFINE after == EndOf(PageBehind(r, call[r].view, call[r].after, TailLimit),
                             call[r].after)
  <2>1. after \in Position /\ after <= seq
    BY PageIsStored, CallTypes
  <2>2. call[r].view \in View
    BY CallTypes DEF Call
  <2>3. /\ \/ /\ held' = [held EXCEPT ![r][call[r].view] = after]
              /\ call' = [call EXCEPT ![r] = NoCall]
           \/ /\ call' = [call EXCEPT ![r].after = after]
              /\ UNCHANGED held
        /\ UNCHANGED tableVars
    BY <1>3 DEF LatestStep
  <2>. HIDE DEF after
  <2>4. CASE /\ held' = [held EXCEPT ![r][call[r].view] = after]
             /\ call' = [call EXCEPT ![r] = NoCall]
    BY <2>1, <2>2, <2>3, <2>4, CallTypes, ReadersKeepAhead DEF AheadInv
  <2>5. CASE call' = [call EXCEPT ![r].after = after] /\ UNCHANGED held
    <3>1. [call[r] EXCEPT !.after = after] \in Call
      BY <2>1, CallTypes DEF Call
    <3>2. call' = [call EXCEPT ![r] = [call[r] EXCEPT !.after = after]]
      BY <2>5
    <3>3. [call[r] EXCEPT !.after = after].after = after
      BY CallTypes DEF Call
    <3>. DEFINE c == [call[r] EXCEPT !.after = after]
    <3>. HIDE DEF c
    <3>4. call' \in [Session -> Call] /\ \A q \in Session : call'[q].after <= seq
      BY <2>1, <3>1, <3>2, <3>3 DEF AheadInv, c
    <3>. QED  BY <2>3, <2>5, <3>4, ReadersKeepAhead DEF AheadInv
  <2>. QED  BY <2>3, <2>4, <2>5
<1>4. CASE WaitBegin(r)
  <2>1. PICK c \in Cursors, limit \in Limits, left \in 0 .. MaxPolls :
            call' = [call EXCEPT ![r] = [kind |-> "wait", view |-> "inbox",
                                         after |-> c.after, limit |-> limit,
                                         left |-> left]]
    BY <1>4 DEF WaitBegin
  <2>2. [kind |-> "wait", view |-> "inbox", after |-> c.after, limit |-> limit,
         left |-> left] \in Call
    BY <1>a, InboxAssumption DEF Call
  <2>. QED  BY <1>4, <1>a, <2>1, <2>2, ReadersKeepAhead DEF WaitBegin, AheadInv
<1>5. CASE WaitPoll(r)
  <2>. DEFINE page == PageBehind(r, "inbox", call[r].after, call[r].limit)
  <2>1. \/ /\ call[r].left # 0 /\ UNCHANGED held
           /\ call' = [call EXCEPT ![r].left = @ - 1]
        \/ /\ Answer(r, "inbox", call[r].after, page)
           /\ call' = [call EXCEPT ![r] = NoCall]
    BY <1>5 DEF WaitPoll
  <2>2. UNCHANGED tableVars
    BY <1>5 DEF WaitPoll
  <2>3. CASE /\ call[r].left # 0 /\ UNCHANGED held
             /\ call' = [call EXCEPT ![r].left = @ - 1]
    <3>1. call[r].left - 1 \in 0 .. MaxPolls
      BY <2>3, CallTypes, InboxAssumption DEF Call
    <3>2. /\ call' \in [Session -> Call]
          /\ \A q \in Session : call'[q].after = call[q].after
      BY <2>3, <3>1 DEF AheadInv, Call
    <3>. QED  BY <2>2, <2>3, <3>2, ReadersKeepAhead DEF AheadInv
  <2>4. CASE /\ Answer(r, "inbox", call[r].after, page)
             /\ call' = [call EXCEPT ![r] = NoCall]
    <3>1. EndOf(page, call[r].after) \in 0 .. seq
      BY PageIsStored, CallTypes
    <3>2. "inbox" \in View
      BY InboxAssumption
    <3>. QED  BY <2>2, <2>4, <3>1, <3>2, AnswerAhead, CallTypes, ReadersKeepAhead
              DEF AheadInv
  <2>. QED  BY <2>1, <2>3, <2>4
<1>. QED  BY <1>1, <1>2, <1>3, <1>4, <1>5 DEF Read

LEMMA AheadStep == AheadInv /\ [Next]_vars => AheadInv'
<1>1. AheadInv /\ UNCHANGED vars => AheadInv'
  BY DEF AheadInv, vars
<1>. QED  BY <1>1, WriteAhead, ReadAhead DEF Next

(* Numbers that are given to new rows are beyond every cursor held and     *)
(* every position a call has reached, for all that was deleted meanwhile.  *)
THEOREM CursorsNeverSkip == Spec => InsertsAheadOfCursors
<1>1. Init => AheadInv
  BY InboxAssumption
     DEF Init, AheadInv, Position, Sequence, EmptyRow, Row, NoCall, Call
<1>2. ASSUME AheadInv, Next, NEW s \in Sequence, NEW r \in Session,
             ~table[s].stored, table'[s].stored
      PROVE  s > call[r].after /\ \A v \in View : s > held[r][v]
  <2>1. seq \in Nat /\ call[r].after \in Int /\ \A v \in View : held[r][v] \in Int
    BY <1>2, CallTypes, InboxAssumption DEF AheadInv, Position
  <2>2. PICK from \in Session \cup {Null}, to \in Session, size \in Sizes :
            Insert(from, to, size)
    <3>1. ASSUME NEW m \in Sequence, MarkDelivered(m)
          PROVE  FALSE
      BY <1>2, <3>1 DEF MarkDelivered, AheadInv, Row
    <3>2. ASSUME NEW i \in Session, Delete(i)
          PROVE  FALSE
      BY <1>2, <3>2 DEF Delete, AheadInv, EmptyRow
    <3>3. ASSUME NEW q \in Reader, Read(q)
          PROVE  FALSE
      BY <1>2, <3>3
         DEF Read, List, LatestBegin, LatestStep, WaitBegin, WaitPoll, tableVars
    <3>. QED  BY <1>2, <3>1, <3>2, <3>3 DEF Next, Write
  <2>3. s = seq + 1
    BY <1>2, <2>2 DEF Insert, NextSequence, AheadInv
  <2>. QED  BY <1>2, <2>1, <2>3 DEF AheadInv
<1>3. AheadInv /\ [Next]_vars =>
          [\A s \in Sequence, r \in Session :
              ~table[s].stored /\ table'[s].stored =>
                  /\ s > call[r].after
                  /\ \A v \in View : s > held[r][v]]_vars
  BY <1>2
<1>. QED  BY <1>1, <1>3, AheadStep, PTL DEF Spec, InsertsAheadOfCursors

-----------------------------------------------------------------------------
(***************************************************************************)
(* The refinement.  While an Agent waits, its cursor stays where the wait  *)
(* began; a page is the start of what is pending, so the cursor behind it  *)
(* leaves the rest pending, and nothing else.                              *)
(***************************************************************************)
HoldInv ==
    /\ AheadInv
    /\ got \in [Session -> Seq(Sequence)]
    /\ \A r \in Session : call[r].kind = "wait" =>
           /\ call[r].view = "inbox"
           /\ call[r].after = held[r]["inbox"]

(* What a reader of r sees of the row s, wherever its cursor is.           *)
Seen(r) == {s \in Sequence : InView(r, "inbox", s)}

LEMMA Numbers ==
    ASSUME AheadInv
    PROVE  /\ MaxMessages \in Nat /\ seq \in Nat /\ Sequence = 1 .. MaxMessages
           /\ Sequence \in SUBSET Nat /\ IsFiniteSet(Sequence)
           /\ \A s \in Sequence : s > 0 /\ s \in Nat
<1>1. MaxMessages \in Nat /\ seq \in Nat
  BY InboxAssumption DEF AheadInv, Position
<1>2. 1 \in Int /\ MaxMessages \in Int
  BY <1>1
<1>3. IsFiniteSet(1 .. MaxMessages)
  BY <1>2, FS_Interval
<1>. QED  BY <1>1, <1>3 DEF Sequence

LEMMA PendingFits ==
    ASSUME AheadInv, NEW r, NEW set, set = Pending(r)
    PROVE  /\ set \in SUBSET Sequence /\ set \in SUBSET Nat /\ IsFiniteSet(set)
           /\ \A s \in set : s <= seq
<1>1. set \in SUBSET Sequence /\ \A s \in set : table[s].stored
  BY DEF Pending, InView
<1>2. IsFiniteSet(set)
  BY <1>1, Numbers, FS_Subset
<1>3. \A s \in set : s <= seq
  BY <1>1 DEF AheadInv
<1>. QED  BY <1>1, <1>2, <1>3, Numbers

(* A page behind the cursor of r is the start of what is pending for r.    *)
LEMMA PageFits ==
    ASSUME AheadInv, NEW r \in Session, NEW after \in Position, NEW limit \in Nat,
           after = held[r]["inbox"] \/ (held[r]["inbox"] = -1 /\ after = 0),
           NEW page, page = PageBehind(r, "inbox", after, limit)
    PROVE  /\ Behind(r, "inbox", after) = Pending(r)
           /\ StartOf(page, Pending(r))
<1>1. Behind(r, "inbox", after) = Pending(r)
  BY Numbers DEF Behind, Pending
<1>2. PICK f : f = BodySize
  OBVIOUS
<1>3. f \in [Sequence -> Nat]
  <2>1. \A row \in Row : row.size \in Sizes \cup {0}
    BY DEF Row
  <2>2. \A s \in Sequence : table[s] \in Row
    BY DEF AheadInv
  <2>3. Sizes \cup {0} \subseteq Nat
    BY InboxAssumption
  <2>. QED  BY <1>2, <2>1, <2>2, <2>3 DEF BodySize
<1>4. PICK set : set = Pending(r)
  OBVIOUS
<1>5. set \in SUBSET Sequence
  BY <1>4, PendingFits
<1>6. page = Page(set, f, limit, Budget)
  BY <1>1, <1>2, <1>4 DEF PageBehind
<1>7. Budget \in Nat /\ Sequence \in SUBSET Nat /\ IsFiniteSet(Sequence)
  BY InboxAssumption, Numbers
<1>8. StartOf(page, set)
  BY <1>3, <1>5, <1>6, <1>7, PageStarts
<1>. QED  BY <1>1, <1>4, <1>8

(* What is left when the cursor has moved behind a page.                   *)
LEMMA MovesOn ==
    ASSUME AheadInv, NEW r \in Session, NEW page, StartOf(page, Pending(r)),
           NEW after \in Position,
           after = held[r]["inbox"] \/ (held[r]["inbox"] = -1 /\ after = 0),
           NEW end, end = EndOf(page, after)
    PROVE  {s \in Sequence : InView(r, "inbox", s) /\ s > end} = Pending(r) \ page
<1>0. page \in SUBSET Pending(r) /\ \A s \in page, t \in Pending(r) \ page : s < t
  BY DEF StartOf
<1>1. PICK set : set = Pending(r)
  OBVIOUS
<1>2. set = {s \in Sequence : InView(r, "inbox", s) /\ s > after}
  BY <1>1, Numbers DEF Pending
<1>3. after \in Nat
  BY InboxAssumption DEF Position
<1>4. CASE page = {}
  BY <1>1, <1>2, <1>4 DEF EndOf
<1>5. CASE page # {}
  <2>1. page \in SUBSET (1 .. MaxMessages) /\ MaxMessages \in Nat
    BY <1>0, <1>1, PendingFits, Numbers
  <2>2. end \in page /\ \A t \in page : t <= end
    BY <1>5, <2>1, EndOfPage
  <2>3. end \in set /\ end \in Nat /\ after < end
    BY <1>0, <1>1, <1>2, <1>3, <2>1, <2>2
  <2>4. ASSUME NEW s \in Sequence, InView(r, "inbox", s)
        PROVE  s > end <=> s \in set /\ s \notin page
    <3>1. s \in Nat
      BY Numbers
    <3>2. CASE s > end
      <4>1. s > after
        BY <1>3, <2>3, <3>1, <3>2
      <4>2. s \notin page
        BY <2>2, <2>3, <3>1, <3>2
      <4>. QED  BY <1>2, <2>4, <3>2, <4>1, <4>2
    <3>3. CASE ~(s > end)
      <4>1. s \in set /\ s \notin page => end < s
        BY <1>0, <1>1, <2>2
      <4>. QED  BY <3>1, <2>3, <3>3, <4>1
    <3>. QED  BY <3>2, <3>3
  <2>. QED  BY <1>1, <1>2, <2>4
<1>. QED  BY <1>4, <1>5

-----------------------------------------------------------------------------
(***************************************************************************)
(* HoldInv is inductive.                                                   *)
(***************************************************************************)
LEMMA PageIsSeq ==
    ASSUME AheadInv, NEW page \in SUBSET Sequence
    PROVE  InOrder(page) \in Seq(Sequence)
<1>1. PICK all : all = Sequence
  OBVIOUS
<1>2. all \in SUBSET Nat /\ IsFiniteSet(all) /\ page \in SUBSET all
  BY <1>1, Numbers
<1>3. page \in SUBSET Nat /\ IsFiniteSet(page)
  BY <1>2, FS_Subset
<1>4. PICK q, n : q = InOrder(page) /\ n = Cardinality(page)
  OBVIOUS
<1>5. Rises(q, n, page)
  BY <1>3, <1>4, InOrderRises
<1>6. q \in Seq(all)
  BY <1>2, <1>5, IsASequence
<1>. QED  BY <1>1, <1>4, <1>6

LEMMA AnswerHolds ==
    ASSUME HoldInv, NEW r \in Session, NEW v \in View, NEW after,
           NEW page \in SUBSET Sequence, Answer(r, v, after, page)
    PROVE  /\ got' \in [Session -> Seq(Sequence)]
           /\ \A q \in Session : q # r => held'[q] = held[q]
<1>1. got \in [Session -> Seq(Sequence)] /\ AheadInv
  BY DEF HoldInv
<1>2. PICK more : more = InOrder(page)
  OBVIOUS
<1>3. got[r] \o more \in Seq(Sequence)
  <2>1. more \in Seq(Sequence) /\ got[r] \in Seq(Sequence)
    BY <1>1, <1>2, PageIsSeq
  <2>. QED  BY <2>1
<1>4. got' = got \/ got' = [got EXCEPT ![r] = got[r] \o more]
  BY <1>2 DEF Answer
<1>5. got' \in [Session -> Seq(Sequence)]
  BY <1>1, <1>3, <1>4
<1>6. \A q \in Session : q # r => held'[q] = held[q]
  BY <1>1 DEF Answer, AheadInv
<1>. QED  BY <1>5, <1>6

LEMMA PageInTable ==
    ASSUME NEW r, NEW v, NEW after, NEW limit
    PROVE  PageBehind(r, v, after, limit) \in SUBSET Sequence
<1>1. Behind(r, v, after) \in SUBSET Sequence
  BY DEF Behind
<1>2. PageBehind(r, v, after, limit) \in SUBSET Behind(r, v, after)
  BY DEF PageBehind, Page
<1>. QED  BY <1>1, <1>2

(* What a step must show of the call of the reader that takes it.          *)
LEMMA OthersHold ==
    ASSUME HoldInv, AheadInv', got' \in [Session -> Seq(Sequence)], NEW r \in Session,
           \A q \in Session : q # r => held'[q] = held[q] /\ call'[q] = call[q],
           call'[r].kind = "wait" => /\ call'[r].view = "inbox"
                                     /\ call'[r].after = held'[r]["inbox"]
    PROVE  HoldInv'
<1>1. ASSUME NEW q \in Session, call'[q].kind = "wait"
      PROVE  call'[q].view = "inbox" /\ call'[q].after = held'[q]["inbox"]
  BY <1>1 DEF HoldInv
<1>. QED  BY <1>1 DEF HoldInv

LEMMA HoldStep ==
    ASSUME HoldInv, Next
    PROVE  HoldInv'
<1>1. AheadInv' /\ AheadInv
  BY AheadStep DEF HoldInv
<1>2. got \in [Session -> Seq(Sequence)] /\ call \in [Session -> Call]
  BY <1>1 DEF HoldInv, AheadInv
<1>3. CASE Write
  <2>1. UNCHANGED <<held, call, got>>
    BY <1>3 DEF Write, Insert, MarkDelivered, Delete
  <2>. QED  BY <1>1, <2>1 DEF HoldInv
<1>4. ASSUME NEW r \in Reader, Read(r)
      PROVE  HoldInv'
  <2>. r \in Session
    BY InboxAssumption
  <2>0. /\ NoCall.kind # "wait"
        /\ \A c : [call EXCEPT ![r] = c][r] = c
        /\ \A c, q \in Session : q # r => [call EXCEPT ![r] = c][q] = call[q]
    BY <1>2 DEF NoCall
  <2>1. CASE List(r)
    <3>1. PICK v \in View, limit \in Limits : \E after \in Starts(r, v) :
              Answer(r, v, after, PageBehind(r, v, after, limit))
      BY <2>1 DEF List
    <3>2. PICK after \in Starts(r, v) :
              Answer(r, v, after, PageBehind(r, v, after, limit))
      BY <3>1
    <3>3. call' = call /\ call[r].kind # "wait"
      BY <2>1 DEF List, Ready
    <3>4. PageBehind(r, v, after, limit) \in SUBSET Sequence
      BY PageInTable
    <3>5. /\ got' \in [Session -> Seq(Sequence)]
          /\ \A q \in Session : q # r => held'[q] = held[q]
      BY <3>2, <3>4, AnswerHolds
    <3>. QED  BY <1>1, <3>3, <3>5, OthersHold
  <2>2. CASE LatestBegin(r)
    <3>1. PICK c : call' = [call EXCEPT ![r] = c] /\ c.kind = "latest"
      <4>1. PICK v \in View :
                call' = [call EXCEPT ![r] = [NoCall EXCEPT !.kind = "latest",
                                                           !.view = v,
                                                           !.limit = TailLimit]]
        BY <2>2 DEF LatestBegin
      <4>2. PICK c : c = [NoCall EXCEPT !.kind = "latest", !.view = v,
                                        !.limit = TailLimit]
        OBVIOUS
      <4>3. c.kind = "latest"
        BY <4>2 DEF NoCall
      <4>. QED  BY <4>1, <4>2, <4>3
    <3>2. UNCHANGED <<held, got>>
      BY <2>2 DEF LatestBegin
    <3>. QED  BY <1>1, <1>2, <2>0, <3>1, <3>2, OthersHold
  <2>3. CASE LatestStep(r)
    <3>1. \/ /\ call' = [call EXCEPT ![r] = NoCall]
             /\ \E end : held' = [held EXCEPT ![r][call[r].view] = end]
          \/ /\ \E end : call' = [call EXCEPT ![r].after = end]
             /\ UNCHANGED held
      BY <2>3 DEF LatestStep
    <3>2. UNCHANGED got /\ call[r].kind = "latest"
      BY <2>3 DEF LatestStep
    <3>3. call[r] \in Call
      BY <1>2
    <3>4. call'[r].kind # "wait"
      BY <1>2, <2>0, <3>1, <3>2, <3>3 DEF Call
    <3>5. \A q \in Session : q # r => held'[q] = held[q] /\ call'[q] = call[q]
      BY <1>1, <1>2, <3>1 DEF AheadInv
    <3>. QED  BY <1>1, <1>2, <3>2, <3>4, <3>5, OthersHold
  <2>4. CASE WaitBegin(r)
    <3>1. PICK c \in Cursors, limit \in Limits, left \in 0 .. MaxPolls :
              /\ Binds(c, r, "inbox")
              /\ call' = [call EXCEPT ![r] = [kind |-> "wait", view |-> "inbox",
                                              after |-> c.after, limit |-> limit,
                                              left |-> left]]
      BY <2>4 DEF WaitBegin
    <3>2. UNCHANGED <<held, got>>
      BY <2>4 DEF WaitBegin
    <3>3. c.after = held[r]["inbox"]
      BY <3>1 DEF Cursors, Binds
    <3>4. call'[r].view = "inbox" /\ call'[r].after = c.after
      BY <2>0, <3>1
    <3>5. \A q \in Session : q # r => call'[q] = call[q]
      BY <2>0, <3>1
    <3>. QED  BY <1>1, <1>2, <3>2, <3>3, <3>4, <3>5, OthersHold
  <2>5. CASE WaitPoll(r)
    <3>1. PICK page : page = PageBehind(r, "inbox", call[r].after, call[r].limit)
      OBVIOUS
    <3>2. \/ /\ call' = [call EXCEPT ![r].left = @ - 1]
             /\ UNCHANGED <<held, got>>
          \/ /\ Answer(r, "inbox", call[r].after, page)
             /\ call' = [call EXCEPT ![r] = NoCall]
      BY <2>5, <3>1 DEF WaitPoll
    <3>3. CASE /\ call' = [call EXCEPT ![r].left = @ - 1]
               /\ UNCHANGED <<held, got>>
      <4>1. call[r] \in Call
        BY <1>2
      <4>2. /\ call'[r].view = call[r].view /\ call'[r].after = call[r].after
            /\ call'[r].kind = call[r].kind
        BY <1>2, <3>3, <4>1 DEF Call
      <4>3. \A q \in Session : q # r => call'[q] = call[q]
        BY <1>2, <3>3
      <4>. QED  BY <1>1, <1>2, <3>3, <4>2, <4>3, OthersHold DEF HoldInv
    <3>4. CASE /\ Answer(r, "inbox", call[r].after, page)
               /\ call' = [call EXCEPT ![r] = NoCall]
      <4>1. page \in SUBSET Sequence /\ "inbox" \in View
        BY <3>1, PageInTable, InboxAssumption
      <4>2. /\ got' \in [Session -> Seq(Sequence)]
            /\ \A q \in Session : q # r => held'[q] = held[q]
        BY <3>4, <4>1, AnswerHolds
      <4>3. call'[r].kind # "wait"
        BY <2>0, <3>4
      <4>4. \A q \in Session : q # r => call'[q] = call[q]
        BY <2>0, <3>4
      <4>. QED  BY <1>1, <4>2, <4>3, <4>4, OthersHold
    <3>. QED  BY <3>2, <3>3, <3>4
  <2>. QED  BY <1>4, <2>1, <2>2, <2>3, <2>4, <2>5 DEF Read
<1>. QED  BY <1>3, <1>4 DEF Next

-----------------------------------------------------------------------------
(***************************************************************************)
(* What each step does to what is pending, and what that is in the promise. *)
(***************************************************************************)
LEMMA Stutters ==
    ASSUME \A r \in Session : Pending(r)' = Pending(r), UNCHANGED <<got, seq>>
    PROVE  UNCHANGED Promise!vars
  BY DEF Promise!vars

(* Others' queues do not change when r moves its cursor.                   *)
LEMMA OthersPend ==
    ASSUME UNCHANGED tableVars, NEW r, held'[r]["inbox"] = held[r]["inbox"]
    PROVE  Pending(r)' = Pending(r)
  BY DEF Pending, InView, tableVars

LEMMA InsertRecords ==
    ASSUME HoldInv, NEW from \in Session \cup {Null}, NEW to \in Session,
           NEW size \in Sizes, Insert(from, to, size)
    PROVE  Promise!Record(to)
<1>1. AheadInv /\ Null \notin Session
  BY InboxAssumption DEF HoldInv
<1>2. PICK m : m = seq + 1
  OBVIOUS
<1>3. PICK row : row = [stored |-> TRUE, from |-> from, to |-> to, size |-> size,
                        delivered |-> FALSE]
  OBVIOUS
<1>4. /\ seq < MaxMessages /\ seq' = m
      /\ table' = [table EXCEPT ![m] = row]
      /\ UNCHANGED <<held, got>>
  BY <1>2, <1>3 DEF Insert, NextSequence
<1>5. m \in Sequence /\ m \in Nat /\ seq < m
  BY <1>1, <1>2, <1>4, Numbers
<1>6. /\ \A s \in Sequence : s # m => table'[s] = table[s]
      /\ table'[m] = row /\ ~table[m].stored
  BY <1>1, <1>4, <1>5, Numbers DEF AheadInv
<1>7. row.stored /\ row.to = to
  BY <1>3
<1>8. \A r \in Session, s \in Sequence :
          InView(r, "inbox", s)' <=> InView(r, "inbox", s) \/ (s = m /\ r = to)
  BY <1>6, <1>7 DEF InView
<1>9. \A r \in Session : held'[r]["inbox"] = held[r]["inbox"] /\ m > held[r]["inbox"]
  <2>1. \A r \in Session : held[r]["inbox"] \in Int /\ held[r]["inbox"] <= seq
    BY <1>1, InboxAssumption DEF AheadInv, Position
  <2>. QED  BY <1>1, <1>4, <1>5, <2>1, Numbers
<1>10. \A r \in Session :
           Pending(r)' = IF r = to THEN Pending(r) \cup {m} ELSE Pending(r)
  BY <1>5, <1>8, <1>9 DEF Pending
<1>11. InOrder(Pending(to) \cup {m}) = Append(InOrder(Pending(to)), m)
  <2>1. PICK set : set = Pending(to)
    OBVIOUS
  <2>2. set \in SUBSET Nat /\ IsFiniteSet(set) /\ \A s \in set : s < m
    <3>1. set \in SUBSET Nat /\ IsFiniteSet(set) /\ \A s \in set : s <= seq
      BY <1>1, <2>1, PendingFits
    <3>. QED  BY <1>1, <1>5, <3>1, Numbers
  <2>3. InOrder(set \cup {m}) = Append(InOrder(set), m)
    BY <1>5, <2>2, InOrderAppends
  <2>. QED  BY <2>1, <2>3
<1>12. [r \in Session |-> InOrder(Pending(r)')] =
           [[r \in Session |-> InOrder(Pending(r))]
               EXCEPT ![to] = Append(@, m)]
  BY <1>10, <1>11
<1>. QED  BY <1>2, <1>4, <1>12 DEF Promise!Record

(* The promise orders rows as Inbox does.                                  *)
LEMMA SameOrder ==
    ASSUME NEW set
    PROVE  Promise!InOrder(set) = InOrder(set)
  BY DEF Promise!InOrder, Promise!UpTo, Promise!Cardinality, InOrder, UpTo, Cardinality

LEMMA DeleteWithdraws ==
    ASSUME HoldInv, NEW i \in Session, Delete(i)
    PROVE  Related(i) \in SUBSET (1 .. seq) /\ Promise!Withdraw(Related(i))
<1>1. AheadInv
  BY DEF HoldInv
<1>2. PICK gone : gone = Related(i)
  OBVIOUS
<1>3. gone \in SUBSET (1 .. seq)
  BY <1>1, <1>2, Numbers DEF Related, AheadInv
<1>4. /\ table' = [s \in Sequence |-> IF s \in gone THEN EmptyRow ELSE table[s]]
      /\ UNCHANGED <<seq, held, got>>
  BY <1>2 DEF Delete
<1>5. \A r, s : s \in Sequence =>
          (InView(r, "inbox", s)' <=> InView(r, "inbox", s) /\ s \notin gone)
  BY <1>4 DEF InView, EmptyRow
<1>6. \A r \in Session : Pending(r)' = Pending(r) \ gone
  BY <1>4, <1>5 DEF Pending
<1>7. ASSUME NEW r \in Session
      PROVE  InOrder(Pending(r)') = Promise!Without(InOrder(Pending(r)), gone)
  <2>1. PICK set, q : set = Pending(r) /\ q = InOrder(set)
    OBVIOUS
  <2>2. set \in SUBSET Nat /\ IsFiniteSet(set)
    BY <1>1, <2>1, PendingFits
  <2>3. PICK left : left = InOrder({k \in DOMAIN q : q[k] \notin gone})
    OBVIOUS
  <2>4. InOrder(set \ gone) = [j \in DOMAIN left |-> q[left[j]]]
    BY <2>1, <2>2, <2>3, InOrderWithout
  <2>5. Promise!Without(q, gone) = [j \in DOMAIN left |-> q[left[j]]]
    <3>1. left = Promise!InOrder({k \in DOMAIN q : q[k] \notin gone})
      BY <2>3, SameOrder
    <3>. QED  BY Zenon, <3>1 DEF Promise!Without
  <2>. QED  BY <1>6, <2>1, <2>4, <2>5
<1>8. [r \in Session |-> InOrder(Pending(r)')] =
          [r \in Session |-> Promise!Without([t \in Session |-> InOrder(Pending(t))][r], gone)]
  BY <1>7
<1>9. Promise!Withdraw(gone)
  BY <1>4, <1>8 DEF Promise!Withdraw
<1>. QED  BY <1>2, <1>3, <1>9

LEMMA NothingInOrder == InOrder({}) = <<>>
<1>1. PICK none, q, n : none = {} /\ q = InOrder(none) /\ n = Cardinality(none)
  OBVIOUS
<1>2. none \in SUBSET Nat /\ IsFiniteSet(none) /\ n = 0
  BY <1>1, FS_EmptySet
<1>3. Rises(q, n, none)
  BY <1>1, <1>2, InOrderRises
<1>4. q \in Seq(Nat) /\ Len(q) = 0
  BY <1>2, <1>3, IsASequence
<1>. QED  BY <1>1, <1>4

(* The page a reader is answered with is received, and leaves its queue.   *)
LEMMA AnswerReceives ==
    ASSUME HoldInv, UNCHANGED tableVars,
           NEW r \in Session, NEW v \in View, NEW after \in Position, NEW limit \in Nat,
           after = held[r][v] \/ (held[r][v] = -1 /\ after = 0),
           NEW page, page = PageBehind(r, v, after, limit), Answer(r, v, after, page)
    PROVE  [Promise!Next]_(Promise!vars)
<1>1. AheadInv /\ got \in [Session -> Seq(Sequence)] /\ "inbox" \in View
  BY InboxAssumption DEF HoldInv
<1>2. PICK end : end = EndOf(page, after)
  OBVIOUS
<1>3. held' = [held EXCEPT ![r][v] = end] /\ seq' = seq
  BY <1>2 DEF Answer, tableVars
<1>4. CASE v # "inbox"
  <2>1. \A q \in Session : held'[q]["inbox"] = held[q]["inbox"]
    BY <1>1, <1>3, <1>4 DEF AheadInv
  <2>2. got' = got
    BY <1>4 DEF Answer
  <2>. QED  BY <1>3, <2>1, <2>2, OthersPend, Stutters
<1>5. CASE v = "inbox"
  <2>1. StartOf(page, Pending(r))
    BY <1>1, <1>5, PageFits
  <2>2. held'[r]["inbox"] = end
    BY <1>1, <1>3, <1>5 DEF AheadInv
  <2>3. Pending(r)' = Pending(r) \ page
    <3>1. {s \in Sequence : InView(r, "inbox", s) /\ s > end} = Pending(r) \ page
      BY <1>1, <1>2, <1>5, <2>1, MovesOn
    <3>. QED  BY <2>2, <3>1 DEF Pending, InView, tableVars
  <2>4. \A q \in Session : q # r => Pending(q)' = Pending(q)
    <3>1. \A q \in Session : q # r => held'[q]["inbox"] = held[q]["inbox"]
      BY <1>1, <1>3 DEF AheadInv
    <3>. QED  BY <3>1, OthersPend
  <2>5. got' = [got EXCEPT ![r] = got[r] \o InOrder(page)]
    BY <1>5 DEF Answer
  <2>6. CASE page = {}
    <3>1. got[r] \in Seq(Sequence)
      BY <1>1
    <3>2. got[r] \o InOrder(page) = got[r]
      BY <2>6, <3>1, NothingInOrder
    <3>3. got' = got
      BY <1>1, <2>5, <3>2
    <3>. QED  BY <1>3, <2>3, <2>4, <2>6, <3>3, Stutters
  <2>7. CASE page # {}
    <3>1. PICK set, q, k : set = Pending(r) /\ q = InOrder(set) /\ k = Cardinality(page)
      OBVIOUS
    <3>2. set \in SUBSET Nat /\ IsFiniteSet(set)
      BY <1>1, <3>1, PendingFits
    <3>3. StartOf(page, set) /\ page \in SUBSET set
      BY <2>1, <3>1 DEF StartOf
    <3>4. /\ q \in Seq(set) /\ k \in 0 .. Len(q)
          /\ InOrder(page) = SubSeq(q, 1, k)
          /\ InOrder(set \ page) = SubSeq(q, k + 1, Len(q))
      <4>1. Splits(set, page, InOrder(set), Cardinality(page))
        BY <3>2, <3>3, InOrderSplits
      <4>. QED  BY <3>1, <4>1 DEF Splits
    <3>5. k \in 1 .. Len(q)
      <4>1. IsFiniteSet(page)
        BY <3>2, <3>3, FS_Subset
      <4>2. k # 0
        BY <2>7, <3>1, <4>1, FS_EmptySet
      <4>3. Len(q) \in Nat
        BY <3>4
      <4>. QED  BY <3>4, <4>2, <4>3
    <3>6. [t \in Session |-> InOrder(Pending(t)')] =
              [[t \in Session |-> InOrder(Pending(t))]
                  EXCEPT ![r] = SubSeq(@, k + 1, Len(@))]
      BY <2>3, <2>4, <3>1, <3>4
    <3>7. got' = [got EXCEPT ![r] =
                     @ \o SubSeq([t \in Session |-> InOrder(Pending(t))][r], 1, k)]
      BY <2>5, <3>1, <3>4
    <3>8. Promise!Receive(r, k)
      BY <1>3, <3>6, <3>7 DEF Promise!Receive
    <3>9. k \in 1 .. Len([t \in Session |-> InOrder(Pending(t))][r])
      BY <3>1, <3>5
    <3>. QED  BY <3>8, <3>9 DEF Promise!Next
  <2>. QED  BY <2>6, <2>7
<1>. QED  BY <1>4, <1>5

(* Cursor "latest" skips what is pending when the last of its pages is     *)
(* read, and nothing before.                                               *)
LEMMA LatestSkips ==
    ASSUME HoldInv, NEW r \in Session, LatestStep(r)
    PROVE  [Promise!Next]_(Promise!vars)
<1>1. /\ AheadInv /\ call[r] \in Call /\ UNCHANGED <<tableVars, got>>
      /\ "inbox" \in View /\ call[r].view \in View /\ call[r].after \in Position
  BY InboxAssumption DEF HoldInv, AheadInv, Call, LatestStep
<1>2. PICK v, after, page, end :
          /\ v = call[r].view /\ after = call[r].after
          /\ page = PageBehind(r, v, after, TailLimit) /\ end = EndOf(page, after)
  OBVIOUS
<1>3. \/ UNCHANGED held
      \/ page = Behind(r, v, after) /\ held' = [held EXCEPT ![r][v] = end]
  BY <1>2 DEF LatestStep
<1>4. CASE \A q \in Session : held'[q]["inbox"] = held[q]["inbox"]
  BY <1>1, <1>4, OthersPend, Stutters DEF tableVars
<1>5. CASE /\ page = Behind(r, v, after) /\ held' = [held EXCEPT ![r][v] = end]
           /\ v = "inbox"
  <2>1. held'[r]["inbox"] = end
    BY <1>1, <1>5 DEF AheadInv
  <2>2. \A q \in Session : q # r => held'[q]["inbox"] = held[q]["inbox"]
    BY <1>1, <1>5 DEF AheadInv
  <2>3. after \in Nat /\ MaxMessages \in Nat /\ Sequence = 1 .. MaxMessages
    BY <1>1, <1>2, Numbers, InboxAssumption DEF Position
  <2>4. PICK top \in Nat : page \in SUBSET (1 .. top)
    BY <1>5, <2>3 DEF Behind
  <2>5. /\ page = {} => end = after
        /\ page # {} => end \in page /\ \A t \in page : t <= end
    <3>1. end = EndOf(page, after)
      BY <1>2
    <3>. QED  BY <2>4, <3>1, EndOfPage
  <2>6. end \in Nat /\ after <= end
    <3>1. \A t \in page : t \in Nat /\ t > after
      BY <1>5, <2>3 DEF Behind
    <3>. QED  BY <2>3, <2>5, <3>1
  <2>7. ASSUME NEW s \in Sequence, InView(r, "inbox", s)
        PROVE  ~(s > end)
    <3>1. s \in Nat
      BY <2>3
    <3>2. CASE s > after
      <4>1. s \in page
        BY <1>5, <2>7, <3>2 DEF Behind
      <4>. QED  BY <2>5, <2>6, <3>1, <4>1
    <3>3. CASE ~(s > after)
      BY <2>3, <2>6, <3>1, <3>3
    <3>. QED  BY <3>2, <3>3
  <2>8. Pending(r)' = {}
    BY <1>1, <2>1, <2>7 DEF Pending, InView, tableVars
  <2>9. \A q \in Session : q # r => Pending(q)' = Pending(q)
    BY <1>1, <2>2, OthersPend
  <2>10. [t \in Session |-> InOrder(Pending(t)')] =
             [[t \in Session |-> InOrder(Pending(t))] EXCEPT ![r] = <<>>]
    BY <2>8, <2>9, NothingInOrder
  <2>11. Promise!Skip(r)
    BY <1>1, <2>10 DEF Promise!Skip, tableVars
  <2>. QED  BY <2>11 DEF Promise!Next
<1>6. CASE held' = [held EXCEPT ![r][v] = end] /\ v # "inbox"
  <2>1. \A q \in Session : held'[q]["inbox"] = held[q]["inbox"]
    BY <1>1, <1>2, <1>6 DEF AheadInv
  <2>. QED  BY <1>4, <2>1
<1>. QED  BY <1>3, <1>4, <1>5, <1>6

LEMMA LimitsCount ==
    ASSUME NEW limit, limit \in Limits \/ limit = 1 \/ limit = TailLimit
    PROVE  limit \in Nat
<1>1. CASE limit \in Limits
  BY <1>1, InboxAssumption
<1>2. CASE limit = 1
  BY <1>2
<1>3. CASE limit = TailLimit
  BY <1>3, InboxAssumption
<1>. QED  BY <1>1, <1>2, <1>3

LEMMA StepRefines ==
    ASSUME HoldInv, Next
    PROVE  [Promise!Next]_(Promise!vars)
<1>1. AheadInv /\ Limits \subseteq Nat /\ TailLimit \in Nat /\ "inbox" \in View
  BY InboxAssumption DEF HoldInv
<1>2. ASSUME NEW from \in Session \cup {Null}, NEW to \in Session, NEW size \in Sizes,
             Insert(from, to, size)
      PROVE  Promise!Next
  BY <1>2, InsertRecords DEF Promise!Next
<1>3. ASSUME NEW s \in Sequence, MarkDelivered(s)
      PROVE  UNCHANGED Promise!vars
  <2>1. \A r, t : t \in Sequence => (InView(r, "inbox", t)' <=> InView(r, "inbox", t))
    BY <1>1, <1>3 DEF InView, MarkDelivered, AheadInv, Row
  <2>2. UNCHANGED <<held, got, seq>>
    BY <1>3 DEF MarkDelivered
  <2>3. \A r \in Session : Pending(r)' = Pending(r)
    BY <2>1, <2>2 DEF Pending
  <2>. QED  BY <2>2, <2>3, Stutters
<1>4. ASSUME NEW i \in Session, Delete(i)
      PROVE  Promise!Next
  BY <1>4, DeleteWithdraws DEF Promise!Next
<1>5. ASSUME NEW r \in Reader, Read(r)
      PROVE  [Promise!Next]_(Promise!vars)
  <2>. r \in Session
    BY InboxAssumption
  <2>1. CASE List(r)
    <3>1. PICK v \in View, limit \in Limits : \E after \in Starts(r, v) :
              Answer(r, v, after, PageBehind(r, v, after, limit))
      BY <2>1 DEF List
    <3>2. PICK after \in Starts(r, v) :
              Answer(r, v, after, PageBehind(r, v, after, limit))
      BY <3>1
    <3>3. after = held[r][v] \/ (held[r][v] = -1 /\ after = 0)
      BY <3>2 DEF Starts, Cursors, Binds
    <3>4. after \in Position
      BY <1>1, <3>2, CallTypes DEF Starts, Cursors
    <3>5. UNCHANGED tableVars /\ limit \in Nat
      BY <1>1, <2>1 DEF List
    <3>. QED  BY <3>2, <3>3, <3>4, <3>5, AnswerReceives
  <2>2. CASE LatestBegin(r) \/ WaitBegin(r)
    <3>1. UNCHANGED <<tableVars, held, got>>
      BY <2>2 DEF LatestBegin, WaitBegin
    <3>2. \A q \in Session : Pending(q)' = Pending(q)
      BY <3>1, OthersPend
    <3>. QED  BY <3>1, <3>2, Stutters DEF tableVars
  <2>3. CASE LatestStep(r)
    BY <2>3, LatestSkips
  <2>4. CASE WaitPoll(r)
    <3>1. PICK page : page = PageBehind(r, "inbox", call[r].after, call[r].limit)
      OBVIOUS
    <3>2. /\ UNCHANGED tableVars /\ call[r].kind = "wait"
          /\ UNCHANGED <<held, got>> \/ Answer(r, "inbox", call[r].after, page)
      BY <2>4, <3>1 DEF WaitPoll
    <3>3. CASE UNCHANGED <<held, got>>
      <4>1. \A q \in Session : Pending(q)' = Pending(q)
        BY <3>2, <3>3, OthersPend
      <4>. QED  BY <3>2, <3>3, <4>1, Stutters DEF tableVars
    <3>4. CASE Answer(r, "inbox", call[r].after, page)
      <4>1. call[r].after = held[r]["inbox"]
        BY <3>2 DEF HoldInv
      <4>2. call[r] \in Call
        BY <1>1 DEF AheadInv
      <4>3. /\ call[r].after \in Position
            /\ call[r].limit \in Limits \/ call[r].limit = 1 \/ call[r].limit = TailLimit
        BY <4>2 DEF Call
      <4>4. call[r].limit \in Nat
        BY <4>3, LimitsCount
      <4>. QED  BY <1>1, <3>1, <3>2, <3>4, <4>1, <4>3, <4>4,
                AnswerReceives
    <3>. QED  BY <3>2, <3>3, <3>4
  <2>. QED  BY <1>5, <2>1, <2>2, <2>3, <2>4 DEF Read
<1>. QED  BY <1>2, <1>3, <1>4, <1>5 DEF Next, Write

(* Inbox implements ReliableInbox, for any number of readers and writers:   *)
(* each step of the tables and the cursors is a step of the promise or     *)
(* none.                                                                   *)
THEOREM InboxKeepsPromise == Spec => ReceivesReliably
<1>1. Init => HoldInv
  <2>. SUFFICES ASSUME Init PROVE HoldInv
    OBVIOUS
  <2>1. AheadInv
    BY InboxAssumption
       DEF Init, AheadInv, Position, Sequence, EmptyRow, Row, NoCall, Call
  <2>2. <<>> \in Seq(Sequence) /\ NoCall.kind # "wait"
    BY DEF NoCall
  <2>. QED  BY <2>1, <2>2 DEF Init, HoldInv
<1>2. Init => Promise!Init
  <2>. SUFFICES ASSUME Init PROVE Promise!Init
    OBVIOUS
  <2>1. \A r \in Session : Pending(r) = {}
    BY DEF Init, Pending, InView, EmptyRow
  <2>2. [r \in Session |-> InOrder(Pending(r))] = [r \in Session |-> <<>>]
    BY <2>1, NothingInOrder
  <2>. QED  BY <2>2 DEF Init, Promise!Init
<1>3. HoldInv /\ [Next]_vars => HoldInv'
  <2>1. HoldInv /\ UNCHANGED vars => HoldInv'
    BY DEF HoldInv, AheadInv, vars
  <2>. QED  BY <2>1, HoldStep
<1>4. HoldInv /\ [Next]_vars => [Promise!Next]_(Promise!vars)
  <2>1. UNCHANGED vars => UNCHANGED Promise!vars
    BY DEF vars, Promise!vars, Pending, InView
  <2>. QED  BY <2>1, StepRefines
<1>. QED  BY <1>1, <1>2, <1>3, <1>4, PTL DEF Spec, ReceivesReliably, Promise!Spec
=============================================================================
