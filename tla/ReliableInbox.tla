--------------------------- MODULE ReliableInbox ---------------------------
(***************************************************************************)
(* What the Message protocol promises an Agent that follows it: Messages   *)
(* addressed to its Session are received in the order they were recorded,  *)
(* each once, none skipped, except those deleted before they were read and *)
(* those it chose to skip with cursor "latest".                            *)
(***************************************************************************)
EXTENDS MessagePage, Sequences

CONSTANTS Session, MaxMessages

VARIABLES
    inbox,  \* inbox[r]: recorded for r and not received yet, oldest first
    got,    \* got[r]: received by r, in the order of receipt
    last    \* the number of the Message recorded last

vars == <<inbox, got, last>>

Init ==
    /\ inbox = [r \in Session |-> <<>>]
    /\ got = [r \in Session |-> <<>>]
    /\ last = 0

Record(r) ==
    /\ last < MaxMessages
    /\ last' = last + 1
    /\ inbox' = [inbox EXCEPT ![r] = Append(@, last + 1)]
    /\ UNCHANGED got

Receive(r, k) ==
    /\ got' = [got EXCEPT ![r] = @ \o SubSeq(inbox[r], 1, k)]
    /\ inbox' = [inbox EXCEPT ![r] = SubSeq(@, k + 1, Len(@))]
    /\ UNCHANGED last

Skip(r) ==
    /\ inbox' = [inbox EXCEPT ![r] = <<>>]
    /\ UNCHANGED <<got, last>>

(* What is left of a queue, in the same order.                              *)
Without(queue, gone) ==
    LET left == InOrder({i \in DOMAIN queue : queue[i] \notin gone})
    IN  [j \in DOMAIN left |-> queue[left[j]]]

(* Deleting a Session deletes the Messages it sent and the ones sent to it. *)
Withdraw(gone) ==
    /\ inbox' = [r \in Session |-> Without(inbox[r], gone)]
    /\ UNCHANGED <<got, last>>

Next ==
    \/ \E r \in Session :
           \/ Record(r)
           \/ \E k \in 1 .. Len(inbox[r]) : Receive(r, k)
           \/ Skip(r)
    \/ \E gone \in SUBSET (1 .. last) : Withdraw(gone)

Spec == Init /\ [][Next]_vars
=============================================================================
