---------------------------- MODULE MessagePage ----------------------------
(***************************************************************************)
(* What listMessagePage returns of the rows that match a query, as an      *)
(* operator on the set of their sequence numbers: the first limit rows, as *)
(* far as their bodies fit in the budget, but always the first one.        *)
(* PageLoop.tla has the loop that computes it and compares the two.        *)
(***************************************************************************)
EXTENDS Integers, FiniteSets, Functions

UpTo(rows, s) == {t \in rows : t <= s}

(* order by sequence: each row at the place that the rows up to it fill.   *)
InOrder(rows) ==
    [i \in 1 .. Cardinality(rows) |->
        CHOOSE s \in rows : Cardinality(UpTo(rows, s)) = i]

Page(rows, size, limit, budget) ==
    {s \in rows :
        LET first == UpTo(rows, s) IN
        /\ Cardinality(first) <= limit
        /\ \/ first = {s}
           \/ SumFunctionOnSet(size, first) <= budget}

(* The position behind a page; where the reader was if it is empty.        *)
EndOf(page, after) ==
    IF page = {} THEN after ELSE CHOOSE s \in page : \A t \in page : t <= s
=============================================================================
