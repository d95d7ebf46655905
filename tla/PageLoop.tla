------------------------------ MODULE PageLoop -----------------------------
(***************************************************************************)
(* The loop of SqliteStore.listMessagePage over the rows its query         *)
(* returned, one iteration a step, started from every bounded input.       *)
(***************************************************************************)
EXTENDS MessagePage, Sequences, SequencesExt

CONSTANTS
    MaxRows,       \* bound: rows that match the query
    Sizes,         \* bound: body sizes in bytes
    Budget,        \* bodyBudgetBytes
    DefaultLimit,  \* 20 in the code
    MaxLimit       \* 50 in the code

ASSUME PageLoopAssumption ==
    /\ MaxRows \in Nat /\ Budget \in Nat
    /\ Sizes \subseteq Nat
    /\ MaxLimit \in Nat \ {0}
    /\ DefaultLimit \in 1 .. MaxLimit

VARIABLES
    size,        \* size[s]: body bytes of the matching row s
    asked,       \* the caller's limit; -1 when it gave none
    rows,        \* the rows taken so far
    bytes,       \* their bytes
    done

loopVars == <<size, asked, rows, bytes, done>>

Matching == DOMAIN size

(* Math.min(Math.max(query.limit ?? 20, 1), 50)                            *)
Limit ==
    LET given == IF asked = -1 THEN DefaultLimit ELSE asked
        least == IF given < 1 THEN 1 ELSE given
    IN  IF least > MaxLimit THEN MaxLimit ELSE least

FirstRows(n) ==
    LET sorted == InOrder(Matching)
    IN  SubSeq(sorted, 1, IF Len(sorted) <= n THEN Len(sorted) ELSE n)

(* order by sequence asc limit ?, with limit + 1                           *)
Candidates == FirstRows(Limit + 1)

LoopInit ==
    /\ \E matching \in SUBSET (1 .. MaxRows) : size \in [matching -> Sizes]
    /\ asked \in -1 .. MaxLimit + 1
    /\ rows = <<>>
    /\ bytes = 0
    /\ done = FALSE

AtEnd == Len(rows) = Limit \/ Len(rows) = Len(Candidates)

Current == Candidates[Len(rows) + 1]

(* mutant: the budget holds for the first row too                          *)
OverBudgetAlways == ~AtEnd /\ bytes + size[Current] > Budget

OverBudget == ~AtEnd /\ rows # <<>> /\ bytes + size[Current] > Budget

Take ==
    /\ ~done /\ ~AtEnd /\ ~OverBudget
    /\ rows' = Append(rows, Current)
    /\ bytes' = bytes + size[Current]
    /\ UNCHANGED <<size, asked, done>>

Stop ==
    /\ ~done
    /\ AtEnd \/ OverBudget
    /\ done' = TRUE
    /\ UNCHANGED <<size, asked, rows, bytes>>

LoopNext == Take \/ Stop

LoopSpec == LoopInit /\ [][LoopNext]_loopVars

HasMore == Len(rows) < Len(Candidates)

(* The loop returns, in order, exactly the rows of Page: the form in which *)
(* Inbox.tla uses listMessagePage.                                         *)
LoopTakesPage ==
    done => rows = InOrder(Page(Matching, size, Limit, Budget))

(* hasMore says exactly whether matching rows remain behind the page, and  *)
(* no page is empty while it does (message protocol design).               *)
HasMoreIsExact ==
    done => /\ HasMore <=> Matching # ToSet(rows)
            /\ HasMore => rows # <<>>

(* The page a reader gets is the page of the definition, whatever the      *)
(* sizes and limits: the two statements above.                             *)
PageIsExact == LoopTakesPage /\ HasMoreIsExact
=============================================================================
