----------------------------- MODULE Migration -----------------------------
(***************************************************************************)
(* Processes that open state.db while it is at an older schema version.    *)
(* migrate reads user_version once, then runs one transaction for each     *)
(* version above it.  Versions 1 to 4 create or add what must not be there *)
(* yet and fail when they run twice; version 5 rebuilds the messages table *)
(* and numbers its rows, and runs as often as it is asked to.              *)
(*                                                                         *)
(* Messages are numbered by their rank in (created_at, id), which need not *)
(* be the order in which they are inserted.                                *)
(***************************************************************************)
EXTENDS Integers, FiniteSets

CONSTANTS
    Opener,       \* processes that open the database
    MaxMessages,  \* bound: Messages of an instance
    Crashes       \* TRUE when processes may die

ASSUME MigrationAssumption ==
    /\ MaxMessages \in Nat
    /\ Crashes \in BOOLEAN

Version == 1 .. 5
Message == 1 .. MaxMessages

VARIABLES
    version,   \* PRAGMA user_version
    sequence,  \* sequence[m]: position of a stored row from version 5 on
    stored,    \* Messages in the table
    counter,   \* sqlite_sequence of messages
    applied,   \* how often each version was committed, as far as 2
    opener     \* what each process is doing, and its variable current

vars == <<version, sequence, stored, counter, applied, opener>>
tableVars == <<sequence, stored, counter>>

Closed == [pc |-> "closed", current |-> 0]

TypeOK ==
    /\ version \in 0 .. 5
    /\ sequence \in [Message -> Nat]
    /\ stored \subseteq Message
    /\ counter \in Nat
    /\ applied \in [Version -> 0 .. 2]
    /\ opener \in [Opener -> [pc : {"closed", "migrating", "open"},
                              current : 0 .. 5]]

(* A database some earlier release left behind.                            *)
Init ==
    /\ version \in 0 .. 4
    /\ stored \in (IF version = 0 THEN {{}} ELSE SUBSET Message)
    /\ sequence = [m \in Message |-> 0]
    /\ counter = 0
    /\ applied = [k \in Version |-> IF k <= version THEN 1 ELSE 0]
    /\ opener = [p \in Opener |-> Closed]

----------------------------------------------------------------------------

ReadVersion(p) ==
    /\ opener[p].pc = "closed"
    /\ opener' = [opener EXCEPT ![p] = [pc |-> "migrating",
                                        current |-> version]]
    /\ UNCHANGED <<version, tableVars, applied>>

(* mutant: legacy rows are numbered by public id alone, here backwards     *)
RankById(m) == Cardinality({n \in stored : n >= m})

(* insert ... select ... order by created_at asc, id asc                   *)
RankInTable(m) == Cardinality({n \in stored : n <= m})

(* create table messages (sequence ...), copied from messages_v4           *)
Rebuild ==
    /\ sequence' = [m \in Message |-> IF m \in stored THEN RankInTable(m)
                                             ELSE sequence[m]]
    /\ counter' = Cardinality(stored)

(* mutant: version 1 creates its tables only if they do not exist          *)
OnlyColumnsClash(k) == k \in {2, 3, 4} /\ applied[k] > 0

Clashes(k) == k <= 4 /\ applied[k] > 0

(* mutant: the version is recorded after the transaction, by whoever opens *)
(* next                                                                    *)
VersionAfter(k) == IF k = 5 THEN version ELSE k

VersionSet(k) == k

(* One transaction: the DDL and user_version commit together.              *)
Migrate(p) ==
    LET k == opener[p].current + 1 IN
    /\ opener[p].pc = "migrating"
    /\ k <= 5
    /\ ~Clashes(k)
    /\ version' = VersionSet(k)
    /\ applied' = [applied EXCEPT ![k] = IF @ < 2 THEN @ + 1 ELSE @]
    /\ IF k = 5 THEN Rebuild ELSE UNCHANGED <<sequence, counter>>
    /\ opener' = [opener EXCEPT ![p].current = k]
    /\ UNCHANGED stored

(* The DDL clashes with what is there, or another writer holds the lock:   *)
(* the transaction is rolled back and opening the store throws.            *)
MigrateFail(p) ==
    LET k == opener[p].current + 1 IN
    /\ opener[p].pc = "migrating"
    /\ k <= 5
    /\ \/ Clashes(k)
       \/ \E q \in Opener \ {p} : opener[q].pc # "closed"
    /\ opener' = [opener EXCEPT ![p] = Closed]
    /\ UNCHANGED <<version, tableVars, applied>>

Opened(p) ==
    /\ opener[p].pc = "migrating"
    /\ opener[p].current = 5
    /\ opener' = [opener EXCEPT ![p].pc = "open"]
    /\ UNCHANGED <<version, tableVars, applied>>

(* The process ends, or dies between two transactions.                     *)
Leave(p) ==
    /\ opener[p].pc # "closed"
    /\ opener[p].pc = "open" \/ Crashes
    /\ opener' = [opener EXCEPT ![p] = Closed]
    /\ UNCHANGED <<version, tableVars, applied>>

Insert(p) ==
    \E m \in Message \ stored :
        /\ opener[p].pc = "open"
        /\ sequence[m] = 0
        /\ stored' = stored \cup {m}
        /\ counter' = counter + 1
        /\ sequence' = [sequence EXCEPT ![m] = counter + 1]
        /\ UNCHANGED <<version, applied, opener>>

(* sequence[m] outlives the row: a Message is not inserted a second time.  *)
Delete(p) ==
    \E m \in stored :
        /\ opener[p].pc = "open"
        /\ stored' = stored \ {m}
        /\ UNCHANGED <<version, sequence, counter, applied, opener>>

Next ==
    \E p \in Opener :
        \/ ReadVersion(p) \/ Migrate(p) \/ MigrateFail(p) \/ Opened(p)
        \/ Leave(p) \/ Insert(p) \/ Delete(p)

Spec == Init /\ [][Next]_vars

----------------------------------------------------------------------------
(* Properties                                                              *)

(* A store that opened has every migration, whoever ran it, and however    *)
(* many processes died or failed half way (migrate).                       *)
OpenMeansLatest ==
    \A p \in Opener :
        opener[p].pc = "open" =>
            version = 5 /\ \A k \in Version : applied[k] > 0

(* The recorded schema version never goes back, though a process applies   *)
(* migrations above a version it read long ago (migrate).                  *)
VersionNeverFalls == [][version' >= version]_vars

(* Whenever version 5 is applied, also by a process that read version 4    *)
(* before another applied it, it numbers the rows it finds in the order of *)
(* created_at, id (migration v5).                                          *)
LegacyOrder ==
    [][\A p \in Opener :
          opener[p] = [pc |-> "migrating", current |-> 4] /\ opener'[p].current = 5 =>
              \A m, n \in stored : m < n => sequence'[m] < sequence'[n]]_vars

(* "Idempotent: already-applied versions are skipped" (migrations.ts:160)  *)
AppliedOnce == \A k \in Version : applied[k] <= 1
=============================================================================
