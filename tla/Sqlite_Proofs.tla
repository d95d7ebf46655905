--------------------------- MODULE Sqlite_Proofs ----------------------------
(***************************************************************************)
(* Theorems about the two parts of SqliteStore that run in steps: the      *)
(* migrations and the loop of a page.                                      *)
(***************************************************************************)
EXTENDS Migration, PageLoop, MessagePage_Proofs

(***************************************************************************)
(* Migration, for any number of processes and Messages, with and without   *)
(* crashes.                                                                *)
(***************************************************************************)
OpenerOK == opener \in [Opener -> [pc : {"closed", "migrating", "open"},
                                   current : 0 .. 5]]

LEMMA OpenerMoves ==
    ASSUME OpenerOK, version \in 0 .. 5, Next
    PROVE  OpenerOK'
<1>1. ASSUME NEW p \in Opener, Migrate(p)
      PROVE  OpenerOK'
  <2>. DEFINE k == opener[p].current + 1
  <2>1. k \in 0 .. 5 /\ opener' = [opener EXCEPT ![p].current = k]
    BY <1>1 DEF Migrate, OpenerOK
  <2>. HIDE DEF k
  <2>. QED  BY <2>1 DEF OpenerOK
<1>2. ASSUME NEW p \in Opener, ReadVersion(p)
      PROVE  OpenerOK'
  BY <1>2 DEF OpenerOK, ReadVersion
<1>3. ASSUME NEW p \in Opener, MigrateFail(p) \/ Opened(p) \/ Leave(p)
      PROVE  OpenerOK'
  BY <1>3 DEF OpenerOK, MigrateFail, Opened, Leave, Closed
<1>4. ASSUME NEW p \in Opener, Insert(p) \/ Delete(p)
      PROVE  OpenerOK'
  BY <1>4 DEF OpenerOK, Insert, Delete
<1>. QED  BY <1>1, <1>2, <1>3, <1>4 DEF Next

(* Ranks count Messages, and a later Message has a higher one.             *)
LEMMA Ranks ==
    ASSUME stored \subseteq Message
    PROVE  /\ Cardinality(stored) \in Nat
           /\ \A m \in Message : RankInTable(m) \in Nat
           /\ \A m, n \in stored : m < n => RankInTable(m) < RankInTable(n)
<1>1. IsFiniteSet(stored)
  <2>1. IsFiniteSet(Message)
    BY MigrationAssumption, FS_Interval DEF Message
  <2>. QED  BY <2>1, FS_Subset
<1>2. Cardinality(stored) \in Nat
  BY <1>1, FS_CardinalityType
<1>3. ASSUME NEW m \in Message
      PROVE  IsFiniteSet({n \in stored : n <= m})
  BY <1>1, FS_Subset
<1>4. \A m \in Message : RankInTable(m) \in Nat
  BY <1>3, FS_CardinalityType DEF RankInTable
<1>5. ASSUME NEW m \in stored, NEW n \in stored, m < n
      PROVE  RankInTable(m) < RankInTable(n)
  <2>. DEFINE below(k) == {j \in stored : j <= k}
  <2>1. m \in Nat /\ n \in Nat /\ \A j \in stored : j \in Nat
    BY MigrationAssumption DEF Message
  <2>2. below(m) \in SUBSET below(n)
    <3>. SUFFICES ASSUME NEW j \in stored, j <= m
                  PROVE  j <= n
      OBVIOUS
    <3>. QED  BY <1>5, <2>1
  <2>3. n \in below(n) /\ n \notin below(m)
    BY <1>5, <2>1
  <2>4. Cardinality(below(m)) <= Cardinality(below(n))
        /\ Cardinality(below(m)) # Cardinality(below(n))
    BY <1>3, <2>2, <2>3, FS_Subset
  <2>. QED  BY <1>4, <2>4 DEF RankInTable
<1>. QED  BY <1>2, <1>4, <1>5

LEMMA MigrationTypeStep == TypeOK /\ [Next]_vars => TypeOK'
<1>. SUFFICES ASSUME TypeOK, [Next]_vars
              PROVE  TypeOK'
  OBVIOUS
<1>1. Next => OpenerOK'
  <2>1. OpenerOK
    BY DEF TypeOK, OpenerOK
  <2>. QED  BY <2>1, OpenerMoves DEF TypeOK
<1>2. ASSUME NEW p \in Opener, ReadVersion(p) \/ MigrateFail(p) \/ Opened(p) \/ Leave(p)
      PROVE  TypeOK'
  BY <1>1, <1>2
     DEF TypeOK, OpenerOK, Next, ReadVersion, MigrateFail, Opened, Leave, tableVars
<1>3. ASSUME NEW p \in Opener, Migrate(p)
      PROVE  TypeOK'
  <2>. DEFINE k == opener[p].current + 1
  <2>1. k \in Version
    BY <1>3 DEF Migrate, TypeOK, Version
  <2>2. version' = k /\ applied' = [applied EXCEPT ![k] = IF @ < 2 THEN @ + 1 ELSE @]
    BY <1>3 DEF Migrate, VersionSet
  <2>3. sequence' \in [Message -> Nat] /\ counter' \in Nat
    BY <1>3, Ranks DEF Migrate, Rebuild, TypeOK
  <2>4. stored' = stored
    BY <1>3 DEF Migrate
  <2>. HIDE DEF k
  <2>5. version' \in 0 .. 5 /\ applied' \in [Version -> 0 .. 2]
    BY <2>1, <2>2 DEF TypeOK, Version
  <2>. QED  BY <1>1, <1>3, <2>3, <2>4, <2>5 DEF TypeOK, OpenerOK, Next
<1>4. ASSUME NEW p \in Opener, Insert(p) \/ Delete(p)
      PROVE  TypeOK'
  BY <1>4 DEF TypeOK, Insert, Delete
<1>5. CASE UNCHANGED vars
  BY <1>5 DEF TypeOK, vars
<1>. QED  BY <1>2, <1>3, <1>4, <1>5 DEF Next

LEMMA MigrationTyped == Spec => []TypeOK
<1>1. Init => TypeOK
  BY MigrationAssumption DEF Init, TypeOK, Closed, Version
<1>. QED  BY <1>1, MigrationTypeStep, PTL DEF Spec

(* What was applied is what the version says, and no process is ahead of   *)
(* it: one that read the version before others raised it is behind.        *)
VersionInv ==
    /\ \A k \in Version : applied[k] > 0 <=> k <= version
    /\ \A p \in Opener :
           /\ opener[p].current <= version
           /\ opener[p].pc = "open" => opener[p].current = 5

(* The transaction of a version that clashes when it runs twice raises the *)
(* version by one; that of version 5 ends at the highest there is.         *)
LEMMA MigrateRaises ==
    ASSUME TypeOK, VersionInv, NEW p \in Opener, Migrate(p)
    PROVE  /\ version' >= version
           /\ VersionInv'
<1>. DEFINE k == opener[p].current + 1
<1>1. k \in Version /\ k <= version + 1
  BY DEF Migrate, TypeOK, Version, VersionInv
<1>2. /\ version' = k
      /\ applied' = [applied EXCEPT ![k] = IF @ < 2 THEN @ + 1 ELSE @]
      /\ k <= 4 => ~(applied[k] > 0)
      /\ opener' = [opener EXCEPT ![p].current = k]
      /\ opener[p].pc = "migrating"
  BY DEF Migrate, VersionSet, Clashes, TypeOK
<1>. HIDE DEF k
<1>3. version \in 0 .. 5 /\ \A j \in Version : applied[j] \in 0 .. 2
  BY DEF TypeOK
<1>4. k = version + 1 \/ (k = 5 /\ version = 5)
  BY <1>1, <1>2, <1>3 DEF VersionInv, Version
<1>5. applied'[k] > 0 /\ \A j \in Version \ {k} : applied'[j] = applied[j]
  BY <1>1, <1>2, <1>3 DEF TypeOK
<1>6. \A j \in Version : applied'[j] > 0 <=> j <= version'
  BY <1>1, <1>2, <1>3, <1>4, <1>5 DEF VersionInv, Version
<1>7. /\ opener'[p].current = k /\ opener'[p].pc = "migrating"
      /\ \A q \in Opener \ {p} : opener'[q] = opener[q]
  BY <1>2 DEF TypeOK
<1>8. \A q \in Opener : opener[q].current \in 0 .. 5
  BY DEF TypeOK
<1>. QED  BY <1>1, <1>2, <1>3, <1>4, <1>6, <1>7, <1>8 DEF VersionInv, Version

LEMMA VersionStep ==
    ASSUME TypeOK, VersionInv, [Next]_vars
    PROVE  VersionInv' /\ version' >= version
<1>0. version \in 0 .. 5
  BY DEF TypeOK
<1>1. ASSUME NEW p \in Opener, ReadVersion(p) \/ MigrateFail(p) \/ Opened(p) \/ Leave(p)
      PROVE  VersionInv' /\ version' >= version
  <2>1. version' = version /\ applied' = applied
    BY <1>1 DEF ReadVersion, MigrateFail, Opened, Leave
  <2>2. \A q \in Opener :
            /\ opener'[q].current <= version
            /\ opener'[q].pc = "open" => opener'[q].current = 5
    BY <1>0, <1>1
       DEF ReadVersion, MigrateFail, Opened, Leave, Closed, TypeOK, VersionInv
  <2>. QED  BY <1>0, <2>1, <2>2 DEF VersionInv
<1>2. ASSUME NEW p \in Opener, Insert(p) \/ Delete(p)
      PROVE  UNCHANGED <<version, applied, opener>>
  BY <1>2 DEF Insert, Delete
<1>3. CASE UNCHANGED <<version, applied, opener>>
  BY <1>0, <1>3 DEF VersionInv
<1>. QED  BY <1>1, <1>2, <1>3, MigrateRaises DEF Next, vars

LEMMA VersionInvHolds == Spec => []VersionInv
<1>1. Init => VersionInv
  BY DEF Init, VersionInv, Closed, Version
<1>. QED  BY <1>1, VersionStep, MigrationTyped, PTL DEF Spec

(* However many processes open an old database at once, fail or die, the   *)
(* recorded schema version never goes back.                                *)
THEOREM VersionRises == Spec => VersionNeverFalls
<1>1. TypeOK /\ VersionInv /\ [Next]_vars => [version' >= version]_vars
  BY VersionStep
<1>. QED  BY <1>1, VersionInvHolds, MigrationTyped, PTL DEF Spec, VersionNeverFalls

(* A store that opened has every migration, whoever applied it.            *)
THEOREM OpenedIsComplete == Spec => []OpenMeansLatest
<1>1. TypeOK /\ VersionInv => OpenMeansLatest
  BY DEF TypeOK, VersionInv, OpenMeansLatest, Version
<1>. QED  BY <1>1, VersionInvHolds, MigrationTyped, PTL

(* Every rebuild for version 5, a second one too, numbers the Messages it  *)
(* finds in their order.                                                   *)
THEOREM LegacyKeepsOrder == Spec => LegacyOrder
<1>1. ASSUME TypeOK, Next, NEW p \in Opener,
             opener[p] = [pc |-> "migrating", current |-> 4], opener'[p].current = 5
      PROVE  \A m, n \in stored : m < n => sequence'[m] < sequence'[n]
  <2>1. Migrate(p)
    <3>1. PICK q \in Opener :
            \/ ReadVersion(q) \/ Migrate(q) \/ MigrateFail(q) \/ Opened(q)
            \/ Leave(q) \/ Insert(q) \/ Delete(q)
      BY <1>1 DEF Next
    <3>2. opener' # opener
      BY <1>1
    <3>3. p = q
      BY <1>1, <3>1, <3>2 DEF TypeOK, ReadVersion, Migrate, MigrateFail, Opened, Leave,
                              Insert, Delete
    <3>. QED  BY <1>1, <3>1, <3>2, <3>3 DEF TypeOK, ReadVersion, MigrateFail, Opened,
                                            Leave, Insert, Delete, Closed
  <2>2. Rebuild
    BY <1>1, <2>1 DEF Migrate
  <2>3. stored \subseteq Message
    BY <1>1 DEF TypeOK
  <2>4. \A m \in stored : sequence'[m] = RankInTable(m)
    BY <2>2, <2>3 DEF Rebuild
  <2>. QED  BY <2>3, <2>4, Ranks
<1>2. TypeOK /\ [Next]_vars =>
          [\A p \in Opener :
              opener[p] = [pc |-> "migrating", current |-> 4] /\ opener'[p].current = 5 =>
                  \A m, n \in stored : m < n => sequence'[m] < sequence'[n]]_vars
  BY <1>1
<1>. QED  BY <1>2, MigrationTyped, PTL DEF Spec, LegacyOrder

-----------------------------------------------------------------------------
(***************************************************************************)
(* The loop.  It has taken the first rows, and all but the first of them   *)
(* fitted; it ends because it must.                                        *)
(***************************************************************************)
Sorted == InOrder(Matching)
All == Cardinality(Matching)

PageInv ==
    /\ Matching \in SUBSET (1 .. MaxRows) /\ size \in [Matching -> Nat]
    /\ asked \in Int
    /\ rows = [i \in 1 .. Len(rows) |-> Sorted[i]]
    /\ Len(rows) \in 0 .. All /\ Len(rows) <= Limit
    /\ bytes = Total(size, FirstOf(Sorted, Len(rows)))
    /\ \A i \in 2 .. Len(rows) : Total(size, FirstOf(Sorted, i)) <= Budget
    /\ done => AtEnd \/ OverBudget

LEMMA LimitFits ==
    ASSUME asked \in Int
    PROVE  Limit \in Nat \ {0}
<1>1. DefaultLimit \in Nat \ {0} /\ MaxLimit \in Nat \ {0}
  BY PageLoopAssumption
<1>. QED  BY <1>1 DEF Limit

LEMMA MatchingFits ==
    ASSUME Matching \in SUBSET (1 .. MaxRows)
    PROVE  /\ Matching \in SUBSET Nat /\ IsFiniteSet(Matching)
           /\ Lists(Matching, All, Sorted) /\ All \in Nat
<1>1. MaxRows \in Nat
  BY PageLoopAssumption
<1>2. Matching \in SUBSET Nat
  BY <1>1
<1>3. IsFiniteSet(Matching)
  <2>1. 1 \in Int /\ MaxRows \in Int
    BY <1>1
  <2>2. IsFiniteSet(1 .. MaxRows)
    BY <2>1, FS_Interval
  <2>. QED  BY <2>2, FS_Subset
<1>4. PICK set, n, q : set = Matching /\ n = All /\ q = Sorted
  OBVIOUS
<1>5. Lists(set, n, q)
  BY <1>2, <1>3, <1>4, InOrderLists DEF All, Sorted
<1>. QED  BY <1>2, <1>3, <1>4, <1>5 DEF Lists

(* The query returns one row more than may be taken, if there is one.      *)
LEMMA CandidatesAre ==
    ASSUME PageInv
    PROVE  /\ Len(Candidates) = IF All <= Limit + 1 THEN All ELSE Limit + 1
           /\ \A i \in 1 .. Len(Candidates) : Candidates[i] = Sorted[i]
           /\ AtEnd <=> Len(rows) = Limit \/ Len(rows) = All
           /\ ~AtEnd => Len(rows) + 1 \in 1 .. All /\ Current = Sorted[Len(rows) + 1]
           /\ HasMore <=> Len(rows) < All
<1>1. PICK n, m, q : n = All /\ m = Limit /\ q = Sorted
  OBVIOUS
<1>2. m \in Nat \ {0} /\ n \in Nat /\ Lists(Matching, n, q)
  BY <1>1, LimitFits, MatchingFits DEF PageInv
<1>3. q \in Seq(Matching) /\ Len(q) = n
  BY <1>2 DEF Lists
<1>4. PICK l : l = IF n <= m + 1 THEN n ELSE m + 1
  OBVIOUS
<1>5. l \in 0 .. n
  BY <1>2, <1>4
<1>6. Candidates = SubSeq(q, 1, l)
  BY <1>1, <1>3, <1>4 DEF Candidates, FirstRows, Sorted
<1>7. Len(Candidates) = l
  BY <1>3, <1>5, <1>6
<1>8. \A i \in 1 .. l : Candidates[i] = q[i]
  BY <1>3, <1>5, <1>6
<1>9. PICK k : k = Len(rows)
  OBVIOUS
<1>10. k \in Nat /\ k <= n /\ k <= m
  BY <1>1, <1>2, <1>9 DEF PageInv
<1>11. AtEnd <=> k = m \/ k = l
  BY <1>1, <1>7, <1>9 DEF AtEnd
<1>12. AtEnd <=> k = m \/ k = n
  BY <1>2, <1>4, <1>10, <1>11
<1>13. ~AtEnd => k + 1 \in 1 .. l /\ k + 1 \in 1 .. n
  BY <1>2, <1>4, <1>10, <1>12
<1>14. ~AtEnd => Current = q[k + 1]
  BY <1>8, <1>9, <1>13 DEF Current
<1>15. HasMore <=> k < l
  BY <1>7, <1>9 DEF HasMore
<1>16. HasMore <=> k < n
  BY <1>2, <1>4, <1>10, <1>15
<1>. QED  BY <1>1, <1>4, <1>7, <1>8, <1>9, <1>12, <1>13, <1>14, <1>16

LEMMA NextFirst ==
    ASSUME PageInv, NEW k \in Nat, k + 1 \in 1 .. All
    PROVE  Total(size, FirstOf(Sorted, k + 1))
               = Total(size, FirstOf(Sorted, k)) + size[Sorted[k + 1]]
<1>1. PICK n, q, set : n = All /\ q = Sorted /\ set = Matching
  OBVIOUS
<1>2. /\ n \in Nat /\ Lists(set, n, q) /\ set \in SUBSET Nat /\ IsFiniteSet(set)
      /\ n = Cardinality(set)
  BY <1>1, MatchingFits DEF PageInv, All
<1>3. k \in 0 .. n /\ k + 1 \in 0 .. n /\ k + 1 \in 1 .. n
  BY <1>1, <1>2
<1>4. /\ FirstOf(q, k) = {s \in set : Place(set, s) <= k}
      /\ FirstOf(q, k + 1) = {s \in set : Place(set, s) <= k + 1}
      /\ FirstOf(q, k) \in SUBSET set /\ FirstOf(q, k + 1) \in SUBSET set
  BY <1>2, <1>3, StartLists
<1>5. q[k + 1] \in set /\ Place(set, q[k + 1]) = k + 1
  BY <1>2, <1>3 DEF Lists
<1>6. \A s \in set : Place(set, s) \in Nat /\ (Place(set, s) = k + 1 => s = q[k + 1])
  BY <1>2 DEF Lists
<1>7. FirstOf(q, k) = FirstOf(q, k + 1) \ {q[k + 1]} /\ q[k + 1] \in FirstOf(q, k + 1)
  <2>1. PICK x : x = q[k + 1]
    OBVIOUS
  <2>2. /\ x \in set /\ Place(set, x) = k + 1
        /\ \A s \in set : Place(set, s) \in Nat /\ (Place(set, s) = k + 1 => s = x)
    BY <1>5, <1>6, <2>1
  <2>3. \A s \in set : Place(set, s) <= k <=> Place(set, s) <= k + 1 /\ s # x
    BY <2>2
  <2>4. Place(set, x) <= k + 1
    BY <2>2
  <2>. QED  BY <1>4, <2>1, <2>2, <2>3, <2>4
<1>8. size \in [set -> Nat]
  BY <1>1 DEF PageInv
<1>9. PICK f, A, B, x : f = size /\ A = FirstOf(q, k) /\ B = FirstOf(q, k + 1) /\ x = q[k + 1]
  OBVIOUS
<1>10. Total(f, B) = f[x] + Total(f, B \ {x})
  <2>1. B \in SUBSET set /\ x \in B /\ f \in [set -> Nat]
    BY <1>4, <1>7, <1>8, <1>9
  <2>2. IsFiniteSet(set)
    BY <1>2
  <2>. QED  BY <2>1, <2>2, SumTakes
<1>11. Total(f, A) \in Nat /\ f[x] \in Nat /\ A = B \ {x}
  BY <1>2, <1>4, <1>5, <1>7, <1>8, <1>9, SumIsNat
<1>12. Total(f, B) = Total(f, A) + f[x]
  BY <1>10, <1>11
<1>. QED  BY <1>1, <1>9, <1>12

LEMMA InitPage == LoopInit => PageInv
<1>. SUFFICES ASSUME LoopInit PROVE PageInv
  OBVIOUS
<1>1. PICK matching \in SUBSET (1 .. MaxRows) : size \in [matching -> Sizes]
  BY DEF LoopInit
<1>2. Matching \in SUBSET (1 .. MaxRows) /\ size \in [Matching -> Nat]
  BY <1>1, PageLoopAssumption DEF Matching
<1>3. asked \in Int
  BY PageLoopAssumption DEF LoopInit
<1>4. rows = <<>> /\ Len(rows) = 0 /\ bytes = 0 /\ done = FALSE
  BY DEF LoopInit
<1>5. All \in Nat /\ Limit \in Nat
  BY <1>2, <1>3, MatchingFits, LimitFits
<1>6. rows = [i \in 1 .. Len(rows) |-> Sorted[i]]
  <2>1. PICK q : q = Sorted
    OBVIOUS
  <2>2. <<>> = [i \in 1 .. 0 |-> q[i]]
    OBVIOUS
  <2>. QED  BY <1>4, <2>1, <2>2
<1>7. bytes = Total(size, FirstOf(Sorted, Len(rows)))
  <2>1. PICK q, f : q = Sorted /\ f = size
    OBVIOUS
  <2>2. FirstOf(q, 0) = {}
    BY DEF FirstOf
  <2>3. Total(f, {}) = 0
    <3>1. PICK e : e = {}
      OBVIOUS
    <3>2. IsFiniteSet(e)
      BY <3>1, FS_EmptySet
    <3>. QED  BY <3>1, <3>2, SumSplits
  <2>. QED  BY <1>4, <2>1, <2>2, <2>3
<1>8. \A i \in 2 .. Len(rows) : Total(size, FirstOf(Sorted, i)) <= Budget
  BY <1>4
<1>9. Len(rows) \in 0 .. All /\ Len(rows) <= Limit
  BY <1>4, <1>5
<1>. QED  BY <1>2, <1>3, <1>4, <1>6, <1>7, <1>8, <1>9 DEF PageInv

LEMMA TakeStep ==
    ASSUME PageInv, Take
    PROVE  PageInv'
<1>1. PICK k, n, m, q, x, f : /\ k = Len(rows) /\ n = All /\ m = Limit /\ q = Sorted
                              /\ x = Current /\ f = size
  OBVIOUS
<1>2. ~AtEnd /\ ~OverBudget /\ rows' = Append(rows, x) /\ bytes' = bytes + f[x]
      /\ UNCHANGED <<size, asked, done>> /\ ~done
  BY <1>1 DEF Take
<1>3. /\ k \in Nat /\ k <= m /\ k # m /\ k + 1 \in 1 .. n /\ x = q[k + 1]
      /\ m \in Nat /\ n \in Nat
  <2>1. k \in 0 .. n /\ k <= m /\ n \in Nat /\ m \in Nat
    BY <1>1, MatchingFits, LimitFits DEF PageInv
  <2>2. k # m /\ k # n /\ k + 1 \in 1 .. n /\ x = q[k + 1]
    BY <1>1, <1>2, CandidatesAre
  <2>. QED  BY <2>1, <2>2
<1>4. rows = [i \in 1 .. k |-> q[i]]
  BY <1>1 DEF PageInv
<1>5. rows' = [i \in 1 .. k + 1 |-> q[i]] /\ Len(rows') = k + 1
  <2>1. PICK r, u : r = rows /\ u = Append(r, x)
    OBVIOUS
  <2>2. r = [i \in 1 .. k |-> q[i]] /\ Len(r) = k
    BY <1>1, <1>4, <2>1
  <2>3. u = [i \in 1 .. k + 1 |-> IF i = k + 1 THEN x ELSE r[i]]
    BY <1>3, <2>1, <2>2
  <2>4. \A i \in 1 .. k + 1 : (IF i = k + 1 THEN x ELSE r[i]) = q[i]
    BY <1>3, <2>2
  <2>5. u = [i \in 1 .. k + 1 |-> q[i]]
    BY <2>3, <2>4
  <2>6. Len(u) = k + 1
    BY <1>3, <2>5
  <2>. QED  BY <1>2, <2>1, <2>5, <2>6
<1>6. Sorted' = q /\ All' = n /\ Limit' = m /\ Matching' = Matching
  BY <1>1, <1>2 DEF Sorted, All, Limit, Matching
<1>7. Total(f, FirstOf(q, k + 1)) = Total(f, FirstOf(q, k)) + f[x]
  BY <1>1, <1>3, NextFirst
<1>8. bytes' = Total(f, FirstOf(q, k + 1))
  BY <1>1, <1>2, <1>7 DEF PageInv
<1>9. \A i \in 2 .. k + 1 : Total(f, FirstOf(q, i)) <= Budget
  <2>1. ASSUME k # 0
        PROVE  Total(f, FirstOf(q, k + 1)) <= Budget
    <3>1. rows # <<>>
      BY <1>1, <2>1
    <3>2. ~(bytes + f[x] > Budget)
      BY <1>1, <1>2, <3>1 DEF OverBudget
    <3>3. Total(f, FirstOf(q, k + 1)) \in Nat
      <4>1. PICK set : set = Matching
        OBVIOUS
      <4>2. /\ Lists(set, n, q) /\ set \in SUBSET Nat /\ IsFiniteSet(set)
            /\ n = Cardinality(set) /\ f \in [set -> Nat]
        BY <1>1, <1>3, <4>1, MatchingFits DEF PageInv, All
      <4>3. FirstOf(q, k + 1) \in SUBSET set
        <5>1. k + 1 \in 0 .. n
          BY <1>3
        <5>. QED  BY <4>2, <5>1, StartLists
      <4>. QED  BY <4>2, <4>3, SumIsNat
    <3>4. bytes + f[x] = Total(f, FirstOf(q, k + 1)) /\ Budget \in Nat
      BY <1>2, <1>8, PageLoopAssumption
    <3>. QED  BY <3>2, <3>3, <3>4
  <2>2. \A i \in 2 .. k : Total(f, FirstOf(q, i)) <= Budget
    BY <1>1 DEF PageInv
  <2>3. \A i \in 2 .. k + 1 : i \in 2 .. k \/ (i = k + 1 /\ k # 0)
    BY <1>3
  <2>. QED  BY <2>1, <2>2, <2>3
<1>10. Matching \in SUBSET (1 .. MaxRows) /\ f \in [Matching -> Nat] /\ asked \in Int
  BY <1>1 DEF PageInv
<1>11. k + 1 \in 0 .. n /\ k + 1 <= m
  BY <1>3
<1>12. size' = f /\ asked' = asked /\ done' = done
  BY <1>1, <1>2
<1>. QED  BY <1>2, <1>5, <1>6, <1>8, <1>9, <1>10, <1>11, <1>12 DEF PageInv

LEMMA PageInductive == PageInv /\ [LoopNext]_loopVars => PageInv'
<1>. SUFFICES ASSUME PageInv, [LoopNext]_loopVars PROVE PageInv'
  OBVIOUS
<1>1. CASE Take
  BY <1>1, TakeStep
<1>2. CASE UNCHANGED <<size, asked, rows, bytes>> /\ (done' = done \/ AtEnd \/ OverBudget)
  <2>1. /\ Sorted' = Sorted /\ All' = All /\ Limit' = Limit /\ Matching' = Matching
        /\ Candidates' = Candidates
    BY <1>2 DEF Sorted, All, Limit, Matching, Candidates, FirstRows
  <2>2. (AtEnd' <=> AtEnd) /\ Current' = Current
    BY <1>2, <2>1 DEF AtEnd, Current
  <2>3. OverBudget' <=> OverBudget
    BY <1>2, <2>2 DEF OverBudget
  <2>4. done' => AtEnd' \/ OverBudget'
    BY <1>2, <2>2, <2>3 DEF PageInv
  <2>. QED  BY <1>2, <2>1, <2>4 DEF PageInv
<1>3. CASE Stop
  BY <1>2, <1>3 DEF Stop
<1>4. CASE UNCHANGED loopVars
  BY <1>2, <1>4 DEF loopVars
<1>. QED  BY <1>1, <1>3, <1>4 DEF LoopNext

(* When the loop ends, the rows it has are those of the page.              *)
LEMMA TakenArePage ==
    ASSUME PageInv, done
    PROVE  Page(Matching, size, Limit, Budget) = FirstOf(Sorted, Len(rows))
<1>1. PICK k, n, m, q, f, set : /\ k = Len(rows) /\ n = All /\ m = Limit /\ q = Sorted
                                /\ f = size /\ set = Matching
  OBVIOUS
<1>2. /\ k \in Nat /\ k <= m /\ k <= n /\ m \in Nat \ {0} /\ n \in Nat
      /\ Lists(set, n, q) /\ set \in SUBSET Nat /\ IsFiniteSet(set) /\ n = Cardinality(set)
      /\ f \in [set -> Nat]
  BY <1>1, MatchingFits, LimitFits DEF PageInv, All
<1>3. \A s \in set : Place(set, s) \in 1 .. n /\ q[Place(set, s)] = s
  BY <1>2 DEF Lists
<1>4. FirstOf(q, k) = {s \in set : Place(set, s) <= k}
  <2>1. k \in 0 .. n
    BY <1>2
  <2>. QED  BY <1>2, <2>1, StartLists
<1>5. ASSUME NEW s \in set, NEW i \in 1 .. n, i = Place(set, s)
      PROVE  /\ UpTo(set, s) = FirstOf(q, i) /\ Cardinality(UpTo(set, s)) = i
             /\ UpTo(set, s) = {s} <=> i = 1
             /\ FirstOf(q, i) \in SUBSET set
  <2>1. i \in 0 .. n /\ i # 0
    BY <1>2
  <2>2. UpTo(set, s) = FirstOf(q, i) /\ FirstOf(q, i) \in SUBSET set
    BY <1>2, <1>3, <1>5, <2>1, StartLists
  <2>3. Cardinality(UpTo(set, s)) = i /\ IsFiniteSet(UpTo(set, s))
    BY <1>2, <1>5, <2>2, FS_Subset DEF Place
  <2>4. s \in UpTo(set, s)
    BY <1>2 DEF UpTo
  <2>5. UpTo(set, s) = {s} <=> i = 1
    <3>1. PICK u : u = UpTo(set, s)
      OBVIOUS
    <3>2. Cardinality({s}) = 1
      BY FS_Singleton
    <3>3. i = 1 => \E y : u = {y}
      BY <2>3, <3>1, FS_Singleton
    <3>4. i = 1 => u = {s}
      BY <2>4, <3>1, <3>3
    <3>5. u = {s} => i = 1
      BY <2>3, <3>1, <3>2
    <3>. QED  BY <3>1, <3>4, <3>5
  <2>. QED  BY <2>2, <2>3, <2>5
<1>6. ASSUME NEW s \in set, NEW i \in 1 .. n, i = Place(set, s)
      PROVE  s \in Page(set, f, m, Budget) <=> i <= m /\ (i = 1 \/ Total(f, FirstOf(q, i)) <= Budget)
  BY <1>5, <1>6 DEF Page, Total
<1>7. ASSUME NEW s \in set, NEW i \in 1 .. n, i = Place(set, s), i <= k
      PROVE  i <= m /\ (i = 1 \/ Total(f, FirstOf(q, i)) <= Budget)
  <2>1. i <= m
    BY <1>2, <1>7
  <2>2. i = 1 \/ i \in 2 .. k
    BY <1>2, <1>7
  <2>3. \A j \in 2 .. k : Total(f, FirstOf(q, j)) <= Budget
    BY <1>1 DEF PageInv
  <2>. QED  BY <2>1, <2>2, <2>3
<1>8. ASSUME NEW s \in set, NEW i \in 1 .. n, i = Place(set, s), ~(i <= k)
      PROVE  ~(i <= m /\ (i = 1 \/ Total(f, FirstOf(q, i)) <= Budget))
  <2>1. CASE AtEnd
    <3>1. k = m \/ k = n
      BY <1>1, <2>1, CandidatesAre
    <3>. QED  BY <1>2, <1>8, <3>1
  <2>2. CASE ~AtEnd
    <3>1. OverBudget /\ k + 1 \in 1 .. n /\ Current = q[k + 1]
      BY <1>1, <2>2, CandidatesAre DEF PageInv
    <3>2. rows # <<>> /\ bytes + f[q[k + 1]] > Budget
      BY <1>1, <3>1 DEF OverBudget
    <3>3. k # 0
      <4>1. rows = [j \in 1 .. k |-> q[j]]
        BY <1>1 DEF PageInv
      <4>2. [j \in 1 .. 0 |-> q[j]] = <<>>
        OBVIOUS
      <4>. QED  BY <3>2, <4>1, <4>2
    <3>4. bytes + f[q[k + 1]] = Total(f, FirstOf(q, k + 1))
      <4>1. Total(f, FirstOf(q, k + 1)) = Total(f, FirstOf(q, k)) + f[q[k + 1]]
        BY <1>1, <1>2, <3>1, NextFirst
      <4>. QED  BY <1>1, <4>1 DEF PageInv
    <3>5. /\ k + 1 \in 0 .. n /\ i \in 0 .. n /\ k + 1 <= i /\ i # 1
      BY <1>2, <1>8, <3>1, <3>3
    <3>6. PICK A, B : A = FirstOf(q, k + 1) /\ B = FirstOf(q, i)
      OBVIOUS
    <3>7. /\ A = {t \in set : Place(set, t) <= k + 1} /\ B = {t \in set : Place(set, t) <= i}
      BY <1>2, <3>5, <3>6, StartLists
    <3>8. A \in SUBSET set /\ B \in SUBSET set /\ A \subseteq B
      <4>1. \A t \in set : Place(set, t) \in Nat
        BY <1>3
      <4>2. \A t \in set : Place(set, t) <= k + 1 => Place(set, t) <= i
        BY <1>2, <3>5, <4>1
      <4>. QED  BY <3>7, <4>2
    <3>9. Total(f, A) <= Total(f, B) /\ Total(f, A) \in Nat /\ Total(f, B) \in Nat
      BY <1>2, <3>8, SumGrows, SumIsNat
    <3>10. Total(f, A) > Budget /\ Budget \in Nat
      BY <3>2, <3>4, <3>6, PageLoopAssumption
    <3>11. ~(Total(f, B) <= Budget)
      BY <3>9, <3>10
    <3>. QED  BY <3>5, <3>6, <3>11
  <2>. QED  BY <2>1, <2>2
<1>9. \A s \in set : s \in Page(set, f, m, Budget) <=> Place(set, s) <= k
  <2>. SUFFICES ASSUME NEW s \in set
                PROVE  s \in Page(set, f, m, Budget) <=> Place(set, s) <= k
    OBVIOUS
  <2>1. PICK i \in 1 .. n : i = Place(set, s)
    BY <1>3
  <2>2. s \in Page(set, f, m, Budget) <=> i <= m /\ (i = 1 \/ Total(f, FirstOf(q, i)) <= Budget)
    BY <1>6, <2>1
  <2>3. CASE i <= k
    BY <1>7, <2>1, <2>2, <2>3
  <2>4. CASE ~(i <= k)
    BY <1>8, <2>1, <2>2, <2>4
  <2>. QED  BY <2>3, <2>4
<1>10. Page(set, f, m, Budget) \subseteq set
  BY DEF Page
<1>11. Page(set, f, m, Budget) = FirstOf(q, k)
  BY <1>4, <1>9, <1>10
<1>. QED  BY <1>1, <1>11

LEMMA PageIsTaken == PageInv => PageIsExact
<1>. SUFFICES ASSUME PageInv, done PROVE LoopTakesPage /\ HasMoreIsExact
  BY DEF PageIsExact, LoopTakesPage, HasMoreIsExact
<1>1. PICK k, n, q, set : k = Len(rows) /\ n = All /\ q = Sorted /\ set = Matching
  OBVIOUS
<1>2. /\ k \in 0 .. n /\ n \in Nat /\ rows = [i \in 1 .. k |-> q[i]]
      /\ Lists(set, n, q) /\ set \in SUBSET Nat /\ IsFiniteSet(set) /\ n = Cardinality(set)
  BY <1>1, MatchingFits DEF PageInv, All
<1>3. LoopTakesPage
  <2>1. InOrder(FirstOf(q, k)) = [i \in 1 .. k |-> q[i]]
    BY <1>2, StartInOrder
  <2>2. Page(Matching, size, Limit, Budget) = FirstOf(q, k)
    BY <1>1, TakenArePage
  <2>. QED  BY <1>2, <2>1, <2>2 DEF LoopTakesPage
<1>4. ToSet(rows) = FirstOf(q, k)
  <2>1. PICK r : r = rows
    OBVIOUS
  <2>2. r = [i \in 1 .. k |-> q[i]]
    BY <1>2, <2>1
  <2>3. DOMAIN r = 1 .. k /\ \A i \in 1 .. k : r[i] = q[i]
    BY <2>2
  <2>4. ToSet(r) = {q[i] : i \in 1 .. k}
    BY <2>3 DEF ToSet
  <2>. QED  BY <2>1, <2>4 DEF FirstOf
<1>5. FirstOf(q, k) \in SUBSET set /\ Cardinality(FirstOf(q, k)) = k
  BY <1>2, StartLists
<1>6. set = FirstOf(q, k) <=> k = n
  BY <1>2, <1>5, FS_Subset
<1>7. HasMore <=> k < n
  BY <1>1, CandidatesAre
<1>8. HasMore <=> Matching # ToSet(rows)
  BY <1>1, <1>2, <1>4, <1>6, <1>7
<1>9. HasMore => rows # <<>>
  <2>. SUFFICES ASSUME HasMore, rows = <<>> PROVE FALSE
    OBVIOUS
  <2>1. k = 0 /\ n # 0
    BY <1>1, <1>2, <1>7
  <2>2. AtEnd
    BY DEF PageInv, OverBudget
  <2>3. k = Limit \/ k = n
    BY <1>1, <2>2, CandidatesAre
  <2>4. Limit # 0
    BY LimitFits DEF PageInv
  <2>. QED  BY <2>1, <2>3, <2>4
<1>. QED  BY <1>3, <1>8, <1>9 DEF HasMoreIsExact

(* For every set of rows, every size, every limit and every budget: the    *)
(* loop of SqliteStore.listMessagePage returns the rows that Page defines, *)
(* in their order, and hasMore says whether any are left.                  *)
THEOREM PagesAreExact == LoopSpec => []PageIsExact
<1>1. LoopInit => PageInv
  BY InitPage
<1>2. PageInv /\ [LoopNext]_loopVars => PageInv'
  BY PageInductive
<1>3. PageInv => PageIsExact
  BY PageIsTaken
<1>. QED  BY <1>1, <1>2, <1>3, PTL DEF LoopSpec
=============================================================================
