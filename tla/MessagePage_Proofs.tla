------------------------- MODULE MessagePage_Proofs -------------------------
(***************************************************************************)
(* Lemmas about the operators of MessagePage: sums over finite sets, and   *)
(* the order of rows.                                                      *)
(***************************************************************************)
EXTENDS MessagePage, Sequences, FiniteSetTheorems, WellFoundedInduction, TLAPS

(***************************************************************************)
(* Induction over numbers and over finite sets, as least counterexamples.  *)
(***************************************************************************)
LEMMA LeastNumber ==
    ASSUME NEW T \in SUBSET Nat, T # {}
    PROVE  \E n \in T : \A m \in T : n <= m
<1>1. PICK n \in T : \A m \in T : ~(<<m, n>> \in OpToRel(<, Nat))
  BY NatLessThanWellFounded, WFMin
<1>2. \A g, h \in Nat : g < h => <<g, h>> \in OpToRel(<, Nat)
  BY Zenon DEF OpToRel
<1>3. \A m \in T : ~(m < n)
  BY <1>1, <1>2
<1>. QED  BY <1>3

LEMMA LeastSet ==
    ASSUME NEW S, IsFiniteSet(S), NEW B \in SUBSET (SUBSET S), B # {}
    PROVE  \E s \in B : \A t \in B : Cardinality(s) <= Cardinality(t)
<1>. DEFINE T == {Cardinality(s) : s \in B}
<1>1. \A s \in B : Cardinality(s) \in Nat
  BY FS_Subset, FS_CardinalityType
<1>2. T \in SUBSET Nat /\ T # {}
  BY <1>1
<1>3. \A s \in B : Cardinality(s) \in T
  OBVIOUS
<1>. HIDE DEF T
<1>4. PICK n \in T : \A m \in T : n <= m
  BY <1>2, LeastNumber
<1>5. PICK s \in B : n = Cardinality(s)
  BY <1>4 DEF T
<1>. QED  BY <1>3, <1>4, <1>5

(* Taking an element out of a subset leaves a smaller one.                 *)
LEMMA TakeOut ==
    ASSUME NEW S, IsFiniteSet(S), NEW s \in SUBSET S, NEW x \in s
    PROVE  /\ IsFiniteSet(s) /\ s \ {x} \in SUBSET S
           /\ Cardinality(s) \in Nat /\ Cardinality(s \ {x}) = Cardinality(s) - 1
           /\ Cardinality(s \ {x}) \in Nat
<1>1. IsFiniteSet(s)
  BY FS_Subset
<1>2. Cardinality(s \ {x}) = Cardinality(s) - 1 /\ IsFiniteSet(s \ {x})
  BY <1>1, FS_RemoveElement
<1>3. Cardinality(s) \in Nat /\ Cardinality(s \ {x}) \in Nat
  BY <1>1, <1>2, FS_CardinalityType
<1>. QED  BY <1>1, <1>2, <1>3

-----------------------------------------------------------------------------
(***************************************************************************)
(* Sums over sets of rows.                                                 *)
(***************************************************************************)
AnyOf(s) == CHOOSE x \in s : TRUE

(* g is the table of the sums of f over the sets in D.                     *)
SumsIn(f, D, g) ==
    g = [s \in D |-> IF s = {} THEN 0 ELSE f[AnyOf(s)] + g[s \ {AnyOf(s)}]]

Small(S, n) == {s \in SUBSET S : Cardinality(s) < n}

LEMMA SmallSums ==
    ASSUME NEW S, IsFiniteSet(S), NEW f, NEW n \in Nat
    PROVE  \E g : SumsIn(f, Small(S, n), g)
<1>. DEFINE Bad == {k \in Nat : ~ \E g : SumsIn(f, Small(S, k), g)}
<1>. SUFFICES ASSUME Bad # {} PROVE FALSE
  OBVIOUS
<1>1. PICK k \in Bad : \A m \in Bad : k <= m
  BY LeastNumber
<1>2. k # 0
  <2>1. \A s \in SUBSET S : Cardinality(s) \in Nat
    BY FS_Subset, FS_CardinalityType
  <2>2. Small(S, 0) = {}
    BY <2>1 DEF Small
  <2>3. PICK D, g : D = {} /\ g = [s \in D |-> 0]
    OBVIOUS
  <2>4. SumsIn(f, D, g)
    BY <2>3 DEF SumsIn
  <2>5. SumsIn(f, Small(S, 0), g)
    BY <2>2, <2>3, <2>4
  <2>. QED  BY <2>5
<1>3. PICK m \in Nat : k = m + 1
  BY <1>2
<1>4. m \notin Bad
  BY <1>1, <1>3
<1>5. PICK g : SumsIn(f, Small(S, m), g)
  BY <1>4
<1>. DEFINE next(s) == IF s = {} THEN 0 ELSE f[AnyOf(s)] + g[s \ {AnyOf(s)}]
            h == [s \in Small(S, k) |-> next(s)]
<1>6. \A s \in Small(S, k) : s # {} => s \ {AnyOf(s)} \in Small(S, m)
  <2>. SUFFICES ASSUME NEW s \in SUBSET S, Cardinality(s) < k, s # {}
                PROVE  s \ {AnyOf(s)} \in Small(S, m)
    BY DEF Small
  <2>1. PICK x \in s : x = AnyOf(s)
    BY DEF AnyOf
  <2>2. /\ s \ {x} \in SUBSET S /\ Cardinality(s) \in Nat
        /\ Cardinality(s \ {x}) = Cardinality(s) - 1
    BY TakeOut
  <2>3. Cardinality(s \ {x}) < m
    BY <1>3, <2>2
  <2>. QED  BY <2>1, <2>2, <2>3 DEF Small
<1>7. \A s \in Small(S, m) : s \in Small(S, k) /\ h[s] = g[s]
  <2>1. \A s \in SUBSET S : Cardinality(s) \in Nat
    BY FS_Subset, FS_CardinalityType
  <2>2. \A s \in Small(S, m) : s \in Small(S, k)
    BY <1>3, <2>1 DEF Small
  <2>3. \A s \in Small(S, m) : g[s] = next(s)
    BY <1>5 DEF SumsIn
  <2>. QED  BY <2>2, <2>3
<1>8. SumsIn(f, Small(S, k), h)
  <2>1. \A s \in Small(S, k) :
            next(s) = IF s = {} THEN 0 ELSE f[AnyOf(s)] + h[s \ {AnyOf(s)}]
    BY <1>6, <1>7
  <2>2. PICK D, u : D = Small(S, k) /\ u = h
    OBVIOUS
  <2>3. u = [s \in D |-> next(s)]
    BY <2>2
  <2>4. \A s \in D : next(s) = IF s = {} THEN 0 ELSE f[AnyOf(s)] + u[s \ {AnyOf(s)}]
    BY <2>1, <2>2
  <2>. HIDE DEF next
  <2>5. u = [s \in D |-> IF s = {} THEN 0 ELSE f[AnyOf(s)] + u[s \ {AnyOf(s)}]]
    BY <2>3, <2>4
  <2>. HIDE DEF h
  <2>. QED  BY <2>2, <2>5 DEF SumsIn
<1>. QED  BY <1>8

LEMMA SumTable ==
    ASSUME NEW S, IsFiniteSet(S), NEW f
    PROVE  \E g : SumsIn(f, SUBSET S, g)
<1>1. PICK n \in Nat : n = Cardinality(S) + 1
  BY FS_CardinalityType
<1>2. \A s \in SUBSET S : Cardinality(s) < n
  BY <1>1, FS_Subset, FS_CardinalityType
<1>3. Small(S, n) = SUBSET S
  BY <1>2 DEF Small
<1>4. PICK D, g : D = Small(S, n) /\ SumsIn(f, D, g)
  BY SmallSums
<1>5. D = SUBSET S
  BY <1>3, <1>4
<1>. QED  BY <1>4, <1>5

LEMMA OneTable ==
    ASSUME NEW S, IsFiniteSet(S), NEW f, NEW A \in SUBSET S,
           NEW g, SumsIn(f, SUBSET S, g), NEW h, SumsIn(f, SUBSET A, h)
    PROVE  \A s \in SUBSET A : g[s] = h[s]
<1>. DEFINE Bad == {s \in SUBSET A : g[s] # h[s]}
<1>. SUFFICES ASSUME Bad # {} PROVE FALSE
  OBVIOUS
<1>1. Bad \in SUBSET (SUBSET S)
  OBVIOUS
<1>2. PICK s \in Bad : \A t \in Bad : Cardinality(s) <= Cardinality(t)
  BY <1>1, LeastSet
<1>3. /\ g[s] = IF s = {} THEN 0 ELSE f[AnyOf(s)] + g[s \ {AnyOf(s)}]
      /\ h[s] = IF s = {} THEN 0 ELSE f[AnyOf(s)] + h[s \ {AnyOf(s)}]
  BY <1>1 DEF SumsIn
<1>4. s # {}
  BY <1>3
<1>5. PICK x \in s : x = AnyOf(s)
  BY <1>4 DEF AnyOf
<1>6. Cardinality(s \ {x}) < Cardinality(s)
  BY <1>1, TakeOut
<1>7. Cardinality(s \ {x}) \in Nat /\ Cardinality(s) \in Nat
  BY <1>1, TakeOut
<1>8. s \ {x} \notin Bad
  BY <1>2, <1>6, <1>7
<1>. QED  BY <1>3, <1>4, <1>5, <1>8

Total(f, s) == SumFunctionOnSet(f, s)

LEMMA SumIs ==
    ASSUME NEW S, IsFiniteSet(S), NEW f, NEW g, SumsIn(f, SUBSET S, g)
    PROVE  Total(f, S) = g[S]
<1>1. PICK h : h = CHOOSE u : SumsIn(f, SUBSET S, u)
  OBVIOUS
<1>2. SumsIn(f, SUBSET S, h)
  BY <1>1
<1>3. h = CHOOSE u : u = [s \in SUBSET S |->
                            IF s = {} THEN 0 ELSE f[AnyOf(s)] + u[s \ {AnyOf(s)}]]
  BY <1>1 DEF SumsIn
<1>4. Total(f, S) = h[S]
  BY <1>3 DEF Total, SumFunctionOnSet, FoldFunctionOnSet, MapThenFoldSet, AnyOf
<1>5. g[S] = h[S]
  BY <1>2, OneTable
<1>. QED  BY <1>4, <1>5

LEMMA SumSplits ==
    ASSUME NEW S, IsFiniteSet(S), NEW f
    PROVE  /\ S = {} => Total(f, S) = 0
           /\ S # {} => /\ AnyOf(S) \in S
                        /\ Total(f, S) = f[AnyOf(S)] + Total(f, S \ {AnyOf(S)})
<1>1. PICK g : SumsIn(f, SUBSET S, g)
  BY SumTable
<1>2. Total(f, S) = g[S]
  BY <1>1, SumIs
<1>3. g[S] = IF S = {} THEN 0 ELSE f[AnyOf(S)] + g[S \ {AnyOf(S)}]
  BY <1>1 DEF SumsIn
<1>4. ASSUME S # {}
      PROVE  AnyOf(S) \in S /\ g[S \ {AnyOf(S)}] = Total(f, S \ {AnyOf(S)})
  <2>1. PICK x \in S : x = AnyOf(S)
    BY <1>4 DEF AnyOf
  <2>2. PICK A \in SUBSET S : A = S \ {x}
    OBVIOUS
  <2>3. IsFiniteSet(A)
    BY FS_Subset
  <2>4. PICK h : SumsIn(f, SUBSET A, h)
    BY <2>3, SumTable
  <2>5. Total(f, A) = h[A]
    BY <2>3, <2>4, SumIs
  <2>6. g[A] = h[A]
    BY <1>1, <2>4, OneTable
  <2>. QED  BY <2>1, <2>2, <2>5, <2>6
<1>. QED  BY <1>2, <1>3, <1>4

LEMMA SumIsNat ==
    ASSUME NEW S, IsFiniteSet(S), NEW f \in [S -> Nat]
    PROVE  \A s \in SUBSET S : Total(f, s) \in Nat
<1>. DEFINE Bad == {s \in SUBSET S : Total(f, s) \notin Nat}
<1>. SUFFICES ASSUME Bad # {} PROVE FALSE
  OBVIOUS
<1>1. Bad \in SUBSET (SUBSET S)
  OBVIOUS
<1>2. PICK s \in Bad : \A t \in Bad : Cardinality(s) <= Cardinality(t)
  BY <1>1, LeastSet
<1>3. IsFiniteSet(s) /\ Total(f, s) \notin Nat
  BY FS_Subset
<1>4. s # {}
  <2>1. s = {} => Total(f, s) = 0
    BY <1>3, SumSplits
  <2>. QED  BY <1>3, <2>1
<1>5. PICK x \in s : x = AnyOf(s)
  BY <1>3, <1>4, SumSplits
<1>6. Total(f, s) = f[x] + Total(f, s \ {x})
  BY <1>3, <1>4, <1>5, SumSplits
<1>7. Cardinality(s \ {x}) < Cardinality(s) /\ Cardinality(s \ {x}) \in Nat
      /\ Cardinality(s) \in Nat
  BY <1>1, TakeOut
<1>8. s \ {x} \notin Bad /\ s \ {x} \in SUBSET S
  BY <1>2, <1>7
<1>9. Total(f, s \ {x}) \in Nat /\ f[x] \in Nat
  BY <1>8
<1>. QED  BY <1>3, <1>6, <1>9

(* It does not matter which row is added first.                            *)
LEMMA SumTakes ==
    ASSUME NEW S, IsFiniteSet(S), NEW f \in [S -> Nat], NEW whole \in SUBSET S, NEW one \in whole
    PROVE  Total(f, whole) = f[one] + Total(f, whole \ {one})
<1>. DEFINE Good(s) == \A x \in s : Total(f, s) = f[x] + Total(f, s \ {x})
            Bad == {s \in SUBSET S : ~Good(s)}
<1>. SUFFICES ASSUME Bad # {} PROVE FALSE
  OBVIOUS
<1>1. Bad \in SUBSET (SUBSET S)
  OBVIOUS
<1>2. PICK s \in Bad : \A t \in Bad : Cardinality(s) <= Cardinality(t)
  BY <1>1, LeastSet
<1>3. PICK x \in s : Total(f, s) # f[x] + Total(f, s \ {x})
  OBVIOUS
<1>4. IsFiniteSet(s) /\ s # {} /\ s \in SUBSET S
  BY FS_Subset
<1>5. PICK c \in s : c = AnyOf(s)
  BY <1>4, SumSplits
<1>6. Total(f, s) = f[c] + Total(f, s \ {c})
  BY <1>4, <1>5, SumSplits
<1>7. c # x
  BY <1>3, <1>6
<1>8. ASSUME NEW y \in s
      PROVE  s \ {y} \in SUBSET S /\ Good(s \ {y})
  <2>1. Cardinality(s \ {y}) < Cardinality(s) /\ Cardinality(s \ {y}) \in Nat
        /\ Cardinality(s) \in Nat
    BY <1>4, TakeOut
  <2>2. s \ {y} \notin Bad
    BY <1>2, <2>1
  <2>. QED  BY <2>2
<1>9. Good(s \ {c}) /\ Good(s \ {x})
  BY <1>8
<1>10. PICK r : r = s \ {c, x}
  OBVIOUS
<1>11. (s \ {c}) \ {x} = r /\ (s \ {x}) \ {c} = r /\ x \in s \ {c} /\ c \in s \ {x}
  BY <1>7, <1>10
<1>12. Total(f, s \ {c}) = f[x] + Total(f, r) /\ Total(f, s \ {x}) = f[c] + Total(f, r)
  BY <1>9, <1>11
<1>13. Total(f, r) \in Nat /\ f[x] \in Nat /\ f[c] \in Nat
  <2>1. r \in SUBSET S
    BY <1>4, <1>10
  <2>. QED  BY <1>4, <2>1, SumIsNat
<1>. HIDE DEF Good
<1>. QED  BY <1>3, <1>6, <1>12, <1>13

LEMMA SumGrows ==
    ASSUME NEW S, IsFiniteSet(S), NEW f \in [S -> Nat], NEW A \in SUBSET S
    PROVE  \A s \in SUBSET S : A \subseteq s => Total(f, A) <= Total(f, s)
<1>. DEFINE Bad == {s \in SUBSET S : A \subseteq s /\ ~(Total(f, A) <= Total(f, s))}
<1>. SUFFICES ASSUME Bad # {} PROVE FALSE
  OBVIOUS
<1>1. Bad \in SUBSET (SUBSET S)
  OBVIOUS
<1>2. PICK s \in Bad : \A t \in Bad : Cardinality(s) <= Cardinality(t)
  BY <1>1, LeastSet
<1>3. s \in SUBSET S /\ A \subseteq s /\ ~(Total(f, A) <= Total(f, s))
  OBVIOUS
<1>4. \A t \in SUBSET S : Total(f, t) \in Nat
  BY SumIsNat
<1>5. s # A
  BY <1>3, <1>4
<1>6. PICK x \in s : x \notin A
  BY <1>3, <1>5
<1>7. Cardinality(s \ {x}) < Cardinality(s) /\ Cardinality(s \ {x}) \in Nat
      /\ Cardinality(s) \in Nat /\ s \ {x} \in SUBSET S
  BY <1>3, TakeOut
<1>8. s \ {x} \notin Bad
  BY <1>2, <1>7
<1>9. Total(f, A) <= Total(f, s \ {x})
  BY <1>3, <1>6, <1>7, <1>8
<1>10. Total(f, s) = f[x] + Total(f, s \ {x}) /\ f[x] \in Nat
  BY <1>3, SumTakes
<1>. HIDE DEF Bad
<1>. QED  BY <1>3, <1>4, <1>7, <1>9, <1>10

-----------------------------------------------------------------------------
(***************************************************************************)
(* The order of rows: the place of a row is the number of rows up to it.   *)
(***************************************************************************)
Place(set, s) == Cardinality(UpTo(set, s))

LEMMA PlacesFill ==
    ASSUME NEW set \in SUBSET Nat, IsFiniteSet(set), NEW n, n = Cardinality(set)
    PROVE  /\ n \in Nat
           /\ \A s \in set : Place(set, s) \in 1 .. n
           /\ \A s, t \in set : s < t <=> Place(set, s) < Place(set, t)
           /\ \A s, t \in set : Place(set, s) = Place(set, t) => s = t
           /\ \A i \in 1 .. n : \E s \in set : Place(set, s) = i
<1>1. n \in Nat
  BY FS_CardinalityType
<1>2. ASSUME NEW s \in set
      PROVE  /\ UpTo(set, s) \in SUBSET set /\ IsFiniteSet(UpTo(set, s))
             /\ Place(set, s) \in 1 .. n
  <2>1. UpTo(set, s) \in SUBSET set /\ s \in UpTo(set, s)
    BY DEF UpTo
  <2>2. IsFiniteSet(UpTo(set, s)) /\ Cardinality(UpTo(set, s)) <= n
    BY <2>1, FS_Subset
  <2>3. Cardinality(UpTo(set, s)) \in Nat /\ Cardinality(UpTo(set, s)) # 0
    BY <2>1, <2>2, FS_CardinalityType, FS_EmptySet
  <2>. QED  BY <1>1, <2>1, <2>2, <2>3 DEF Place
<1>3. ASSUME NEW s \in set, NEW t \in set, s < t
      PROVE  Place(set, s) < Place(set, t)
  <2>0. \A u \in set : u \in Nat /\ (u <= s => u <= t)
    BY <1>3
  <2>1. UpTo(set, s) \in SUBSET UpTo(set, t)
    BY <2>0 DEF UpTo
  <2>2. t \in UpTo(set, t) /\ t \notin UpTo(set, s)
    BY <1>3 DEF UpTo
  <2>3. /\ Cardinality(UpTo(set, s)) <= Cardinality(UpTo(set, t))
        /\ Cardinality(UpTo(set, s)) # Cardinality(UpTo(set, t))
    BY <1>2, <2>1, <2>2, FS_Subset
  <2>4. Place(set, s) \in Nat /\ Place(set, t) \in Nat
    BY <1>1, <1>2
  <2>. QED  BY <2>3, <2>4 DEF Place
<1>4. \A s, t \in set : Place(set, s) \in Nat /\ Place(set, t) \in Nat
  BY <1>1, <1>2
<1>5. \A s, t \in set : Place(set, s) = Place(set, t) => s = t
  BY <1>3, <1>4
<1>6. \A s, t \in set : s < t <=> Place(set, s) < Place(set, t)
  <2>. SUFFICES ASSUME NEW s \in set, NEW t \in set
                PROVE  s < t <=> Place(set, s) < Place(set, t)
    OBVIOUS
  <2>1. s \in Nat /\ t \in Nat /\ Place(set, s) \in Nat /\ Place(set, t) \in Nat
    BY <1>4
  <2>2. CASE s < t
    BY <1>3, <2>2
  <2>3. CASE s = t
    BY <2>1, <2>3
  <2>4. CASE t < s
    <3>1. Place(set, t) < Place(set, s)
      BY <1>3, <2>4
    <3>. QED  BY <2>1, <2>4, <3>1
  <2>. QED  BY <2>1, <2>2, <2>3, <2>4
<1>7. ASSUME NEW i \in 1 .. n
      PROVE  \E s \in set : Place(set, s) = i
  <2>1. PICK places, f : places = 1 .. n /\ f = [s \in set |-> Place(set, s)]
    OBVIOUS
  <2>2. f \in [set -> places]
    BY <1>2, <2>1
  <2>3. \A s, t \in set : f[s] = f[t] => s = t
    BY <1>5, <2>1
  <2>4. f \in Injection(set, places)
    BY <2>2, <2>3 DEF Injection, IsInjective
  <2>5. IsFiniteSet(places) /\ Cardinality(places) = n
    <3>1. 1 \in Int /\ n \in Int
      BY <1>1
    <3>2. IsFiniteSet(1 .. n) /\ Cardinality(1 .. n) = IF 1 > n THEN 0 ELSE n - 1 + 1
      BY <3>1, FS_Interval
    <3>. QED  BY <1>1, <2>1, <3>2
  <2>6. f \in Surjection(set, places)
    BY <2>4, <2>5, FS_Injection
  <2>7. i \in places
    BY <2>1
  <2>8. PICK s \in set : f[s] = i
    BY <2>6, <2>7 DEF Surjection
  <2>. QED  BY <2>1, <2>8
<1>. QED  BY <1>1, <1>2, <1>5, <1>6, <1>7

(* q lists the set in order.                                               *)
Lists(set, n, q) ==
    /\ n \in Nat /\ q = [i \in 1 .. n |-> q[i]]
    /\ \A i \in 1 .. n : q[i] \in set /\ Place(set, q[i]) = i
    /\ \A s \in set : Place(set, s) \in 1 .. n /\ q[Place(set, s)] = s

LEMMA InOrderLists ==
    ASSUME NEW set \in SUBSET Nat, IsFiniteSet(set), NEW n, n = Cardinality(set),
           NEW q, q = InOrder(set)
    PROVE  Lists(set, n, q)
<1>1. q = [i \in 1 .. n |-> CHOOSE s \in set : Place(set, s) = i]
  BY DEF InOrder, Place
<1>2. /\ n \in Nat
      /\ \A s \in set : Place(set, s) \in 1 .. n
      /\ \A s, t \in set : Place(set, s) = Place(set, t) => s = t
      /\ \A i \in 1 .. n : \E s \in set : Place(set, s) = i
  BY PlacesFill
<1>3. q = [i \in 1 .. n |-> q[i]]
  BY <1>1
<1>4. ASSUME NEW i \in 1 .. n
      PROVE  q[i] \in set /\ Place(set, q[i]) = i
  <2>. DEFINE Is(s) == Place(set, s) = i
  <2>1. \E s \in set : Is(s)
    BY <1>2
  <2>2. q[i] = CHOOSE s \in set : Is(s)
    BY <1>1
  <2>3. q[i] \in set /\ Is(q[i])
    <3>. HIDE DEF Is
    <3>. QED  BY <2>1, <2>2
  <2>. QED  BY <2>3
<1>5. ASSUME NEW s \in set
      PROVE  Place(set, s) \in 1 .. n /\ q[Place(set, s)] = s
  <2>1. PICK i \in 1 .. n : i = Place(set, s)
    BY <1>2
  <2>2. q[i] \in set /\ Place(set, q[i]) = Place(set, s)
    BY <1>4, <2>1
  <2>. QED  BY <1>2, <2>1, <2>2
<1>. QED  BY <1>2, <1>3, <1>4, <1>5 DEF Lists

(* There is one way to list a set.                                         *)
LEMMA OneList ==
    ASSUME NEW set \in SUBSET Nat, IsFiniteSet(set), NEW n, NEW p, Lists(set, n, p),
           NEW q, Lists(set, n, q)
    PROVE  p = q
<1>1. ASSUME NEW i \in 1 .. n
      PROVE  p[i] = q[i]
  BY DEF Lists
<1>2. PICK D : D = 1 .. n
  OBVIOUS
<1>3. p = [i \in D |-> p[i]] /\ q = [i \in D |-> q[i]] /\ \A i \in D : p[i] = q[i]
  BY <1>1, <1>2 DEF Lists
<1>. QED  BY <1>3

(* What a list of a set starts with lists the rows up to some row.         *)
FirstOf(q, k) == {q[i] : i \in 1 .. k}

LEMMA StartLists ==
    ASSUME NEW set \in SUBSET Nat, IsFiniteSet(set), NEW n, n = Cardinality(set),
           NEW q, Lists(set, n, q), NEW k \in 0 .. n
    PROVE  /\ FirstOf(q, k) = {s \in set : Place(set, s) <= k}
           /\ k # 0 => FirstOf(q, k) = UpTo(set, q[k])
           /\ FirstOf(q, k) \in SUBSET set /\ IsFiniteSet(FirstOf(q, k))
           /\ Cardinality(FirstOf(q, k)) = k
           /\ \A s \in FirstOf(q, k) : Place(FirstOf(q, k), s) = Place(set, s)
<1>0. n \in Nat /\ k \in Nat /\ k <= n
  BY DEF Lists
<1>1. PICK F : F = FirstOf(q, k)
  OBVIOUS
<1>2. F = {s \in set : Place(set, s) <= k}
  <2>1. \A s \in F : s \in set /\ Place(set, s) <= k
    BY <1>0, <1>1 DEF FirstOf, Lists
  <2>2. ASSUME NEW s \in set, Place(set, s) <= k
        PROVE  s \in F
    <3>1. PICK i \in 1 .. n : i = Place(set, s)
      BY DEF Lists
    <3>2. q[i] = s
      BY <3>1 DEF Lists
    <3>3. i \in 1 .. k
      BY <1>0, <2>2, <3>1
    <3>. QED  BY <1>1, <3>2, <3>3 DEF FirstOf
  <2>. QED  BY <2>1, <2>2
<1>3. F \in SUBSET set
  BY <1>2
<1>4. IsFiniteSet(F)
  BY <1>3, FS_Subset
<1>5. \A s, t \in set : /\ Place(set, s) \in Nat /\ Place(set, t) \in Nat
                        /\ s \in Nat /\ t \in Nat
                        /\ s < t <=> Place(set, s) < Place(set, t)
  BY <1>0, PlacesFill
<1>6. ASSUME k # 0
      PROVE  F = UpTo(set, q[k])
  <2>1. q[k] \in set /\ Place(set, q[k]) = k
    BY <1>0, <1>6 DEF Lists
  <2>2. PICK t \in set : t = q[k] /\ Place(set, t) = k
    BY <2>1
  <2>3. \A s \in set : s <= t <=> Place(set, s) <= k
    BY <1>5, <2>2
  <2>. QED  BY <1>2, <2>2, <2>3 DEF UpTo
<1>7. Cardinality(F) = k
  <2>1. CASE k = 0
    <3>1. F = {}
      BY <1>1, <2>1 DEF FirstOf
    <3>. QED  BY <2>1, <3>1, FS_EmptySet
  <2>2. CASE k # 0
    <3>1. Place(set, q[k]) = k
      BY <1>0, <2>2 DEF Lists
    <3>. QED  BY <1>6, <2>2, <3>1 DEF Place
  <2>. QED  BY <2>1, <2>2
<1>8. ASSUME NEW s \in F
      PROVE  Place(F, s) = Place(set, s)
  <2>1. \A t \in set : t <= s => t \in F
    BY <1>2, <1>3, <1>5
  <2>2. UpTo(F, s) = UpTo(set, s)
    BY <1>3, <2>1 DEF UpTo
  <2>. QED  BY <2>2 DEF Place
<1>. QED  BY <1>1, <1>2, <1>3, <1>4, <1>6, <1>7, <1>8

LEMMA StartInOrder ==
    ASSUME NEW set \in SUBSET Nat, IsFiniteSet(set), NEW n, n = Cardinality(set),
           NEW q, Lists(set, n, q), NEW k \in 0 .. n
    PROVE  InOrder(FirstOf(q, k)) = [i \in 1 .. k |-> q[i]]
<1>1. PICK F : F = FirstOf(q, k)
  OBVIOUS
<1>2. /\ F = {s \in set : Place(set, s) <= k}
      /\ F \in SUBSET set /\ IsFiniteSet(F) /\ Cardinality(F) = k
      /\ \A s \in F : Place(F, s) = Place(set, s)
  BY <1>1, StartLists
<1>3. PICK p : p = [i \in 1 .. k |-> q[i]]
  OBVIOUS
<1>0. n \in Nat /\ k \in Nat /\ k <= n
  BY DEF Lists
<1>4. Lists(F, k, p)
  <2>1. p = [i \in 1 .. k |-> p[i]]
    BY <1>3
  <2>2. ASSUME NEW i \in 1 .. k
        PROVE  p[i] \in F /\ Place(F, p[i]) = i
    <3>1. i \in 1 .. n /\ p[i] = q[i] /\ i <= k
      BY <1>0, <1>3
    <3>2. q[i] \in set /\ Place(set, q[i]) = i
      BY <3>1 DEF Lists
    <3>3. q[i] \in F
      BY <1>2, <3>1, <3>2
    <3>. QED  BY <1>2, <3>1, <3>2, <3>3
  <2>3. ASSUME NEW s \in F
        PROVE  Place(F, s) \in 1 .. k /\ p[Place(F, s)] = s
    <3>1. PICK i \in 1 .. n : i = Place(set, s) /\ q[i] = s
      BY <1>2 DEF Lists
    <3>2. i \in 1 .. k /\ Place(F, s) = i
      BY <1>0, <1>2, <3>1
    <3>. QED  BY <1>3, <3>1, <3>2
  <2>. QED  BY <1>0, <2>1, <2>2, <2>3 DEF Lists
<1>5. F \in SUBSET Nat
  BY <1>2
<1>6. PICK r : r = InOrder(F)
  OBVIOUS
<1>7. Lists(F, k, r)
  BY <1>2, <1>5, <1>6, InOrderLists
<1>8. r = p
  BY <1>2, <1>4, <1>5, <1>7, OneList
<1>. QED  BY <1>1, <1>3, <1>6, <1>8

-----------------------------------------------------------------------------
(***************************************************************************)
(* A sequence that rises through a set is the set in order.                *)
(***************************************************************************)
Rises(q, n, set) ==
    /\ n \in Nat /\ q = [i \in 1 .. n |-> q[i]]
    /\ \A i \in 1 .. n : q[i] \in set
    /\ \A i, j \in 1 .. n : i < j => q[i] < q[j]
    /\ \A s \in set : \E i \in 1 .. n : q[i] = s

LEMMA InOrderRises ==
    ASSUME NEW set \in SUBSET Nat, IsFiniteSet(set), NEW q, q = InOrder(set),
           NEW n, n = Cardinality(set)
    PROVE  Rises(q, n, set)
<1>1. Lists(set, n, q)
  BY InOrderLists
<1>2. \A s, t \in set : s < t <=> Place(set, s) < Place(set, t)
  BY PlacesFill
<1>3. \A i, j \in 1 .. n : i < j => q[i] < q[j]
  BY <1>1, <1>2 DEF Lists
<1>4. \A s \in set : \E i \in 1 .. n : q[i] = s
  BY <1>1 DEF Lists
<1>. QED  BY <1>1, <1>3, <1>4 DEF Lists, Rises

LEMMA RisingCounts ==
    ASSUME NEW set \in SUBSET Nat, NEW q, NEW n, Rises(q, n, set)
    PROVE  IsFiniteSet(set) /\ Cardinality(set) = n
<1>1. PICK places : places = 1 .. n
  OBVIOUS
<1>2. IsFiniteSet(places) /\ Cardinality(places) = n
  <2>1. 1 \in Int /\ n \in Int /\ n \in Nat
    BY DEF Rises
  <2>2. IsFiniteSet(1 .. n) /\ Cardinality(1 .. n) = IF 1 > n THEN 0 ELSE n - 1 + 1
    BY <2>1, FS_Interval
  <2>. QED  BY <1>1, <2>1, <2>2
<1>3. PICK f : f = [i \in places |-> q[i]]
  OBVIOUS
<1>4. f \in [places -> set] /\ \A s \in set : \E i \in places : f[i] = s
  BY <1>1, <1>3 DEF Rises
<1>5. \A i, j \in places : f[i] = f[j] => i = j
  <2>. SUFFICES ASSUME NEW i \in 1 .. n, NEW j \in 1 .. n, q[i] = q[j], i # j
                PROVE  FALSE
    BY <1>1, <1>3
  <2>1. i < j \/ j < i
    BY DEF Rises
  <2>2. q[i] < q[j] \/ q[j] < q[i]
    BY <2>1 DEF Rises
  <2>3. q[i] \in Nat /\ q[j] \in Nat
    BY DEF Rises
  <2>. QED  BY <2>2, <2>3
<1>6. f \in Bijection(places, set)
  BY <1>4, <1>5 DEF Bijection, Injection, Surjection, IsInjective
<1>7. ExistsBijection(places, set)
  BY <1>6 DEF ExistsBijection
<1>. QED  BY <1>2, <1>7, FS_Bijection

LEMMA RisingIsInOrder ==
    ASSUME NEW set \in SUBSET Nat, NEW q, NEW n, Rises(q, n, set)
    PROVE  q = InOrder(set) /\ n = Cardinality(set) /\ IsFiniteSet(set)
<1>1. IsFiniteSet(set) /\ Cardinality(set) = n
  BY RisingCounts
<1>2. \A i \in 1 .. n : q[i] \in set /\ q[i] \in Nat
  BY DEF Rises
<1>3. ASSUME NEW i \in 1 .. n
      PROVE  Place(set, q[i]) = i
  <2>1. PICK p : p = [j \in 1 .. i |-> q[j]]
    OBVIOUS
  <2>2. PICK up : up = UpTo(set, q[i])
    OBVIOUS
  <2>0. n \in Nat /\ i \in Nat /\ i <= n /\ \A j \in 1 .. i : j \in 1 .. n
    BY DEF Rises
  <2>3. \A j \in 1 .. n : j <= i <=> q[j] <= q[i]
    <3>. SUFFICES ASSUME NEW j \in 1 .. n
                  PROVE  j <= i <=> q[j] <= q[i]
      OBVIOUS
    <3>1. (j < i => q[j] < q[i]) /\ (i < j => q[i] < q[j])
      BY DEF Rises
    <3>2. q[i] \in Nat /\ q[j] \in Nat /\ (j = i => q[j] = q[i])
      BY <1>2
    <3>. QED  BY <3>1, <3>2, <2>0
  <2>4. \A j \in 1 .. i : p[j] = q[j] /\ p[j] \in up
    BY <1>2, <2>0, <2>1, <2>2, <2>3 DEF UpTo
  <2>5. \A s \in up : \E j \in 1 .. i : p[j] = s
    <3>. SUFFICES ASSUME NEW s \in set, s <= q[i]
                  PROVE  \E j \in 1 .. i : p[j] = s
      BY <2>2 DEF UpTo
    <3>1. PICK j \in 1 .. n : q[j] = s
      BY DEF Rises
    <3>2. j \in 1 .. i
      BY <2>0, <2>3, <3>1
    <3>. QED  BY <2>1, <3>1, <3>2
  <2>6. \A j, k \in 1 .. i : j < k => p[j] < p[k]
    BY <2>0, <2>4 DEF Rises
  <2>7. Rises(p, i, up)
    <3>1. p = [j \in 1 .. i |-> p[j]]
      BY <2>1
    <3>. QED  BY <2>0, <2>4, <2>5, <2>6, <3>1 DEF Rises
  <2>8. up \in SUBSET Nat
    BY <2>2 DEF UpTo
  <2>9. Cardinality(up) = i
    BY <2>7, <2>8, RisingCounts
  <2>. QED  BY <2>2, <2>9 DEF Place
<1>4. Lists(set, n, q)
  <2>1. ASSUME NEW s \in set
        PROVE  Place(set, s) \in 1 .. n /\ q[Place(set, s)] = s
    <3>1. PICK i \in 1 .. n : q[i] = s
      BY DEF Rises
    <3>2. Place(set, s) = i
      BY <1>3, <3>1
    <3>. QED  BY <3>1, <3>2
  <2>. QED  BY <1>2, <1>3, <2>1 DEF Lists, Rises
<1>5. PICK r : r = InOrder(set)
  OBVIOUS
<1>6. Lists(set, n, r)
  BY <1>1, <1>5, InOrderLists
<1>7. q = r
  BY <1>1, <1>4, <1>6, OneList
<1>. QED  BY <1>1, <1>5, <1>7

(* One sequence behind another that ends below it.                         *)
Joined(p, k, r, m) == [i \in 1 .. k + m |-> IF i <= k THEN p[i] ELSE r[i - k]]

LEMMA ConcatRises ==
    ASSUME NEW P \in SUBSET Nat, NEW p, NEW k, Rises(p, k, P),
           NEW R \in SUBSET Nat, NEW r, NEW m, Rises(r, m, R),
           \A s \in P, t \in R : s < t,
           NEW q, q = Joined(p, k, r, m)
    PROVE  Rises(q, k + m, P \cup R)
<1>0. k \in Nat /\ m \in Nat /\ k + m \in Nat
  BY DEF Rises
<1>1. q = [i \in 1 .. k + m |-> q[i]]
  BY DEF Joined
<1>2. \A i \in 1 .. k : q[i] = p[i] /\ q[i] \in P /\ i \in 1 .. k + m
  BY <1>0 DEF Joined, Rises
<1>3. \A i \in 1 .. m : q[k + i] = r[i] /\ q[k + i] \in R /\ k + i \in 1 .. k + m
  BY <1>0 DEF Joined, Rises
<1>4. \A i \in 1 .. k + m : i \in 1 .. k \/ \E j \in 1 .. m : i = k + j
  <2>. SUFFICES ASSUME NEW i \in 1 .. k + m, ~(i <= k)
                PROVE  \E j \in 1 .. m : i = k + j
    BY <1>0
  <2>1. i - k \in 1 .. m /\ i = k + (i - k)
    BY <1>0
  <2>. QED  BY <2>1
<1>5. \A i \in 1 .. k + m : q[i] \in P \cup R
  BY <1>2, <1>3, <1>4
<1>6. ASSUME NEW i \in 1 .. k + m, NEW j \in 1 .. k + m, i < j
      PROVE  q[i] < q[j]
  <2>1. CASE i \in 1 .. k /\ j \in 1 .. k
    BY <1>2, <1>6, <2>1 DEF Rises
  <2>2. CASE i \in 1 .. k /\ j \notin 1 .. k
    BY <1>2, <1>3, <1>4, <2>2
  <2>3. CASE i \notin 1 .. k
    <3>1. PICK a \in 1 .. m : i = k + a
      BY <1>4, <2>3
    <3>2. PICK b \in 1 .. m : j = k + b
      <4>1. j \notin 1 .. k
        BY <1>0, <1>6, <2>3
      <4>. QED  BY <1>4, <4>1
    <3>3. a < b
      BY <1>0, <1>6, <3>1, <3>2
    <3>4. r[a] < r[b]
      BY <3>3 DEF Rises
    <3>. QED  BY <1>3, <3>1, <3>2, <3>4
  <2>. QED  BY <2>1, <2>2, <2>3
<1>7. ASSUME NEW s \in P \cup R
      PROVE  \E i \in 1 .. k + m : q[i] = s
  <2>1. CASE s \in P
    <3>1. PICK i \in 1 .. k : p[i] = s
      BY <2>1 DEF Rises
    <3>. QED  BY <1>2, <3>1
  <2>2. CASE s \in R
    <3>1. PICK i \in 1 .. m : r[i] = s
      BY <2>2 DEF Rises
    <3>. QED  BY <1>3, <3>1
  <2>. QED  BY <2>1, <2>2
<1>. QED  BY <1>0, <1>1, <1>5, <1>6, <1>7 DEF Rises

LEMMA SameSequence ==
    ASSUME NEW S, NEW a \in Seq(S), NEW b \in Seq(S), NEW n, Len(a) = n, Len(b) = n,
           \A i \in 1 .. n : a[i] = b[i]
    PROVE  a = b
  OBVIOUS

LEMMA IsASequence ==
    ASSUME NEW all \in SUBSET Nat, NEW set \in SUBSET all, NEW q, NEW n, Rises(q, n, set)
    PROVE  q \in Seq(all) /\ Len(q) = n /\ DOMAIN q = 1 .. n /\ n \in Nat
<1>1. n \in Nat /\ q \in [1 .. n -> all]
  BY DEF Rises
<1>2. q \in Seq(all)
  BY <1>1
<1>. QED  BY <1>1, <1>2

(* The first rows of a set in order are its start, the others the rest.    *)
StartOf(P, set) == P \in SUBSET set /\ \A s \in P, t \in set \ P : s < t

Splits(set, P, q, k) ==
    /\ q \in Seq(set) /\ k \in 0 .. Len(q)
    /\ InOrder(P) = SubSeq(q, 1, k)
    /\ InOrder(set \ P) = SubSeq(q, k + 1, Len(q))

LEMMA InOrderSplits ==
    ASSUME NEW set \in SUBSET Nat, IsFiniteSet(set), NEW P, StartOf(P, set)
    PROVE  Splits(set, P, InOrder(set), Cardinality(P))
<1>. SUFFICES ASSUME NEW q, q = InOrder(set), NEW k, k = Cardinality(P)
              PROVE  Splits(set, P, q, k)
  OBVIOUS
<1>1. PICK R : R = set \ P
  OBVIOUS
<1>2. P \in SUBSET set /\ P \in SUBSET Nat /\ R \in SUBSET Nat /\ P \cup R = set
  BY <1>1 DEF StartOf
<1>3. IsFiniteSet(P) /\ IsFiniteSet(R)
  <2>1. R \in SUBSET set
    BY <1>1
  <2>. QED  BY <1>2, <2>1, FS_Subset
<1>4. PICK p, r, m : p = InOrder(P) /\ r = InOrder(R) /\ m = Cardinality(R)
  OBVIOUS
<1>5. Rises(p, k, P) /\ Rises(r, m, R)
  <2>1. Rises(p, k, P)
    BY <1>2, <1>3, <1>4, InOrderRises
  <2>2. Rises(r, m, R)
    BY <1>2, <1>3, <1>4, InOrderRises
  <2>. QED  BY <2>1, <2>2
<1>6. PICK u : u = Joined(p, k, r, m)
  OBVIOUS
<1>7. Rises(u, k + m, set)
  <2>1. \A s \in P, t \in R : s < t
    BY <1>1 DEF StartOf
  <2>2. Rises(u, k + m, P \cup R)
    BY <1>2, <1>5, <1>6, <2>1, ConcatRises
  <2>. QED  BY <1>2, <2>2
<1>8. u = q
  BY <1>7, RisingIsInOrder
<1>9. q \in Seq(set) /\ Len(q) = k + m /\ k \in Nat /\ m \in Nat
  <2>1. Rises(q, k + m, set)
    BY <1>7, <1>8
  <2>2. q \in Seq(set) /\ Len(q) = k + m
    BY <2>1, IsASequence
  <2>3. k \in Nat /\ m \in Nat
    BY <1>5 DEF Rises
  <2>. QED  BY <2>2, <2>3
<1>10. \A i \in 1 .. k + m : q[i] = IF i <= k THEN p[i] ELSE r[i - k]
  BY <1>6, <1>8 DEF Joined
<1>11. SubSeq(q, 1, k) = p
  <2>1. p \in Seq(set) /\ Len(p) = k
    BY <1>2, <1>5, IsASequence
  <2>2. SubSeq(q, 1, k) \in Seq(set) /\ Len(SubSeq(q, 1, k)) = k
    BY <1>9
  <2>3. \A i \in 1 .. k : SubSeq(q, 1, k)[i] = q[i] /\ q[i] = p[i]
    BY <1>9, <1>10
  <2>. QED  BY <2>1, <2>2, <2>3
<1>12. SubSeq(q, k + 1, k + m) = r
  <2>1. r \in Seq(set) /\ Len(r) = m
    <3>1. R \in SUBSET set
      BY <1>1
    <3>. QED  BY <1>5, <3>1, IsASequence
  <2>2. SubSeq(q, k + 1, k + m) \in Seq(set) /\ Len(SubSeq(q, k + 1, k + m)) = m
    BY <1>9
  <2>3. \A i \in 1 .. m : /\ SubSeq(q, k + 1, k + m)[i] = q[k + i]
                          /\ q[k + i] = r[i]
    <3>. SUFFICES ASSUME NEW i \in 1 .. m
                  PROVE  SubSeq(q, k + 1, k + m)[i] = q[k + i] /\ q[k + i] = r[i]
      OBVIOUS
    <3>1. k + i \in 1 .. k + m /\ ~(k + i <= k) /\ (k + i) - k = i
      BY <1>9
    <3>2. q[k + i] = r[i]
      BY <1>10, <3>1
    <3>3. SubSeq(q, k + 1, k + m)[i] = q[k + i]
      <4>1. PICK a, b \in Nat : a = k + 1 /\ b = k + m
        BY <1>9
      <4>2. /\ a \in 1 .. Len(q) + 1 /\ b \in a - 1 .. Len(q)
            /\ i \in 1 .. b - a + 1 /\ a + i - 1 = k + i
        BY <1>9, <4>1
      <4>3. SubSeq(q, a, b)[i] = q[a + i - 1]
        BY <1>9, <4>2
      <4>. QED  BY <4>1, <4>2, <4>3
    <3>. QED  BY <3>2, <3>3
  <2>4. \A i \in 1 .. m : SubSeq(q, k + 1, k + m)[i] = r[i]
    BY <2>3
  <2>. QED  BY <2>1, <2>2, <2>4, SameSequence
<1>13. InOrder(set \ P) = SubSeq(q, k + 1, Len(q))
  <2>1. PICK len : len = k + m
    OBVIOUS
  <2>2. Len(q) = len /\ SubSeq(q, k + 1, len) = r
    BY <1>9, <1>12, <2>1
  <2>. QED  BY <1>1, <1>4, <2>2
<1>14. InOrder(P) = SubSeq(q, 1, k)
  BY <1>4, <1>11
<1>15. k \in 0 .. Len(q)
  <2>1. k + m >= k
    BY <1>9
  <2>. QED  BY <1>9, <2>1
<1>. QED  BY <1>9, <1>13, <1>14, <1>15 DEF Splits

LEMMA InOrderAppends ==
    ASSUME NEW set \in SUBSET Nat, IsFiniteSet(set), NEW m \in Nat,
           \A s \in set : s < m
    PROVE  InOrder(set \cup {m}) = Append(InOrder(set), m)
<1>1. PICK q, n, all : /\ q = InOrder(set) /\ n = Cardinality(set)
                       /\ all = set \cup {m}
  OBVIOUS
<1>2. Rises(q, n, set)
  BY <1>1, InOrderRises
<1>3. q \in Seq(set) /\ Len(q) = n /\ n \in Nat /\ all \in SUBSET Nat
  BY <1>1, <1>2, IsASequence
<1>4. PICK u : u = Append(q, m)
  OBVIOUS
<1>5. q \in Seq(Nat)
  BY <1>2, IsASequence
<1>6. u \in Seq(Nat) /\ Len(u) = n + 1
  BY <1>3, <1>4, <1>5
<1>7. u[n + 1] = m /\ \A i \in 1 .. n : u[i] = q[i]
  BY <1>3, <1>4, <1>5
<1>8. \A i \in 1 .. n : u[i] \in set
  BY <1>2, <1>7 DEF Rises
<1>9. \A i \in 1 .. n + 1 : i \in 1 .. n \/ i = n + 1
  BY <1>3
<1>10. \A i \in 1 .. n + 1 : u[i] \in all
  BY <1>1, <1>7, <1>8, <1>9
<1>11. ASSUME NEW i \in 1 .. n + 1, NEW j \in 1 .. n + 1, i < j
       PROVE  u[i] < u[j]
  <2>1. i \in 1 .. n
    BY <1>3, <1>11
  <2>2. CASE j \in 1 .. n
    BY <1>2, <1>7, <1>11, <2>1, <2>2 DEF Rises
  <2>3. CASE j = n + 1
    BY <1>7, <1>8, <2>1, <2>3
  <2>. QED  BY <1>9, <2>2, <2>3
<1>12. ASSUME NEW s \in all
       PROVE  \E i \in 1 .. n + 1 : u[i] = s
  <2>1. CASE s = m
    <3>1. n + 1 \in 1 .. n + 1
      BY <1>3
    <3>. QED  BY <1>7, <2>1, <3>1
  <2>2. CASE s \in set
    <3>1. PICK i \in 1 .. n : q[i] = s
      BY <1>2, <2>2 DEF Rises
    <3>2. i \in 1 .. n + 1
      BY <1>3
    <3>. QED  BY <1>7, <3>1, <3>2
  <2>. QED  BY <1>1, <2>1, <2>2
<1>13. u = [i \in 1 .. n + 1 |-> u[i]] /\ n + 1 \in Nat
  BY <1>3, <1>6
<1>14. Rises(u, n + 1, all)
  BY <1>10, <1>11, <1>12, <1>13 DEF Rises
<1>15. u = InOrder(all)
  BY <1>3, <1>14, RisingIsInOrder
<1>. QED  BY <1>1, <1>4, <1>15

(* Leaving rows out does not change the order of the others.               *)
LEMMA InOrderWithout ==
    ASSUME NEW set \in SUBSET Nat, IsFiniteSet(set), NEW q, q = InOrder(set), NEW gone,
           NEW left, left = InOrder({i \in DOMAIN q : q[i] \notin gone})
    PROVE  InOrder(set \ gone) = [j \in DOMAIN left |-> q[left[j]]]
<1>1. PICK n, rest, K, m, u : /\ n = Cardinality(set) /\ rest = set \ gone
                              /\ K = {i \in DOMAIN q : q[i] \notin gone}
                              /\ m = Cardinality(K)
                              /\ u = [j \in DOMAIN left |-> q[left[j]]]
  OBVIOUS
<1>2. Rises(q, n, set)
  BY <1>1, InOrderRises
<1>3. DOMAIN q = 1 .. n /\ n \in Nat
  BY <1>2, IsASequence
<1>4. K \in SUBSET Nat /\ IsFiniteSet(K)
  <2>1. PICK places : places = 1 .. n
    OBVIOUS
  <2>2. K \in SUBSET places /\ K \in SUBSET Nat
    BY <1>1, <1>3, <2>1
  <2>3. IsFiniteSet(places)
    <3>1. 1 \in Int /\ n \in Int
      BY <1>3
    <3>. QED  BY <2>1, <3>1, FS_Interval
  <2>. QED  BY <2>2, <2>3, FS_Subset
<1>5. Rises(left, m, K)
  BY <1>1, <1>4, InOrderRises
<1>6. DOMAIN left = 1 .. m
  BY <1>4, <1>5, IsASequence
<1>7. \A j \in 1 .. m : u[j] = q[left[j]] /\ left[j] \in K
  BY <1>1, <1>5, <1>6 DEF Rises
<1>8. \A i \in K : i \in 1 .. n /\ q[i] \in rest
  BY <1>1, <1>2, <1>3 DEF Rises
<1>9. \A s \in rest : \E i \in K : q[i] = s
  BY <1>1, <1>2, <1>3 DEF Rises
<1>10. \A j \in 1 .. m : u[j] \in rest
  BY <1>7, <1>8
<1>11. ASSUME NEW i \in 1 .. m, NEW j \in 1 .. m, i < j
       PROVE  u[i] < u[j]
  <2>1. left[i] < left[j]
    BY <1>5, <1>11 DEF Rises
  <2>2. left[i] \in 1 .. n /\ left[j] \in 1 .. n
    BY <1>7, <1>8
  <2>3. q[left[i]] < q[left[j]]
    BY <1>2, <2>1, <2>2 DEF Rises
  <2>. QED  BY <1>7, <2>3
<1>12. ASSUME NEW s \in rest
       PROVE  \E j \in 1 .. m : u[j] = s
  <2>1. PICK i \in K : q[i] = s
    BY <1>9
  <2>2. PICK j \in 1 .. m : left[j] = i
    BY <1>5 DEF Rises
  <2>. QED  BY <1>7, <2>1, <2>2
<1>13. u = [j \in 1 .. m |-> u[j]] /\ m \in Nat
  BY <1>1, <1>5, <1>6 DEF Rises
<1>14. Rises(u, m, rest)
  BY <1>10, <1>11, <1>12, <1>13 DEF Rises
<1>15. rest \in SUBSET Nat
  BY <1>1
<1>16. u = InOrder(rest)
  BY <1>14, <1>15, RisingIsInOrder
<1>. QED  BY <1>1, <1>16

(* A page is the start of what matches: no row of it is behind one that is *)
(* left out.                                                               *)
LEMMA PageStarts ==
    ASSUME NEW S \in SUBSET Nat, IsFiniteSet(S), NEW f \in [S -> Nat],
           NEW set \in SUBSET S, NEW limit \in Nat, NEW budget \in Nat,
           NEW page, page = Page(set, f, limit, budget)
    PROVE  StartOf(page, set)
<1>1. \A s : s \in page <=>
          /\ s \in set /\ Cardinality(UpTo(set, s)) <= limit
          /\ UpTo(set, s) = {s} \/ Total(f, UpTo(set, s)) <= budget
  BY DEF Page, Total
<1>2. ASSUME NEW s \in page, NEW t \in set, t < s
      PROVE  t \in page
  <2>1. s \in set /\ s \in Nat /\ t \in Nat
    BY <1>1
  <2>2. PICK A, B : A = UpTo(set, t) /\ B = UpTo(set, s)
    OBVIOUS
  <2>3. A \in SUBSET B /\ A \in SUBSET S /\ B \in SUBSET S /\ t \in B
    <3>1. \A u \in set : u \in Nat /\ (u <= t => u <= s)
      BY <1>2, <2>1
    <3>2. \A u : (u \in A <=> u \in set /\ u <= t) /\ (u \in B <=> u \in set /\ u <= s)
      BY <2>2 DEF UpTo
    <3>3. t <= s
      BY <1>2, <2>1
    <3>4. A \in SUBSET B /\ B \in SUBSET set
      BY <3>1, <3>2
    <3>. QED  BY <1>2, <3>2, <3>3, <3>4
  <2>4. IsFiniteSet(B) /\ IsFiniteSet(A)
    BY <2>3, FS_Subset
  <2>5. /\ Cardinality(A) <= Cardinality(B)
        /\ Cardinality(A) \in Nat /\ Cardinality(B) \in Nat
    BY <2>3, <2>4, FS_Subset, FS_CardinalityType
  <2>6. B # {s}
    BY <1>2, <2>1, <2>3
  <2>7. Cardinality(B) <= limit /\ Total(f, B) <= budget
    BY <1>1, <2>2, <2>6
  <2>8. Total(f, A) <= Total(f, B)
    BY <2>3, SumGrows
  <2>9. Total(f, A) \in Nat /\ Total(f, B) \in Nat
    BY <2>3, SumIsNat
  <2>10. Cardinality(A) <= limit
    BY <2>5, <2>7
  <2>11. Total(f, A) <= budget
    BY <2>7, <2>8, <2>9
  <2>. QED  BY <1>1, <2>2, <2>10, <2>11
<1>3. page \in SUBSET set
  BY <1>1
<1>4. ASSUME NEW s \in page, NEW t \in set \ page
      PROVE  s < t
  <2>1. s \in Nat /\ t \in Nat /\ t # s /\ ~(t < s)
    BY <1>2, <1>3, <1>4
  <2>. QED  BY <2>1
<1>. QED  BY <1>3, <1>4 DEF StartOf
=============================================================================
