-------------------------- MODULE NostrSync_proofs --------------------------
(***************************************************************************)
(* The receiver of a Nostr stream lacks nothing its cursor covers, and     *)
(* when all is at rest it has caught up; back-pressure ends, and a stream  *)
(* is a chain.                                                             *)
(***************************************************************************)
EXTENDS NostrSync, SequenceTheorems, FiniteSetTheorems, WellFoundedInduction, TLAPS

USE NostrConstants

---------------------------------------------------------------------------
(* Numbers: sets of naturals have least and greatest members.              *)

Before(S) == {p \in S \X S : p[1] < p[2]}

\* There is no endless descent in the naturals.
LEMMA BeforeIsWellFounded == IsWellFoundedOn(Before(Nat), Nat)
<1>1. Before(Nat) = OpToRel(<, Nat)
  BY DEF Before, OpToRel
<1> QED BY <1>1, NatLessThanWellFounded

\* A set of naturals has a least member.
LEMMA HasLeast ==
    ASSUME NEW S \in SUBSET Nat, S # {}
    PROVE  \E m \in S : \A x \in S : m <= x
<1>1. PICK m \in S : \A x \in S : ~ (<<x, m>> \in Before(Nat))
  BY BeforeIsWellFounded, WFMin
<1>2. ASSUME NEW x \in S PROVE m <= x
  <2>1. x \in Nat /\ m \in Nat /\ (x < m => <<x, m>> \in Before(Nat))
    BY <1>2 DEF Before
  <2> QED BY <2>1, <1>1
<1> QED BY <1>2

\* Min is the least member.
LEMMA MinIsLeast ==
    ASSUME NEW S \in SUBSET Nat, S # {}
    PROVE  Min(S) \in S /\ \A x \in S : Min(S) <= x
BY HasLeast DEF Min

\* Max is the greatest member of a set of naturals that has a bound.
LEMMA MaxIsGreatest ==
    ASSUME NEW n \in Nat, NEW S \in SUBSET (0 .. n), S # {}
    PROVE  Max(S) \in S /\ \A x \in S : x <= Max(S)
<1> DEFINE T == {k \in 0 .. n : n - k \in S}
<1>1. PICK x \in S : TRUE
  OBVIOUS
<1>2. x \in 0 .. n /\ n - (n - x) = x /\ n - x \in 0 .. n
  OBVIOUS
<1>3. T \in SUBSET Nat /\ T # {}
  BY <1>1, <1>2
<1>4. PICK m \in T : \A y \in T : m <= y
  BY <1>3, HasLeast
<1>5. n - m \in S
  BY <1>4
<1>6. ASSUME NEW y \in S PROVE n - m >= y
  <2>1. y \in 0 .. n /\ n - (n - y) = y /\ n - y \in 0 .. n
    OBVIOUS
  <2>2. n - y \in T
    BY <2>1, <1>6
  <2>3. m <= n - y /\ m \in 0 .. n
    BY <2>2, <1>4
  <2> QED BY <2>1, <2>3
<1> HIDE DEF T
<1> QED BY <1>5, <1>6 DEF Max

\* A cursor that is moved on covers what it did and the changes, and no more.
LEMMA UptoMovesOn ==
    ASSUME NEW n \in Nat, NEW cur \in 0 .. n, NEW data, Range(data) \subseteq 1 .. n
    PROVE  /\ Upto(cur, data) \in 0 .. n /\ cur <= Upto(cur, data)
           /\ \A v \in Range(data) : v <= Upto(cur, data)
           /\ Upto(cur, data) = cur \/ Upto(cur, data) \in Range(data)
<1> DEFINE S == {cur} \cup Range(data)
<1>1. S \in SUBSET (0 .. n) /\ S # {}
  OBVIOUS
<1>2. Max(S) \in S /\ \A x \in S : x <= Max(S)
  BY <1>1, MaxIsGreatest
<1> QED BY <1>1, <1>2 DEF Upto

---------------------------------------------------------------------------
(* The batches that publishPending splits off.                             *)

\* Sorting keeps the changes, and puts before each all that are smaller.
LEMMA SortedIsInOrder ==
    ASSUME NEW data \in Seq(Versions)
    PROVE  /\ Sorted(data) \in Seq(Range(data)) /\ Len(Sorted(data)) = Len(data)
           /\ \A v \in Range(data) : \E i \in 1 .. Len(data) : Sorted(data)[i] = v
           /\ \A i \in 1 .. Len(data) : \A u \in Range(data) :
                u < Sorted(data)[i] => \E j \in 1 .. i : Sorted(data)[j] = u
<1> DEFINE D == DOMAIN data
           n == Len(data)
           UpTo(v) == {j \in D : data[j] <= v}
           Fit(i) == {v \in Range(data) : Cardinality(UpTo(v)) >= i}
<1>1. n \in Nat /\ D = 1 .. n /\ Range(data) \subseteq Versions /\ Versions \subseteq Nat
      /\ \A j \in D : data[j] \in Range(data)
  BY LenProperties, ElementOfSeq DEF Range, Versions
<1>2. ASSUME NEW v \in Nat
      PROVE  /\ IsFiniteSet(UpTo(v)) /\ Cardinality(UpTo(v)) \in 0 .. n
  <2>1. IsFiniteSet(D) /\ Cardinality(D) = n
    BY <1>1, FS_Interval
  <2> QED BY <2>1, FS_Subset, FS_CardinalityType, <1>1
<1>a. ASSUME NEW v \in Nat, NEW j \in D PROVE j \in UpTo(v) <=> data[j] <= v
  OBVIOUS
<1>b. ASSUME NEW v \in Nat PROVE UpTo(v) \subseteq D
  OBVIOUS
<1>c. ASSUME NEW v, NEW i \in Nat
      PROVE  v \in Fit(i) <=> v \in Range(data) /\ Cardinality(UpTo(v)) >= i
  OBVIOUS
<1>d. ASSUME NEW i \in 1 .. n PROVE Sorted(data)[i] = Min(Fit(i))
  BY <1>1 DEF Sorted
<1> HIDE DEF UpTo, Fit
<1>e. ASSUME NEW v \in Range(data) PROVE v \in Nat
  BY <1>1
<1>f. ASSUME NEW i \in 1 .. n, NEW v \in Fit(i)
      PROVE  v \in Nat /\ v \in Range(data) /\ Cardinality(UpTo(v)) >= i
  <2>1. i \in Nat
    BY <1>1
  <2>2. v \in Range(data) /\ Cardinality(UpTo(v)) >= i
    BY <2>1, <1>c, <1>f
  <2> QED BY <2>2, <1>e
<1>3. ASSUME NEW i \in 1 .. n PROVE Fit(i) # {}
  <2>1. Range(data) \in SUBSET (0 .. MaxWrites) /\ Range(data) # {}
    BY <1>1 DEF Versions
  <2>2. PICK m \in Range(data) : \A x \in Range(data) : x <= m
    BY <2>1, MaxIsGreatest
  <2>3. UpTo(m) = D
    BY <1>1, <1>a, <1>b, <2>2
  <2>4. Cardinality(UpTo(m)) = n
    BY <2>3, <1>1, FS_Interval
  <2> QED BY <2>4, <2>2, <1>c, <1>1
<1>4. ASSUME NEW i \in 1 .. n
      PROVE  /\ Sorted(data)[i] \in Fit(i) /\ \A x \in Fit(i) : Sorted(data)[i] <= x
  <2>1. Fit(i) \in SUBSET Nat
    BY <1>f
  <2> QED BY <2>1, <1>d, <1>3, MinIsLeast
<1>5. Sorted(data) \in [1 .. n -> Range(data)]
  <2>1. DOMAIN Sorted(data) = 1 .. n /\ Sorted(data) = [i \in DOMAIN Sorted(data) |-> Sorted(data)[i]]
    BY <1>1 DEF Sorted
  <2>2. \A i \in 1 .. n : Sorted(data)[i] \in Range(data)
    BY <1>4, <1>f
  <2> QED BY <2>1, <2>2
<1>6. Sorted(data) \in Seq(Range(data)) /\ Len(Sorted(data)) = n
  BY <1>1, <1>5, SeqDef, LenProperties
\* The number of changes up to one of them is a place that holds it.
<1>7. ASSUME NEW u \in Range(data)
      PROVE  Cardinality(UpTo(u)) \in 1 .. n /\ Sorted(data)[Cardinality(UpTo(u))] = u
  <2> DEFINE k == Cardinality(UpTo(u))
  <2>1. PICK j \in D : data[j] = u
    BY DEF Range
  <2>2. u \in Nat /\ IsFiniteSet(UpTo(u)) /\ k \in 0 .. n /\ j \in UpTo(u)
    <3>1. u \in Nat
      BY <1>e
    <3>2. IsFiniteSet(UpTo(u)) /\ k \in 0 .. n
      BY <1>2, <3>1
    <3>3. j \in UpTo(u)
      BY <1>a, <2>1, <3>1
    <3> QED BY <3>1, <3>2, <3>3
  <2>3. k \in 1 .. n
    BY <2>2, FS_EmptySet, <1>1
  <2>4. ASSUME NEW x \in Fit(k), x < u PROVE FALSE
    <3>0. x \in Nat /\ u \in Nat
      BY <1>f, <2>2, <2>3, <2>4
    <3>1. UpTo(x) \subseteq UpTo(u) \ {j}
      <4>1. ASSUME NEW y \in UpTo(x) PROVE y \in UpTo(u) /\ y # j
        <5>1. y \in D /\ data[y] \in Nat /\ data[y] <= x
          BY <1>a, <1>b, <1>1, <3>0, <4>1
        <5>2. data[y] <= u /\ data[y] # u
          BY <5>1, <3>0, <2>4
        <5> QED BY <5>1, <5>2, <1>a, <2>1, <3>0
      <4> QED BY <4>1
    <3>2. Cardinality(UpTo(u) \ {j}) = k - 1 /\ IsFiniteSet(UpTo(u) \ {j})
      BY <2>2, FS_RemoveElement
    <3>3. Cardinality(UpTo(x)) <= k - 1
      BY <3>1, <3>2, FS_Subset
    <3>4. Cardinality(UpTo(x)) \in Nat /\ Cardinality(UpTo(x)) >= k
      BY <1>2, <1>c, <3>0, <2>3, <2>4
    <3> QED BY <3>3, <3>4, <2>3
  <2>5. u \in Fit(k)
    BY <2>2, <1>c
  <2>6. Sorted(data)[k] \in Fit(k) /\ Sorted(data)[k] <= u /\ Sorted(data)[k] \in Nat
    BY <2>3, <2>5, <1>4, <1>f
  <2>7. ~ (Sorted(data)[k] < u)
    BY <2>6, <2>4
  <2> QED BY <2>2, <2>3, <2>6, <2>7
<1>8. ASSUME NEW i \in 1 .. n, NEW u \in Range(data), u < Sorted(data)[i]
      PROVE  \E j \in 1 .. i : Sorted(data)[j] = u
  <2>1. u \in Nat /\ Sorted(data)[i] \in Nat
    BY <1>e, <1>f, <1>4
  <2>2. u \notin Fit(i)
    BY <1>4, <1>8, <2>1
  <2>3. Cardinality(UpTo(u)) \in 1 .. n /\ ~ (Cardinality(UpTo(u)) >= i)
    BY <1>7, <2>2, <1>c, <1>1
  <2>4. Cardinality(UpTo(u)) \in 1 .. i
    BY <2>3, <1>1
  <2> QED BY <2>4, <1>7
<1>9. \A v \in Range(data) : \E i \in 1 .. n : Sorted(data)[i] = v
  BY <1>7
<1> QED BY <1>6, <1>8, <1>9

\* Multiples grow with what they are of.
LEMMA Multiples ==
    ASSUME NEW a \in Nat, NEW b \in Nat, NEW k \in Nat, a <= b
    PROVE  a * k \in Nat /\ b * k \in Nat /\ a * k <= b * k /\ (a + 1) * k = a * k + k
OBVIOUS

\* The batch a number lies in.
LEMMA Division ==
    ASSUME NEW p \in Nat, NEW k \in Nat \ {0}
    PROVE  p \div k \in Nat /\ (p \div k) * k <= p /\ p < (p \div k) * k + k
OBVIOUS

\* Where batch i begins and ends.
LEMMA BatchBounds ==
    ASSUME NEW n \in Nat \ {0}
    PROVE  LET K == (n + EventSize - 1) \div EventSize
           IN /\ K \in Nat \ {0} /\ (K - 1) * EventSize \in 0 .. n - 1
              /\ \A i \in 1 .. K :
                  /\ (i - 1) * EventSize \in 0 .. n - 1
                  /\ Min({i * EventSize, n}) \in (i - 1) * EventSize + 1 .. n
                  /\ i < K => Min({i * EventSize, n}) = (i - 1) * EventSize + EventSize
              /\ Min({K * EventSize, n}) = n
              /\ \A p \in 1 .. n : \E i \in 1 .. K :
                    p \in (i - 1) * EventSize + 1 .. Min({i * EventSize, n})
<1> DEFINE K == (n + EventSize - 1) \div EventSize
           Lo(i) == (i - 1) * EventSize
           Hi(i) == Min({i * EventSize, n})
<1>1. EventSize \in Nat \ {0}
  BY DEF NostrConstants
<1>2. K \in Nat /\ K * EventSize <= n + EventSize - 1 /\ n + EventSize - 1 < K * EventSize + EventSize
  BY <1>1, Division
<1>3. K # 0
  BY <1>1, <1>2
<1>4. ASSUME NEW i \in 1 .. K
      PROVE  /\ Lo(i) \in Nat /\ i * EventSize = Lo(i) + EventSize /\ Lo(i) <= Lo(K)
             /\ (i < K => i * EventSize <= Lo(K))
  <2>1. i - 1 \in Nat /\ K - 1 \in Nat /\ i - 1 <= K - 1
    BY <1>2
  <2>2. Lo(i) \in Nat /\ Lo(i) <= Lo(K) /\ (i - 1 + 1) * EventSize = Lo(i) + EventSize
    BY <2>1, <1>1, Multiples
  <2>3. CASE i < K
    <3>1. i \in Nat /\ i <= K - 1
      BY <2>3, <1>2
    <3> QED BY <3>1, <2>1, <2>2, <1>1, Multiples
  <2>4. CASE ~ (i < K)
    BY <2>4, <2>2
  <2> QED BY <2>3, <2>4
<1>5. K \in 1 .. K
  BY <1>2, <1>3
<1>6. K * EventSize = Lo(K) + EventSize /\ Lo(K) \in Nat
  BY <1>4, <1>5
<1>7. Lo(K) \in 0 .. n - 1 /\ n <= K * EventSize
  BY <1>1, <1>2, <1>6
<1>8. ASSUME NEW a \in Nat, NEW b \in Nat
      PROVE  Min({a, b}) = IF a <= b THEN a ELSE b
  BY DEF Min
<1>9. ASSUME NEW i \in 1 .. K
      PROVE  Lo(i) \in 0 .. n - 1 /\ Hi(i) \in Lo(i) + 1 .. n /\ (i < K => Hi(i) = Lo(i) + EventSize)
  <2>1. Hi(i) = IF i * EventSize <= n THEN i * EventSize ELSE n
    BY <1>4, <1>8, <1>1
  <2>2. Lo(i) \in 0 .. n - 1 /\ (i < K => i * EventSize <= n)
    BY <1>4, <1>7
  <2> QED BY <2>1, <2>2, <1>4, <1>1
<1>10. Hi(K) = n
  BY <1>7, <1>8, <1>6, <1>1
<1>11. ASSUME NEW p \in 1 .. n
       PROVE  \E i \in 1 .. K : p \in Lo(i) + 1 .. Hi(i)
  <2> DEFINE q == (p - 1) \div EventSize
  <2>1. q \in Nat /\ q * EventSize <= p - 1 /\ p - 1 < q * EventSize + EventSize
    BY <1>1, Division
  <2>2. q < K
    <3>1. SUFFICES ASSUME K <= q PROVE FALSE
      BY <1>2, <2>1
    <3>2. K * EventSize <= q * EventSize
      BY <3>1, <1>1, <1>2, <2>1, Multiples
    <3> QED BY <3>2, <2>1, <1>7
  <2>3. q + 1 \in 1 .. K /\ (q + 1) - 1 = q
    BY <2>1, <2>2, <1>2
  <2>4. (q + 1) * EventSize = q * EventSize + EventSize
    BY <2>1, <1>1, Multiples
  <2>5. Hi(q + 1) = IF (q + 1) * EventSize <= n THEN (q + 1) * EventSize ELSE n
    BY <1>8, <2>4, <2>1, <1>1
  <2>6. Lo(q + 1) = q * EventSize
    BY <2>3
  <2>7. p \in Lo(q + 1) + 1 .. Hi(q + 1)
    BY <2>1, <2>4, <2>5, <2>6, <1>1
  <2> QED BY <2>3, <2>7
<1> QED BY <1>2, <1>3, <1>7, <1>9, <1>10, <1>11

\* The batches hold the changes in their order; all but the last are full.
LEMMA SplitKeepsOrder ==
    ASSUME NEW data \in Seq(Versions), data # <<>>
    PROVE  LET b == Split(data)
           IN /\ b \in Seq(Seq(Versions)) /\ Len(b) \in Nat \ {0}
              /\ \A i \in 1 .. Len(b) - 1 : Len(b[i]) = EventSize
              /\ (Len(b) - 1) * EventSize + Len(b[Len(b)]) = Len(data)
              /\ \A i \in 1 .. Len(b) : Range(b[i]) \subseteq Range(data)
              /\ \A v \in Range(data) : \E i \in 1 .. Len(b) : v \in Range(b[i])
              /\ \A i \in 1 .. Len(b) : \A v \in Range(b[i]) : \A u \in Range(data) :
                    u < v => \E j \in 1 .. i : u \in Range(b[j])
<1> DEFINE n == Len(data)
           K == (n + EventSize - 1) \div EventSize
           S == Sorted(data)
           lo(i) == (i - 1) * EventSize
           hi(i) == Min({i * EventSize, n})
           b == Split(data)
<1>1. n \in Nat \ {0} /\ Range(data) \subseteq Versions /\ Versions \subseteq Nat
  BY EmptySeq, LenProperties DEF Range, Versions
<1>2. /\ K \in Nat \ {0} /\ lo(K) \in 0 .. n - 1 /\ hi(K) = n
      /\ \A i \in 1 .. K : /\ lo(i) \in 0 .. n - 1 /\ hi(i) \in lo(i) + 1 .. n
                           /\ i < K => hi(i) = lo(i) + EventSize
      /\ \A p \in 1 .. n : \E i \in 1 .. K : p \in lo(i) + 1 .. hi(i)
  BY <1>1, BatchBounds
<1>3. b = [i \in 1 .. K |-> SubSeq(S, lo(i) + 1, hi(i))]
  BY DEF Split
<1>4. /\ S \in Seq(Range(data)) /\ Len(S) = n
      /\ \A v \in Range(data) : \E i \in 1 .. n : S[i] = v
      /\ \A i \in 1 .. n : \A u \in Range(data) : u < S[i] => \E j \in 1 .. i : S[j] = u
  BY SortedIsInOrder
<1>5. \A i \in 1 .. n : S[i] \in Range(data)
  BY <1>4, ElementOfSeq
<1> HIDE DEF b, S, hi, lo, K
<1>a. ASSUME NEW i \in 1 .. K
      PROVE  /\ lo(i) \in 0 .. n - 1 /\ hi(i) \in lo(i) + 1 .. n
             /\ i < K => hi(i) = lo(i) + EventSize
  BY <1>2
<1>b. ASSUME NEW i \in 1 .. K
      PROVE  lo(i) \in Nat /\ hi(i) \in Nat /\ hi(i) \in lo(i) + 1 .. n
  BY <1>1, <1>a
<1>6. ASSUME NEW i \in 1 .. K
      PROVE  /\ b[i] \in Seq(Range(data)) /\ Len(b[i]) = hi(i) - lo(i)
             /\ \A k \in 1 .. hi(i) - lo(i) : b[i][k] = S[lo(i) + k]
  <2>1. lo(i) \in Nat /\ hi(i) \in lo(i) + 1 .. n
    BY <1>b
  <2>2. \A k \in lo(i) + 1 .. hi(i) : S[k] \in Range(data)
    BY <2>1, <1>5
  <2>3. /\ SubSeq(S, lo(i) + 1, hi(i)) \in Seq(Range(data))
        /\ Len(SubSeq(S, lo(i) + 1, hi(i))) = hi(i) - (lo(i) + 1) + 1
        /\ \A k \in 1 .. hi(i) - (lo(i) + 1) + 1 :
             SubSeq(S, lo(i) + 1, hi(i))[k] = S[lo(i) + 1 + k - 1]
    BY <2>1, <2>2, SubSeqProperties
  <2>4. b[i] = SubSeq(S, lo(i) + 1, hi(i))
    BY <1>3
  <2>5. \A k \in 1 .. hi(i) - lo(i) : lo(i) + 1 + k - 1 = lo(i) + k
    BY <2>1
  <2>6. hi(i) - (lo(i) + 1) + 1 = hi(i) - lo(i)
    BY <2>1
  <2> QED BY <2>3, <2>4, <2>5, <2>6
<1>7. ASSUME NEW i \in 1 .. K, NEW v \in Range(b[i])
      PROVE  \E p \in lo(i) + 1 .. hi(i) : S[p] = v
  <2>1. DOMAIN b[i] = 1 .. hi(i) - lo(i)
    BY <1>6, LenProperties
  <2>2. PICK k \in 1 .. hi(i) - lo(i) : b[i][k] = v
    BY <2>1 DEF Range
  <2>3. lo(i) \in Nat /\ hi(i) \in Nat
    BY <1>2
  <2>4. lo(i) + k \in lo(i) + 1 .. hi(i)
    BY <2>3
  <2> QED BY <2>2, <2>4, <1>6
<1>8. ASSUME NEW i \in 1 .. K, NEW p \in lo(i) + 1 .. hi(i)
      PROVE  S[p] \in Range(b[i])
  <2>1. lo(i) \in Nat /\ hi(i) \in Nat
    BY <1>2
  <2>2. p - lo(i) \in 1 .. hi(i) - lo(i) /\ lo(i) + (p - lo(i)) = p
    BY <2>1
  <2>3. DOMAIN b[i] = 1 .. hi(i) - lo(i) /\ b[i][p - lo(i)] = S[p]
    BY <1>6, <2>2, LenProperties
  <2> QED BY <2>2, <2>3 DEF Range
<1>9. b \in [1 .. K -> Seq(Versions)]
  <2>1. ASSUME NEW i \in 1 .. K PROVE b[i] \in Seq(Versions)
    BY <1>6, <1>1, SeqMonotonic
  <2>2. b = [i \in 1 .. K |-> b[i]]
    BY <1>3
  <2> QED BY <2>1, <2>2
<1>10. b \in Seq(Seq(Versions)) /\ Len(b) = K
  <2>1. K \in Nat
    BY <1>2
  <2>2. b \in Seq(Seq(Versions))
    BY <2>1, <1>9, SeqDef
  <2>3. DOMAIN b = 1 .. K /\ DOMAIN b = 1 .. Len(b) /\ Len(b) \in Nat
    BY <1>9, <2>2, LenProperties
  <2> QED BY <2>1, <2>2, <2>3
<1>11. ASSUME NEW i \in 1 .. K - 1 PROVE Len(b[i]) = EventSize
  <2>1. i \in 1 .. K /\ i < K /\ EventSize \in Nat
    BY <1>2 DEF NostrConstants
  <2>2. Len(b[i]) = hi(i) - lo(i) /\ hi(i) = lo(i) + EventSize /\ lo(i) \in Nat
    BY <2>1, <1>6, <1>a, <1>b
  <2> QED BY <2>1, <2>2
<1>12. (K - 1) * EventSize + Len(b[K]) = n
  <2>1. K \in 1 .. K
    BY <1>2
  <2>2. Len(b[K]) = n - lo(K) /\ lo(K) \in Nat
    BY <2>1, <1>6, <1>2
  <2>3. (K - 1) * EventSize = lo(K)
    BY DEF lo
  <2> QED BY <2>2, <2>3, <1>1
<1>13. ASSUME NEW i \in 1 .. K PROVE Range(b[i]) \subseteq Range(data)
  <2>1. ASSUME NEW v \in Range(b[i]) PROVE v \in Range(data)
    <3>1. PICK p \in lo(i) + 1 .. hi(i) : S[p] = v
      BY <1>7, <2>1
    <3>2. p \in 1 .. n
      <4>1. PICK x \in Nat, y \in Nat : x = lo(i) /\ y = hi(i) /\ y <= n
        BY <1>2
      <4>2. p \in x + 1 .. y
        BY <4>1
      <4> QED BY <1>1, <4>1, <4>2
    <3> QED BY <3>1, <3>2, <1>5
  <2> QED BY <2>1
<1>14. ASSUME NEW v \in Range(data) PROVE \E i \in 1 .. K : v \in Range(b[i])
  <2>1. PICK p \in 1 .. n : S[p] = v
    BY <1>4
  <2>2. PICK i \in 1 .. K : p \in lo(i) + 1 .. hi(i)
    BY <1>2
  <2> QED BY <2>1, <2>2, <1>8
<1>15. ASSUME NEW i \in 1 .. K, NEW v \in Range(b[i]), NEW u \in Range(data), u < v
       PROVE  \E j \in 1 .. i : u \in Range(b[j])
  <2>1. PICK p \in lo(i) + 1 .. hi(i) : S[p] = v
    BY <1>7
  <2>2. p \in 1 .. n
    <3>1. PICK x \in Nat, y \in Nat : x = lo(i) /\ y = hi(i) /\ y <= n
      BY <1>2
    <3>2. p \in x + 1 .. y
      BY <3>1
    <3> QED BY <1>1, <3>1, <3>2
  <2>3. PICK q \in 1 .. p : S[q] = u
    BY <2>1, <2>2, <1>4, <1>15
  <2>4. q \in 1 .. n
    BY <2>2, <1>1
  <2>5. PICK j \in 1 .. K : q \in lo(j) + 1 .. hi(j)
    BY <2>4, <1>2
  <2>6. CASE j <= i
    BY <2>6, <2>3, <2>5, <1>8
  <2>7. CASE i < j
    <3>1. i \in Nat /\ j - 1 \in Nat /\ i <= j - 1 /\ EventSize \in Nat
      BY <2>7, <1>2 DEF NostrConstants
    <3>2. i * EventSize <= lo(j)
      BY <3>1, Multiples DEF lo
    <3>3. i < K
      BY <2>7, <1>2
    <3>4. hi(i) = lo(i) + EventSize /\ lo(i) \in Nat /\ lo(j) \in Nat /\ q \in Nat /\ p \in Nat
      BY <3>3, <1>1, <1>a, <1>b, <2>2, <2>4
    <3>5. lo(i) + EventSize = i * EventSize
      <4>1. i - 1 \in Nat /\ (i - 1) + 1 = i
        BY <1>2
      <4>2. ((i - 1) + 1) * EventSize = (i - 1) * EventSize + EventSize
        BY <4>1, <3>1, Multiples
      <4> QED BY <4>1, <4>2 DEF lo
    <3>6. p <= hi(i) /\ lo(j) + 1 <= q /\ q <= p
      BY <2>1, <2>5, <2>3
    <3>7. i * EventSize \in Nat
      BY <3>1
    <3> QED BY <3>2, <3>4, <3>5, <3>6, <3>7
  <2> QED BY <2>6, <2>7
<1>16. Len(b) \in Nat \ {0} /\ b = Split(data)
  BY <1>2, <1>10 DEF b
<1> QED BY <1>10, <1>11, <1>12, <1>13, <1>14, <1>15, <1>16

---------------------------------------------------------------------------
(* Sequences and what is on its way.                                       *)

\* What a sequence holds after it was lengthened or its head taken.
LEMMA RangeConcat ==
    ASSUME NEW S, NEW s \in Seq(S), NEW t \in Seq(S)
    PROVE  Range(s \o t) = Range(s) \cup Range(t)
<1>1. /\ s \o t \in Seq(S) /\ Len(s \o t) = Len(s) + Len(t)
      /\ \A i \in 1 .. Len(s) + Len(t) : (s \o t)[i] = IF i <= Len(s) THEN s[i] ELSE t[i - Len(s)]
  BY ConcatProperties
<1>2. /\ Len(s) \in Nat /\ DOMAIN s = 1 .. Len(s) /\ Len(t) \in Nat /\ DOMAIN t = 1 .. Len(t)
      /\ DOMAIN (s \o t) = 1 .. Len(s) + Len(t)
  BY <1>1, LenProperties
<1>3. ASSUME NEW x \in Range(s \o t) PROVE x \in Range(s) \cup Range(t)
  <2>1. PICK i \in 1 .. Len(s) + Len(t) : (s \o t)[i] = x
    BY <1>2 DEF Range
  <2>2. CASE i <= Len(s)
    BY <2>1, <2>2, <1>1, <1>2 DEF Range
  <2>3. CASE ~ (i <= Len(s))
    <3>1. i - Len(s) \in DOMAIN t /\ t[i - Len(s)] = x
      BY <2>1, <2>3, <1>1, <1>2
    <3> QED BY <3>1 DEF Range
  <2> QED BY <2>2, <2>3
<1>4. ASSUME NEW x \in Range(s) PROVE x \in Range(s \o t)
  <2>1. PICK i \in 1 .. Len(s) : s[i] = x
    BY <1>2 DEF Range
  <2>2. i \in DOMAIN (s \o t) /\ (s \o t)[i] = x
    BY <2>1, <1>1, <1>2
  <2> QED BY <2>2 DEF Range
<1>5. ASSUME NEW x \in Range(t) PROVE x \in Range(s \o t)
  <2>1. PICK i \in 1 .. Len(t) : t[i] = x
    BY <1>2 DEF Range
  <2>2. Len(s) + i \in 1 .. Len(s) + Len(t) /\ ~ (Len(s) + i <= Len(s)) /\ Len(s) + i - Len(s) = i
    BY <1>2
  <2>3. (s \o t)[Len(s) + i] = x
    BY <2>1, <2>2, <1>1
  <2> QED BY <2>2, <2>3, <1>2 DEF Range
<1> QED BY <1>3, <1>4, <1>5

\* A sequence is its head and its tail.
LEMMA RangeHeadTail ==
    ASSUME NEW S, NEW s \in Seq(S), s # <<>>
    PROVE  /\ Range(s) = {s[1]} \cup Range(Tail(s)) /\ Head(s) = s[1] /\ s[1] \in S
           /\ Tail(s) \in Seq(S) /\ Len(Tail(s)) = Len(s) - 1 /\ Len(s) \in Nat \ {0}
           /\ \A i \in 1 .. Len(Tail(s)) : Tail(s)[i] = s[i + 1]
<1>1. /\ Head(s) = s[1] /\ Head(s) \in S /\ Tail(s) \in Seq(S) /\ Len(Tail(s)) = Len(s) - 1
      /\ \A i \in 1 .. Len(Tail(s)) : Tail(s)[i] = s[i + 1]
  BY HeadTailProperties
<1>2. Len(s) \in Nat \ {0} /\ DOMAIN s = 1 .. Len(s) /\ DOMAIN Tail(s) = 1 .. Len(s) - 1
  BY <1>1, EmptySeq, LenProperties
<1>3. ASSUME NEW x \in Range(s), x # s[1] PROVE x \in Range(Tail(s))
  <2>1. PICK i \in 1 .. Len(s) : s[i] = x
    BY <1>2 DEF Range
  <2>2. i - 1 \in 1 .. Len(s) - 1 /\ (i - 1) + 1 = i
    BY <2>1, <1>2, <1>3
  <2>3. Tail(s)[i - 1] = x
    BY <2>1, <2>2, <1>1
  <2> QED BY <2>2, <2>3, <1>2 DEF Range
<1>4. ASSUME NEW x \in Range(Tail(s)) PROVE x \in Range(s)
  <2>1. PICK i \in 1 .. Len(s) - 1 : Tail(s)[i] = x
    BY <1>2 DEF Range
  <2>2. i + 1 \in 1 .. Len(s) /\ s[i + 1] = x
    BY <2>1, <1>1, <1>2
  <2> QED BY <2>2, <1>2 DEF Range
<1>5. s[1] \in Range(s)
  BY <1>2 DEF Range
<1> QED BY <1>1, <1>2, <1>3, <1>4, <1>5

\* A sequence holds elements of its set, none when it is empty.
LEMMA RangeIsWithin ==
    ASSUME NEW S, NEW s \in Seq(S)
    PROVE  Range(s) \subseteq S /\ (s = <<>> <=> Range(s) = {}) /\ Len(s) \in Nat
           /\ DOMAIN s = 1 .. Len(s) /\ (s = <<>> <=> Len(s) = 0)
           /\ \A i \in 1 .. Len(s) : s[i] \in S /\ s[i] \in Range(s)
<1>1. Len(s) \in Nat /\ DOMAIN s = 1 .. Len(s) /\ \A i \in 1 .. Len(s) : s[i] \in S
  BY LenProperties, ElementOfSeq
<1>2. s = <<>> => Len(s) = 0
  BY EmptySeq
<1>3. s # <<>> => Len(s) # 0
  BY EmptySeq
<1>4. \A i \in 1 .. Len(s) : s[i] \in Range(s)
  BY <1>1 DEF Range
<1>5. Range(s) \subseteq S
  BY <1>1 DEF Range
<1>6. Len(s) = 0 => Range(s) = {}
  BY <1>1 DEF Range
<1>7. Len(s) # 0 => Range(s) # {}
  <2>1. Len(s) # 0 => 1 \in 1 .. Len(s)
    BY <1>1
  <2> QED BY <2>1, <1>4
<1> QED BY <1>1, <1>2, <1>3, <1>4, <1>5, <1>6, <1>7

\* A sequence with one element put at its end.
LEMMA RangeAppend ==
    ASSUME NEW S, NEW s \in Seq(S), NEW x \in S
    PROVE  /\ Append(s, x) \in Seq(S) /\ Len(Append(s, x)) = Len(s) + 1
           /\ Range(Append(s, x)) = Range(s) \cup {x}
           /\ \A i \in 1 .. Len(s) : Append(s, x)[i] = s[i]
           /\ Append(s, x)[Len(s) + 1] = x
<1>1. /\ Append(s, x) \in Seq(S) /\ Len(Append(s, x)) = Len(s) + 1
      /\ \A i \in 1 .. Len(s) : Append(s, x)[i] = s[i]
      /\ Append(s, x)[Len(s) + 1] = x
  BY AppendProperties
<1>2. Len(s) \in Nat /\ DOMAIN s = 1 .. Len(s) /\ DOMAIN Append(s, x) = 1 .. Len(s) + 1
  BY <1>1, LenProperties
<1>3. \A i \in 1 .. Len(s) + 1 : i \in 1 .. Len(s) \/ i = Len(s) + 1
  BY <1>2
<1>4. \A y \in Range(Append(s, x)) : y \in Range(s) \cup {x}
  BY <1>1, <1>2, <1>3 DEF Range
<1>5. \A y \in Range(s) : y \in Range(Append(s, x))
  <2>1. \A i \in 1 .. Len(s) : i \in 1 .. Len(s) + 1
    BY <1>2
  <2> QED BY <2>1, <1>1, <1>2 DEF Range
<1>6. x \in Range(Append(s, x))
  <2>1. Len(s) + 1 \in 1 .. Len(s) + 1
    BY <1>2
  <2> QED BY <2>1, <1>1, <1>2 DEF Range
<1> QED BY <1>1, <1>4, <1>5, <1>6

\* The change is in flight when it is queued or in a batch.
LEMMA InFlightMeans ==
    ASSUME NostrTypeOK, NEW v
    PROVE  v \in InFlight <=>
             v \in Range(queue) \/ \E i \in 1 .. Len(batches) : v \in Range(batches[i])
<1>1. batches \in Seq(Seq(Versions))
  BY DEF NostrTypeOK, SenderTypeOK
<1>2. DOMAIN batches = 1 .. Len(batches)
  BY <1>1, LenProperties
<1> QED BY <1>2 DEF InFlight, Range

\* What is in flight was written.
LEMMA InFlightIsWithin ==
    ASSUME NostrTypeOK
    PROVE  InFlight \subseteq Versions /\ Versions \subseteq Nat
<1>1. ASSUME NEW v \in InFlight PROVE v \in Versions
  <2>1. queue \in Seq(Versions) /\ batches \in Seq(Seq(Versions))
    BY DEF NostrTypeOK, SenderTypeOK
  <2>2. CASE v \in Range(queue)
    BY <2>1, <2>2, RangeIsWithin
  <2>3. CASE v \notin Range(queue)
    <3>1. PICK i \in 1 .. Len(batches) : v \in Range(batches[i])
      BY <1>1, <2>3, InFlightMeans
    <3>2. batches[i] \in Seq(Versions)
      BY <2>1, RangeIsWithin
    <3> QED BY <3>1, <3>2, RangeIsWithin
  <2> QED BY <2>2, <2>3
<1> QED BY <1>1 DEF Versions

\* The parts of what waits are counts.
LEMMA WaitingIsCounted ==
    ASSUME NostrTypeOK
    PROVE  Len(queue) \in Nat /\ Len(signed.data) \in Nat /\ InBatches \in Nat
           /\ signed.data \in Seq(Versions)
<1>1. queue \in Seq(Versions) /\ batches \in Seq(Seq(Versions)) /\ EventSize \in Nat
  BY DEF NostrTypeOK, SenderTypeOK, NostrConstants
<1>2. signed.data \in Seq(Versions)
  <2>1. CASE signed = NoEvent
    BY <2>1, EmptySeq DEF NoEvent
  <2>2. CASE signed # NoEvent
    BY <2>2 DEF NostrTypeOK, EventTypeOK, AnyEvent, InHand, Events
  <2> QED BY <2>1, <2>2
<1>3. CASE batches = <<>>
  BY <1>1, <1>2, <1>3, LenProperties DEF InBatches
<1>4. CASE batches # <<>>
  <2>1. Len(batches) \in Nat \ {0}
    BY <1>1, <1>4, RangeIsWithin
  <2>2. Len(batches) \in 1 .. Len(batches)
    BY <2>1
  <2>3. Len(batches[Len(batches)]) \in Nat
    BY <1>1, <2>2, RangeIsWithin
  <2>4. (Len(batches) - 1) * EventSize \in Nat
    <3>1. Len(batches) - 1 \in Nat /\ Len(batches) - 1 <= Len(batches) - 1
      BY <2>1
    <3> QED BY <1>1, <3>1, Multiples
  <2>5. InBatches = (Len(batches) - 1) * EventSize + Len(batches[Len(batches)])
    BY <1>4 DEF InBatches
  <2>6. InBatches \in Nat
    <3>1. ASSUME NEW a \in Nat, NEW b \in Nat PROVE a + b \in Nat
      OBVIOUS
    <3> QED BY <2>3, <2>4, <2>5, <3>1
  <2> QED BY <1>1, <1>2, <2>6, LenProperties
<1> QED BY <1>3, <1>4

\* What PeerSend.send takes: nothing of another stream than its own.
Takes(data) == IF peer.stream = send.stream THEN data ELSE <<>>

\* It goes to the end of what is pending, and is counted.
LEMMA ScheduledEffect ==
    ASSUME NostrTypeOK, NEW data \in Seq(Versions), Scheduled(data)
    PROVE  /\ queue' \in Seq(Versions) /\ Len(queue') = Len(queue) + Len(Takes(data))
           /\ Range(queue') = Range(queue) \cup Range(Takes(data))
           /\ Takes(data) \in Seq(Versions) /\ Len(Takes(data)) \in Nat
           /\ count' = count + Len(Takes(data)) /\ count' \in Nat
           /\ blocked' \in BOOLEAN /\ (blocked' => blocked \/ count' >= MaxSend)
           /\ queue' = queue \o Takes(data)
<1>1. queue \in Seq(Versions) /\ count \in Nat /\ blocked \in BOOLEAN
  BY DEF NostrTypeOK, SenderTypeOK
<1>2. Takes(data) \in Seq(Versions) /\ Len(Takes(data)) \in Nat
  BY EmptySeq, LenProperties DEF Takes
<1>3. queue' = queue \o Takes(data)
  BY <1>1, ConcatEmptySeq DEF Scheduled, Takes
<1>4. queue' \in Seq(Versions) /\ Len(queue') = Len(queue) + Len(Takes(data))
      /\ Range(queue') = Range(queue) \cup Range(Takes(data))
  BY <1>1, <1>2, <1>3, ConcatProperties, RangeConcat
<1>5. count' = count + Len(Takes(data)) /\ (blocked' => blocked \/ count' >= MaxSend)
      /\ blocked' \in BOOLEAN
  <2>1. Len(<<>>) = 0
    BY EmptySeq
  <2>2. CASE peer.stream = send.stream
    BY <2>2, <1>1, <1>2 DEF Scheduled, Takes
  <2>3. CASE peer.stream # send.stream
    BY <2>1, <2>3, <1>1, <1>2 DEF Scheduled, Takes
  <2> QED BY <2>2, <2>3
<1> QED BY <1>1, <1>2, <1>3, <1>4, <1>5

\* Who is told of changes has a cursor that covers them.
LEMMA ToldEffect ==
    ASSUME NostrTypeOK, NEW data \in Seq(Versions), \A v \in Range(data) : v <= written,
           NEW p \in PeerInfos, p.stream = peer.stream, p.cur = peer.cur, Told(data, p)
    PROVE  /\ send' \in Streams /\ send'.stream = send.stream /\ send'.last = send.last
           /\ send'.cur <= written /\ send.cur <= send'.cur
           /\ send'.cur = send.cur \/ (Aliased /\ send'.cur \in Range(data))
           /\ peer' \in PeerInfos /\ peer'.stream = peer.stream /\ peer'.active = p.active
           /\ peer'.pending = p.pending /\ peer'.sync = p.sync
<1>1. written \in 0 .. MaxWrites /\ send \in Streams /\ send.cur <= written /\ Range(data) \subseteq 1 .. written
  BY RangeIsWithin DEF NostrTypeOK, SenderTypeOK, ReceiverTypeOK, Versions
<1>0. MaxWrites \in Nat /\ send.cur \in 0 .. MaxWrites /\ peer.cur \in 0 .. MaxWrites
  BY <1>1 DEF Streams, NostrConstants, PeerInfos, NostrTypeOK, SenderTypeOK
<1>2. send.cur \in 0 .. written /\ written \in Nat /\ peer.cur \in 0 .. MaxWrites
      /\ Range(data) \subseteq 1 .. MaxWrites /\ MaxWrites \in Nat
  BY <1>0, <1>1
<1>3. CASE Aliased
  <2>1. send' = [send EXCEPT !.cur = Upto(send.cur, data)] /\ peer' = p
    BY <1>3 DEF Told
  <2>2. /\ Upto(send.cur, data) \in 0 .. written /\ send.cur <= Upto(send.cur, data)
        /\ Upto(send.cur, data) = send.cur \/ Upto(send.cur, data) \in Range(data)
    BY <1>1, <1>2, UptoMovesOn
  <2>3. Upto(send.cur, data) \in 0 .. MaxWrites /\ Upto(send.cur, data) <= written
    BY <1>2, <1>1, <2>2
  <2>4. /\ send' \in Streams /\ send'.stream = send.stream /\ send'.last = send.last
        /\ send'.cur = Upto(send.cur, data)
    BY <1>1, <2>1, <2>3 DEF Streams
  <2> QED BY <1>3, <2>1, <2>2, <2>3, <2>4
<1>4. CASE ~Aliased
  <2>1. send' = send /\ peer' = [p EXCEPT !.cur = Upto(peer.cur, data)]
    BY <1>4 DEF Told
  <2>2. Upto(peer.cur, data) \in 0 .. MaxWrites
    BY <1>2, UptoMovesOn
  <2>3. send.cur <= send.cur
    BY <1>2
  <2>4. /\ peer' \in PeerInfos /\ peer'.stream = p.stream /\ peer'.active = p.active
        /\ peer'.pending = p.pending /\ peer'.sync = p.sync
    BY <2>1, <2>2 DEF PeerInfos
  <2> QED BY <1>1, <2>1, <2>3, <2>4
<1> QED BY <1>3, <1>4


\* What is taken is part of what is sent.
LEMMA TakesIsWithin ==
    ASSUME NEW data
    PROVE  Range(Takes(data)) \subseteq Range(data)
<1>1. Range(<<>>) = {}
  BY DEF Range
<1> QED BY <1>1 DEF Takes

---------------------------------------------------------------------------
(* Types.                                                                  *)

ReceiverStep ==
    Start \/ Subscribe \/ OnChanges \/ Apply \/ Note \/ Reconnect \/ Lose \/ RestartReceiver

PeerStep ==
    Write \/ BroadcastSend \/ CancelSync \/ OnSync \/ SyncRead \/ SyncSend \/ SyncDrain

SendStep ==
    OnCursor \/ CallSync \/ PublishPending \/ Publish \/ Published \/ Abandon \/ RestartSender

\* The steps of the receiver, of Peer at the sender and of PeerSend are all there are.
LEMMA StepsOfTheParties ==
    ASSUME [Next]_vars
    PROVE  \/ ReceiverStep /\ UNCHANGED senderVars
           \/ PeerStep /\ UNCHANGED <<relayVars, receiverVars, stops, saved, batches, signed,
                                      cutShort, abandoned, suspect, covered>>
           \/ SendStep /\ UNCHANGED <<receiverVars, cursorEvent, lost, written, overtaken>>
           \/ UNCHANGED vars
<1>1. CASE ReceiverStep
  BY <1>1 DEF ReceiverStep, Start, Subscribe, OnChanges, Apply, Note, Reconnect, Lose, RestartReceiver
<1>2. CASE PeerStep
  BY <1>2 DEF PeerStep, Write, BroadcastSend, CancelSync, OnSync, SyncRead, SyncSend, SyncDrain,
              ghostVars
<1>3. CASE SendStep
  BY <1>3 DEF SendStep, OnCursor, CallSync, PublishPending, Publish, Published, Abandon,
              RestartSender, ghostVars, relayVars
<1>4. Next => ReceiverStep \/ PeerStep \/ SendStep
  BY DEF Next, ReceiverStep, PeerStep, SendStep
<1> QED BY <1>1, <1>2, <1>3, <1>4

\* The rows that syncPeer reads are versions that were written.
LEMMA RowsAreVersions ==
    ASSUME NostrTypeOK, SyncRead
    PROVE  /\ peer' \in PeerInfos /\ peer'.stream = peer.stream /\ peer'.active = peer.active
           /\ peer'.pending = peer.pending /\ peer'.sync.from = peer.sync.from
           /\ peer'.sync.offset = peer.sync.offset /\ peer'.sync.cancel = peer.sync.cancel
           /\ \/ /\ peer'.sync.step = "drain"
                 /\ peer.sync.cancel \/ written <= peer.sync.from + peer.sync.offset
              \/ /\ peer'.sync.step = "send" /\ ~peer.sync.cancel
                 /\ Len(peer'.sync.rows) \in 1 .. Rows
                 /\ peer.sync.from + peer.sync.offset + Len(peer'.sync.rows) <= written
                 /\ \A i \in 1 .. Len(peer'.sync.rows) :
                      peer'.sync.rows[i] = peer.sync.from + peer.sync.offset + i
                 /\ Len(peer'.sync.rows) < Rows =>
                      peer.sync.from + peer.sync.offset + Len(peer'.sync.rows) >= written
<1> DEFINE s == peer.sync
           at == s.from + s.offset
           n == Min({Rows, written - at})
           rows == [i \in 1 .. n |-> at + i]
<1>1. /\ peer \in PeerInfos /\ s \in Syncs /\ s.from \in Nat /\ s.offset \in Nat /\ at \in Nat
      /\ written \in 0 .. MaxWrites /\ Rows \in Nat \ {0} /\ MaxWrites \in Nat
  BY DEF NostrTypeOK, SenderTypeOK, PeerInfos, Syncs, NostrConstants
<1>2. n = IF Rows <= written - at THEN Rows ELSE written - at
  BY <1>1 DEF Min
<1>3. CASE s.cancel \/ n <= 0
  <2>1. peer' = [peer EXCEPT !.sync.step = "drain"]
    BY <1>3 DEF SyncRead
  <2>2. n <= 0 => written <= at
    BY <1>1, <1>2
  <2> QED BY <1>1, <1>3, <2>1, <2>2 DEF PeerInfos, Syncs
<1>4. CASE ~ (s.cancel \/ n <= 0)
  <2>1. peer' = [peer EXCEPT !.sync.step = "send", !.sync.rows = rows]
    BY <1>4 DEF SyncRead
  <2>2. n \in 1 .. Rows /\ at + n <= written /\ (n < Rows => at + n >= written) /\ n \in Nat
    BY <1>1, <1>2, <1>4
  <2>3. \A i \in 1 .. n : rows[i] = at + i /\ rows[i] \in Versions
    BY <1>1, <2>2 DEF Versions
  <2>4. rows \in [1 .. n -> Versions]
    BY <2>3
  <2>5. rows \in Seq(Versions)
    <3>1. PICK m \in Nat : m = n
      BY <2>2
    <3>2. rows \in [1 .. m -> Versions]
      BY <2>4, <3>1
    <3> HIDE DEF rows
    <3> QED BY <3>2, SeqDef
  <2>6. Len(rows) = n
    <3>1. DOMAIN rows = 1 .. Len(rows) /\ Len(rows) \in Nat
      BY <2>5, LenProperties
    <3> QED BY <3>1, <2>2
  <2> HIDE DEF rows, n, at
  <2>7. peer' \in PeerInfos /\ peer'.sync.rows = rows /\ peer'.sync.step = "send"
        /\ peer'.stream = peer.stream /\ peer'.active = peer.active
        /\ peer'.pending = peer.pending /\ peer'.sync.from = peer.sync.from
        /\ peer'.sync.offset = peer.sync.offset /\ peer'.sync.cancel = peer.sync.cancel
    BY <1>1, <2>1, <2>5 DEF PeerInfos, Syncs
  <2>8. ~peer.sync.cancel
    BY <1>4
  <2>9. at = peer.sync.from + peer.sync.offset
    BY DEF at
  <2> QED BY <2>2, <2>3, <2>6, <2>7, <2>8, <2>9
<1> QED BY <1>3, <1>4

\* One turn of syncPeer hands over its rows and goes on behind them.
LEMMA SyncSendEffect ==
    ASSUME NostrTypeOK, PeerIsConsistent, SyncSend
    PROVE  LET s == peer.sync
           IN /\ s.step = "send" /\ s.rows \in Seq(Versions) /\ \A v \in Range(s.rows) : v <= written
              /\ Scheduled(s.rows)
              /\ send' \in Streams /\ send'.stream = send.stream /\ send'.last = send.last
              /\ send'.cur <= written /\ send.cur <= send'.cur
              /\ send'.cur = send.cur \/ (Aliased /\ send'.cur \in Range(s.rows))
              /\ peer' \in PeerInfos /\ peer'.stream = peer.stream /\ peer'.active = peer.active
              /\ peer'.pending = peer.pending /\ peer'.sync.cancel = s.cancel
              /\ peer'.sync.from = s.from /\ peer'.sync.offset = s.offset + Rows
              /\ peer'.sync.step = IF Len(s.rows) < Rows THEN "drain" ELSE "read"
<1> DEFINE s == peer.sync
           p == [peer EXCEPT !.sync.rows = <<>>, !.sync.offset = @ + Rows,
                             !.sync.step = IF Len(s.rows) < Rows THEN "drain" ELSE "read"]
<1>1. /\ peer \in PeerInfos /\ s \in Syncs /\ s.rows \in Seq(Versions) /\ s.step = "send"
      /\ Rows \in Nat /\ s.offset \in Nat /\ Scheduled(s.rows) /\ Told(s.rows, p)
  BY DEF NostrTypeOK, SenderTypeOK, PeerInfos, Syncs, NostrConstants, SyncSend
<1>2. \A v \in Range(s.rows) : v <= written
  <2>1. /\ \A i \in DOMAIN s.rows : s.rows[i] = s.from + s.offset + i
        /\ s.from + s.offset + Len(s.rows) <= written
    BY <1>1 DEF PeerIsConsistent
  <2>2. DOMAIN s.rows = 1 .. Len(s.rows) /\ Len(s.rows) \in Nat
    BY <1>1, LenProperties
  <2>3. s.from \in Nat /\ written \in Nat
    BY <1>1 DEF Syncs, NostrTypeOK, SenderTypeOK, NostrConstants
  <2>4. ASSUME NEW i \in DOMAIN s.rows PROVE s.rows[i] <= written
    <3>1. i \in Nat /\ i <= Len(s.rows)
      BY <2>2
    <3>2. s.rows[i] = s.from + s.offset + i
      BY <2>1
    <3>3. s.from + s.offset + Len(s.rows) <= written /\ s.offset \in Nat
      BY <1>1, <2>1
    <3> QED BY <2>2, <2>3, <3>1, <3>2, <3>3
  <2> QED BY <2>4 DEF Range
<1>3. <<>> \in Seq(Versions) /\ s.offset + Rows \in Nat
  BY <1>1, EmptySeq
<1>4. /\ p \in PeerInfos /\ p.stream = peer.stream /\ p.cur = peer.cur /\ p.active = peer.active
      /\ p.pending = peer.pending /\ p.sync.cancel = s.cancel /\ p.sync.from = s.from
      /\ p.sync.offset = s.offset + Rows
      /\ p.sync.step = IF Len(s.rows) < Rows THEN "drain" ELSE "read"
  BY <1>1, <1>3 DEF PeerInfos, Syncs
<1> HIDE DEF p
<1>5. /\ send' \in Streams /\ send'.stream = send.stream /\ send'.last = send.last
      /\ send'.cur <= written /\ send.cur <= send'.cur
      /\ send'.cur = send.cur \/ (Aliased /\ send'.cur \in Range(s.rows))
      /\ peer' \in PeerInfos /\ peer'.stream = peer.stream /\ peer'.active = p.active
      /\ peer'.pending = p.pending /\ peer'.sync = p.sync
  BY <1>1, <1>2, <1>4, ToldEffect
<1> QED BY <1>1, <1>2, <1>4, <1>5

\* The end of syncPeer hands over what is pending.
LEMMA SyncDrainEffect ==
    ASSUME NostrTypeOK, PeerIsConsistent, SyncDrain
    PROVE  /\ peer.sync.step = "drain" /\ peer.pending \in Seq(Versions)
           /\ \A v \in Range(peer.pending) : v <= written
           /\ Scheduled(peer.pending)
           /\ send' \in Streams /\ send'.stream = send.stream /\ send'.last = send.last
           /\ send'.cur <= written /\ send.cur <= send'.cur
           /\ send'.cur = send.cur \/ (Aliased /\ send'.cur \in Range(peer.pending))
           /\ peer' \in PeerInfos /\ peer'.stream = peer.stream /\ peer'.active
           /\ peer'.pending = <<>> /\ peer'.sync = NoSync
<1> DEFINE p == [peer EXCEPT !.pending = <<>>, !.active = TRUE, !.sync = NoSync]
<1>1. /\ peer \in PeerInfos /\ peer.pending \in Seq(Versions) /\ peer.sync.step = "drain"
      /\ Scheduled(peer.pending) /\ Told(peer.pending, p)
  BY DEF NostrTypeOK, SenderTypeOK, PeerInfos, SyncDrain
<1>2. \A v \in Range(peer.pending) : v <= written
  <2>1. /\ DOMAIN peer.pending = 1 .. Len(peer.pending) /\ Len(peer.pending) \in Nat
        /\ \A i \in DOMAIN peer.pending : peer.pending[i] = written - Len(peer.pending) + i
        /\ written \in Nat
    BY <1>1, RangeIsWithin DEF PeerIsConsistent, NostrTypeOK, SenderTypeOK
  <2> QED BY <2>1 DEF Range
<1>3. <<>> \in Seq(Versions) /\ NoSync \in Syncs
  <2>1. <<>> \in Seq(Versions)
    BY EmptySeq
  <2> QED BY <2>1 DEF NoSync, Syncs, NostrConstants
<1>4. /\ p \in PeerInfos /\ p.stream = peer.stream /\ p.cur = peer.cur /\ p.active
      /\ p.pending = <<>> /\ p.sync = NoSync
  BY <1>1, <1>3 DEF PeerInfos
<1> HIDE DEF p
<1>5. /\ send' \in Streams /\ send'.stream = send.stream /\ send'.last = send.last
      /\ send'.cur <= written /\ send.cur <= send'.cur
      /\ send'.cur = send.cur \/ (Aliased /\ send'.cur \in Range(peer.pending))
      /\ peer' \in PeerInfos /\ peer'.stream = peer.stream /\ peer'.active = p.active
      /\ peer'.pending = p.pending /\ peer'.sync = p.sync
  BY <1>1, <1>2, <1>4, ToldEffect
<1> QED BY <1>1, <1>2, <1>4, <1>5

\* A broadcast hands over its one change, unless the cursor is past it.
BroadcastData ==
    IF Head(calls).cur >= (IF Aliased THEN send.cur ELSE peer.cur) THEN <<Head(calls).cur>> ELSE <<>>

\* The broadcast is of the last version written.
LEMMA BroadcastEffect ==
    ASSUME NostrTypeOK, CallsAreInOrder, BroadcastSend
    PROVE  /\ calls # <<>> /\ Head(calls) = calls[1] /\ calls[1].type = "send"
           /\ calls[1].cur = written /\ peer.active
           /\ BroadcastData \in Seq(Versions) /\ Range(BroadcastData) \subseteq {written}
           /\ Aliased /\ written >= send.cur => Range(BroadcastData) = {written}
           /\ Scheduled(BroadcastData)
           /\ calls' = Tail(calls) /\ calls' \in Seq(Calls) /\ Len(calls') = Len(calls) - 1
           /\ \A i \in 1 .. Len(calls') : calls'[i] = calls[i + 1]
<1>1. /\ calls # <<>> /\ calls \in Seq(Calls) /\ Head(calls).type = "send"
      /\ Scheduled(BroadcastData) /\ calls' = Tail(calls) /\ written \in 0 .. MaxWrites
  BY DEF BroadcastSend, IsIdle, BroadcastData, NostrTypeOK, SenderTypeOK
<1>2. /\ Head(calls) = calls[1] /\ calls[1] \in Calls /\ Len(calls) \in Nat \ {0}
      /\ calls' \in Seq(Calls) /\ Len(calls') = Len(calls) - 1
      /\ \A i \in 1 .. Len(calls') : calls'[i] = calls[i + 1]
  BY <1>1, RangeHeadTail
<1>3. 1 \in DOMAIN calls
  BY <1>1, <1>2, LenProperties
<1>4. calls[1].cur = written /\ peer.active
  BY <1>1, <1>2, <1>3 DEF CallsAreInOrder
<1>5. written \in Versions /\ calls[1].cur \in 0 .. MaxWrites
  BY <1>1, <1>2, <1>3 DEF CallsAreInOrder, Versions, Calls
<1>6. Head(calls).cur = written
  BY <1>2, <1>4
<1>7. CASE written >= (IF Aliased THEN send.cur ELSE peer.cur)
  <2>1. BroadcastData = <<written>>
    BY <1>6, <1>7 DEF BroadcastData
  <2>2. <<written>> \in Seq(Versions) /\ Range(<<written>>) = {written}
    BY <1>5 DEF Range
  <2> QED BY <1>1, <1>2, <1>4, <2>1, <2>2
<1>8. CASE ~ (written >= (IF Aliased THEN send.cur ELSE peer.cur))
  <2>1. BroadcastData = <<>>
    BY <1>6, <1>8 DEF BroadcastData
  <2>2. <<>> \in Seq(Versions) /\ Range(<<>>) = {}
    BY EmptySeq, RangeIsWithin
  <2> QED BY <1>1, <1>2, <1>4, <1>8, <2>1, <2>2
<1> QED BY <1>7, <1>8

\* A write is pending, or broadcast by the only call there is then.
LEMMA WriteEffect ==
    ASSUME NostrTypeOK, Write
    PROVE  /\ calls = <<>> /\ written' = written + 1 /\ written' \in Versions
           /\ peer' \in PeerInfos /\ peer'.stream = peer.stream /\ peer'.active = peer.active
           /\ peer'.sync = peer.sync
           /\ calls' \in Seq(Calls) /\ Len(calls') = IF peer.active THEN 1 ELSE 0
           /\ \A i \in 1 .. Len(calls') : calls'[i].type = "send" /\ calls'[i].cur = written'
           /\ peer'.pending = IF peer.active THEN peer.pending ELSE Append(peer.pending, written')
           /\ peer'.pending \in Seq(Versions)
<1>1. /\ calls = <<>> /\ written' = written + 1 /\ written' \in Versions /\ peer \in PeerInfos
      /\ peer.pending \in Seq(Versions) /\ written' \in 0 .. MaxWrites
  BY DEF Write, IsIdle, NostrTypeOK, SenderTypeOK, Versions, PeerInfos
<1>2. CASE peer.active
  <2>1. calls' = <<[type |-> "send", stream |-> 0, cur |-> written']>> /\ peer' = peer
    BY <1>1, <1>2 DEF Write
  <2>2. [type |-> "send", stream |-> 0, cur |-> written'] \in Calls
    BY <1>1 DEF Calls
  <2>3. calls' \in Seq(Calls) /\ Len(calls') = 1 /\ calls'[1].type = "send" /\ calls'[1].cur = written'
    BY <2>1, <2>2
  <2>4. \A i \in 1 .. 1 : i = 1
    OBVIOUS
  <2>5. \A i \in 1 .. Len(calls') : calls'[i].type = "send" /\ calls'[i].cur = written'
    BY <2>3, <2>4
  <2>6. peer'.pending = peer.pending
    BY <2>1
  <2> QED BY <1>1, <1>2, <2>1, <2>3, <2>5, <2>6
<1>3. CASE ~peer.active
  <2>1. peer' = [peer EXCEPT !.pending = Append(peer.pending, written')] /\ calls' = calls
    BY <1>1, <1>3 DEF Write
  <2>2. Append(peer.pending, written') \in Seq(Versions)
    BY <1>1, AppendProperties
  <2>3. calls' \in Seq(Calls) /\ Len(calls') = 0
    BY <1>1, <2>1, EmptySeq
  <2>4. /\ peer' \in PeerInfos /\ peer'.stream = peer.stream /\ peer'.active = peer.active
        /\ peer'.sync = peer.sync /\ peer'.pending = Append(peer.pending, written')
    BY <1>1, <2>1, <2>2 DEF PeerInfos
  <2>5. \A i \in 1 .. 0 : FALSE
    OBVIOUS
  <2> QED BY <1>1, <1>3, <2>2, <2>3, <2>4, <2>5
<1> QED BY <1>2, <1>3

\* The head of Peer's queue.
LEMMA HeadOfCalls ==
    ASSUME NostrTypeOK, ~IsIdle
    PROVE  /\ calls \in Seq(Calls) /\ Head(calls) = calls[1] /\ calls[1] \in Calls
           /\ calls[1].cur <= written /\ Len(calls) \in Nat \ {0}
           /\ Tail(calls) \in Seq(Calls) /\ Len(Tail(calls)) = Len(calls) - 1
           /\ \A i \in 1 .. Len(Tail(calls)) : Tail(calls)[i] = calls[i + 1]
           /\ \A i \in 1 .. Len(calls) : calls[i] \in Calls
<1>1. calls # <<>> /\ calls \in Seq(Calls) /\ \A i \in DOMAIN calls : calls[i].cur <= written
  BY DEF IsIdle, NostrTypeOK, SenderTypeOK
<1>2. 1 \in DOMAIN calls
  BY <1>1, RangeHeadTail, LenProperties
<1> QED BY <1>1, <1>2, RangeHeadTail, ElementOfSeq

\* A call of Peer's onSync begins a syncPeer for its stream.
LEMMA OnSyncEffect ==
    ASSUME NostrTypeOK, OnSync
    PROVE  /\ ~IsIdle /\ calls[1].type = "sync" /\ peer.sync.step = "off"
           /\ calls' = Tail(calls)
           /\ peer' \in PeerInfos /\ peer'.stream = calls[1].stream /\ peer'.active = peer.active
           /\ peer'.pending = peer.pending /\ peer'.sync.step = "read" /\ ~peer'.sync.cancel
           /\ peer'.sync.from = calls[1].cur /\ peer'.sync.offset = 0
<1> DEFINE c == calls[1]
<1>1. /\ ~IsIdle /\ Head(calls) = c /\ c.type = "sync" /\ peer.sync.step = "off"
      /\ calls' = Tail(calls) /\ peer \in PeerInfos /\ c \in Calls
  BY HeadOfCalls DEF OnSync, NostrTypeOK, SenderTypeOK
<1>2. peer' = [peer EXCEPT !.stream = c.stream, !.cur = c.cur,
                           !.sync = [NoSync EXCEPT !.step = "read", !.from = c.cur]]
  BY <1>1 DEF OnSync
<1>3. <<>> \in Seq(Versions)
  BY EmptySeq
<1>4. /\ [NoSync EXCEPT !.step = "read", !.from = c.cur] \in Syncs
      /\ [NoSync EXCEPT !.step = "read", !.from = c.cur].step = "read"
      /\ ~[NoSync EXCEPT !.step = "read", !.from = c.cur].cancel
      /\ [NoSync EXCEPT !.step = "read", !.from = c.cur].from = c.cur
      /\ [NoSync EXCEPT !.step = "read", !.from = c.cur].offset = 0
  BY <1>1, <1>3 DEF NoSync, Syncs, Calls
<1> QED BY <1>1, <1>2, <1>4 DEF PeerInfos, Calls

\* A cancelled syncPeer is told so.
LEMMA CancelEffect ==
    ASSUME NostrTypeOK, CancelSync
    PROVE  /\ ~IsIdle /\ calls[1].type = "sync" /\ peer.sync.step # "off"
           /\ peer' \in PeerInfos /\ peer'.stream = peer.stream /\ peer'.active = peer.active
           /\ peer'.pending = peer.pending /\ peer'.sync.step = peer.sync.step
           /\ peer'.sync.cancel /\ peer'.sync.from = peer.sync.from
           /\ peer'.sync.offset = peer.sync.offset /\ peer'.sync.rows = peer.sync.rows
<1>1. peer' = [peer EXCEPT !.sync.cancel = TRUE] /\ peer \in PeerInfos /\ peer.sync \in Syncs
  BY DEF CancelSync, NostrTypeOK, SenderTypeOK, PeerInfos
<1>2. ~IsIdle /\ calls[1].type = "sync" /\ peer.sync.step # "off"
  BY HeadOfCalls DEF CancelSync
<1> QED BY <1>1, <1>2 DEF PeerInfos, Syncs

\* A new stream leaves Peer what it was, but for the cursor it shared.
LEMMA OnCursorEffect ==
    ASSUME NostrTypeOK, OnCursor
    PROVE  /\ peer' \in PeerInfos /\ peer'.stream = peer.stream /\ peer'.active = peer.active
           /\ peer'.pending = peer.pending /\ peer'.sync = peer.sync
           /\ send' = cursorEvent /\ send.stream # cursorEvent.stream /\ cursorEvent.stream # 0
           /\ resync'
<1>1. /\ peer \in PeerInfos /\ send \in Streams
      /\ peer' = IF Aliased THEN [peer EXCEPT !.cur = send.cur] ELSE peer
      /\ send' = cursorEvent /\ send.stream # cursorEvent.stream /\ cursorEvent.stream # 0
      /\ resync'
  BY DEF OnCursor, NostrTypeOK, SenderTypeOK, ReceiverTypeOK
<1>2. CASE Aliased
  BY <1>1, <1>2 DEF PeerInfos, Streams
<1>3. CASE ~Aliased
  BY <1>1, <1>3
<1> QED BY <1>2, <1>3

\* The publishing loop ended, the queue is emptied and Peer called.
LEMMA CallSyncEffect ==
    ASSUME NostrTypeOK, CallSync
    PROVE  LET c == [type |-> "sync", stream |-> send.stream, cur |-> send.cur]
           IN /\ resync /\ ~resync' /\ batches = <<>> /\ signed = NoEvent /\ queue' = <<>>
              /\ calls' \in Seq(Calls) /\ Len(calls') = Len(calls) + 1 /\ Len(calls) \in Nat
              /\ \A i \in 1 .. Len(calls) : calls'[i] = calls[i]
              /\ calls'[Len(calls) + 1] = c
<1> DEFINE c == [type |-> "sync", stream |-> send.stream, cur |-> send.cur]
<1>1. /\ calls \in Seq(Calls) /\ send \in Streams /\ calls' = Append(calls, c)
      /\ resync /\ ~resync' /\ batches = <<>> /\ signed = NoEvent /\ queue' = <<>>
  BY DEF CallSync, Publishing, NostrTypeOK, SenderTypeOK, ReceiverTypeOK
<1>2. c \in Calls
  BY <1>1 DEF Calls, Streams
<1> QED BY <1>1, <1>2, AppendProperties, LenProperties

\* publishPending turns the queue into batches.
LEMMA PublishPendingEffect ==
    ASSUME NostrTypeOK, PublishPending
    PROVE  /\ queue # <<>> /\ batches = <<>> /\ signed = NoEvent /\ send # NoStream
           /\ queue' = <<>> /\ batches' = Split(queue) /\ batches' \in Seq(Seq(Versions))
           /\ InFlight' = InFlight /\ InFlight = Range(queue)
<1>1. /\ queue # <<>> /\ batches = <<>> /\ signed = NoEvent /\ send # NoStream
      /\ queue' = <<>> /\ batches' = Split(queue) /\ queue \in Seq(Versions)
  BY DEF PublishPending, Publishing, NostrTypeOK, SenderTypeOK
<1>2. /\ batches' \in Seq(Seq(Versions))
      /\ \A i \in 1 .. Len(batches') : Range(batches'[i]) \subseteq Range(queue)
      /\ \A v \in Range(queue) : \E i \in 1 .. Len(batches') : v \in Range(batches'[i])
  BY <1>1, SplitKeepsOrder
<1>3. DOMAIN batches' = 1 .. Len(batches')
  BY <1>2, LenProperties
<1>4. Range(<<>>) = {}
  BY DEF Range
<1>5. InFlight = Range(queue)
  BY <1>1, <1>4 DEF InFlight
<1>6. InFlight' = Range(queue)
  <2>1. \A b \in Range(batches') : \E i \in 1 .. Len(batches') : b = batches'[i]
    BY <1>3 DEF Range
  <2>2. \A i \in 1 .. Len(batches') : batches'[i] \in Range(batches')
    BY <1>3 DEF Range
  <2>3. ASSUME NEW v \in UNION {Range(b) : b \in Range(batches')} PROVE v \in Range(queue)
    <3>1. PICK b \in Range(batches') : v \in Range(b)
      OBVIOUS
    <3>2. PICK i \in 1 .. Len(batches') : b = batches'[i]
      BY <2>1
    <3> QED BY <3>1, <3>2, <1>2
  <2>4. ASSUME NEW v \in Range(queue) PROVE v \in UNION {Range(b) : b \in Range(batches')}
    <3>1. PICK i \in 1 .. Len(batches') : v \in Range(batches'[i])
      BY <1>2
    <3> QED BY <3>1, <2>2
  <2>5. InFlight' = Range(queue') \cup UNION {Range(b) : b \in Range(batches')}
    BY DEF InFlight
  <2> QED BY <2>3, <2>4, <2>5, <1>1, <1>4
<1> QED BY <1>1, <1>2, <1>5, <1>6

\* An event holds the first batch and names the one before it.
LEMMA PublishEffect ==
    ASSUME NostrTypeOK, Publish
    PROVE  /\ batches # <<>> /\ signed = NoEvent /\ ~resync
           /\ signed' \in Events /\ signed' # NoEvent
           /\ signed'.id = lastId + 1 /\ signed'.stream = send.stream
           /\ signed'.prev = send.last /\ signed'.data = batches[1]
           /\ batches' \in Seq(Seq(Versions)) /\ Len(batches') = Len(batches) - 1
           /\ Len(batches) \in Nat \ {0}
           /\ \A i \in 1 .. Len(batches') : batches'[i] = batches[i + 1]
           /\ InFlight = Range(batches[1]) \cup InFlight'
           /\ events' = events \cup {signed'} /\ lastId' = lastId + 1
           /\ suspect' = (suspect \/ (/\ send.stream = cursorEvent.stream
                                      /\ \E f \in events : f.stream = send.stream /\ f.prev = send.last))
           /\ covered' = Append(covered, Upto(Reached(send.last), batches[1]))
           /\ UNCHANGED <<queue, send>>
<1>1. /\ batches # <<>> /\ signed = NoEvent /\ ~resync /\ batches \in Seq(Seq(Versions))
      /\ batches' = Tail(batches) /\ UNCHANGED queue /\ send \in Streams /\ lastId \in Nat
      /\ signed' = [id |-> lastId + 1, stream |-> send.stream, prev |-> send.last,
                    data |-> Head(batches)]
      /\ events' = events \cup {signed'} /\ lastId' = lastId + 1 /\ UNCHANGED send
      /\ suspect' = (suspect \/ (/\ send.stream = cursorEvent.stream
                                 /\ \E f \in events : f.stream = send.stream /\ f.prev = send.last))
      /\ covered' = Append(covered, Upto(Reached(send.last), Head(batches)))
  BY DEF Publish, NostrTypeOK, SenderTypeOK, ReceiverTypeOK, EventTypeOK
<1>2. /\ Range(batches) = {batches[1]} \cup Range(batches') /\ Head(batches) = batches[1]
      /\ batches[1] \in Seq(Versions) /\ batches' \in Seq(Seq(Versions))
      /\ Len(batches') = Len(batches) - 1 /\ Len(batches) \in Nat \ {0}
      /\ \A i \in 1 .. Len(batches') : batches'[i] = batches[i + 1]
  BY <1>1, RangeHeadTail
<1>3. InFlight = Range(batches[1]) \cup InFlight'
  BY <1>1, <1>2 DEF InFlight
<1>4. signed' \in Events /\ signed' # NoEvent
  BY <1>1, <1>2 DEF Events, Streams, NoEvent
<1> QED BY <1>1, <1>2, <1>3, <1>4

\* What is in flight after each step of PeerSend.
LEMMA InFlightOfSend ==
    ASSUME NostrTypeOK, SendStep
    PROVE  InFlight' \subseteq InFlight
<1>1. CASE OnCursor \/ Published
  BY <1>1 DEF OnCursor, Published, InFlight
<1>2. Range(<<>>) = {}
  BY DEF Range
<1>3. CASE CallSync
  BY <1>2, <1>3 DEF CallSync, InFlight
<1>4. CASE PublishPending
  BY <1>4, PublishPendingEffect
<1>5. CASE Publish
  BY <1>5, PublishEffect
<1>6. CASE Abandon
  BY <1>2, <1>6 DEF Abandon, InFlight
<1>7. CASE RestartSender
  BY <1>2, <1>7 DEF RestartSender, InFlight
<1> QED BY <1>1, <1>3, <1>4, <1>5, <1>6, <1>7 DEF SendStep

\* And after each of Peer's.
LEMMA InFlightOfPeer ==
    ASSUME NostrTypeOK, NEW data \in Seq(Versions), Scheduled(data), UNCHANGED batches
    PROVE  InFlight' = InFlight \cup Range(Takes(data))
BY ScheduledEffect DEF InFlight

\* The sender keeps its types.
LEMMA SenderTypesKept ==
    ASSUME NostrTypeOK, PeerIsConsistent, CallsAreInOrder, CountIsRight, [Next]_vars
    PROVE  SenderTypeOK'
<1> USE DEF NostrTypeOK, SenderTypeOK
<1>0. written \in Nat /\ written <= MaxWrites /\ MaxWrites \in Nat
  BY DEF NostrConstants
<1>1. CASE UNCHANGED senderVars
  BY <1>1 DEF senderVars, InFlight
<1>2. CASE Write
  <2>0. /\ written' = written + 1 /\ written' \in Versions /\ calls' \in Seq(Calls)
        /\ \A i \in 1 .. Len(calls') : calls'[i].cur = written'
    BY <1>2, WriteEffect
  <2>1. /\ written' \in 0 .. MaxWrites /\ written <= written' /\ written' <= written'
        /\ UNCHANGED <<resync, queue, count, blocked, batches>>
    <3>1. written' \in 0 .. MaxWrites /\ written <= written' /\ written' <= written'
      BY <1>0, <2>0 DEF Versions
    <3> QED BY <1>2, <3>1 DEF Write
  <2>2. calls' \in Seq(Calls) /\ \A i \in 1 .. Len(calls') : calls'[i].cur <= written'
    BY <2>0, <2>1
  <2>3. DOMAIN calls' = 1 .. Len(calls')
    BY <2>2, LenProperties
  <2>4. InFlight' = InFlight
    BY <2>1 DEF InFlight
  <2>5. \A v \in InFlight' : v <= written'
    <3>1. InFlight \subseteq Nat
      BY InFlightIsWithin
    <3> QED BY <2>1, <2>4, <3>1, <1>0
  <2> QED BY <1>2, <2>1, <2>2, <2>3, <2>5, WriteEffect
<1>3. CASE BroadcastSend
  <2>1. /\ BroadcastData \in Seq(Versions) /\ Scheduled(BroadcastData) /\ Range(BroadcastData) \subseteq {written}
        /\ calls' \in Seq(Calls) /\ Len(calls') = Len(calls) - 1
        /\ \A i \in 1 .. Len(calls') : calls'[i] = calls[i + 1]
    BY <1>3, BroadcastEffect
  <2>2. UNCHANGED <<written, peer, batches, resync>>
    BY <1>3 DEF BroadcastSend
  <2>3. InFlight' = InFlight \cup Range(Takes(BroadcastData)) /\ queue' \in Seq(Versions) /\ count' \in Nat /\ blocked' \in BOOLEAN
    BY <2>1, <2>2, InFlightOfPeer, ScheduledEffect
  <2>4. Range(Takes(BroadcastData)) \subseteq {written}
    BY <2>1, TakesIsWithin
  <2>5. DOMAIN calls' = 1 .. Len(calls') /\ DOMAIN calls = 1 .. Len(calls) /\ Len(calls) \in Nat
    BY <2>1, LenProperties
  <2>6. \A i \in 1 .. Len(calls') : calls'[i].cur <= written
    <3>1. \A i \in 1 .. Len(calls') : i + 1 \in 1 .. Len(calls)
      BY <2>1, <2>5
    <3> QED BY <2>1, <2>5, <3>1
  <2>7. \A v \in InFlight' : v <= written
    BY <2>3, <2>4, <1>0
  <2> QED BY <2>1, <2>2, <2>3, <2>5, <2>6, <2>7
<1>4. CASE CancelSync
  <2>1. UNCHANGED <<written, calls, resync, queue, count, blocked, batches>>
    BY <1>4 DEF CancelSync
  <2>2. InFlight' = InFlight
    BY <2>1 DEF InFlight
  <2> QED BY <1>4, <2>1, <2>2, CancelEffect
<1>5. CASE OnSync
  <2>1. UNCHANGED <<written, resync, queue, count, blocked, batches>>
    BY <1>5 DEF OnSync
  <2>2. InFlight' = InFlight
    BY <2>1 DEF InFlight
  <2>3. peer' \in PeerInfos /\ calls' = Tail(calls) /\ ~IsIdle
    BY <1>5, OnSyncEffect
  <2>4. /\ calls' \in Seq(Calls) /\ Len(calls') = Len(calls) - 1 /\ Len(calls) \in Nat
        /\ \A i \in 1 .. Len(calls') : calls'[i] = calls[i + 1]
    BY <2>3, HeadOfCalls
  <2>5. DOMAIN calls' = 1 .. Len(calls') /\ DOMAIN calls = 1 .. Len(calls)
    BY <2>4, LenProperties
  <2>6. \A i \in 1 .. Len(calls') : calls'[i].cur <= written
    <3>1. \A i \in 1 .. Len(calls') : i + 1 \in 1 .. Len(calls)
      BY <2>4, <2>5
    <3> QED BY <2>4, <2>5, <3>1
  <2> QED BY <2>1, <2>2, <2>3, <2>4, <2>5, <2>6
<1>6. CASE SyncRead
  <2>1. UNCHANGED <<written, calls, resync, queue, count, blocked, batches>>
    BY <1>6 DEF SyncRead
  <2>2. InFlight' = InFlight
    BY <2>1 DEF InFlight
  <2> QED BY <1>6, <2>1, <2>2, RowsAreVersions
<1>7. CASE SyncSend
  <2>1. UNCHANGED <<written, calls, resync, batches>>
    BY <1>7 DEF SyncSend
  <2>2. /\ peer.sync.rows \in Seq(Versions) /\ \A v \in Range(peer.sync.rows) : v <= written
        /\ Scheduled(peer.sync.rows) /\ peer' \in PeerInfos
    BY <1>7, SyncSendEffect
  <2>3. InFlight' = InFlight \cup Range(Takes(peer.sync.rows)) /\ queue' \in Seq(Versions) /\ count' \in Nat /\ blocked' \in BOOLEAN
    BY <2>1, <2>2, InFlightOfPeer, ScheduledEffect
  <2>4. \A v \in Range(Takes(peer.sync.rows)) : v <= written
    BY <2>2, TakesIsWithin
  <2> QED BY <2>1, <2>2, <2>3, <2>4
<1>8. CASE SyncDrain
  <2>1. UNCHANGED <<written, calls, resync, batches>>
    BY <1>8 DEF SyncDrain
  <2>2. /\ peer.pending \in Seq(Versions) /\ \A v \in Range(peer.pending) : v <= written
        /\ Scheduled(peer.pending) /\ peer' \in PeerInfos
    BY <1>8, SyncDrainEffect
  <2>3. InFlight' = InFlight \cup Range(Takes(peer.pending)) /\ queue' \in Seq(Versions) /\ count' \in Nat /\ blocked' \in BOOLEAN
    BY <2>1, <2>2, InFlightOfPeer, ScheduledEffect
  <2>4. \A v \in Range(Takes(peer.pending)) : v <= written
    BY <2>2, TakesIsWithin
  <2> QED BY <2>1, <2>2, <2>3, <2>4
<1>9. CASE SendStep /\ UNCHANGED written
  <2>1. \A v \in InFlight' : v <= written'
    BY <1>9, InFlightOfSend
  <2>2. <<>> \in Seq(Versions) /\ <<>> \in Seq(Seq(Versions)) /\ <<>> \in Seq(Calls) /\ DOMAIN <<>> = {}
    BY EmptySeq
  <2>3. CASE OnCursor
    BY <1>9, <2>1, <2>3, OnCursorEffect DEF OnCursor
  <2>4. CASE CallSync
    <3>1. UNCHANGED <<peer, batches, count, blocked>> /\ resync' \in BOOLEAN /\ send.cur <= written
      BY <2>4 DEF CallSync, ReceiverTypeOK
    <3>2. DOMAIN calls = 1 .. Len(calls)
      BY LenProperties
    <3>3. \A i \in 1 .. Len(calls) + 1 : calls'[i].cur <= written
      <4>1. \A i \in 1 .. Len(calls) + 1 : i \in 1 .. Len(calls) \/ i = Len(calls) + 1
        BY <2>4, CallSyncEffect
      <4> QED BY <2>4, <3>1, <3>2, <4>1, CallSyncEffect
    <3>4. DOMAIN calls' = 1 .. Len(calls) + 1
      BY <2>4, CallSyncEffect, LenProperties
    <3> QED BY <1>9, <2>1, <2>2, <2>4, <3>1, <3>3, <3>4, CallSyncEffect
  <2>5. CASE PublishPending
    BY <1>9, <2>1, <2>2, <2>5, PublishPendingEffect DEF PublishPending
  <2>6. CASE Publish
    BY <1>9, <2>1, <2>6, PublishEffect DEF Publish
  <2>7. CASE Published
    <3>1. UNCHANGED <<peer, calls, resync, queue, batches>> /\ count' = count - Len(signed.data)
          /\ blocked' \in BOOLEAN
      BY <2>7 DEF Published
    <3>2. count >= Waiting /\ signed.data \in Seq(Versions)
      BY <2>7 DEF CountIsRight, Published, EventTypeOK, AnyEvent, InHand, Events
    <3>3. count - Len(signed.data) \in Nat
      <4>1. Len(signed.data) \in Nat /\ Waiting >= Len(signed.data) /\ Waiting \in Nat
        BY WaitingIsCounted DEF Waiting
      <4> QED BY <3>2, <4>1
    <3> QED BY <1>9, <2>1, <3>1, <3>2, <3>3
  <2>8. CASE Abandon
    BY <1>9, <2>1, <2>2, <2>8 DEF Abandon
  <2>9. CASE RestartSender
    <3>1. NewPeer \in PeerInfos
      BY <2>2, <1>0 DEF NewPeer, PeerInfos, NoSync, Syncs
    <3> QED BY <1>9, <2>1, <2>2, <2>9, <3>1 DEF RestartSender
  <2> QED BY <1>9, <2>3, <2>4, <2>5, <2>6, <2>7, <2>8, <2>9 DEF SendStep
<1> QED BY <1>1, <1>2, <1>3, <1>4, <1>5, <1>6, <1>7, <1>8, <1>9, StepsOfTheParties
        DEF PeerStep, vars


\* Every cursor is one of the stream's, within what was written and published.
IsCursor(c) == c \in Streams /\ c.cur <= written /\ c.last <= lastId

\* The parts of a cursor are numbers.
LEMMA CursorsAreTyped ==
    ASSUME NostrTypeOK
    PROVE  /\ IsCursor(send) /\ IsCursor(saved) /\ IsCursor(cursorEvent)
           /\ IsCursor(stored) /\ IsCursor(recv)
           /\ written \in Nat /\ known \in Nat /\ lastId \in Nat /\ known <= written
           /\ send.cur \in Nat /\ saved.cur \in Nat /\ cursorEvent.cur \in Nat
           /\ stored.cur \in Nat /\ recv.cur \in Nat
           /\ send.last \in Nat /\ saved.last \in Nat /\ cursorEvent.last \in Nat
           /\ stored.last \in Nat /\ recv.last \in Nat
           /\ send.stream \in Nat /\ saved.stream \in Nat /\ cursorEvent.stream \in Nat
           /\ stored.stream \in Nat /\ recv.stream \in Nat
<1>1. IsCursor(send) /\ IsCursor(saved) /\ IsCursor(cursorEvent) /\ IsCursor(stored) /\ IsCursor(recv)
  BY DEF NostrTypeOK, ReceiverTypeOK, IsCursor
<1>2. written \in Nat /\ known \in Nat /\ lastId \in Nat /\ known <= written
  BY DEF NostrTypeOK, SenderTypeOK, ReceiverTypeOK, EventTypeOK, NostrConstants
<1>3. \A c \in Streams : c.cur \in Nat /\ c.last \in Nat /\ c.stream \in Nat
  BY DEF Streams, NostrConstants
<1> QED BY <1>1, <1>2, <1>3 DEF IsCursor

\* An event's changes were written, its id was given out.
LEMMA EventsAreTyped ==
    ASSUME NostrTypeOK, NEW e \in AnyEvent
    PROVE  /\ e \in Events /\ e.id \in Nat \ {0} /\ e.stream \in Nat /\ e.prev \in Nat
           /\ e.data \in Seq(Versions) /\ Range(e.data) \subseteq 1 .. written
           /\ e # NoEvent
<1>1. e \in Events /\ \A v \in Range(e.data) : v <= written
  BY DEF NostrTypeOK, EventTypeOK
<1>2. e.data \in Seq(Versions) /\ e.id \in Nat \ {0} /\ e.stream \in Nat /\ e.prev \in Nat
  BY <1>1 DEF Events
<1>3. Range(e.data) \subseteq Versions
  BY <1>2, RangeIsWithin
<1>4. written \in Nat
  BY CursorsAreTyped
<1>5. \A v \in Range(e.data) : v \in 1 .. written
  BY <1>1, <1>3, <1>4 DEF Versions
<1>6. e # NoEvent
  BY <1>2 DEF NoEvent
<1> QED BY <1>1, <1>2, <1>5, <1>6

\* A cursor moved on by an event stays within what was written.
LEMMA CursorMovesOn ==
    ASSUME NostrTypeOK, NEW c, IsCursor(c), NEW data, Range(data) \subseteq 1 .. written
    PROVE  /\ Upto(c.cur, data) \in 0 .. written /\ c.cur <= Upto(c.cur, data)
           /\ Upto(c.cur, data) \in 0 .. MaxWrites
           /\ \A v \in Range(data) : v <= Upto(c.cur, data)
           /\ Upto(c.cur, data) = c.cur \/ Upto(c.cur, data) \in Range(data)
<1>1. c.cur \in 0 .. written /\ written \in Nat /\ written <= MaxWrites /\ MaxWrites \in Nat
  BY CursorsAreTyped DEF IsCursor, Streams, NostrTypeOK, SenderTypeOK, NostrConstants
<1>2. /\ Upto(c.cur, data) \in 0 .. written /\ c.cur <= Upto(c.cur, data)
      /\ \A v \in Range(data) : v <= Upto(c.cur, data)
      /\ Upto(c.cur, data) = c.cur \/ Upto(c.cur, data) \in Range(data)
  BY <1>1, UptoMovesOn
<1> QED BY <1>1, <1>2

\* A publication that is noted moves the cursors of its stream on.
LEMMA PublishedEffect ==
    ASSUME NostrTypeOK, Published
    PROVE  /\ signed \in AnyEvent /\ signed # NoEvent /\ signed' = NoEvent
           /\ \/ /\ signed.stream = send.stream /\ saved' = send' /\ send' \in Streams
                 /\ send'.stream = send.stream /\ send'.last = signed.id
                 /\ send'.cur \in 0 .. written /\ send.cur <= send'.cur
                 /\ send'.cur = send.cur \/ send'.cur \in Range(signed.data)
              \/ signed.stream # send.stream /\ UNCHANGED <<send, saved>>
<1>1. signed \in AnyEvent /\ signed # NoEvent /\ signed' = NoEvent
  BY DEF Published, AnyEvent, InHand
<1>2. signed.id \in Nat /\ Range(signed.data) \subseteq 1 .. written /\ IsCursor(send)
  BY <1>1, EventsAreTyped, CursorsAreTyped
<1>3. CASE signed.stream = send.stream
  <2>1. saved' = send' /\ send' = [send EXCEPT !.cur = Upto(send.cur, signed.data), !.last = signed.id]
    BY <1>3 DEF Published
  <2>2. /\ Upto(send.cur, signed.data) \in 0 .. written /\ send.cur <= Upto(send.cur, signed.data)
        /\ Upto(send.cur, signed.data) \in 0 .. MaxWrites
        /\ Upto(send.cur, signed.data) = send.cur \/ Upto(send.cur, signed.data) \in Range(signed.data)
    BY <1>2, CursorMovesOn
  <2>3. /\ send' \in Streams /\ send'.stream = send.stream /\ send'.last = signed.id
        /\ send'.cur = Upto(send.cur, signed.data)
    BY <1>2, <2>1, <2>2 DEF Streams, IsCursor
  <2> QED BY <1>1, <1>3, <2>1, <2>2, <2>3
<1>4. CASE signed.stream # send.stream
  BY <1>1, <1>4 DEF Published
<1> QED BY <1>3, <1>4

\* A new stream begins where the receiver is.
LEMMA ResyncEffect ==
    ASSUME NostrTypeOK, Resync
    PROVE  /\ cursorEvent' \in Streams /\ cursorEvent'.stream = cursorEvent.stream + 1
           /\ cursorEvent'.cur = known /\ cursorEvent'.last = 0
           /\ recv' = cursorEvent' /\ stored' = cursorEvent' /\ phase' = "subscribing"
           /\ buffer' = {} /\ suspect' = FALSE /\ UNCHANGED <<events, lost, lastId>>
           /\ cursorEvent'.stream <= MaxStreams
<1>1. known \in 0 .. MaxWrites /\ cursorEvent.stream \in Nat /\ MaxStreams \in Nat
  BY CursorsAreTyped DEF NostrTypeOK, SenderTypeOK, ReceiverTypeOK, NostrConstants
<1>2. cursorEvent' = [stream |-> cursorEvent.stream + 1, cur |-> known, last |-> 0]
  BY DEF Resync
<1>3. cursorEvent.stream + 1 <= MaxStreams
  BY <1>1 DEF Resync
<1> QED BY <1>1, <1>2, <1>3 DEF Resync, Streams

\* What Peer applies moves its cursor.
LEMMA ApplyEffect ==
    ASSUME NostrTypeOK, Apply
    PROVE  \E e \in buffer :
             /\ e \in AnyEvent /\ phase = "live" /\ applied = NoEvent /\ Follows(e)
             /\ buffer' = buffer \ {e} /\ applied' = e
             /\ have' = have \cup {v \in Range(e.data) : v >= known}
             /\ known' \in 0 .. written /\ known <= known'
             /\ \A v \in Range(e.data) : v <= known'
             /\ known' = known \/ known' \in Range(e.data)
<1>1. PICK e \in buffer :
        /\ phase = "live" /\ applied = NoEvent /\ Follows(e)
        /\ have' = have \cup {v \in Range(e.data) : v >= known}
        /\ known' = Upto(known, e.data) /\ buffer' = buffer \ {e} /\ applied' = e
  BY DEF Apply
<1>2. e \in AnyEvent
  BY DEF AnyEvent
<1>3. Range(e.data) \subseteq 1 .. written /\ known \in 0 .. written /\ written \in Nat
  BY <1>2, EventsAreTyped, CursorsAreTyped DEF NostrTypeOK, ReceiverTypeOK
<1>4. /\ known' \in 0 .. written /\ known <= known'
      /\ \A v \in Range(e.data) : v <= known'
      /\ known' = known \/ known' \in Range(e.data)
  BY <1>1, <1>3, UptoMovesOn
<1> QED BY <1>1, <1>2, <1>4

\* What was applied is noted in both cursors of the receiver.
LEMMA NoteEffect ==
    ASSUME NostrTypeOK, Note
    PROVE  /\ applied \in AnyEvent /\ applied # NoEvent /\ applied' = NoEvent
           /\ recv' \in Streams /\ stored' = recv' /\ recv'.stream = recv.stream
           /\ recv'.last = applied.id /\ recv'.cur \in 0 .. written /\ recv.cur <= recv'.cur
           /\ \A v \in Range(applied.data) : v <= recv'.cur
           /\ recv'.cur = recv.cur \/ recv'.cur \in Range(applied.data)
<1>1. /\ applied \in AnyEvent /\ applied # NoEvent /\ applied' = NoEvent /\ stored' = recv'
      /\ recv' = [recv EXCEPT !.cur = Upto(recv.cur, applied.data), !.last = applied.id]
  BY DEF Note, AnyEvent, InHand
<1>2. applied.id \in Nat /\ Range(applied.data) \subseteq 1 .. written /\ IsCursor(recv)
  BY <1>1, EventsAreTyped, CursorsAreTyped
<1>3. /\ Upto(recv.cur, applied.data) \in 0 .. written /\ recv.cur <= Upto(recv.cur, applied.data)
      /\ Upto(recv.cur, applied.data) \in 0 .. MaxWrites
      /\ \A v \in Range(applied.data) : v <= Upto(recv.cur, applied.data)
      /\ Upto(recv.cur, applied.data) = recv.cur \/ Upto(recv.cur, applied.data) \in Range(applied.data)
  BY <1>2, CursorMovesOn
<1>4. /\ recv' \in Streams /\ recv'.stream = recv.stream /\ recv'.last = applied.id
      /\ recv'.cur = Upto(recv.cur, applied.data)
  BY <1>1, <1>2, <1>3 DEF Streams, IsCursor
<1> QED BY <1>1, <1>3, <1>4

\* What the receiver does when it begins: ask for a new stream, resume the one
\* it has stored, or take up what the relays have of it.
AsksAnew ==
    /\ phase \in {"off", "subscribing"} /\ (phase = "off" \/ applied = NoEvent)
    /\ Resync
    /\ UNCHANGED <<senderVars, have, known, applied, stops, overtaken, cutShort, abandoned, covered>>
Resumes ==
    /\ phase = "off" /\ stored # NoStream /\ ~ (known < stored.cur)
    /\ recv' = stored /\ phase' = "subscribing"
    /\ UNCHANGED <<stored, buffer, relayVars, senderVars, have, known, applied, stops, ghostVars>>
GoesLive ==
    /\ phase = "subscribing" /\ applied = NoEvent
    /\ buffer' = Buffered(Stored) /\ phase' = "live"
    /\ UNCHANGED <<stored, recv, relayVars, senderVars, have, known, applied, stops, ghostVars>>

\* Its steps are these and those of the stream.
LEMMA ReceiverShapes ==
    ASSUME ReceiverStep
    PROVE  AsksAnew \/ Resumes \/ GoesLive \/ OnChanges \/ Apply \/ Note \/ Reconnect \/ Lose
           \/ RestartReceiver
<1>1. CASE Start
  BY <1>1 DEF Start, AsksAnew, Resumes, ghostVars
<1>2. CASE Subscribe
  <2>1. CASE recv.last # 0 /\ Stored = {}
    <3>1. Resync /\ phase = "subscribing" /\ applied = NoEvent
      BY <1>2, <2>1 DEF Subscribe
    <3>2. UNCHANGED <<senderVars, have, known, applied, stops, overtaken, cutShort, abandoned, covered>>
      BY <1>2 DEF Subscribe
    <3> QED BY <3>1, <3>2 DEF AsksAnew
  <2>2. CASE ~ (recv.last # 0 /\ Stored = {})
    <3>1. /\ phase = "subscribing" /\ applied = NoEvent /\ buffer' = Buffered(Stored)
          /\ phase' = "live" /\ UNCHANGED <<stored, recv, relayVars, suspect>>
      BY <1>2, <2>2 DEF Subscribe
    <3>2. UNCHANGED <<senderVars, have, known, applied, stops, overtaken, cutShort, abandoned, covered>>
      BY <1>2 DEF Subscribe
    <3> QED BY <3>1, <3>2 DEF GoesLive, ghostVars
  <2> QED BY <2>1, <2>2
<1> QED BY <1>1, <1>2 DEF ReceiverStep

\* What the receiver takes up is of its stream and on the relays.
LEMMA BufferIsOfStream ==
    ASSUME GoesLive \/ OnChanges
    PROVE  /\ phase' = "live" /\ buffer' \subseteq buffer \cup events
           /\ GoesLive => buffer' \subseteq events
           /\ \A e \in buffer' : (e \in buffer /\ ~GoesLive) \/ (e.stream = recv.stream /\ e \in events)
<1>1. CASE GoesLive
  <2>1. buffer' \subseteq Stored /\ Stored \subseteq {e \in events : e.stream = recv.stream}
    BY <1>1 DEF GoesLive, Buffered, Stored
  <2> QED BY <1>1, <2>1 DEF GoesLive
<1>2. CASE OnChanges /\ ~GoesLive
  <2>1. PICK e \in events :
          /\ e.stream = recv.stream /\ buffer' = {f \in buffer : f.prev # e.prev} \cup {e}
    BY <1>2 DEF OnChanges
  <2> QED BY <1>2, <2>1 DEF OnChanges
<1> QED BY <1>1, <1>2

\* Versions and event ids are only given out.
LEMMA CountersGrow ==
    ASSUME NostrTypeOK, [Next]_vars
    PROVE  written <= written' /\ lastId <= lastId' /\ written' \in Nat /\ lastId' \in Nat
<1>1. written \in Nat /\ lastId \in Nat
  BY CursorsAreTyped
<1>2. CASE Write
  BY <1>1, <1>2 DEF Write, relayVars
<1>3. CASE Publish
  BY <1>1, <1>3 DEF Publish
<1>4. CASE ReceiverStep
  <2>1. UNCHANGED <<written, lastId>>
    BY <1>4, ReceiverShapes DEF AsksAnew, Resync, Resumes, GoesLive, OnChanges, Apply, Note, Reconnect,
       Lose, RestartReceiver, senderVars, relayVars
  <2> QED BY <1>1, <2>1
<1>5. CASE BroadcastSend \/ CancelSync \/ OnSync \/ SyncRead \/ SyncSend \/ SyncDrain
           \/ OnCursor \/ CallSync \/ PublishPending \/ Published \/ Abandon \/ RestartSender
           \/ UNCHANGED vars
  <2>1. UNCHANGED <<written, lastId>>
    BY <1>5 DEF BroadcastSend, CancelSync, OnSync, SyncRead, SyncSend, SyncDrain, OnCursor, CallSync,
       PublishPending, Published, Abandon, RestartSender, vars, senderVars, relayVars
  <2> QED BY <1>1, <2>1
<1> QED BY <1>2, <1>3, <1>4, <1>5 DEF Next, ReceiverStep

\* The receiver and the cursors keep their types.
LEMMA ReceiverTypesKept ==
    ASSUME NostrTypeOK, PeerIsConsistent, StreamsAreInOrder, [Next]_vars
    PROVE  ReceiverTypeOK'
<1>0. /\ written <= written' /\ lastId <= lastId' /\ written' \in Nat /\ lastId' \in Nat
      /\ written \in Nat /\ lastId \in Nat
  BY CountersGrow, CursorsAreTyped
<1>1. /\ IsCursor(send) /\ IsCursor(saved) /\ IsCursor(cursorEvent) /\ IsCursor(stored)
      /\ IsCursor(recv) /\ known \in 0 .. written /\ have \subseteq 1 .. written
      /\ phase \in {"off", "subscribing", "live"}
  BY CursorsAreTyped DEF NostrTypeOK, ReceiverTypeOK
<1> DEFINE Fits(c) == c \in Streams /\ c.cur <= written' /\ c.last <= lastId'
<1>2. ASSUME NEW c, IsCursor(c) PROVE Fits(c)
  <2>1. c \in Streams /\ c.cur <= written /\ c.last <= lastId /\ c.cur \in Nat /\ c.last \in Nat
    BY <1>2 DEF IsCursor, Streams, NostrConstants
  <2> QED BY <2>1, <1>0
<1> HIDE DEF Fits
<1>3. SUFFICES /\ Fits(send') /\ Fits(saved') /\ Fits(cursorEvent') /\ Fits(stored') /\ Fits(recv')
               /\ known' \in 0 .. written' /\ have' \subseteq 1 .. written'
               /\ phase' \in {"off", "subscribing", "live"}
  BY DEF Fits, ReceiverTypeOK
<1>4. known \in 0 .. written' /\ have \subseteq 1 .. written'
  BY <1>0, <1>1
<1>5. CASE UNCHANGED receiverVars /\ UNCHANGED cursorEvent
  <2>1. Fits(send') /\ Fits(saved')
    <3>1. CASE SyncSend
      <4>1. send' \in Streams /\ send'.cur <= written /\ send'.last = send.last /\ UNCHANGED <<saved, written>>
        BY <3>1, SyncSendEffect DEF SyncSend
      <4>2. send'.last <= lastId' /\ Fits(saved)
        BY <4>1, <1>1, <1>2 DEF Fits
      <4>3. send.last <= lastId'
        BY <1>1, <1>2 DEF Fits
      <4> QED BY <4>1, <4>2, <4>3 DEF Fits
    <3>2. CASE SyncDrain
      <4>1. send' \in Streams /\ send'.cur <= written /\ send'.last = send.last /\ UNCHANGED <<saved, written>>
        BY <3>2, SyncDrainEffect DEF SyncDrain
      <4>2. send.last <= lastId' /\ Fits(saved)
        BY <1>1, <1>2 DEF Fits
      <4> QED BY <4>1, <4>2 DEF Fits
    <3>3. CASE OnCursor
      BY <1>1, <1>2, <3>3 DEF OnCursor
    <3>4. CASE Published
      <4>1. signed.id \in Nat /\ signed.id <= lastId
        BY <3>4, PublishedEffect, EventsAreTyped DEF StreamsAreInOrder
      <4>2. CASE UNCHANGED <<send, saved>>
        BY <4>2, <1>1, <1>2
      <4>3. CASE ~UNCHANGED <<send, saved>>
        <5>1. /\ send' \in Streams /\ send'.cur \in 0 .. written /\ send'.last = signed.id /\ saved' = send'
          BY <3>4, <4>3, PublishedEffect
        <5>2. UNCHANGED <<written, lastId>>
          BY <3>4 DEF Published, relayVars
        <5> QED BY <5>1, <5>2, <4>1, <1>0 DEF Fits
      <4> QED BY <4>2, <4>3
    <3>5. CASE RestartSender
      BY <1>1, <1>2, <3>5 DEF RestartSender
    <3>6. CASE UNCHANGED <<send, saved>>
      BY <3>6, <1>1, <1>2
    <3>7. ReceiverStep => UNCHANGED senderVars
      BY ReceiverShapes DEF AsksAnew, Resync, Resumes, GoesLive, OnChanges, Apply, Note, Reconnect,
         Lose, RestartReceiver
    <3>8. Write \/ BroadcastSend \/ CancelSync \/ OnSync \/ SyncRead \/ CallSync \/ PublishPending \/ Publish
          \/ Abandon \/ UNCHANGED vars => UNCHANGED <<send, saved>>
      BY DEF Write, BroadcastSend, CancelSync, OnSync, SyncRead, CallSync, PublishPending, Publish,
         Abandon, vars, senderVars
    <3> QED BY <3>1, <3>2, <3>3, <3>4, <3>5, <3>6, <3>7, <3>8 DEF Next, ReceiverStep, senderVars
  <2> QED BY <1>1, <1>2, <1>4, <1>5, <2>1 DEF receiverVars
<1>6. CASE ReceiverStep /\ UNCHANGED senderVars
  <2>1. Fits(send') /\ Fits(saved') /\ written' = written
    BY <1>1, <1>2, <1>6 DEF senderVars
  <2>2. CASE AsksAnew
    <3>1. /\ cursorEvent' \in Streams /\ cursorEvent'.cur = known /\ cursorEvent'.last = 0
          /\ recv' = cursorEvent' /\ stored' = cursorEvent' /\ phase' = "subscribing"
      BY <2>2, ResyncEffect DEF AsksAnew
    <3>2. Fits(cursorEvent')
      BY <3>1, <1>0, <1>4 DEF Fits
    <3> QED BY <1>4, <2>1, <2>2, <3>1, <3>2 DEF AsksAnew
  <2>3. CASE Resumes \/ GoesLive \/ OnChanges \/ Reconnect
    BY <1>1, <1>2, <1>4, <2>1, <2>3 DEF Resumes, GoesLive, OnChanges, Reconnect, relayVars
  <2>4. CASE Apply
    <3>1. PICK e \in buffer :
             /\ e \in AnyEvent /\ have' = have \cup {v \in Range(e.data) : v >= known}
             /\ known' \in 0 .. written
      BY <2>4, ApplyEffect
    <3>2. Range(e.data) \subseteq 1 .. written
      BY <3>1, EventsAreTyped
    <3>3. UNCHANGED <<cursorEvent, stored, recv, phase>>
      BY <2>4 DEF Apply, relayVars
    <3> QED BY <1>1, <1>2, <1>4, <2>1, <3>1, <3>2, <3>3
  <2>5. CASE Note
    <3>1. /\ applied.id <= lastId /\ applied.id \in Nat
      BY <2>5, NoteEffect, EventsAreTyped DEF StreamsAreInOrder
    <3>2. /\ recv' \in Streams /\ stored' = recv' /\ recv'.last = applied.id /\ recv'.cur \in 0 .. written
      BY <2>5, NoteEffect
    <3>3. UNCHANGED <<cursorEvent, have, known, phase>>
      BY <2>5 DEF Note, relayVars
    <3>4. Fits(recv')
      BY <3>1, <3>2, <2>1, <1>0 DEF Fits
    <3> QED BY <1>1, <1>2, <1>4, <2>1, <3>2, <3>3, <3>4
  <2>6. CASE Lose
    BY <1>1, <1>2, <1>4, <2>1, <2>6 DEF Lose, receiverVars
  <2>7. CASE RestartReceiver
    <3>1. Fits(NoStream)
      BY <1>0 DEF Fits, NoStream, Streams, NostrConstants
    <3> QED BY <1>1, <1>2, <1>4, <2>1, <2>7, <3>1 DEF RestartReceiver, relayVars
  <2> QED BY <1>6, <2>2, <2>3, <2>4, <2>5, <2>6, <2>7, ReceiverShapes
<1> QED BY <1>5, <1>6, StepsOfTheParties DEF vars, relayVars

\* The events on the relays, in the receiver's buffer and in hand are events.
LEMMA EventsKept ==
    ASSUME NostrTypeOK, [Next]_vars
    PROVE  AnyEvent' \subseteq AnyEvent \/ (Publish /\ AnyEvent' \subseteq AnyEvent \cup {signed'})
<1>1. CASE PeerStep /\ UNCHANGED <<relayVars, receiverVars, stops, saved, batches, signed,
                                   cutShort, abandoned, suspect, covered>>
  BY <1>1 DEF AnyEvent, InHand, relayVars, receiverVars
<1>2. CASE UNCHANGED vars
  BY <1>2 DEF AnyEvent, InHand, vars, relayVars, receiverVars, senderVars
<1>3. CASE Publish
  BY <1>3, PublishEffect DEF AnyEvent, InHand, Publish, receiverVars
<1>4. CASE SendStep /\ ~Publish /\ UNCHANGED receiverVars
  <2>1. UNCHANGED events /\ (signed' = signed \/ signed' = NoEvent)
    BY <1>4 DEF SendStep, OnCursor, CallSync, PublishPending, Published, Abandon, RestartSender, relayVars
  <2> QED BY <1>4, <2>1 DEF AnyEvent, InHand, receiverVars
<1>5. CASE ReceiverStep /\ UNCHANGED senderVars
  <2>1. events' \subseteq events /\ signed' = signed
    BY <1>5, ReceiverShapes DEF AsksAnew, Resync, Resumes, GoesLive, OnChanges, Apply, Note, Reconnect,
       Lose, RestartReceiver, relayVars, senderVars
  <2>2. CASE AsksAnew \/ Resumes \/ Reconnect \/ Lose \/ RestartReceiver \/ Note
    <3>1. buffer' \subseteq buffer /\ (applied' = applied \/ applied' = NoEvent)
      BY <2>2 DEF AsksAnew, Resync, Resumes, Note, Reconnect, Lose, RestartReceiver, receiverVars
    <3> QED BY <2>1, <3>1 DEF AnyEvent, InHand
  <2>3. CASE GoesLive \/ OnChanges
    <3>1. buffer' \subseteq buffer \cup events /\ applied' = applied
      BY <2>3, BufferIsOfStream DEF GoesLive, OnChanges
    <3> QED BY <2>1, <3>1 DEF AnyEvent, InHand
  <2>4. CASE Apply
    <3>1. PICK e \in buffer : buffer' = buffer \ {e} /\ applied' = e
      BY <2>4, ApplyEffect
    <3> QED BY <2>1, <3>1 DEF AnyEvent, InHand
  <2> QED BY <1>5, <2>2, <2>3, <2>4, ReceiverShapes
<1> QED BY <1>1, <1>2, <1>3, <1>4, <1>5, StepsOfTheParties


\* An event covers what the current stream is said to reach.
LEMMA ReachedIsTyped ==
    ASSUME NostrTypeOK, NEW n \in 0 .. lastId
    PROVE  Reached(n) \in 0 .. MaxWrites /\ Reached(n) \in Nat
<1>1. covered \in [1 .. lastId -> 0 .. MaxWrites] /\ lastId \in Nat /\ MaxWrites \in Nat
  BY DEF NostrTypeOK, EventTypeOK, NostrConstants
<1>2. cursorEvent.cur \in 0 .. MaxWrites
  BY CursorsAreTyped DEF IsCursor, Streams
<1>3. n # 0 => n \in 1 .. lastId
  BY <1>1
<1> QED BY <1>1, <1>2, <1>3 DEF Reached

\* How far an event reaches is recorded when it is published.
LEMMA CoveredGrows ==
    ASSUME NostrTypeOK, [Next]_vars
    PROVE  \/ ~Publish /\ UNCHANGED <<covered, lastId>>
           \/ /\ Publish /\ lastId' = lastId + 1
              /\ covered' \in [1 .. lastId + 1 -> 0 .. MaxWrites]
              /\ \A n \in 1 .. lastId : covered'[n] = covered[n]
              /\ covered'[lastId + 1] = Upto(Reached(send.last), batches[1])
<1>1. CASE Publish
  <2>1. /\ covered' = Append(covered, Upto(Reached(send.last), batches[1])) /\ lastId' = lastId + 1
        /\ batches # <<>>
    BY <1>1, PublishEffect
  <2>2. covered \in [1 .. lastId -> 0 .. MaxWrites] /\ lastId \in Nat /\ MaxWrites \in Nat
    BY DEF NostrTypeOK, EventTypeOK, NostrConstants
  <2>3. covered \in Seq(0 .. MaxWrites) /\ Len(covered) = lastId
    <3>1. covered \in Seq(0 .. MaxWrites)
      BY <2>2, SeqDef
    <3>2. DOMAIN covered = 1 .. Len(covered) /\ Len(covered) \in Nat
      BY <3>1, LenProperties
    <3> QED BY <2>2, <3>1, <3>2
  <2>4. send.last \in 0 .. lastId
    BY CursorsAreTyped DEF IsCursor
  <2>5. Range(batches[1]) \subseteq 1 .. MaxWrites
    <3>1. batches \in Seq(Seq(Versions))
      BY DEF NostrTypeOK, SenderTypeOK
    <3> QED BY <2>1, <3>1, RangeHeadTail, RangeIsWithin DEF Versions
  <2>6. Upto(Reached(send.last), batches[1]) \in 0 .. MaxWrites
    BY <2>2, <2>4, <2>5, ReachedIsTyped, UptoMovesOn
  <2>7. /\ covered' \in Seq(0 .. MaxWrites) /\ Len(covered') = lastId + 1
        /\ \A n \in 1 .. lastId : covered'[n] = covered[n]
        /\ covered'[lastId + 1] = Upto(Reached(send.last), batches[1])
    BY <2>1, <2>3, <2>6, RangeAppend
  <2>8. covered' \in [1 .. lastId + 1 -> 0 .. MaxWrites]
    BY <2>7, LenProperties
  <2> QED BY <1>1, <2>1, <2>7, <2>8
<1>2. CASE ReceiverStep
  <2>1. UNCHANGED <<covered, lastId>>
    BY <1>2, ReceiverShapes DEF AsksAnew, Resync, Resumes, GoesLive, OnChanges, Apply, Note, Reconnect,
       Lose, RestartReceiver, relayVars, ghostVars
  <2>2. covered' # covered => ~UNCHANGED covered
    OBVIOUS
  <2>3. ~Publish
    <3>1. Publish => lastId' = lastId + 1
      BY DEF Publish
    <3>2. lastId \in Nat
      BY CursorsAreTyped
    <3> QED BY <2>1, <3>1, <3>2
  <2> QED BY <2>1, <2>3
<1>3. CASE ~ReceiverStep /\ ~Publish
  <2>1. UNCHANGED <<covered, lastId>>
    BY <1>3 DEF Next, ReceiverStep, Write, BroadcastSend, CancelSync, OnSync, SyncRead, SyncSend, SyncDrain, OnCursor, CallSync,
       PublishPending, Published, Abandon, RestartSender, vars, ghostVars, relayVars
  <2> QED BY <1>3, <2>1
<1> QED BY <1>1, <1>2, <1>3

\* A step is one stop at most.
LEMMA StopsMove ==
    ASSUME NostrTypeOK, [Next]_vars
    PROVE  stops \in Nat /\ stops' \in Nat /\ stops' \in {stops, stops + 1}
<1>1. stops \in Nat
  BY DEF NostrTypeOK, EventTypeOK
<1>2. stops' \in {stops, stops + 1}
  <2>1. CASE ReceiverStep
    BY <2>1, ReceiverShapes DEF AsksAnew, Resumes, GoesLive, OnChanges, Apply, Note, Reconnect,
       Lose, RestartReceiver
  <2>2. CASE ~ReceiverStep
    BY <2>2 DEF Next, ReceiverStep, Write, BroadcastSend, CancelSync, OnSync, SyncRead, SyncSend,
       SyncDrain, OnCursor, CallSync, PublishPending, Publish, Published, Abandon, RestartSender, vars
  <2> QED BY <2>1, <2>2
<1> QED BY <1>1, <1>2

\* The events and the counts keep their types.
LEMMA EventTypesKept ==
    ASSUME NostrTypeOK, PeerIsConsistent, [Next]_vars
    PROVE  EventTypeOK'
<1>0. written <= written' /\ written' \in Nat /\ written \in Nat /\ lastId \in Nat /\ MaxWrites \in Nat
  BY CountersGrow, CursorsAreTyped DEF NostrConstants
<1>1. ASSUME NEW e \in AnyEvent' PROVE e \in Events /\ \A v \in Range(e.data) : v <= written'
  <2>1. CASE e \in AnyEvent
    <3>1. e \in Events /\ Range(e.data) \subseteq 1 .. written
      BY <2>1, EventsAreTyped
    <3> QED BY <3>1, <1>0
  <2>2. CASE e \notin AnyEvent
    <3>1. Publish /\ e = signed'
      BY <1>1, <2>2, EventsKept
    <3>2. e \in Events /\ e.data = batches[1] /\ Range(batches[1]) \subseteq InFlight /\ UNCHANGED written
      BY <3>1, PublishEffect DEF Publish
    <3>3. \A v \in InFlight : v <= written
      BY DEF NostrTypeOK, SenderTypeOK
    <3> QED BY <3>2, <3>3
  <2> QED BY <2>1, <2>2
<1>2. covered' \in [1 .. lastId' -> 0 .. MaxWrites] /\ lastId' \in Nat
  BY CoveredGrows, <1>0 DEF NostrTypeOK, EventTypeOK
<1>3. lost' \in Nat /\ stops' \in Nat
  <2>1. lost \in Nat
    BY DEF NostrTypeOK, EventTypeOK
  <2>2. lost' \in {lost, lost + 1}
    <3>1. CASE ReceiverStep
      BY <3>1, ReceiverShapes DEF AsksAnew, Resync, Resumes, GoesLive, OnChanges, Apply, Note, Reconnect,
       Lose, RestartReceiver, relayVars
    <3>2. CASE ~ReceiverStep
      BY <3>2 DEF Next, ReceiverStep, Write, BroadcastSend, CancelSync, OnSync, SyncRead, SyncSend,
       SyncDrain, OnCursor, CallSync, PublishPending, Publish, Published, Abandon, RestartSender, vars, relayVars
    <3> QED BY <3>1, <3>2
  <2> QED BY <2>1, <2>2, StopsMove
<1>4. {overtaken', cutShort', abandoned', suspect'} \subseteq BOOLEAN
  <2>1. {overtaken, cutShort, abandoned, suspect} \subseteq BOOLEAN
    BY DEF NostrTypeOK, EventTypeOK
  <2>2. CASE ReceiverStep
    BY <2>1, <2>2, ReceiverShapes DEF AsksAnew, Resync, Resumes, GoesLive, OnChanges, Apply, Note, Reconnect,
       Lose, RestartReceiver, relayVars, ghostVars
  <2>3. CASE ~ReceiverStep
    BY <2>1, <2>3 DEF Next, ReceiverStep, Write, BroadcastSend, CancelSync, OnSync, SyncRead, SyncSend,
       SyncDrain, OnCursor, CallSync, PublishPending, Publish, Published, Abandon, RestartSender, vars, ghostVars
  <2> QED BY <2>2, <2>3
<1> QED BY <1>1, <1>2, <1>3, <1>4 DEF EventTypeOK

---------------------------------------------------------------------------
(* The receiver.                                                           *)

\* What the receiver holds stays of the stream it has stored.
LEMMA FollowingKept ==
    ASSUME NostrTypeOK, ReceiverFollowsOneStream, StreamsAreInOrder, [Next]_vars
    PROVE  ReceiverFollowsOneStream'
<1> USE DEF ReceiverFollowsOneStream
<1>0. stored.stream \in Nat /\ cursorEvent.stream \in Nat
  BY CursorsAreTyped
<1>1. CASE UNCHANGED <<receiverVars, cursorEvent>>
  BY <1>1 DEF receiverVars, Follows
<1>2. CASE AsksAnew
  <2>1. /\ cursorEvent'.stream = cursorEvent.stream + 1 /\ recv' = cursorEvent' /\ stored' = cursorEvent'
        /\ phase' = "subscribing" /\ buffer' = {} /\ applied' = applied
    BY <1>2, ResyncEffect DEF AsksAnew
  <2>2. applied = NoEvent
    BY <1>2 DEF AsksAnew
  <2> QED BY <1>0, <2>1, <2>2
<1>3. CASE Resumes
  <2>1. /\ phase = "off" /\ stored # NoStream /\ recv' = stored /\ phase' = "subscribing"
        /\ UNCHANGED <<stored, buffer, cursorEvent, applied>>
    BY <1>3 DEF Resumes, relayVars
  <2> QED BY <2>1
<1>4. CASE GoesLive \/ OnChanges
  <2>1. /\ phase' = "live" /\ \A e \in buffer' : e \in buffer \/ e.stream = recv.stream
        /\ phase # "off" /\ UNCHANGED <<stored, recv, cursorEvent, applied>>
    BY <1>4, BufferIsOfStream DEF GoesLive, OnChanges, relayVars
  <2> QED BY <2>1 DEF Follows
<1>5. CASE Apply
  <2>1. PICK e \in buffer : /\ phase = "live" /\ Follows(e) /\ buffer' = buffer \ {e} /\ applied' = e
    BY <1>5, ApplyEffect
  <2>2. UNCHANGED <<stored, recv, cursorEvent, phase>>
    BY <1>5 DEF Apply, relayVars
  <2> QED BY <2>1, <2>2 DEF Follows
<1>6. CASE Note
  <2>1. /\ applied # NoEvent /\ applied' = NoEvent /\ stored' = recv' /\ recv'.stream = recv.stream
    BY <1>6, NoteEffect
  <2>2. UNCHANGED <<buffer, cursorEvent, phase>>
    BY <1>6 DEF Note, relayVars
  <2> QED BY <2>1, <2>2
<1>7. CASE Reconnect
  BY <1>7 DEF Reconnect, relayVars
<1>8. CASE Lose
  BY <1>8 DEF Lose, receiverVars, Follows
<1>9. CASE RestartReceiver
  BY <1>9 DEF RestartReceiver, relayVars
<1> QED BY <1>1, <1>2, <1>3, <1>4, <1>5, <1>6, <1>7, <1>8, <1>9, StepsOfTheParties, ReceiverShapes
        DEF relayVars, vars

\* The cursors of the receiver's Peer and of its stream move as these steps say.
LEMMA KnownMoves ==
    ASSUME NostrTypeOK, [Next]_vars
    PROVE  known <= known' /\ known' \in Nat /\ (Apply \/ UNCHANGED <<known, have>>)
<1>1. CASE Apply
  BY <1>1, ApplyEffect, CursorsAreTyped
<1>2. CASE ~Apply
  <2>1. ReceiverStep => UNCHANGED <<known, have>>
    BY <1>2, ReceiverShapes DEF AsksAnew, Resumes, GoesLive, OnChanges, Note, Reconnect, Lose,
       RestartReceiver, receiverVars
  <2>2. UNCHANGED <<known, have>>
    BY <2>1, StepsOfTheParties DEF receiverVars, vars
  <2> QED BY <2>2, CursorsAreTyped
<1> QED BY <1>1, <1>2

\* The stored recv cursor stays behind what was applied.
LEMMA StoredIsAppliedKept ==
    ASSUME NostrInv, [Next]_vars
    PROVE  StoredIsApplied'
<1>1. NostrTypeOK /\ stored.cur <= known /\ ReceiverFollowsOneStream /\ NothingIsSkipped
  BY DEF NostrInv, StoredIsApplied
<1>2. known <= known' /\ known' \in Nat /\ known \in Nat /\ stored.cur \in Nat
  BY <1>1, KnownMoves, CursorsAreTyped
<1>3. CASE UNCHANGED stored
  BY <1>1, <1>2, <1>3 DEF StoredIsApplied
<1>4. CASE AsksAnew
  BY <1>1, <1>2, <1>4, ResyncEffect DEF StoredIsApplied, AsksAnew
<1>5. CASE Note
  <2>1. applied # NoEvent /\ stored' = recv' /\ (recv'.cur = recv.cur \/ recv'.cur \in Range(applied.data))
    BY <1>1, <1>5, NoteEffect
  <2>2. recv = stored
    BY <1>1, <2>1 DEF ReceiverFollowsOneStream
  <2>3. recv'.cur <= known
    BY <1>1, <2>1, <2>2 DEF NothingIsSkipped
  <2>4. known' = known
    BY <1>5 DEF Note
  <2> QED BY <2>1, <2>3, <2>4 DEF StoredIsApplied
<1> QED BY <1>3, <1>4, <1>5, StepsOfTheParties, ReceiverShapes
        DEF Resumes, GoesLive, OnChanges, Apply, Reconnect, Lose, RestartReceiver, receiverVars, vars

---------------------------------------------------------------------------
(* The order of the streams, and of the events of one.                     *)

\* What the steps do to the relays' events and to the sender's stream.
LEMMA EventsMove ==
    ASSUME NostrTypeOK, [Next]_vars
    PROVE  \/ Publish /\ events' = events \cup {signed'}
           \/ ~Publish /\ events' \subseteq events
<1>1. CASE Publish
  BY <1>1, PublishEffect
<1>2. CASE ~Publish
  <2>1. CASE ReceiverStep
    BY <1>2, <2>1, ReceiverShapes DEF AsksAnew, Resync, Resumes, GoesLive, OnChanges, Apply, Note, Reconnect, Lose,
       RestartReceiver, relayVars
  <2>2. CASE ~ReceiverStep
    BY <1>2, <2>2 DEF Next, ReceiverStep, Write, BroadcastSend, CancelSync, OnSync, SyncRead, SyncSend, SyncDrain, OnCursor, CallSync,
       PublishPending, Published, Abandon, RestartSender, vars, relayVars
  <2> QED BY <1>2, <2>1, <2>2
<1> QED BY <1>1, <1>2

\* The sender keeps its stream, but where it takes up another or notes an event.
LEMMA StreamOfSender ==
    ASSUME NostrTypeOK, PeerIsConsistent, [Next]_vars
    PROVE  \/ OnCursor
           \/ RestartSender
           \/ Published
           \/ /\ send'.stream = send.stream /\ send'.last = send.last /\ send.cur <= send'.cur
              /\ send' \in Streams /\ saved' = saved
              /\ send' # send => (SyncSend \/ SyncDrain) /\ Aliased
              /\ Publish \/ signed' = signed
<1>0. send.cur \in Nat /\ send \in Streams /\ send.cur <= send.cur
  BY CursorsAreTyped DEF IsCursor
<1>1. CASE SyncSend
  BY <1>0, <1>1, SyncSendEffect DEF SyncSend, Told
<1>2. CASE SyncDrain
  BY <1>0, <1>2, SyncDrainEffect DEF SyncDrain, Told
<1>3. CASE ReceiverStep /\ UNCHANGED senderVars
  BY <1>0, <1>3 DEF senderVars
<1>4. CASE Write \/ BroadcastSend \/ CancelSync \/ OnSync \/ SyncRead \/ CallSync \/ PublishPending
           \/ Publish \/ Abandon \/ UNCHANGED vars
  <2>1. UNCHANGED <<send, saved>> /\ (Publish \/ signed' = signed)
    BY <1>4 DEF Write, BroadcastSend, CancelSync, OnSync, SyncRead, CallSync, PublishPending,
       Publish, Abandon, vars, senderVars
  <2> QED BY <1>0, <2>1
<1> QED BY <1>1, <1>2, <1>3, <1>4, StepsOfTheParties DEF PeerStep, SendStep

\* As long as nothing has stopped, an event is the last of its stream or followed.
LEMMA FirstLifeKept ==
    ASSUME NostrInv, [Next]_vars
    PROVE  FirstLife'
<1>1. NostrTypeOK /\ FirstLife /\ StreamsAreInOrder /\ PeerIsConsistent
  BY DEF NostrInv
<1>2. SUFFICES ASSUME stops' = 0, NEW e \in events'
               PROVE  /\ e.stream <= send'.stream
                      /\ e.stream = send'.stream /\ e # signed' => e.id <= send'.last
  BY DEF FirstLife
<1>3. stops = 0 /\ ~RestartSender
  <2>1. stops \in Nat
    BY <1>1 DEF NostrTypeOK, EventTypeOK
  <2>2. RestartSender => stops' # 0
    BY <2>1 DEF RestartSender
  <2>3. stops' = stops \/ stops' = stops + 1
    BY <1>1, StopsMove
  <2> QED BY <2>1, <2>2, <2>3, <1>2
<1>4. CASE Publish
  <2>1. signed = NoEvent /\ signed'.stream = send.stream /\ UNCHANGED send /\ send.stream \in Nat
    BY <1>1, <1>4, PublishEffect, CursorsAreTyped
  <2>2. CASE e = signed'
    BY <2>1, <2>2
  <2>3. CASE e # signed'
    <3>1. e \in events /\ e \in AnyEvent
      BY <1>1, <1>2, <2>3, EventsMove DEF AnyEvent
    <3>2. e # signed
      BY <1>1, <2>1, <3>1, EventsAreTyped
    <3> QED BY <1>1, <1>3, <2>1, <3>1, <3>2 DEF FirstLife
  <2> QED BY <2>2, <2>3
<1>5. CASE ~Publish
  <2>1. e \in events /\ e \in AnyEvent
    BY <1>1, <1>2, <1>5, EventsMove DEF AnyEvent
  <2>2. e.stream <= send.stream /\ (e.stream = send.stream /\ e # signed => e.id <= send.last)
    BY <1>1, <1>3, <2>1 DEF FirstLife
  <2>3. e.stream \in Nat /\ send.stream \in Nat /\ e # NoEvent /\ e.id \in Nat /\ send.last \in Nat
    BY <1>1, <2>1, EventsAreTyped, CursorsAreTyped
  <2>4. CASE OnCursor
    <3>1. send' = cursorEvent /\ send.stream # cursorEvent.stream
      BY <1>1, <2>4, OnCursorEffect
    <3>2. send.stream <= cursorEvent.stream /\ cursorEvent.stream \in Nat
      BY <1>1, CursorsAreTyped DEF StreamsAreInOrder
    <3> QED BY <2>2, <2>3, <3>1, <3>2
  <2>5. CASE Published
    <3>1. signed \in AnyEvent /\ signed # NoEvent /\ signed' = NoEvent
      BY <1>1, <2>5, PublishedEffect
    <3>2. CASE signed.stream = send.stream
      <4>1. send'.stream = send.stream /\ send'.last = signed.id
        BY <1>1, <2>5, <3>2, PublishedEffect
      <4>2. signed.prev = send.last /\ signed.prev < signed.id /\ signed.id \in Nat /\ signed.prev \in Nat
        BY <1>1, <3>1, <3>2, EventsAreTyped DEF StreamsAreInOrder
      <4> QED BY <2>2, <2>3, <4>1, <4>2
    <3>3. CASE signed.stream # send.stream
      BY <1>1, <2>5, <3>3, <2>2, <3>1, PublishedEffect
    <3> QED BY <3>2, <3>3
  <2>6. CASE ~OnCursor /\ ~Published
    BY <1>1, <1>3, <1>5, <2>2, <2>6, StreamOfSender
  <2> QED BY <2>4, <2>5, <2>6
<1> QED BY <1>4, <1>5

\* Two events of a stream name the same one before only after a stop.
LEMMA ForksKept ==
    ASSUME NostrInv, [Next]_vars
    PROVE  ChainForksOnlyByRestart'
<1>1. NostrTypeOK /\ FirstLife /\ StreamsAreInOrder /\ ChainForksOnlyByRestart
  BY DEF NostrInv
<1>2. stops \in Nat /\ stops <= stops' /\ stops' \in Nat
  BY <1>1, StopsMove
<1>3. CASE ~Publish
  BY <1>1, <1>2, <1>3, EventsMove DEF ChainForksOnlyByRestart
<1>4. CASE Publish
  <2>1. /\ events' = events \cup {signed'} /\ signed = NoEvent /\ signed'.stream = send.stream
        /\ signed'.prev = send.last /\ stops' = stops
    BY <1>1, <1>4, PublishEffect DEF Publish
  <2>2. ASSUME stops = 0, NEW e \in events, e.stream = send.stream PROVE e.prev # send.last
    <3>1. e \in AnyEvent /\ e # signed /\ e.id \in Nat /\ e.prev \in Nat /\ send.last \in Nat
      BY <1>1, <2>1, EventsAreTyped, CursorsAreTyped DEF AnyEvent
    <3>2. e.prev < e.id /\ e.id <= send.last
      BY <1>1, <2>2, <3>1 DEF FirstLife, StreamsAreInOrder
    <3> QED BY <3>1, <3>2
  <2>3. stops = 0 \/ stops > 0
    BY <1>2
  <2> QED BY <1>1, <2>1, <2>2, <2>3 DEF ChainForksOnlyByRestart
<1> QED BY <1>3, <1>4

\* What the steps do to Peer and to what it has to do.
LEMMA PeerMoves ==
    ASSUME NostrTypeOK, PeerIsConsistent, [Next]_vars
    PROVE  \/ OnSync \/ RestartSender
           \/ peer'.stream = peer.stream
<1>1. CASE ReceiverStep /\ UNCHANGED senderVars
  BY <1>1 DEF senderVars
<1>2. CASE Write \/ CancelSync \/ SyncRead \/ SyncSend \/ SyncDrain \/ OnCursor
  BY <1>2, WriteEffect, CancelEffect, RowsAreVersions, SyncSendEffect, SyncDrainEffect, OnCursorEffect
<1>3. CASE BroadcastSend \/ CallSync \/ PublishPending \/ Publish \/ Published \/ Abandon \/ UNCHANGED vars
  BY <1>3 DEF BroadcastSend, CallSync, PublishPending, Publish, Published, Abandon, vars, senderVars
<1> QED BY <1>1, <1>2, <1>3, StepsOfTheParties DEF PeerStep, SendStep

\* The sender's streams follow one another.
LEMMA SenderStreamsKept ==
    ASSUME NostrInv, [Next]_vars
    PROVE  /\ saved'.stream <= send'.stream /\ send'.stream <= cursorEvent'.stream
           /\ saved'.stream = send'.stream => saved'.last = send'.last /\ saved'.cur <= send'.cur
           /\ \A c \in {send', saved', cursorEvent'} : c.stream = 0 => c = NoStream
           /\ Publishing' => send'.stream # 0
<1>1. NostrTypeOK /\ StreamsAreInOrder /\ PeerIsConsistent
  BY DEF NostrInv
<1>2. /\ saved.stream <= send.stream /\ send.stream <= cursorEvent.stream
      /\ saved.stream = send.stream => saved.last = send.last /\ saved.cur <= send.cur
      /\ (send.stream = 0 => send = NoStream) /\ (saved.stream = 0 => saved = NoStream)
      /\ (cursorEvent.stream = 0 => cursorEvent = NoStream)
      /\ Publishing => send.stream # 0
  BY <1>1 DEF StreamsAreInOrder
<1>3. /\ send.stream \in Nat /\ saved.stream \in Nat /\ cursorEvent.stream \in Nat
      /\ send.cur \in Nat /\ saved.cur \in Nat /\ send \in Streams
  BY <1>1, CursorsAreTyped DEF IsCursor
<1>4. CASE OnCursor
  <2>1. send' = cursorEvent /\ send.stream # cursorEvent.stream /\ cursorEvent.stream # 0
    BY <1>1, <1>4, OnCursorEffect
  <2>2. UNCHANGED <<saved, cursorEvent>>
    BY <1>4 DEF OnCursor, relayVars
  <2> QED BY <1>2, <1>3, <2>1, <2>2
<1>5. CASE RestartSender
  <2>1. send' = saved /\ saved' = saved /\ cursorEvent' = cursorEvent /\ ~Publishing'
    BY <1>5 DEF RestartSender, relayVars, Publishing
  <2> QED BY <1>2, <1>3, <2>1
<1>6. CASE Published
  <2>1. /\ UNCHANGED <<cursorEvent, batches>> /\ signed' = NoEvent /\ signed # NoEvent
    BY <1>6 DEF Published, relayVars
  <2>2. Publishing /\ send.stream # 0
    BY <1>2, <2>1 DEF Publishing
  <2>3. CASE signed.stream = send.stream
    <3>1. /\ saved' = send' /\ send'.stream = send.stream /\ send'.cur \in 0 .. written
      BY <1>1, <1>6, <2>3, PublishedEffect
    <3>2. saved'.cur <= send'.cur
      BY <3>1
    <3> QED BY <1>2, <1>3, <2>1, <2>2, <3>1, <3>2
  <2>4. CASE signed.stream # send.stream
    BY <1>1, <1>2, <1>6, <2>1, <2>2, <2>4, PublishedEffect
  <2> QED BY <2>3, <2>4
<1>7. CASE ~OnCursor /\ ~RestartSender /\ ~Published
  <2>1. /\ send'.stream = send.stream /\ send'.last = send.last /\ send.cur <= send'.cur
        /\ saved' = saved /\ send' \in Streams
        /\ send' # send => (SyncSend \/ SyncDrain) /\ Aliased
    BY <1>1, <1>7, StreamOfSender
  <2>2. send.stream = 0 => send' = NoStream
    <3>1. send' # send => peer.sync.step # "off" /\ peer.stream = send.stream
      BY <2>1 DEF SyncSend, SyncDrain, Aliased
    <3> QED BY <1>1, <1>2, <3>1 DEF PeerIsConsistent
  <2>3. cursorEvent' = cursorEvent \/ cursorEvent'.stream = cursorEvent.stream + 1
    <3>1. CASE AsksAnew
      BY <1>1, <3>1, ResyncEffect DEF AsksAnew
    <3>2. ~AsksAnew => UNCHANGED cursorEvent
      BY StepsOfTheParties, ReceiverShapes DEF Resumes, GoesLive, OnChanges, Apply, Note, Reconnect, Lose,
         RestartReceiver, relayVars, vars
    <3> QED BY <3>1, <3>2
  <2>4. Publishing' => Publishing \/ (PublishPending /\ send # NoStream)
    <3>1. CASE Publish
      BY <1>1, <3>1, PublishEffect DEF Publishing
    <3>2. CASE PublishPending
      BY <1>1, <3>2, PublishPendingEffect
    <3>3. CASE ~Publish /\ ~PublishPending
      <4>1. (batches' = batches \/ batches' = <<>>) /\ (signed' = signed \/ signed' = NoEvent)
        BY <3>3, StepsOfTheParties DEF SendStep, OnCursor, CallSync, Published, Abandon, RestartSender,
           senderVars, vars
      <4> QED BY <4>1 DEF Publishing
    <3> QED BY <3>1, <3>2, <3>3
  <2>5. cursorEvent'.stream = 0 => cursorEvent' = NoStream
    BY <1>2, <1>3, <2>3
  <2>6. send'.stream <= cursorEvent'.stream /\ saved'.stream <= send'.stream
    BY <1>2, <1>3, <2>1, <2>3
  <2>7. saved'.stream = send'.stream => saved'.last = send'.last /\ saved'.cur <= send'.cur
    <3>1. send'.cur \in Nat
      BY <2>1 DEF Streams, NostrConstants
    <3> QED BY <1>2, <1>3, <2>1, <3>1
  <2>8. Publishing' => send'.stream # 0
    BY <1>2, <2>1, <2>4 DEF PublishPending, NoStream
  <2> QED BY <1>2, <2>1, <2>2, <2>5, <2>6, <2>7, <2>8
<1> QED BY <1>4, <1>5, <1>6, <1>7

\* A resync is on its way, or Peer serves the sender's stream, or is called to.
IsServed ==
    \/ resync \/ peer.stream = send.stream
    \/ \E i \in DOMAIN calls : calls[i].type = "sync" /\ calls[i].stream = send.stream

\* What the steps do to the calls, to the sender's wait and to the one in hand.
LEMMA CallsMove ==
    ASSUME NostrTypeOK, [Next]_vars
    PROVE  \/ Write \/ BroadcastSend \/ OnSync \/ CallSync \/ RestartSender
           \/ UNCHANGED calls /\ (OnCursor \/ UNCHANGED resync)
<1>1. CASE ReceiverStep /\ UNCHANGED senderVars
  BY <1>1 DEF senderVars
<1>2. CASE CancelSync \/ SyncRead \/ SyncSend \/ SyncDrain \/ OnCursor \/ PublishPending
           \/ Publish \/ Published \/ Abandon \/ UNCHANGED vars
  BY <1>2 DEF CancelSync, SyncRead, SyncSend, SyncDrain, OnCursor, PublishPending,
       Publish, Published, Abandon, vars, senderVars
<1> QED BY <1>1, <1>2, StepsOfTheParties DEF PeerStep, SendStep

\* Peer serves the sender's stream or an earlier one, or is called to.
LEMMA PeerStreamKept ==
    ASSUME NostrInv, [Next]_vars
    PROVE  /\ peer'.stream <= send'.stream /\ (resync' => peer'.stream < send'.stream)
           /\ send'.stream # 0 => IsServed'
<1>1. NostrTypeOK /\ StreamsAreInOrder /\ PeerIsConsistent /\ CallsAreInOrder
  BY DEF NostrInv
<1>2. /\ peer.stream <= send.stream /\ (resync => peer.stream < send.stream)
      /\ send.stream # 0 => IsServed
      /\ send.stream <= cursorEvent.stream /\ saved.stream <= send.stream
      /\ (saved.stream = 0 => saved = NoStream)
  BY <1>1 DEF StreamsAreInOrder, IsServed
<1>3. /\ send.stream \in Nat /\ cursorEvent.stream \in Nat /\ peer.stream \in Nat /\ saved.stream \in Nat
      /\ calls \in Seq(Calls) /\ DOMAIN calls = 1 .. Len(calls) /\ Len(calls) \in Nat
  BY <1>1, CursorsAreTyped, LenProperties DEF NostrTypeOK, SenderTypeOK, PeerInfos
<1>4. CASE OnCursor
  <2>1. send' = cursorEvent /\ send.stream # cursorEvent.stream /\ peer'.stream = peer.stream /\ resync'
    BY <1>1, <1>4, OnCursorEffect
  <2> QED BY <1>2, <1>3, <2>1 DEF IsServed
<1>5. CASE RestartSender
  <2>1. send' = saved /\ peer'.stream = 0 /\ resync' = (saved # NoStream)
    BY <1>5 DEF RestartSender, NewPeer
  <2>2. saved = NoStream => saved.stream = 0
    BY DEF NoStream
  <2>3. (resync' => saved.stream # 0) /\ (saved.stream # 0 => resync')
    BY <1>2, <2>1, <2>2
  <2>4. resync' => IsServed'
    BY DEF IsServed
  <2> QED BY <1>2, <1>3, <2>1, <2>3, <2>4
<1>6. CASE OnSync
  <2>1. /\ ~IsIdle /\ calls[1].type = "sync" /\ calls' = Tail(calls) /\ peer'.stream = calls[1].stream
        /\ UNCHANGED <<send, resync>>
    BY <1>1, <1>6, OnSyncEffect DEF OnSync
  <2>2. /\ Len(calls) # 0 /\ calls' \in Seq(Calls) /\ Len(calls') = Len(calls) - 1
        /\ \A i \in 1 .. Len(calls') : calls'[i] = calls[i + 1]
    BY <1>1, <2>1, HeadOfCalls
  <2>3. calls[1].stream <= send.stream /\ (resync => calls[1].stream < send.stream)
    BY <1>1, <1>3, <2>1, <2>2 DEF CallsAreInOrder
  <2>4. ASSUME NEW i \in DOMAIN calls, calls[i].type = "sync", calls[i].stream = send.stream
        PROVE  IsServed'
    <3>1. CASE i = 1
      BY <2>1, <2>4, <3>1 DEF IsServed
    <3>2. CASE i # 1
      <4>1. i - 1 \in 1 .. Len(calls') /\ (i - 1) + 1 = i
        BY <1>3, <2>2, <3>2
      <4>2. i - 1 \in DOMAIN calls' /\ calls'[i - 1] = calls[i]
        BY <2>2, <4>1, LenProperties
      <4> QED BY <2>1, <2>4, <4>2 DEF IsServed
    <3> QED BY <3>1, <3>2
  <2>5. CASE \E i \in DOMAIN calls : calls[i].type = "sync" /\ calls[i].stream = send.stream
    BY <2>1, <2>3, <2>4, <2>5
  <2>6. CASE resync
    BY <2>1, <2>3, <2>6 DEF IsServed
  <2>7. CASE peer.stream = send.stream
    <3>1. peer.stream < calls[1].stream
      BY <1>1, <1>3, <2>1, <2>2 DEF CallsAreInOrder
    <3>2. calls[1].stream \in Nat
      BY <1>1, <2>1, HeadOfCalls DEF Calls
    <3> QED BY <1>3, <2>3, <2>7, <3>1, <3>2
  <2> QED BY <1>2, <2>1, <2>3, <2>5, <2>6, <2>7 DEF IsServed
<1>7. CASE CallSync
  <2>1. UNCHANGED <<send, peer>> /\ ~resync'
    BY <1>7 DEF CallSync
  <2>2. /\ calls' \in Seq(Calls) /\ Len(calls') = Len(calls) + 1
        /\ calls'[Len(calls) + 1] = [type |-> "sync", stream |-> send.stream, cur |-> send.cur]
    BY <1>1, <1>7, CallSyncEffect
  <2>3. Len(calls) + 1 \in DOMAIN calls' /\ calls'[Len(calls) + 1].type = "sync"
        /\ calls'[Len(calls) + 1].stream = send.stream
    BY <1>3, <2>2, LenProperties
  <2> QED BY <1>2, <2>1, <2>3 DEF IsServed
<1>8. CASE Write
  <2>1. UNCHANGED <<send, resync>> /\ peer'.stream = peer.stream /\ DOMAIN calls = {}
    BY <1>1, <1>8, WriteEffect, EmptySeq DEF Write, IsIdle
  <2> QED BY <1>2, <2>1 DEF IsServed
<1>9. CASE BroadcastSend
  <2>1. /\ UNCHANGED <<send, resync, peer>> /\ calls[1].type = "send" /\ calls # <<>>
        /\ calls' \in Seq(Calls) /\ Len(calls') = Len(calls) - 1
        /\ \A i \in 1 .. Len(calls') : calls'[i] = calls[i + 1]
    BY <1>1, <1>9, BroadcastEffect DEF BroadcastSend
  <2>2. ASSUME NEW i \in DOMAIN calls, calls[i].type = "sync", calls[i].stream = send.stream
        PROVE  IsServed'
    <3>1. i - 1 \in 1 .. Len(calls') /\ (i - 1) + 1 = i
      BY <1>3, <2>1, <2>2
    <3>2. i - 1 \in DOMAIN calls' /\ calls'[i - 1] = calls[i]
      BY <2>1, <3>1, LenProperties
    <3> QED BY <2>1, <2>2, <3>2 DEF IsServed
  <2> QED BY <1>2, <2>1, <2>2 DEF IsServed
<1>10. CASE ~OnCursor /\ ~RestartSender /\ ~OnSync /\ ~CallSync /\ ~Write /\ ~BroadcastSend
  <2>1. UNCHANGED <<calls, resync>> /\ peer'.stream = peer.stream
    BY <1>1, <1>10, CallsMove, PeerMoves
  <2>2. send'.stream = send.stream
    BY <1>1, <1>10, StreamOfSender, PublishedEffect
  <2> QED BY <1>2, <2>1, <2>2 DEF IsServed
<1> QED BY <1>4, <1>5, <1>6, <1>7, <1>8, <1>9, <1>10

\* The receiver asks from where it is, for one stream after the other.
LEMMA CursorEventKept ==
    ASSUME NostrInv, [Next]_vars
    PROVE  /\ cursorEvent'.last = 0 /\ cursorEvent'.cur <= known' /\ cursorEvent'.stream <= MaxStreams
           /\ AsksAnew \/ UNCHANGED cursorEvent
<1>1. NostrTypeOK /\ StreamsAreInOrder
  BY DEF NostrInv
<1>2. /\ known <= known' /\ known' \in Nat /\ known \in Nat /\ cursorEvent.cur \in Nat
      /\ cursorEvent.last = 0 /\ cursorEvent.cur <= known /\ cursorEvent.stream <= MaxStreams
  BY <1>1, KnownMoves, CursorsAreTyped DEF StreamsAreInOrder
<1>3. CASE AsksAnew
  BY <1>1, <1>2, <1>3, ResyncEffect DEF AsksAnew
<1>4. ~AsksAnew => UNCHANGED cursorEvent
  BY StepsOfTheParties, ReceiverShapes DEF Resumes, GoesLive, OnChanges, Apply, Note, Reconnect, Lose,
     RestartReceiver, relayVars, vars
<1> QED BY <1>2, <1>3, <1>4

\* An event is of a stream that was asked for and names an earlier one.
LEMMA EventOrderKept ==
    ASSUME NostrInv, [Next]_vars, NEW e \in AnyEvent'
    PROVE  e.stream <= cursorEvent'.stream /\ e.id <= lastId' /\ e.prev < e.id
<1>1. NostrTypeOK /\ StreamsAreInOrder
  BY DEF NostrInv
<1>2. cursorEvent.stream <= cursorEvent'.stream /\ cursorEvent'.stream \in Nat /\ cursorEvent.stream \in Nat
  <2>1. cursorEvent.stream \in Nat
    BY <1>1, CursorsAreTyped
  <2>2. CASE AsksAnew
    BY <1>1, <2>1, <2>2, ResyncEffect DEF AsksAnew
  <2> QED BY <2>1, <2>2, CursorEventKept
<1>3. lastId <= lastId' /\ lastId' \in Nat /\ lastId \in Nat
  BY <1>1, CountersGrow, CursorsAreTyped
<1>4. CASE e \in AnyEvent
  <2>1. e.stream <= cursorEvent.stream /\ e.id <= lastId /\ e.prev < e.id
    BY <1>1, <1>4 DEF StreamsAreInOrder
  <2>2. e.stream \in Nat /\ e.id \in Nat
    BY <1>1, <1>4, EventsAreTyped
  <2> QED BY <1>2, <1>3, <2>1, <2>2
<1>5. CASE e \notin AnyEvent
  <2>1. Publish /\ e = signed'
    BY <1>1, <1>5, EventsKept
  <2>2. e.id = lastId + 1 /\ lastId' = lastId + 1 /\ e.stream = send.stream /\ e.prev = send.last
    BY <1>1, <2>1, PublishEffect
  <2>3. send.stream \in Nat /\ send.last \in Nat /\ send.last <= lastId /\ send.stream <= cursorEvent.stream
    BY <1>1, CursorsAreTyped DEF StreamsAreInOrder, IsCursor
  <2> QED BY <1>2, <1>3, <2>2, <2>3
<1> QED BY <1>4, <1>5

\* The event being published continues the stream that is served.
LEMMA SignedKept ==
    ASSUME NostrInv, [Next]_vars, signed' # NoEvent
    PROVE  /\ signed'.stream <= send'.stream /\ (resync' => signed'.stream < send'.stream)
           /\ signed'.stream = send'.stream => signed'.prev = send'.last
<1>1. NostrTypeOK /\ StreamsAreInOrder /\ PeerIsConsistent
  BY DEF NostrInv
<1>2. send.stream \in Nat /\ cursorEvent.stream \in Nat
  BY <1>1, CursorsAreTyped
<1>3. CASE Publish
  <2>1. UNCHANGED <<send, resync>>
    BY <1>3 DEF Publish
  <2> QED BY <1>1, <1>2, <1>3, <2>1, PublishEffect
<1>4. CASE ~Publish
  <2>1. signed' = signed /\ signed # NoEvent /\ ~Published /\ ~RestartSender /\ ~CallSync
    <3>1. signed' = signed \/ signed' = NoEvent
      BY <1>4, StepsOfTheParties DEF SendStep, OnCursor, CallSync, PublishPending, Published, Abandon,
         RestartSender, senderVars, vars
    <3>2. Published \/ RestartSender => signed' = NoEvent
      BY DEF Published, RestartSender
    <3>3. CallSync => signed = NoEvent
      BY DEF CallSync, Publishing
    <3> QED BY <3>1, <3>2, <3>3
  <2>2. /\ signed.stream <= send.stream /\ (resync => signed.stream < send.stream)
        /\ signed.stream = send.stream => signed.prev = send.last
        /\ send.stream <= cursorEvent.stream /\ signed.stream \in Nat
    <3>1. signed \in AnyEvent
      BY <2>1 DEF AnyEvent, InHand
    <3> QED BY <1>1, <2>1, <3>1, EventsAreTyped DEF StreamsAreInOrder
  <2>3. CASE OnCursor
    <3>1. send' = cursorEvent /\ send.stream # cursorEvent.stream
      BY <1>1, <2>3, OnCursorEffect
    <3> QED BY <1>2, <2>1, <2>2, <3>1
  <2>4. CASE ~OnCursor
    <3>1. send'.stream = send.stream /\ send'.last = send.last
      BY <1>1, <2>1, <2>4, StreamOfSender
    <3>2. resync' = resync
      BY <1>1, <2>1, <2>4, CallsMove DEF Write, BroadcastSend, OnSync
    <3> QED BY <2>1, <2>2, <3>1, <3>2
  <2> QED BY <2>3, <2>4
<1> QED BY <1>3, <1>4

\* Streams are served in the order they were asked for.
LEMMA StreamsKept ==
    ASSUME NostrInv, [Next]_vars
    PROVE  StreamsAreInOrder'
BY SenderStreamsKept, PeerStreamKept, CursorEventKept, EventOrderKept, SignedKept
   DEF StreamsAreInOrder, IsServed

---------------------------------------------------------------------------
(* The sender's Peer.                                                      *)

\* A call that waits, after the head of the queue was taken or as it is.
IsOrdered(i) ==
    \/ /\ calls[i].type = "send" /\ i = 1 /\ peer.active
       /\ calls[i].cur = written /\ 0 < written
    \/ /\ calls[i].type = "sync" /\ peer.stream < calls[i].stream
       /\ calls[i].stream <= send.stream
       /\ resync => calls[i].stream < send.stream
       /\ \A j \in 1 .. i - 1 : calls[j].type = "sync" => calls[j].stream < calls[i].stream

\* Peer's queue stays in order.
LEMMA CallsKept ==
    ASSUME NostrInv, [Next]_vars
    PROVE  CallsAreInOrder'
<1>1. NostrTypeOK /\ StreamsAreInOrder /\ PeerIsConsistent /\ CallsAreInOrder
  BY DEF NostrInv
<1>2. /\ calls \in Seq(Calls) /\ DOMAIN calls = 1 .. Len(calls) /\ Len(calls) \in Nat
      /\ send.stream \in Nat /\ cursorEvent.stream \in Nat /\ peer.stream \in Nat
      /\ send.stream <= cursorEvent.stream
  BY <1>1, CursorsAreTyped, LenProperties DEF NostrTypeOK, SenderTypeOK, PeerInfos, StreamsAreInOrder
<1>3. ASSUME NEW i \in 1 .. Len(calls) PROVE calls[i].stream \in Nat
  <2>1. calls[i] \in Calls
    BY <1>2, ElementOfSeq
  <2> QED BY <2>1 DEF Calls
<1>4. \A i \in 1 .. Len(calls) : IsOrdered(i)
  BY <1>1, <1>2 DEF CallsAreInOrder, IsOrdered
<1>5. SUFFICES ASSUME NEW i \in DOMAIN calls' PROVE IsOrdered(i)'
  BY DEF CallsAreInOrder, IsOrdered
<1>6. DOMAIN calls' = 1 .. Len(calls') /\ Len(calls') \in Nat
  <2>1. calls' \in Seq(Calls)
    BY <1>1, SenderTypesKept DEF NostrInv, SenderTypeOK
  <2> QED BY <2>1, LenProperties
<1>7. CASE Write
  <2>1. /\ peer'.active = peer.active /\ (peer.active => Len(calls') = 1) /\ (~peer.active => Len(calls') = 0)
        /\ \A k \in 1 .. Len(calls') : calls'[k].type = "send" /\ calls'[k].cur = written'
        /\ 0 < written'
    BY <1>1, <1>7, WriteEffect DEF Versions
  <2> QED BY <1>5, <1>6, <2>1 DEF IsOrdered
<1>8. CASE BroadcastSend
  <2>1. /\ UNCHANGED <<send, resync, peer, written>> /\ Len(calls') = Len(calls) - 1
        /\ \A k \in 1 .. Len(calls') : calls'[k] = calls[k + 1]
    BY <1>1, <1>8, BroadcastEffect DEF BroadcastSend
  <2>2. i \in 1 .. Len(calls') /\ i + 1 \in 1 .. Len(calls) /\ i + 1 # 1 /\ calls'[i] = calls[i + 1]
    BY <1>2, <1>5, <1>6, <2>1
  <2>3. ASSUME NEW j \in 1 .. i - 1 PROVE j + 1 \in 1 .. (i + 1) - 1 /\ calls'[j] = calls[j + 1]
    BY <2>1, <2>2, <1>6
  <2>4. IsOrdered(i + 1)
    BY <1>4, <2>2
  <2> QED BY <2>1, <2>2, <2>3, <2>4 DEF IsOrdered
<1>9. CASE OnSync
  <2>1. /\ ~IsIdle /\ calls[1].type = "sync" /\ calls' = Tail(calls) /\ peer'.stream = calls[1].stream
        /\ UNCHANGED <<send, resync>>
    BY <1>1, <1>9, OnSyncEffect DEF OnSync
  <2>2. Len(calls') = Len(calls) - 1 /\ \A k \in 1 .. Len(calls') : calls'[k] = calls[k + 1]
    BY <1>1, <2>1, HeadOfCalls
  <2>3. i \in 1 .. Len(calls') /\ i + 1 \in 1 .. Len(calls) /\ i + 1 # 1 /\ calls'[i] = calls[i + 1]
        /\ 1 \in 1 .. (i + 1) - 1
    BY <1>2, <1>5, <1>6, <2>2
  <2>4. ASSUME NEW j \in 1 .. i - 1 PROVE j + 1 \in 1 .. (i + 1) - 1 /\ calls'[j] = calls[j + 1]
    BY <2>2, <2>3, <1>6
  <2>5. IsOrdered(i + 1)
    BY <1>4, <2>3
  <2> QED BY <2>1, <2>3, <2>4, <2>5 DEF IsOrdered
<1>10. CASE CallSync
  <2>1. /\ UNCHANGED <<send, peer, written>> /\ resync /\ ~resync' /\ Len(calls') = Len(calls) + 1
        /\ \A k \in 1 .. Len(calls) : calls'[k] = calls[k]
        /\ calls'[Len(calls) + 1] = [type |-> "sync", stream |-> send.stream, cur |-> send.cur]
    BY <1>1, <1>10, CallSyncEffect DEF CallSync
  <2>2. CASE i = Len(calls) + 1
    <3>1. peer.stream < send.stream
      BY <1>1, <2>1 DEF StreamsAreInOrder
    <3>2. \A j \in 1 .. i - 1 : j \in 1 .. Len(calls) /\ calls'[j] = calls[j]
      BY <1>2, <2>1, <2>2
    <3>3. \A j \in 1 .. i - 1 : calls[j].type = "sync" => calls[j].stream < send.stream
      BY <1>4, <2>1, <3>2 DEF IsOrdered
    <3> QED BY <1>2, <2>1, <2>2, <3>1, <3>2, <3>3 DEF IsOrdered
  <2>3. CASE i # Len(calls) + 1
    <3>1. i \in 1 .. Len(calls) /\ calls'[i] = calls[i]
      BY <1>2, <1>5, <1>6, <2>1, <2>3
    <3>2. \A j \in 1 .. i - 1 : calls'[j] = calls[j]
      BY <1>2, <2>1, <3>1
    <3> QED BY <1>4, <2>1, <3>1, <3>2 DEF IsOrdered
  <2> QED BY <2>2, <2>3
<1>11. CASE RestartSender
  <2>1. DOMAIN calls' = {}
    BY <1>11, EmptySeq DEF RestartSender
  <2> QED BY <2>1, <1>5
<1>12. CASE OnCursor
  <2>1. send' = cursorEvent /\ send.stream # cursorEvent.stream /\ peer'.stream = peer.stream
        /\ peer'.active = peer.active /\ UNCHANGED <<calls, written>>
    BY <1>1, <1>12, OnCursorEffect DEF OnCursor
  <2>2. IsOrdered(i) /\ calls[i].stream \in Nat
    BY <1>2, <1>3, <1>4, <1>5, <2>1
  <2> QED BY <1>2, <2>1, <2>2 DEF IsOrdered
<1>13. CASE ~Write /\ ~BroadcastSend /\ ~OnSync /\ ~CallSync /\ ~RestartSender /\ ~OnCursor
  <2>1. UNCHANGED <<calls, resync>> /\ peer'.stream = peer.stream /\ send'.stream = send.stream
    BY <1>1, <1>13, CallsMove, PeerMoves, StreamOfSender, PublishedEffect
  <2>2. peer.active => peer'.active
    <3>1. CASE ReceiverStep /\ UNCHANGED senderVars
      BY <3>1 DEF senderVars
    <3>2. CASE CancelSync \/ SyncRead \/ SyncSend \/ SyncDrain
      BY <1>1, <3>2, CancelEffect, RowsAreVersions, SyncSendEffect, SyncDrainEffect
    <3>3. CASE PublishPending \/ Publish \/ Published \/ Abandon \/ UNCHANGED vars
      BY <3>3 DEF PublishPending, Publish, Published, Abandon, vars, senderVars
    <3> QED BY <1>13, <3>1, <3>2, <3>3, StepsOfTheParties DEF PeerStep, SendStep
  <2>3. written' = written
    BY <1>13, StepsOfTheParties DEF PeerStep, CancelSync, SyncRead, SyncSend, SyncDrain, vars, senderVars
  <2>4. IsOrdered(i)
    BY <1>2, <1>4, <1>5, <2>1
  <2> QED BY <2>1, <2>2, <2>3, <2>4 DEF IsOrdered
<1> QED BY <1>7, <1>8, <1>9, <1>10, <1>11, <1>12, <1>13

\* What is pending stays the last that was written.
LEMMA PendingKept ==
    ASSUME NostrInv, [Next]_vars
    PROVE  /\ peer'.active => peer'.pending = <<>>
           /\ \A i \in DOMAIN peer'.pending : peer'.pending[i] = written' - Len(peer'.pending) + i
           /\ Len(peer'.pending) <= written'
<1>1. NostrTypeOK /\ PeerIsConsistent
  BY DEF NostrInv
<1>2. /\ peer.active => peer.pending = <<>>
      /\ \A i \in 1 .. Len(peer.pending) : peer.pending[i] = written - Len(peer.pending) + i
      /\ Len(peer.pending) <= written /\ written \in Nat
      /\ peer.pending \in Seq(Versions) /\ DOMAIN peer.pending = 1 .. Len(peer.pending)
      /\ Len(peer.pending) \in Nat
  <2>1. peer.pending \in Seq(Versions) /\ written \in Nat
    BY <1>1, CursorsAreTyped DEF NostrTypeOK, SenderTypeOK, PeerInfos
  <2> QED BY <1>1, <2>1, LenProperties DEF PeerIsConsistent
<1>3. CASE Write /\ ~peer.active
  <2>1. written' = written + 1 /\ peer'.active = peer.active /\ peer'.pending = Append(peer.pending, written')
        /\ written' \in Versions
    BY <1>1, <1>3, WriteEffect DEF Write
  <2>2. /\ Len(peer'.pending) = Len(peer.pending) + 1 /\ peer'.pending \in Seq(Versions)
        /\ \A i \in 1 .. Len(peer.pending) : peer'.pending[i] = peer.pending[i]
        /\ peer'.pending[Len(peer.pending) + 1] = written'
    BY <1>2, <2>1, RangeAppend
  <2>3. DOMAIN peer'.pending = 1 .. Len(peer'.pending)
    BY <2>2, LenProperties
  <2>4. ASSUME NEW i \in 1 .. Len(peer.pending) + 1
        PROVE  peer'.pending[i] = written' - Len(peer'.pending) + i
    <3>1. CASE i \in 1 .. Len(peer.pending)
      <4>1. peer'.pending[i] = written - Len(peer.pending) + i /\ i \in Nat
        <5>1. \A k \in 1 .. Len(peer.pending) : peer.pending[k] = written - Len(peer.pending) + k
          BY <1>2
        <5>2. \A k \in 1 .. Len(peer.pending) : peer'.pending[k] = peer.pending[k]
          BY <2>2
        <5> QED BY <3>1, <5>1, <5>2
      <4>2. Len(peer'.pending) = Len(peer.pending) + 1 /\ written' = written + 1
        BY <2>1, <2>2
      <4> QED BY <1>2, <4>1, <4>2
    <3>2. CASE i \notin 1 .. Len(peer.pending)
      <4>1. i = Len(peer.pending) + 1
        BY <1>2, <3>2
      <4> QED BY <1>2, <2>1, <2>2, <4>1
    <3> QED BY <3>1, <3>2
  <2>5. Len(peer'.pending) <= written' /\ ~peer'.active
    BY <1>2, <1>3, <2>1, <2>2
  <2>6. DOMAIN peer'.pending = 1 .. Len(peer.pending) + 1
    BY <2>2, <2>3
  <2> QED BY <2>4, <2>5, <2>6
<1>4. CASE SyncDrain \/ RestartSender
  <2>1. peer'.pending = <<>> /\ written' = written
    BY <1>1, <1>4, SyncDrainEffect DEF SyncDrain, RestartSender, NewPeer
  <2> QED BY <1>2, <2>1, EmptySeq
<1>5. CASE Write /\ peer.active
  <2>1. peer' = peer /\ written' = written + 1
    BY <1>1, <1>5, WriteEffect DEF Write
  <2>2. peer'.pending = <<>>
    BY <1>2, <1>5, <2>1
  <2>3. DOMAIN peer'.pending = {} /\ Len(peer'.pending) = 0
    BY <2>2, EmptySeq
  <2>4. written' \in Nat
    BY <1>2, <2>1
  <2> QED BY <2>2, <2>3, <2>4
<1>6. CASE ~Write /\ ~SyncDrain /\ ~RestartSender
  <2>1. peer'.pending = peer.pending /\ peer'.active = peer.active /\ written' = written
    <3>1. CASE ReceiverStep /\ UNCHANGED senderVars
      BY <3>1 DEF senderVars
    <3>2. CASE CancelSync \/ SyncRead \/ SyncSend \/ OnSync \/ OnCursor
      BY <1>1, <3>2, CancelEffect, RowsAreVersions, SyncSendEffect, OnSyncEffect, OnCursorEffect
         DEF CancelSync, SyncRead, SyncSend, OnSync, OnCursor
    <3>3. CASE BroadcastSend \/ CallSync \/ PublishPending \/ Publish \/ Published \/ Abandon \/ UNCHANGED vars
      BY <3>3 DEF BroadcastSend, CallSync, PublishPending, Publish, Published, Abandon, vars, senderVars
    <3> QED BY <1>6, <3>1, <3>2, <3>3, StepsOfTheParties DEF PeerStep, SendStep
  <2> QED BY <1>2, <2>1
<1> QED BY <1>3, <1>4, <1>5, <1>6

\* A syncPeer sends rows that were written; Peer is idle only when it serves nobody.
LEMMA SyncKept ==
    ASSUME NostrInv, [Next]_vars
    PROVE  LET s == peer.sync
           IN (/\ s.step = "send" =>
                    /\ Len(s.rows) \in 1 .. Rows /\ s.from + s.offset + Len(s.rows) <= written
                    /\ \A i \in DOMAIN s.rows : s.rows[i] = s.from + s.offset + i
               /\ s.step # "off" /\ s.cancel => peer.stream < send.stream
               /\ peer.stream # 0 => peer.active \/ s.step # "off"
               /\ peer.stream = 0 => ~peer.active /\ s.step = "off")'
<1>1. NostrTypeOK /\ PeerIsConsistent /\ StreamsAreInOrder /\ CallsAreInOrder
  BY DEF NostrInv
<1>2. /\ peer.sync.step = "send" =>
           /\ Len(peer.sync.rows) \in 1 .. Rows
           /\ peer.sync.from + peer.sync.offset + Len(peer.sync.rows) <= written
           /\ \A i \in DOMAIN peer.sync.rows : peer.sync.rows[i] = peer.sync.from + peer.sync.offset + i
      /\ peer.sync.step # "off" /\ peer.sync.cancel => peer.stream < send.stream
      /\ peer.stream # 0 => peer.active \/ peer.sync.step # "off"
      /\ peer.stream = 0 => ~peer.active /\ peer.sync.step = "off"
  BY <1>1 DEF PeerIsConsistent
<1>3. /\ peer.stream \in Nat /\ send.stream \in Nat /\ cursorEvent.stream \in Nat /\ written \in Nat
      /\ send.stream <= cursorEvent.stream /\ peer.stream <= send.stream
  BY <1>1, CursorsAreTyped DEF NostrTypeOK, SenderTypeOK, PeerInfos, StreamsAreInOrder
<1>4. CASE Write
  <2>1. /\ peer'.stream = peer.stream /\ peer'.active = peer.active /\ peer'.sync = peer.sync
        /\ written' = written + 1 /\ send' = send
    BY <1>1, <1>4, WriteEffect DEF Write
  <2>2. peer.sync \in Syncs
    BY <1>1 DEF NostrTypeOK, SenderTypeOK, PeerInfos
  <2>3. peer.sync.step = "send" => peer.sync.from + peer.sync.offset + Len(peer.sync.rows) <= written + 1
    <3>1. peer.sync.rows \in Seq(Versions) /\ peer.sync.from \in Nat /\ peer.sync.offset \in Nat
      BY <2>2 DEF Syncs, NostrConstants
    <3>2. Len(peer.sync.rows) \in Nat
      BY <3>1, LenProperties
    <3> QED BY <1>2, <1>3, <3>1, <3>2
  <2> QED BY <1>2, <1>3, <2>1, <2>3
<1>5. CASE CancelSync
  <2>1. /\ ~IsIdle /\ calls[1].type = "sync" /\ peer.sync.step # "off"
        /\ peer'.stream = peer.stream /\ peer'.active = peer.active /\ peer'.sync.step = peer.sync.step
        /\ peer'.sync.from = peer.sync.from /\ peer'.sync.offset = peer.sync.offset
        /\ peer'.sync.rows = peer.sync.rows /\ UNCHANGED <<written, send>>
    BY <1>1, <1>5, CancelEffect DEF CancelSync
  <2>2. 1 \in DOMAIN calls
    BY <1>1, <2>1, HeadOfCalls, LenProperties
  <2>3. peer.stream < calls[1].stream /\ calls[1].stream <= send.stream /\ calls[1].stream \in Nat
    BY <1>1, <2>1, <2>2, HeadOfCalls DEF CallsAreInOrder, Calls
  <2> QED BY <1>2, <1>3, <2>1, <2>3
<1>6. CASE OnSync
  <2>1. /\ ~IsIdle /\ calls[1].type = "sync" /\ peer'.stream = calls[1].stream
        /\ peer'.sync.step = "read" /\ ~peer'.sync.cancel
    BY <1>1, <1>6, OnSyncEffect
  <2>2. 1 \in DOMAIN calls
    BY <1>1, <2>1, HeadOfCalls, LenProperties
  <2>3. peer.stream < calls[1].stream /\ calls[1].stream \in Nat
    BY <1>1, <2>1, <2>2, HeadOfCalls DEF CallsAreInOrder, Calls
  <2> QED BY <1>3, <2>1, <2>3
<1>7. CASE SyncRead
  <2>1. /\ peer'.stream = peer.stream /\ peer'.active = peer.active
        /\ peer'.sync.from = peer.sync.from
        /\ peer'.sync.offset = peer.sync.offset /\ peer'.sync.cancel = peer.sync.cancel
        /\ \/ peer'.sync.step = "drain"
           \/ /\ peer'.sync.step = "send"
              /\ Len(peer'.sync.rows) \in 1 .. Rows
              /\ peer.sync.from + peer.sync.offset + Len(peer'.sync.rows) <= written
              /\ \A i \in 1 .. Len(peer'.sync.rows) :
                   peer'.sync.rows[i] = peer.sync.from + peer.sync.offset + i
    BY <1>1, <1>7, RowsAreVersions
  <2>2. peer.sync.step = "read" /\ UNCHANGED <<written, send>>
    BY <1>7 DEF SyncRead
  <2>3. DOMAIN peer'.sync.rows = 1 .. Len(peer'.sync.rows)
    <3>1. peer' \in PeerInfos
      BY <1>1, <1>7, RowsAreVersions
    <3>2. peer'.sync.rows \in Seq(Versions)
      BY <3>1 DEF PeerInfos, Syncs
    <3> QED BY <3>2, LenProperties
  <2> QED BY <1>2, <2>1, <2>2, <2>3
<1>8. CASE SyncSend
  <2>1. /\ peer.sync.step = "send" /\ peer'.stream = peer.stream /\ peer'.active = peer.active
        /\ peer'.sync.cancel = peer.sync.cancel /\ peer'.sync.step \in {"drain", "read"}
        /\ send'.stream = send.stream
    BY <1>1, <1>8, SyncSendEffect
  <2> QED BY <1>2, <2>1
<1>9. CASE SyncDrain
  <2>1. /\ peer.sync.step = "drain" /\ peer'.stream = peer.stream /\ peer'.active
        /\ peer'.sync.step = "off"
    BY <1>1, <1>9, SyncDrainEffect DEF NoSync
  <2> QED BY <1>2, <2>1
<1>10. CASE OnCursor
  <2>1. /\ send' = cursorEvent /\ send.stream # cursorEvent.stream /\ peer'.stream = peer.stream
        /\ peer'.active = peer.active /\ peer'.sync = peer.sync /\ UNCHANGED written
    BY <1>1, <1>10, OnCursorEffect DEF OnCursor
  <2> QED BY <1>2, <1>3, <2>1
<1>11. CASE RestartSender
  BY <1>11 DEF RestartSender, NewPeer, NoSync
<1>12. CASE ReceiverStep /\ UNCHANGED senderVars
  BY <1>2, <1>12 DEF senderVars
<1>13. CASE BroadcastSend \/ CallSync \/ PublishPending \/ Publish \/ Published \/ Abandon \/ UNCHANGED vars
  <2>1. UNCHANGED <<peer, written>>
    BY <1>13 DEF BroadcastSend, CallSync, PublishPending, Publish, Published, Abandon, vars, senderVars
  <2>2. send'.stream = send.stream
    BY <1>1, <1>13, PublishedEffect DEF BroadcastSend, CallSync, PublishPending, Publish, Abandon, vars, senderVars
  <2> QED BY <1>2, <2>1, <2>2
<1> QED BY <1>4, <1>5, <1>6, <1>7, <1>8, <1>9, <1>10, <1>11, <1>12, <1>13, StepsOfTheParties
        DEF PeerStep, SendStep

\* What Peer holds stays consistent.
LEMMA PeerKept ==
    ASSUME NostrInv, [Next]_vars
    PROVE  PeerIsConsistent'
BY PendingKept, SyncKept DEF PeerIsConsistent

---------------------------------------------------------------------------
(* Back-pressure.                                                          *)

\* Whatever is scheduled is counted.
LEMMA ScheduledIsCounted ==
    ASSUME NostrTypeOK, CountIsRight, NEW data \in Seq(Versions), Scheduled(data),
           UNCHANGED <<batches, signed, abandoned>>
    PROVE  CountIsRight'
<1>1. /\ Len(queue') = Len(queue) + Len(Takes(data)) /\ Len(Takes(data)) \in Nat
      /\ count' = count + Len(Takes(data)) /\ (blocked' => blocked \/ count' >= MaxSend)
  BY ScheduledEffect
<1>2. InBatches' = InBatches
  BY DEF InBatches
<1>3. /\ Len(queue) \in Nat /\ Len(signed.data) \in Nat /\ InBatches \in Nat /\ count \in Nat /\ MaxSend \in Nat
  BY WaitingIsCounted DEF NostrTypeOK, SenderTypeOK, NostrConstants
<1>4. /\ count >= Waiting /\ (~abandoned => count = Waiting) /\ (blocked => count >= MaxSend)
  BY DEF CountIsRight
<1>5. Waiting' = Waiting + Len(Takes(data)) /\ Waiting \in Nat
  <2>1. PICK q \in Nat : q = Len(queue)
    BY <1>3
  <2>2. PICK t \in Nat : t = Len(Takes(data))
    BY <1>1
  <2>3. PICK s \in Nat : s = Len(signed.data)
    BY <1>3
  <2>4. PICK b \in Nat : b = InBatches
    BY <1>3
  <2>5. Waiting' = q + t + s + b /\ Waiting = q + s + b
    BY <1>1, <1>2, <2>1, <2>2, <2>3, <2>4 DEF Waiting
  <2> QED BY <2>2, <2>5
<1>6. count' >= Waiting' /\ (~abandoned' => count' = Waiting') /\ (blocked' => count' >= MaxSend)
  BY <1>1, <1>3, <1>4, <1>5
<1> QED BY <1>6 DEF CountIsRight

\* The count stays that of the changes that wait.
LEMMA CountKept ==
    ASSUME NostrInv, [Next]_vars
    PROVE  CountIsRight'
<1>1. NostrTypeOK /\ PeerIsConsistent /\ CallsAreInOrder /\ CountIsRight
  BY DEF NostrInv
<1>2. /\ Len(queue) \in Nat /\ Len(signed.data) \in Nat /\ InBatches \in Nat /\ count \in Nat
      /\ MaxSend \in Nat \ {0} /\ EventSize \in Nat \ {0}
      /\ batches \in Seq(Seq(Versions)) /\ queue \in Seq(Versions)
  BY <1>1, WaitingIsCounted DEF NostrTypeOK, SenderTypeOK, NostrConstants
<1>3. /\ count >= Waiting /\ (~abandoned => count = Waiting) /\ (blocked => count >= MaxSend)
      /\ \A i \in 1 .. Len(batches) - 1 : Len(batches[i]) = EventSize
      /\ Waiting = Len(queue) + Len(signed.data) + InBatches
  BY <1>1 DEF CountIsRight, Waiting
<1>4. Len(<<>>) = 0 /\ NoEvent.data = <<>> /\ \A i \in 1 .. 0 - 1 : FALSE
  BY EmptySeq DEF NoEvent
<1>5. CASE UNCHANGED <<queue, signed, batches, count, blocked, abandoned>>
  BY <1>1, <1>5 DEF CountIsRight, Waiting, InBatches
<1>6. CASE BroadcastSend
  <2>1. UNCHANGED <<batches, signed, abandoned>>
    BY <1>6 DEF BroadcastSend
  <2> QED BY <1>1, <1>6, <2>1, BroadcastEffect, ScheduledIsCounted
<1>7. CASE SyncSend
  <2>1. UNCHANGED <<batches, signed, abandoned>>
    BY <1>7 DEF SyncSend, ghostVars
  <2> QED BY <1>1, <1>7, <2>1, SyncSendEffect, ScheduledIsCounted
<1>8. CASE SyncDrain
  <2>1. UNCHANGED <<batches, signed, abandoned>>
    BY <1>8 DEF SyncDrain, ghostVars
  <2> QED BY <1>1, <1>8, <2>1, SyncDrainEffect, ScheduledIsCounted
<1>9. CASE CallSync
  <2>1. /\ queue' = <<>> /\ batches = <<>> /\ abandoned' = (abandoned \/ queue # <<>>)
        /\ UNCHANGED <<batches, signed, count, blocked>>
    BY <1>1, <1>9, CallSyncEffect DEF CallSync
  <2>2. Waiting' = 0 + Len(signed.data) + InBatches
    BY <1>4, <2>1 DEF Waiting, InBatches
  <2>3. count' >= Waiting'
    BY <1>2, <1>3, <2>1, <2>2
  <2>4. ~abandoned' => count' = Waiting'
    BY <1>2, <1>3, <1>4, <2>1, <2>2
  <2> QED BY <1>3, <2>1, <2>3, <2>4 DEF CountIsRight
<1>10. CASE PublishPending
  <2>1. /\ queue # <<>> /\ batches = <<>> /\ signed = NoEvent /\ queue' = <<>>
        /\ batches' = Split(queue) /\ UNCHANGED <<signed, count, blocked, abandoned>>
    BY <1>1, <1>10, PublishPendingEffect DEF PublishPending, ghostVars
  <2>2. /\ Len(batches') \in Nat \ {0}
        /\ \A i \in 1 .. Len(batches') - 1 : Len(batches'[i]) = EventSize
        /\ (Len(batches') - 1) * EventSize + Len(batches'[Len(batches')]) = Len(queue)
    BY <1>2, <2>1, SplitKeepsOrder
  <2>3. batches' # <<>>
    BY <2>2, <1>4
  <2>4. InBatches' = Len(queue) /\ InBatches = 0
    BY <2>1, <2>2, <2>3 DEF InBatches
  <2>5. Waiting' = 0 + Len(signed.data) + Len(queue)
    BY <1>4, <2>1, <2>4 DEF Waiting
  <2>6. Waiting' = Waiting
    BY <1>2, <1>3, <2>4, <2>5
  <2> QED BY <1>3, <2>1, <2>2, <2>6 DEF CountIsRight
<1>11. CASE Publish
  <2>1. /\ batches # <<>> /\ signed = NoEvent /\ signed'.data = batches[1]
        /\ Len(batches') = Len(batches) - 1 /\ Len(batches) \in Nat \ {0}
        /\ \A i \in 1 .. Len(batches') : batches'[i] = batches[i + 1]
        /\ batches' \in Seq(Seq(Versions))
        /\ UNCHANGED <<queue, count, blocked, abandoned>>
    BY <1>1, <1>11, PublishEffect DEF Publish
  <2>2. Len(batches[1]) + InBatches' = InBatches
    <3>1. CASE Len(batches) = 1
      <4>1. batches' = <<>>
        BY <2>1, <3>1, EmptySeq
      <4>2. InBatches = (1 - 1) * EventSize + Len(batches[1]) /\ InBatches' = 0
        BY <2>1, <3>1, <4>1 DEF InBatches
      <4>3. Len(batches[1]) \in Nat
        BY <1>2, <2>1, <3>1, RangeIsWithin
      <4>4. ASSUME NEW a \in Nat PROVE a + 0 = (1 - 1) * EventSize + a
        BY <1>2
      <4> QED BY <4>2, <4>3, <4>4
    <3>2. CASE Len(batches) # 1
      <4> DEFINE n == Len(batches)
      <4>1. n - 2 \in Nat /\ n - 1 \in Nat /\ n - 2 + 1 = n - 1 /\ 1 \in 1 .. n - 1 /\ n \in 1 .. n
            /\ n - 1 \in 1 .. Len(batches') /\ n - 1 + 1 = n /\ Len(batches') - 1 = n - 2
            /\ n - 2 <= n - 1
        BY <2>1, <3>2
      <4>2. batches' # <<>>
        BY <2>1, <4>1, <1>4
      <4>3. InBatches' = (n - 2) * EventSize + Len(batches[n])
        BY <2>1, <4>1, <4>2 DEF InBatches
      <4>4. InBatches = (n - 1) * EventSize + Len(batches[n])
        BY <2>1 DEF InBatches
      <4>5. (n - 2 + 1) * EventSize = (n - 2) * EventSize + EventSize /\ (n - 2) * EventSize \in Nat
        <5>1. PICK m \in Nat : m = n - 2
          BY <4>1
        <5>2. EventSize \in Nat /\ m <= m
          BY DEF NostrConstants
        <5>3. (m + 1) * EventSize = m * EventSize + EventSize /\ m * EventSize \in Nat
          BY <5>2, Multiples
        <5> QED BY <5>1, <5>3
      <4>6. Len(batches[1]) = EventSize
        BY <1>3, <4>1
      <4>7. Len(batches[n]) \in Nat
        <5>1. batches[n] \in Seq(Versions)
          BY <1>2, <4>1, RangeIsWithin
        <5> QED BY <5>1, LenProperties
      <4>8. (n - 1) * EventSize = (n - 2) * EventSize + EventSize
        BY <4>1, <4>5
      <4> HIDE DEF n
      <4>9. PICK a \in Nat : a = (n - 2) * EventSize
        BY <4>5
      <4>10. PICK c \in Nat : c = Len(batches[n])
        BY <4>7
      <4>11. Len(batches[1]) + InBatches' = EventSize + (a + c)
        BY <4>3, <4>6, <4>9, <4>10
      <4>12. InBatches = (a + EventSize) + c
        BY <4>4, <4>8, <4>9, <4>10
      <4> QED BY <1>2, <4>11, <4>12
    <3> QED BY <3>1, <3>2
  <2>3. \A i \in 1 .. Len(batches') - 1 : Len(batches'[i]) = EventSize
    <3>1. \A i \in 1 .. Len(batches') - 1 : i + 1 \in 1 .. Len(batches) - 1 /\ i \in 1 .. Len(batches')
      BY <2>1
    <3> QED BY <1>3, <2>1, <3>1
  <2>4. Waiting' = Waiting
    <3>1. Len(signed'.data) = Len(batches[1]) /\ Len(signed.data) = 0
      BY <1>4, <2>1
    <3>2. InBatches' \in Nat /\ Len(batches[1]) \in Nat
      <4>1. batches[1] \in Seq(Versions)
        BY <1>2, <2>1, RangeHeadTail
      <4>2. CASE batches' = <<>>
        BY <4>1, <4>2, LenProperties DEF InBatches
      <4>3. CASE batches' # <<>>
        <5>1. Len(batches') \in 1 .. Len(batches') /\ Len(batches') - 1 \in Nat /\ Len(batches') - 1 <= Len(batches')
          BY <2>1, <4>3, EmptySeq
        <5>2. batches'[Len(batches')] \in Seq(Versions)
          BY <2>1, <5>1, RangeIsWithin
        <5>3. Len(batches'[Len(batches')]) \in Nat /\ (Len(batches') - 1) * EventSize \in Nat
          BY <1>2, <5>1, <5>2, Multiples, LenProperties
        <5>4. ASSUME NEW a \in Nat, NEW b \in Nat PROVE a + b \in Nat
          OBVIOUS
        <5>5. InBatches' = (Len(batches') - 1) * EventSize + Len(batches'[Len(batches')])
          BY <4>3 DEF InBatches
        <5> QED BY <4>1, <5>3, <5>4, <5>5, LenProperties
      <4> QED BY <4>2, <4>3
    <3>3. Waiting' = Len(queue) + Len(batches[1]) + InBatches'
      BY <2>1, <3>1 DEF Waiting
    <3>4. ASSUME NEW q \in Nat, NEW a \in Nat, NEW b \in Nat PROVE q + a + b = q + 0 + (a + b)
      OBVIOUS
    <3> QED BY <1>2, <1>3, <2>2, <3>1, <3>2, <3>3, <3>4
  <2> QED BY <1>3, <2>1, <2>3, <2>4 DEF CountIsRight
<1>12. CASE Published
  <2>1. /\ count' = count - Len(signed.data) /\ (blocked' => count' >= MaxSend) /\ signed' = NoEvent
        /\ UNCHANGED <<queue, batches, abandoned>>
    BY <1>12 DEF Published, ghostVars
  <2>2. Waiting' = Len(queue) + 0 + InBatches
    <3>1. Len(signed'.data) = 0 /\ InBatches' = InBatches /\ Len(queue') = Len(queue)
      BY <1>4, <2>1 DEF InBatches
    <3> QED BY <3>1 DEF Waiting
  <2>3. count' >= Waiting' /\ (~abandoned => count' = Waiting')
    <3>1. PICK q \in Nat : q = Len(queue)
      BY <1>2
    <3>2. PICK s \in Nat : s = Len(signed.data)
      BY <1>2
    <3>3. PICK b \in Nat : b = InBatches
      BY <1>2
    <3>4. PICK c \in Nat : c = count
      BY <1>2
    <3>5. Waiting = q + s + b /\ Waiting' = q + 0 + b /\ count' = c - s
      BY <1>3, <2>1, <2>2, <3>1, <3>2, <3>3, <3>4
    <3>6. c >= q + s + b /\ (~abandoned => c = q + s + b)
      BY <1>3, <3>4, <3>5
    <3>7. c - s >= q + 0 + b /\ (~abandoned => c - s = q + 0 + b)
      BY <3>6
    <3> QED BY <3>5, <3>7
  <2> QED BY <1>3, <2>1, <2>3 DEF CountIsRight
<1>13. CASE Abandon
  <2>1. /\ abandoned' /\ batches' = <<>> /\ UNCHANGED <<queue, signed, count, blocked>>
    BY <1>13 DEF Abandon
  <2>2. Waiting' = Len(queue) + Len(signed.data) + 0
    BY <2>1 DEF Waiting, InBatches
  <2>3. count' >= Waiting'
    BY <1>2, <1>3, <2>1, <2>2
  <2> QED BY <1>3, <1>4, <2>1, <2>3 DEF CountIsRight
<1>14. CASE RestartSender
  <2>1. count' = 0 /\ ~blocked' /\ queue' = <<>> /\ batches' = <<>> /\ signed' = NoEvent
    BY <1>14 DEF RestartSender
  <2>2. Waiting' = 0
    BY <1>4, <2>1 DEF Waiting, InBatches
  <2> QED BY <1>4, <2>1, <2>2 DEF CountIsRight
<1>15. CASE ReceiverStep /\ UNCHANGED senderVars
  <2>1. UNCHANGED abandoned
    BY <1>15, ReceiverShapes DEF AsksAnew, Resumes, GoesLive, OnChanges, Apply, Note, Reconnect,
       Lose, RestartReceiver, ghostVars
  <2> QED BY <1>5, <1>15, <2>1 DEF senderVars
<1>16. CASE Write \/ CancelSync \/ OnSync \/ SyncRead \/ OnCursor \/ UNCHANGED vars
  BY <1>5, <1>16 DEF Write, CancelSync, OnSync, SyncRead, OnCursor, vars, senderVars, ghostVars
<1> QED BY <1>6, <1>7, <1>8, <1>9, <1>10, <1>11, <1>12, <1>13, <1>14, <1>15, <1>16, StepsOfTheParties
        DEF PeerStep, SendStep

\* Who waits for waitCanSend waits for something that is on its way.
LEMMA WaitingIsForSomething ==
    ASSUME NostrTypeOK, CountIsRight
    PROVE  BlockedHasWork
<1>1. SUFFICES ASSUME blocked, ~abandoned, queue = <<>>, batches = <<>>, signed = NoEvent
               PROVE FALSE
  BY DEF BlockedHasWork, Publishing
<1>2. Waiting = 0
  BY <1>1, EmptySeq DEF Waiting, InBatches, NoEvent
<1> QED BY <1>1, <1>2 DEF CountIsRight, NostrConstants

---------------------------------------------------------------------------
(* How far the stream reaches.                                             *)

\* How far the stream was published is a version, or where it began.
LEMMA SentIsTyped ==
    ASSUME NostrTypeOK, StreamsAreInOrder
    PROVE  Sent \in 0 .. MaxWrites /\ Sent \in Nat /\ OnItsWay \subseteq Nat
<1>1. NostrTypeOK /\ StreamsAreInOrder
  OBVIOUS
<1>2. Sent \in 0 .. MaxWrites
  <2>1. CASE signed # NoEvent /\ signed.stream = send.stream
    <3>1. signed \in AnyEvent
      BY <2>1 DEF AnyEvent, InHand
    <3>2. signed.id \in Nat \ {0} /\ signed.id <= lastId /\ lastId \in Nat
      BY <1>1, <3>1, EventsAreTyped, CursorsAreTyped DEF StreamsAreInOrder
    <3>3. signed.id \in 1 .. lastId
      BY <3>2
    <3> QED BY <1>1, <2>1, <3>3 DEF Sent, NostrTypeOK, EventTypeOK
  <2>2. CASE ~ (signed # NoEvent /\ signed.stream = send.stream)
    <3>1. send.last \in 0 .. lastId
      BY <1>1, CursorsAreTyped DEF IsCursor
    <3> QED BY <1>1, <2>2, <3>1, ReachedIsTyped DEF Sent
  <2> QED BY <2>1, <2>2
<1>3. Sent \in Nat
  BY <1>2 DEF NostrConstants
<1> QED BY <1>1, <1>2, <1>3, InFlightIsWithin DEF OnItsWay

\* So it is after a step.
LEMMA ReachIsTyped ==
    ASSUME NostrInv, [Next]_vars
    PROVE  /\ OnItsWay \subseteq Nat /\ OnItsWay' \subseteq Nat
           /\ Sent \in Nat /\ Sent' \in Nat
<1>1. NostrTypeOK /\ PeerIsConsistent /\ StreamsAreInOrder /\ CallsAreInOrder /\ CountIsRight
  BY DEF NostrInv
<1>2. NostrTypeOK'
  BY <1>1, SenderTypesKept, ReceiverTypesKept, EventTypesKept DEF NostrTypeOK
<1>3. StreamsAreInOrder'
  BY StreamsKept
<1>4. NostrTypeOK /\ StreamsAreInOrder => Sent \in Nat /\ OnItsWay \subseteq Nat
  BY SentIsTyped
<1>5. (NostrTypeOK /\ StreamsAreInOrder => Sent \in Nat /\ OnItsWay \subseteq Nat)'
  BY SentIsTyped, PTL
<1> QED BY <1>1, <1>2, <1>3, <1>4, <1>5

\* The history of the stream before an event does not change.
LEMMA ReachedStays ==
    ASSUME NostrInv, [Next]_vars, UNCHANGED cursorEvent, NEW n \in 0 .. lastId
    PROVE  Reached(n)' = Reached(n)
<1>1. NostrTypeOK /\ lastId \in Nat
  BY CursorsAreTyped DEF NostrInv
<1>2. n # 0 => covered'[n] = covered[n]
  BY <1>1, CoveredGrows
<1> QED BY <1>2 DEF Reached

\* A new stream is not served yet; else the sender serves what it did.
LEMMA ServingStays ==
    ASSUME NostrInv, [Next]_vars, Serving', ~OnCursor, ~RestartSender
    PROVE  Serving /\ ~AsksAnew /\ UNCHANGED cursorEvent /\ send'.stream = send.stream
<1>1. NostrTypeOK /\ PeerIsConsistent /\ StreamsAreInOrder
  BY DEF NostrInv
<1>2. send'.stream = send.stream /\ send.stream \in Nat /\ cursorEvent.stream \in Nat
      /\ send.stream <= cursorEvent.stream
  BY <1>1, StreamOfSender, PublishedEffect, CursorsAreTyped DEF StreamsAreInOrder
<1>3. ~AsksAnew
  <2>1. AsksAnew => cursorEvent'.stream = cursorEvent.stream + 1
    BY <1>1, ResyncEffect DEF AsksAnew
  <2> QED BY <1>2, <2>1 DEF Serving
<1>4. UNCHANGED cursorEvent
  BY <1>3, CursorEventKept
<1>5. UNCHANGED cutShort
  <2>1. CASE ReceiverStep
    BY <2>1, ReceiverShapes DEF AsksAnew, Resumes, GoesLive, OnChanges, Apply, Note, Reconnect,
       Lose, RestartReceiver, ghostVars
  <2>2. CASE ~ReceiverStep
    BY <2>2 DEF Next, ReceiverStep, Write, BroadcastSend, CancelSync, OnSync, SyncRead, SyncSend,
       SyncDrain, OnCursor, CallSync, PublishPending, Publish, Published, Abandon, vars, ghostVars
  <2> QED BY <2>1, <2>2
<1> QED BY <1>2, <1>3, <1>4, <1>5 DEF Serving

\* Publishing moves what was sent on by a batch; noting it does not.
LEMMA SentMoves ==
    ASSUME NostrInv, [Next]_vars, Serving', ~OnCursor, ~RestartSender
    PROVE  /\ ~Publish => Sent' = Sent
           /\ Publish => /\ Sent = Reached(send.last) /\ Sent' = Upto(Sent, batches[1])
                         /\ Sent <= Sent' /\ \A v \in Range(batches[1]) : v <= Sent'
                         /\ Sent' = Sent \/ Sent' \in Range(batches[1])
<1>1. NostrTypeOK /\ PeerIsConsistent /\ StreamsAreInOrder
  BY DEF NostrInv
<1>2. UNCHANGED cursorEvent /\ send'.stream = send.stream
  BY ServingStays
<1>3. send.last \in 0 .. lastId /\ lastId \in Nat
  BY <1>1, CursorsAreTyped DEF IsCursor
<1>4. CASE Publish
  <2>1. /\ signed = NoEvent /\ signed' # NoEvent /\ signed'.stream = send.stream /\ signed'.id = lastId + 1
        /\ send' = send /\ batches # <<>>
    BY <1>1, <1>4, PublishEffect
  <2>2. covered'[lastId + 1] = Upto(Reached(send.last), batches[1])
    BY <1>1, <1>4, CoveredGrows
  <2>3. Sent = Reached(send.last) /\ Sent' = covered'[lastId + 1]
    BY <2>1 DEF Sent
  <2>4. Range(batches[1]) \subseteq 1 .. MaxWrites
    <3>1. batches \in Seq(Seq(Versions))
      BY <1>1 DEF NostrTypeOK, SenderTypeOK
    <3> QED BY <2>1, <3>1, RangeHeadTail, RangeIsWithin DEF Versions
  <2>5. Sent \in 0 .. MaxWrites /\ MaxWrites \in Nat
    BY <1>1, SentIsTyped DEF NostrConstants
  <2>6. /\ Sent <= Upto(Sent, batches[1]) /\ \A v \in Range(batches[1]) : v <= Upto(Sent, batches[1])
        /\ Upto(Sent, batches[1]) = Sent \/ Upto(Sent, batches[1]) \in Range(batches[1])
    BY <2>4, <2>5, UptoMovesOn
  <2> QED BY <1>4, <2>2, <2>3, <2>6
<1>5. CASE Published
  <2>1. signed # NoEvent /\ signed' = NoEvent /\ signed \in AnyEvent
    BY <1>1, <1>5, PublishedEffect
  <2>2. signed.id \in Nat \ {0} /\ signed.id <= lastId
    BY <1>1, <2>1, EventsAreTyped DEF StreamsAreInOrder
  <2>3. UNCHANGED <<covered, lastId>> /\ ~Publish
    BY <1>5 DEF Published, Publish, ghostVars, relayVars
  <2>4. CASE signed.stream = send.stream
    <3>1. send'.last = signed.id /\ Sent = covered[signed.id]
      BY <1>1, <1>5, <2>1, <2>4, PublishedEffect DEF Sent
    <3>2. Sent' = covered[signed.id]
      BY <2>1, <2>2, <2>3, <3>1 DEF Sent, Reached
    <3> QED BY <2>3, <3>1, <3>2
  <2>5. CASE signed.stream # send.stream
    <3>1. send' = send
      BY <1>1, <1>5, <2>5, PublishedEffect
    <3> QED BY <1>2, <2>1, <2>3, <2>5, <3>1 DEF Sent, Reached
  <2> QED BY <2>4, <2>5
<1>6. CASE ~Publish /\ ~Published
  <2>1. send'.last = send.last /\ signed' = signed
    BY <1>1, <1>6, StreamOfSender
  <2>2. UNCHANGED covered
    BY <1>1, <1>6, CoveredGrows
  <2> QED BY <1>2, <1>6, <2>1, <2>2 DEF Sent, Reached
<1> QED BY <1>4, <1>5, <1>6

\* Something of a set is no less than a number.
Below(n, S) == \E v \in S : n <= v

\* It stays so where the set only grows or moves on.
LEMMA BelowStays ==
    ASSUME NEW n \in Int, NEW S \in SUBSET Nat, NEW T \in SUBSET Nat,
           \A v \in S : Below(v, T), Below(n, S)
    PROVE  Below(n, T)
<1>1. PICK v \in S : n <= v
  BY DEF Below
<1>2. PICK w \in T : v <= w
  BY <1>1 DEF Below
<1>3. v \in Nat /\ w \in Nat
  OBVIOUS
<1>4. n <= w
  BY <1>1, <1>2, <1>3
<1> QED BY <1>4 DEF Below

\* What holds of a number holds of every smaller one.
LEMMA BelowDown ==
    ASSUME NEW n \in Int, NEW m \in Int, NEW S \in SUBSET Nat, m <= n, Below(n, S)
    PROVE  Below(m, S)
<1>1. PICK v \in S : n <= v
  BY DEF Below
<1>2. v \in Nat
  OBVIOUS
<1>3. m <= v
  BY <1>1, <1>2
<1> QED BY <1>3 DEF Below

\* What is on its way stays so, or was published.
LEMMA OnItsWayStays ==
    ASSUME NostrInv, [Next]_vars, Serving', ~OnCursor, ~RestartSender
    PROVE  \A v \in OnItsWay : Below(v, OnItsWay')
<1>1. NostrTypeOK /\ PeerIsConsistent /\ StreamsAreInOrder /\ CallsAreInOrder
  BY DEF NostrInv
<1>2. OnItsWay \subseteq Nat
  BY <1>1, SentIsTyped
<1>3. CASE Publish
  <2>1. ~resync /\ ~resync' /\ InFlight = Range(batches[1]) \cup InFlight'
    BY <1>1, <1>3, PublishEffect DEF Publish
  <2>2. Sent <= Sent' /\ \A v \in Range(batches[1]) : v <= Sent'
    BY <1>3, SentMoves
  <2>3. ASSUME NEW v \in OnItsWay PROVE Below(v, OnItsWay')
    <3>1. v \in InFlight' => v <= v
      BY <1>2
    <3>2. v = Sent \/ v \in Range(batches[1]) \/ v \in InFlight'
      BY <2>1 DEF OnItsWay
    <3>3. Sent' \in OnItsWay' /\ (v \in InFlight' => v \in OnItsWay')
      BY <2>1 DEF OnItsWay
    <3> QED BY <2>2, <3>1, <3>2, <3>3 DEF Below
  <2> QED BY <2>3
<1>4. CASE ~Publish
  <2>1. Sent' = Sent
    BY <1>4, SentMoves
  <2>2. resync \/ (~resync' /\ InFlight \subseteq InFlight')
    <3>1. SUFFICES ASSUME ~resync PROVE ~resync' /\ InFlight \subseteq InFlight'
      OBVIOUS
    <3>2. CASE ReceiverStep /\ UNCHANGED senderVars
      BY <3>1, <3>2 DEF senderVars, InFlight
    <3>3. CASE Write \/ CancelSync \/ OnSync \/ SyncRead \/ Published \/ UNCHANGED vars
      BY <3>1, <3>3 DEF Write, CancelSync, OnSync, SyncRead, Published, InFlight, vars, senderVars
    <3>4. CASE BroadcastSend
      <4>1. UNCHANGED <<batches, resync>>
        BY <3>4 DEF BroadcastSend
      <4> QED BY <1>1, <3>1, <3>4, <4>1, BroadcastEffect, InFlightOfPeer
    <3>5. CASE SyncSend
      <4>1. UNCHANGED <<batches, resync>>
        BY <3>5 DEF SyncSend
      <4> QED BY <1>1, <3>1, <3>5, <4>1, SyncSendEffect, InFlightOfPeer
    <3>6. CASE SyncDrain
      <4>1. UNCHANGED <<batches, resync>>
        BY <3>6 DEF SyncDrain
      <4> QED BY <1>1, <3>1, <3>6, <4>1, SyncDrainEffect, InFlightOfPeer
    <3>7. CASE PublishPending
      BY <1>1, <3>1, <3>7, PublishPendingEffect DEF PublishPending
    <3>8. CASE CallSync \/ Abandon
      BY <3>1, <3>8 DEF CallSync, Abandon
    <3> QED BY <1>4, <3>2, <3>3, <3>4, <3>5, <3>6, <3>7, <3>8, StepsOfTheParties DEF PeerStep, SendStep
  <2>3. OnItsWay \subseteq OnItsWay'
    BY <2>1, <2>2 DEF OnItsWay
  <2>4. ASSUME NEW v \in OnItsWay PROVE v <= v
    BY <1>2
  <2> QED BY <2>3, <2>4 DEF Below
<1> QED BY <1>3, <1>4

---------------------------------------------------------------------------
(* All that was written is handed over.                                    *)

\* What a Peer that serves the sender's stream has handed over.
PeerHandsOver ==
    LET s == peer.sync IN
    peer.stream = send.stream =>
        /\ s.step \in {"read", "send"} => Below(s.from + s.offset, OnItsWay)
        /\ s.step = "send" /\ Len(s.rows) < Rows =>
            s.from + s.offset + Len(s.rows) >= written - Unsent \/ Below(written - Unsent, OnItsWay)
        /\ s.step \in {"off", "drain"} => Below(written - Unsent, OnItsWay)

\* The two ways of saying it are the same.
LEMMA HandedOverMeans ==
    AllIsHandedOver <=>
        (Serving =>
            /\ Below(send.cur, OnItsWay)
            /\ \A i \in DOMAIN calls :
                 calls[i].type = "sync" /\ calls[i].stream = send.stream => Below(calls[i].cur, OnItsWay)
            /\ PeerHandsOver)
BY DEF AllIsHandedOver, Reaches, Below, PeerHandsOver

\* What is to be sent is counted.
LEMMA UnsentIsCounted ==
    ASSUME NostrTypeOK
    PROVE  /\ Unsent \in Nat /\ written \in Nat /\ peer.sync.from \in Nat /\ peer.sync.offset \in Nat
           /\ Len(peer.sync.rows) \in Nat /\ Rows \in Nat \ {0} /\ peer.sync \in Syncs
           /\ Len(peer.pending) \in Nat /\ Len(calls) \in Nat
<1>1. /\ peer.sync \in Syncs /\ peer.pending \in Seq(Versions) /\ calls \in Seq(Calls)
      /\ written \in Nat /\ Rows \in Nat \ {0}
  BY CursorsAreTyped DEF NostrTypeOK, SenderTypeOK, PeerInfos, NostrConstants
<1>2. peer.sync.from \in Nat /\ peer.sync.offset \in Nat /\ peer.sync.rows \in Seq(Versions)
  BY <1>1 DEF Syncs, NostrConstants
<1> QED BY <1>1, <1>2, LenProperties DEF Unsent

\* The stream reaches as far as the sender's cursor.
LEMMA CursorIsReached ==
    ASSUME NostrInv, [Next]_vars, Serving'
    PROVE  Below(send'.cur, OnItsWay')
<1>1. /\ NostrTypeOK /\ PeerIsConsistent /\ StreamsAreInOrder /\ CallsAreInOrder /\ AllIsHandedOver
      /\ NothingIsSkipped
  BY DEF NostrInv
<1>2. /\ send.cur \in Nat /\ cursorEvent.cur \in Nat /\ saved.cur \in Nat /\ OnItsWay \subseteq Nat
      /\ send.stream \in Nat /\ cursorEvent.stream \in Nat /\ saved.stream \in Nat /\ written \in Nat
  BY <1>1, CursorsAreTyped, SentIsTyped
<1>3. CASE OnCursor
  <2>1. send' = cursorEvent /\ send.stream # cursorEvent.stream /\ resync'
    BY <1>1, <1>3, OnCursorEffect
  <2>2. signed' = signed /\ UNCHANGED cursorEvent /\ send.stream <= cursorEvent.stream /\ cursorEvent.last = 0
    BY <1>1, <1>3 DEF OnCursor, relayVars, StreamsAreInOrder
  <2>3. ~ (signed # NoEvent /\ signed.stream = cursorEvent.stream)
    <3>1. SUFFICES ASSUME signed # NoEvent PROVE signed.stream <= send.stream /\ signed.stream \in Nat
      BY <1>2, <2>1, <2>2
    <3>2. signed \in AnyEvent
      BY <3>1 DEF AnyEvent, InHand
    <3> QED BY <1>1, <3>1, <3>2, EventsAreTyped DEF StreamsAreInOrder
  <2>4. Sent' = cursorEvent.cur
    BY <2>1, <2>2, <2>3 DEF Sent, Reached
  <2>5. send'.cur = Sent' /\ Sent' \in OnItsWay' /\ Sent' <= Sent'
    BY <1>2, <2>1, <2>4 DEF OnItsWay
  <2> QED BY <2>5 DEF Below
<1>4. CASE RestartSender
  <2>1. /\ send' = saved /\ signed' = NoEvent /\ resync' = (saved # NoStream)
        /\ cutShort' = (cutShort \/ (saved.stream = send.stream /\ (queue # <<>> \/ Publishing)))
        /\ UNCHANGED <<cursorEvent, covered>> /\ queue' = <<>> /\ batches' = <<>>
    BY <1>4 DEF RestartSender, relayVars
  <2>2. /\ saved.stream <= send.stream /\ send.stream <= cursorEvent.stream
        /\ saved.stream = send.stream => saved.last = send.last /\ saved.cur <= send.cur
    BY <1>1 DEF StreamsAreInOrder
  <2>3. saved.stream = cursorEvent.stream /\ cursorEvent.stream # 0 /\ ~cutShort'
    BY <2>1 DEF Serving
  <2>4. /\ saved.stream = send.stream /\ saved.last = send.last /\ saved.cur <= send.cur /\ ~cutShort
        /\ queue = <<>> /\ batches = <<>> /\ signed = NoEvent
    <3>1. saved.stream = send.stream
      BY <1>2, <2>2, <2>3
    <3>2. ~cutShort /\ ~ (queue # <<>> \/ Publishing)
      BY <2>1, <2>3, <3>1
    <3> QED BY <2>2, <3>1, <3>2 DEF Publishing
  <2>5. Serving
    BY <2>3, <2>4 DEF Serving
  <2>6. Below(send.cur, OnItsWay)
    BY <1>1, <2>5, HandedOverMeans
  <2>7. Sent' = Sent
    BY <2>1, <2>4 DEF Sent, Reached
  <2>8. InFlight = {}
    <3>1. Range(<<>>) = {}
      BY DEF Range
    <3> QED BY <2>4, <3>1 DEF InFlight
  <2>9. OnItsWay = {Sent} /\ Sent' \in OnItsWay' /\ Sent \in Nat
    BY <1>1, <2>8, SentIsTyped DEF OnItsWay
  <2>10. send.cur <= Sent
    BY <2>6, <2>9 DEF Below
  <2>11. send'.cur <= Sent'
    BY <1>2, <2>1, <2>4, <2>7, <2>9, <2>10
  <2> QED BY <2>9, <2>11 DEF Below
<1>5. CASE ~OnCursor /\ ~RestartSender
  <2>1. Serving /\ send'.stream = send.stream /\ UNCHANGED cursorEvent
    BY <1>5, ServingStays
  <2>2. Below(send.cur, OnItsWay)
    BY <1>1, <2>1, HandedOverMeans
  <2>3. \A v \in OnItsWay : Below(v, OnItsWay')
    BY <1>5, OnItsWayStays
  <2>4. OnItsWay' \subseteq Nat
    BY ReachIsTyped
  <2>5. Below(send.cur, OnItsWay')
    BY <1>2, <2>2, <2>3, <2>4, BelowStays
  <2>6. ASSUME NEW v \in OnItsWay' PROVE Below(v, OnItsWay')
    BY <2>4 DEF Below
  <2>7. CASE send'.cur = send.cur
    BY <2>5, <2>7
  <2>8. CASE SyncSend /\ send'.cur # send.cur
    <3>1. Aliased /\ send'.cur \in Range(peer.sync.rows) /\ Scheduled(peer.sync.rows)
          /\ peer.sync.rows \in Seq(Versions)
      BY <1>1, <2>8, SyncSendEffect
    <3>2. send'.cur \in InFlight' /\ UNCHANGED resync
      BY <1>1, <2>8, <3>1, InFlightOfPeer DEF SyncSend, Takes, Aliased
    <3>3. ~resync
      BY <1>1, <1>2, <3>1 DEF Aliased, StreamsAreInOrder
    <3>4. send'.cur \in OnItsWay'
      BY <3>2, <3>3 DEF OnItsWay
    <3> QED BY <2>6, <3>4
  <2>9. CASE SyncDrain /\ send'.cur # send.cur
    <3>1. Aliased /\ send'.cur \in Range(peer.pending) /\ Scheduled(peer.pending)
          /\ peer.pending \in Seq(Versions)
      BY <1>1, <2>9, SyncDrainEffect
    <3>2. send'.cur \in InFlight' /\ UNCHANGED resync
      BY <1>1, <2>9, <3>1, InFlightOfPeer DEF SyncDrain, Takes, Aliased
    <3>3. ~resync
      BY <1>1, <1>2, <3>1 DEF Aliased, StreamsAreInOrder
    <3>4. send'.cur \in OnItsWay'
      BY <3>2, <3>3 DEF OnItsWay
    <3> QED BY <2>6, <3>4
  <2>10. CASE Published /\ send'.cur # send.cur
    <3>1. /\ signed # NoEvent /\ signed \in AnyEvent /\ signed.stream = send.stream
          /\ send'.cur \in Range(signed.data)
      BY <1>1, <2>10, PublishedEffect
    <3>2. covered[signed.id] = Upto(Reached(signed.prev), signed.data)
      BY <1>1, <2>1, <3>1 DEF NothingIsSkipped, Serving
    <3>3. /\ Range(signed.data) \subseteq 1 .. MaxWrites /\ signed.prev \in 0 .. lastId
          /\ MaxWrites \in Nat
      <4>1. signed.data \in Seq(Versions) /\ signed.prev \in Nat /\ signed.id \in Nat
        BY <1>1, <3>1, EventsAreTyped
      <4>2. signed.prev < signed.id /\ signed.id <= lastId /\ lastId \in Nat
        BY <1>1, <3>1, CursorsAreTyped DEF StreamsAreInOrder
      <4> QED BY <4>1, <4>2, RangeIsWithin DEF Versions, NostrConstants
    <3>4. send'.cur <= Upto(Reached(signed.prev), signed.data)
      BY <1>1, <3>1, <3>3, ReachedIsTyped, UptoMovesOn
    <3>5. Sent' = Upto(Reached(signed.prev), signed.data)
      <4>1. Sent = covered[signed.id]
        BY <3>1 DEF Sent
      <4>2. ~Publish
        BY <3>1 DEF Publish
      <4> QED BY <1>5, <3>2, <4>1, <4>2, SentMoves
    <3>6. Sent' \in OnItsWay'
      BY DEF OnItsWay
    <3> QED BY <3>4, <3>5, <3>6 DEF Below
  <2> QED BY <1>1, <1>5, <2>7, <2>8, <2>9, <2>10, StreamOfSender
<1> QED BY <1>3, <1>4, <1>5

\* The stream reaches as far as the calls of Peer's onSync for it.
LEMMA CallsAreReached ==
    ASSUME NostrInv, [Next]_vars, Serving', NEW i \in DOMAIN calls',
           calls'[i].type = "sync", calls'[i].stream = send'.stream
    PROVE  Below(calls'[i].cur, OnItsWay')
<1>1. /\ NostrTypeOK /\ PeerIsConsistent /\ StreamsAreInOrder /\ CallsAreInOrder /\ AllIsHandedOver
      /\ CountIsRight
  BY DEF NostrInv
<1>2. /\ calls \in Seq(Calls) /\ DOMAIN calls = 1 .. Len(calls) /\ Len(calls) \in Nat
      /\ calls' \in Seq(Calls) /\ DOMAIN calls' = 1 .. Len(calls') /\ Len(calls') \in Nat
      /\ send.stream \in Nat /\ cursorEvent.stream \in Nat /\ send.stream <= cursorEvent.stream
  <2>1. calls \in Seq(Calls) /\ calls' \in Seq(Calls)
    BY <1>1, SenderTypesKept DEF NostrTypeOK, SenderTypeOK
  <2> QED BY <1>1, <2>1, LenProperties, CursorsAreTyped DEF StreamsAreInOrder
<1>3. ASSUME NEW j \in DOMAIN calls PROVE calls[j].stream \in Nat /\ calls[j].cur \in Int
  <2>1. calls[j] \in Calls
    BY <1>2, ElementOfSeq
  <2> QED BY <2>1 DEF Calls, NostrConstants
<1>4. CASE OnCursor
  <2>1. send' = cursorEvent /\ send.stream # cursorEvent.stream /\ calls' = calls
    BY <1>1, <1>4, OnCursorEffect DEF OnCursor
  <2>2. calls[i].stream <= send.stream
    BY <1>1, <2>1 DEF CallsAreInOrder
  <2> QED BY <1>2, <1>3, <2>1, <2>2
<1>5. CASE RestartSender
  BY <1>5, EmptySeq DEF RestartSender
<1>6. CASE CallSync /\ i = Len(calls) + 1
  <2>1. calls'[i].cur = send.cur /\ send' = send
    BY <1>1, <1>6, CallSyncEffect DEF CallSync
  <2> QED BY <2>1, CursorIsReached
<1>7. CASE ~OnCursor /\ ~RestartSender /\ ~ (CallSync /\ i = Len(calls) + 1)
  <2>1. Serving /\ send'.stream = send.stream
    BY <1>7, ServingStays
  <2>2. \E j \in DOMAIN calls : calls'[i] = calls[j]
    <3>1. CASE UNCHANGED calls
      BY <3>1
    <3>2. CASE Write
      BY <1>1, <1>2, <3>2, WriteEffect
    <3>3. CASE BroadcastSend
      <4>1. Len(calls') = Len(calls) - 1 /\ calls'[i] = calls[i + 1]
        BY <1>1, <1>2, <3>3, BroadcastEffect
      <4>2. i + 1 \in 1 .. Len(calls)
        BY <1>2, <4>1
      <4> QED BY <1>2, <4>1, <4>2
    <3>4. CASE OnSync
      <4>1. ~IsIdle /\ calls' = Tail(calls)
        BY <1>1, <3>4, OnSyncEffect
      <4>2. Len(calls') = Len(calls) - 1 /\ calls'[i] = calls[i + 1]
        BY <1>1, <1>2, <4>1, HeadOfCalls
      <4>3. i + 1 \in 1 .. Len(calls)
        BY <1>2, <4>2
      <4> QED BY <1>2, <4>2, <4>3
    <3>5. CASE CallSync
      <4>1. Len(calls') = Len(calls) + 1 /\ \A k \in 1 .. Len(calls) : calls'[k] = calls[k]
        BY <1>1, <3>5, CallSyncEffect
      <4>2. i \in 1 .. Len(calls)
        BY <1>2, <1>7, <3>5, <4>1
      <4> QED BY <1>2, <4>1, <4>2
    <3> QED BY <1>1, <1>7, <3>1, <3>2, <3>3, <3>4, <3>5, CallsMove
  <2>3. PICK j \in DOMAIN calls : calls'[i] = calls[j]
    BY <2>2
  <2>4. Below(calls[j].cur, OnItsWay)
    BY <1>1, <2>1, <2>3, HandedOverMeans
  <2> QED BY <1>3, <1>7, <2>3, <2>4, OnItsWayStays, ReachIsTyped, BelowStays
<1> QED BY <1>4, <1>5, <1>6, <1>7

\* Peer hands over what it reads, then what is pending, then what is broadcast.
LEMMA PeerHandsOverKept ==
    ASSUME NostrInv, [Next]_vars, Serving', peer'.stream = send'.stream
    PROVE  PeerHandsOver'
<1>1. /\ NostrTypeOK /\ PeerIsConsistent /\ StreamsAreInOrder /\ CallsAreInOrder /\ AllIsHandedOver
      /\ CountIsRight
  BY DEF NostrInv
<1> DEFINE s == peer.sync
           at == s.from + s.offset
<1>2. /\ Unsent \in Nat /\ written \in Nat /\ s.from \in Nat /\ s.offset \in Nat /\ at \in Nat
      /\ Len(s.rows) \in Nat /\ Rows \in Nat \ {0} /\ s \in Syncs
      /\ Len(peer.pending) \in Nat /\ Len(calls) \in Nat
      /\ send.stream \in Nat /\ cursorEvent.stream \in Nat /\ peer.stream \in Nat
      /\ send.stream <= cursorEvent.stream /\ peer.stream <= send.stream
      /\ resync => peer.stream < send.stream
  <2>1. /\ Unsent \in Nat /\ written \in Nat /\ s.from \in Nat /\ s.offset \in Nat
        /\ Len(s.rows) \in Nat /\ Rows \in Nat \ {0} /\ s \in Syncs
        /\ Len(peer.pending) \in Nat /\ Len(calls) \in Nat
    BY <1>1, UnsentIsCounted
  <2>2. send.stream \in Nat /\ cursorEvent.stream \in Nat
    BY <1>1, CursorsAreTyped
  <2>3. peer.stream \in Nat
    BY <1>1 DEF NostrTypeOK, SenderTypeOK, PeerInfos
  <2>4. send.stream <= cursorEvent.stream /\ peer.stream <= send.stream
        /\ (resync => peer.stream < send.stream)
    BY <1>1 DEF StreamsAreInOrder
  <2> QED BY <2>1, <2>2, <2>3, <2>4
<1>3. ~OnCursor /\ ~RestartSender
  <2>1. OnCursor => send' = cursorEvent /\ send.stream # cursorEvent.stream /\ peer'.stream = peer.stream
    BY <1>1, OnCursorEffect
  <2>2. RestartSender => peer'.stream = 0 /\ cursorEvent' = cursorEvent
    BY DEF RestartSender, NewPeer, relayVars
  <2>3. send'.stream # 0
    BY DEF Serving
  <2> QED BY <1>2, <2>1, <2>2, <2>3
<1>4. Serving /\ send'.stream = send.stream
  BY <1>3, ServingStays
<1>5. OnItsWay \subseteq Nat /\ OnItsWay' \subseteq Nat /\ \A v \in OnItsWay : Below(v, OnItsWay')
  BY <1>3, OnItsWayStays, ReachIsTyped
<1>6. ASSUME NEW n \in Int, Below(n, OnItsWay) PROVE Below(n, OnItsWay')
  BY <1>5, <1>6, BelowStays
<1>7. ASSUME NEW n \in Int, NEW m \in Int, m <= n, Below(n, OnItsWay') PROVE Below(m, OnItsWay')
  BY <1>5, <1>7, BelowDown
<1>a. ASSUME NEW n \in Int, NEW v \in OnItsWay', n <= v PROVE Below(n, OnItsWay')
  BY <1>a DEF Below
<1>b. ASSUME NEW n \in Int, NEW m \in Int, m <= n, Below(n, OnItsWay) PROVE Below(m, OnItsWay')
  BY <1>6, <1>7, <1>b
\* A Peer of the stream hands over into what is on its way.
<1>8. ASSUME NEW data \in Seq(Versions), Scheduled(data), peer.stream = send.stream,
             UNCHANGED <<batches, resync>>
      PROVE  Range(data) \subseteq OnItsWay'
  <2>1. ~resync
    BY <1>2, <1>8
  <2>2. Range(data) \subseteq InFlight'
    BY <1>1, <1>8, InFlightOfPeer DEF Takes
  <2> QED BY <1>8, <2>1, <2>2 DEF OnItsWay
<1>9. CASE OnSync
  <2>1. /\ ~IsIdle /\ calls[1].type = "sync" /\ peer'.stream = calls[1].stream
        /\ peer'.sync.step = "read" /\ peer'.sync.from = calls[1].cur /\ peer'.sync.offset = 0
    BY <1>1, <1>9, OnSyncEffect
  <2>2. 1 \in DOMAIN calls /\ calls[1].cur \in Nat
    BY <1>1, <2>1, HeadOfCalls, LenProperties DEF Calls, NostrConstants
  <2>3. calls[1].stream = send.stream
    BY <1>4, <2>1
  <2>4. Below(calls[1].cur, OnItsWay)
    BY <1>1, <1>4, <2>1, <2>2, <2>3, HandedOverMeans
  <2>5. Below(calls[1].cur, OnItsWay')
    BY <1>6, <2>2, <2>4
  <2>6. peer'.sync.from + peer'.sync.offset = calls[1].cur
    BY <2>1, <2>2
  <2> QED BY <2>1, <2>5, <2>6 DEF PeerHandsOver
<1>10. CASE ~OnSync
  <2>1. peer'.stream = peer.stream /\ peer.stream = send.stream
    BY <1>1, <1>3, <1>4, <1>10, PeerMoves
  <2>2. /\ s.step \in {"read", "send"} => Below(at, OnItsWay)
        /\ s.step = "send" /\ Len(s.rows) < Rows =>
            at + Len(s.rows) >= written - Unsent \/ Below(written - Unsent, OnItsWay)
        /\ s.step \in {"off", "drain"} => Below(written - Unsent, OnItsWay)
    BY <1>1, <1>4, <2>1, HandedOverMeans DEF PeerHandsOver
  <2>3. written - Unsent \in Int /\ ~resync
    BY <1>2, <2>1
  <2> HIDE DEF s, at
  <2>4. ASSUME peer'.sync = peer.sync \/ CancelSync, written' - Unsent' = written - Unsent
        PROVE  PeerHandsOver'
    <3>1. /\ peer'.sync.step = s.step /\ peer'.sync.from = s.from /\ peer'.sync.offset = s.offset
          /\ peer'.sync.rows = s.rows
      BY <1>1, <2>4, CancelEffect DEF s
    <3>2. peer'.sync.from + peer'.sync.offset = at
      BY <3>1 DEF at
    <3> QED BY <1>2, <1>6, <2>2, <2>3, <2>4, <3>1, <3>2 DEF PeerHandsOver
  <2>5. CASE Write
    <3>1. /\ written' = written + 1 /\ peer'.active = peer.active /\ peer'.sync = peer.sync /\ calls = <<>>
          /\ peer.active => Len(calls') = 1
          /\ ~peer.active => peer'.pending = Append(peer.pending, written') /\ written' \in Versions
      BY <1>1, <2>5, WriteEffect DEF Write, IsIdle
    <3>2. Unsent' = Unsent + 1
      <4>1. CASE peer.active
        BY <3>1, <4>1, EmptySeq DEF Unsent
      <4>2. CASE ~peer.active
        <5>1. peer.pending \in Seq(Versions)
          BY <1>1 DEF NostrTypeOK, SenderTypeOK, PeerInfos
        <5>2. Len(Append(peer.pending, written')) = Len(peer.pending) + 1
          BY <3>1, <4>2, <5>1, RangeAppend
        <5> QED BY <3>1, <4>2, <5>2 DEF Unsent
      <4> QED BY <4>1, <4>2
    <3> QED BY <1>2, <2>4, <3>1, <3>2
  <2>6. CASE BroadcastSend
    <3>1. /\ UNCHANGED <<peer, written, batches, resync>> /\ send.cur <= written
          /\ Len(calls') = Len(calls) - 1 /\ peer.active
      BY <1>1, <2>6, BroadcastEffect, CursorsAreTyped DEF BroadcastSend, IsCursor
    <3>2. /\ BroadcastData \in Seq(Versions) /\ Scheduled(BroadcastData)
          /\ Range(BroadcastData) = {written}
      BY <1>1, <2>1, <2>6, <3>1, BroadcastEffect, CursorsAreTyped DEF Aliased
    <3>3. written \in OnItsWay'
      BY <1>8, <2>1, <3>1, <3>2
    <3>4. Unsent' \in Nat
      BY <1>2, <3>1, BroadcastEffect, <1>1, <2>6, LenProperties DEF Unsent
    <3>5. written - Unsent' \in Int /\ written - Unsent' <= written
      <4>1. PICK u \in Nat : u = Unsent'
        BY <3>4
      <4>2. PICK w \in Nat : w = written
        BY <1>2
      <4>3. w - u \in Int /\ w - u <= w
        OBVIOUS
      <4> QED BY <4>1, <4>2, <4>3
    <3>6. Below(written' - Unsent', OnItsWay')
      BY <1>a, <3>1, <3>3, <3>5
    <3>7. at \in Int /\ peer'.sync = peer.sync /\ peer'.sync.from + peer'.sync.offset = at
      BY <1>2, <3>1 DEF at, s
    <3> QED BY <1>6, <2>2, <3>6, <3>7 DEF PeerHandsOver, s
  <2>7. CASE SyncRead
    <3>1. /\ peer'.active = peer.active /\ peer'.pending = peer.pending
          /\ peer'.sync.from = s.from /\ peer'.sync.offset = s.offset
          /\ UNCHANGED <<written, calls>> /\ s.step = "read"
      BY <1>1, <2>7, RowsAreVersions DEF SyncRead, s
    <3>2. ~s.cancel
      BY <1>1, <1>2, <2>1, <3>1 DEF PeerIsConsistent, s
    <3>3. \/ peer'.sync.step = "drain" /\ written <= at
          \/ /\ peer'.sync.step = "send"
             /\ Len(peer'.sync.rows) < Rows => at + Len(peer'.sync.rows) >= written
             /\ Len(peer'.sync.rows) \in Nat
      BY <1>1, <1>2, <2>7, <3>2, RowsAreVersions DEF s, at
    <3>4. Unsent' = Unsent /\ peer'.sync.from + peer'.sync.offset = at
      BY <3>1 DEF Unsent, at
    <3>5. Below(at, OnItsWay')
      BY <1>2, <1>6, <2>2, <3>1
    <3>6. CASE peer'.sync.step = "drain" /\ written <= at
      <4>1. written - Unsent <= at
        BY <1>2, <3>6
      <4>2. Below(written - Unsent, OnItsWay')
        BY <1>2, <1>7, <2>3, <3>5, <4>1
      <4> QED BY <3>1, <3>4, <3>6, <4>2 DEF PeerHandsOver
    <3>7. CASE /\ peer'.sync.step = "send" /\ Len(peer'.sync.rows) \in Nat
               /\ Len(peer'.sync.rows) < Rows => at + Len(peer'.sync.rows) >= written
      <4>1. Len(peer'.sync.rows) < Rows => at + Len(peer'.sync.rows) >= written - Unsent
        BY <1>2, <3>7
      <4> QED BY <3>1, <3>4, <3>5, <3>7, <4>1 DEF PeerHandsOver
    <3> QED BY <3>3, <3>6, <3>7
  <2>8. CASE SyncSend
    <3>1. /\ s.step = "send" /\ s.rows \in Seq(Versions) /\ Scheduled(s.rows)
          /\ peer'.active = peer.active /\ peer'.pending = peer.pending
          /\ peer'.sync.from = s.from /\ peer'.sync.offset = s.offset + Rows
          /\ peer'.sync.step = IF Len(s.rows) < Rows THEN "drain" ELSE "read"
          /\ UNCHANGED <<written, calls, batches, resync>>
      BY <1>1, <2>8, SyncSendEffect DEF SyncSend, s
    <3>2. Len(s.rows) \in 1 .. Rows /\ \A k \in DOMAIN s.rows : s.rows[k] = at + k
      BY <1>1, <3>1 DEF PeerIsConsistent, s, at
    <3>3. at + Len(s.rows) \in OnItsWay'
      <4>1. Range(s.rows) \subseteq OnItsWay'
        BY <1>8, <2>1, <3>1
      <4>2. Len(s.rows) \in DOMAIN s.rows
        BY <3>1, <3>2, LenProperties
      <4>3. at + Len(s.rows) \in Range(s.rows)
        BY <3>2, <4>2 DEF Range
      <4> QED BY <4>1, <4>3
    <3>4. Unsent' = Unsent
      BY <3>1 DEF Unsent
    <3>5. CASE Len(s.rows) < Rows
      <4>1. at + Len(s.rows) >= written - Unsent => Below(written - Unsent, OnItsWay')
        BY <1>2, <1>a, <2>3, <3>3
      <4>2. Below(written - Unsent, OnItsWay')
        BY <1>6, <2>2, <2>3, <3>1, <3>5, <4>1
      <4> QED BY <3>1, <3>4, <3>5, <4>2 DEF PeerHandsOver
    <3>6. CASE ~ (Len(s.rows) < Rows)
      <4>1. Len(s.rows) = Rows /\ peer'.sync.step = "read"
        BY <1>2, <3>1, <3>2, <3>6
      <4>2. peer'.sync.from + peer'.sync.offset = at + Len(s.rows) /\ at + Len(s.rows) \in Int
        BY <1>2, <3>1, <4>1 DEF at
      <4>3. Below(at + Len(s.rows), OnItsWay')
        <5>1. at + Len(s.rows) <= at + Len(s.rows)
          BY <1>2
        <5> QED BY <1>a, <3>3, <4>2, <5>1
      <4> QED BY <4>1, <4>2, <4>3 DEF PeerHandsOver
    <3> QED BY <3>5, <3>6
  <2>9. CASE SyncDrain
    <3>1. /\ s.step = "drain" /\ peer.pending \in Seq(Versions) /\ Scheduled(peer.pending)
          /\ peer'.active /\ peer'.sync.step = "off"
          /\ UNCHANGED <<written, calls, batches, resync>>
      BY <1>1, <2>9, SyncDrainEffect DEF SyncDrain, s, NoSync
    <3>2. Unsent' = Len(calls)
      BY <3>1 DEF Unsent
    <3>3. Below(written - Len(calls), OnItsWay')
      <4>1. CASE peer.active
        <5>1. Unsent = Len(calls)
          BY <4>1 DEF Unsent
        <5> QED BY <1>6, <2>2, <2>3, <3>1, <5>1
      <4>2. CASE ~peer.active /\ peer.pending = <<>>
        <5>1. Unsent = 0
          BY <4>2, EmptySeq DEF Unsent
        <5>2. Below(written, OnItsWay')
          <6>1. written - 0 = written /\ written \in Int
            BY <1>2
          <6> QED BY <1>6, <2>2, <3>1, <5>1, <6>1
        <5> QED BY <1>2, <1>7, <5>2
      <4>3. CASE ~peer.active /\ peer.pending # <<>>
        <5> DEFINE n == Len(peer.pending)
        <5>1. n \in DOMAIN peer.pending /\ n \in Nat
          BY <3>1, <4>3, RangeIsWithin
        <5>2. peer.pending[n] = written - n + n
          BY <1>1, <5>1 DEF PeerIsConsistent
        <5>3. written \in Range(peer.pending)
          BY <1>2, <5>1, <5>2 DEF Range
        <5>4. written \in OnItsWay'
          BY <1>8, <2>1, <3>1, <5>3
        <5>5. written - Len(calls) <= written /\ written - Len(calls) \in Int
          BY <1>2
        <5> QED BY <1>a, <5>4, <5>5
      <4> QED BY <4>1, <4>2, <4>3
    <3> QED BY <3>1, <3>2, <3>3 DEF PeerHandsOver
  <2>10. CASE ~Write /\ ~BroadcastSend /\ ~SyncRead /\ ~SyncSend /\ ~SyncDrain
    <3>1. ~CallSync
      BY <2>3 DEF CallSync
    <3>2. peer' = peer \/ CancelSync
      <4>1. CASE ReceiverStep /\ UNCHANGED senderVars
        BY <4>1 DEF senderVars
      <4>2. CASE PublishPending \/ Publish \/ Published \/ Abandon \/ UNCHANGED vars
        BY <4>2 DEF PublishPending, Publish, Published, Abandon, vars, senderVars
      <4> QED BY <1>3, <1>10, <2>10, <3>1, <4>1, <4>2, StepsOfTheParties DEF PeerStep, SendStep
    <3>3. UNCHANGED <<written, calls>>
      <4>1. UNCHANGED calls
        BY <1>1, <1>3, <1>10, <2>10, <3>1, CallsMove
      <4>2. UNCHANGED written
        BY <1>3, <1>10, <2>10, StepsOfTheParties DEF PeerStep, CancelSync, vars, senderVars
      <4> QED BY <4>1, <4>2
    <3>4. Unsent' = Unsent
      BY <1>1, <3>2, <3>3, CancelEffect DEF Unsent
    <3> QED BY <2>4, <3>2, <3>3, <3>4
  <2> QED BY <2>5, <2>6, <2>7, <2>8, <2>9, <2>10
<1> QED BY <1>9, <1>10

\* All that was written stays handed over.
LEMMA HandedOverKept ==
    ASSUME NostrInv, [Next]_vars
    PROVE  AllIsHandedOver'
<1>1. Serving' =>
        /\ Below(send'.cur, OnItsWay')
        /\ \A i \in DOMAIN calls' :
             calls'[i].type = "sync" /\ calls'[i].stream = send'.stream => Below(calls'[i].cur, OnItsWay')
        /\ PeerHandsOver'
  <2>1. Serving' => PeerHandsOver'
    BY PeerHandsOverKept DEF PeerHandsOver
  <2> QED BY <2>1, CursorIsReached, CallsAreReached
<1> QED BY <1>1 DEF AllIsHandedOver, Reaches, Below, PeerHandsOver

---------------------------------------------------------------------------
(* Nothing is skipped.                                                     *)

\* What has gone wrong stays so.
LEMMA WrongStays ==
    ASSUME [Next]_vars
    PROVE  (overtaken => overtaken') /\ (cutShort => cutShort')
<1>1. CASE ReceiverStep
  BY <1>1, ReceiverShapes DEF AsksAnew, Resumes, GoesLive, OnChanges, Apply, Note, Reconnect,
     Lose, RestartReceiver, ghostVars
<1>2. CASE BroadcastSend
  <2>1. overtaken' = (overtaken \/ (Aliased /\ peer.sync.step # "off")) /\ UNCHANGED cutShort
    BY <1>2 DEF BroadcastSend
  <2>2. CASE overtaken
    BY <2>1, <2>2
  <2>3. CASE ~overtaken
    BY <2>1, <2>3
  <2> QED BY <2>2, <2>3
<1>3. CASE RestartSender
  <2>1. /\ cutShort' = (cutShort \/ (saved.stream = send.stream /\ (queue # <<>> \/ Publishing)))
        /\ UNCHANGED overtaken
    BY <1>3 DEF RestartSender
  <2>2. CASE cutShort
    BY <2>1, <2>2
  <2>3. CASE ~cutShort
    BY <2>1, <2>3
  <2> QED BY <2>2, <2>3
<1>4. CASE PeerStep /\ ~BroadcastSend
  BY <1>4 DEF PeerStep, Write, CancelSync, OnSync, SyncRead, SyncSend, SyncDrain, ghostVars
<1>5. CASE SendStep /\ ~RestartSender
  BY <1>5 DEF SendStep, OnCursor, CallSync, PublishPending, Publish, Published, Abandon, ghostVars
<1> QED BY <1>1, <1>2, <1>3, <1>4, <1>5, StepsOfTheParties DEF vars, ghostVars

\* The sender serves the stream, and no broadcast went out beside a syncPeer.
Orderly == Serving /\ ~resync /\ ~overtaken

BatchesHaveNoGap ==
    \A i \in DOMAIN batches : \A v \in Range(batches[i]) :
        \A u \in Sent + 1 .. v : \E j \in 1 .. i : u \in Range(batches[j])
QueueHasNoGap == \A v \in Range(queue) : Sent + 1 .. v \subseteq InFlight

\* Up to where the stream reaches with what is on its way, all is on its way.
LEMMA WayHasNoGap ==
    ASSUME NostrInv, Orderly, NEW n \in Int, Below(n, OnItsWay)
    PROVE  Sent + 1 .. n \subseteq InFlight
<1>1. NostrTypeOK /\ StreamsAreInOrder /\ BatchesHaveNoGap /\ QueueHasNoGap
  BY DEF NostrInv, NothingIsSkipped, Orderly, BatchesHaveNoGap, QueueHasNoGap
<1>2. PICK w \in OnItsWay : n <= w
  BY DEF Below
<1>3. Sent \in Nat /\ w \in Nat
  BY <1>1, <1>2, SentIsTyped
<1>4. CASE w = Sent
  BY <1>2, <1>3, <1>4
<1>5. CASE w \in Range(queue)
  <2>1. Sent + 1 .. w \subseteq InFlight
    BY <1>1, <1>5 DEF QueueHasNoGap
  <2> QED BY <1>2, <1>3, <2>1
<1>6. CASE w # Sent /\ w \notin Range(queue)
  <2>1. w \in InFlight
    BY <1>2, <1>6 DEF OnItsWay, Orderly
  <2>2. PICK i \in 1 .. Len(batches) : w \in Range(batches[i])
    BY <1>1, <1>6, <2>1, InFlightMeans
  <2>3. DOMAIN batches = 1 .. Len(batches) /\ Len(batches) \in Nat
    BY <1>1, LenProperties DEF NostrTypeOK, SenderTypeOK
  <2>4. ASSUME NEW u \in Sent + 1 .. n PROVE u \in InFlight
    <3>1. u \in Sent + 1 .. w
      BY <1>2, <1>3
    <3>2. PICK j \in 1 .. i : u \in Range(batches[j])
      BY <1>1, <2>2, <2>3, <3>1 DEF BatchesHaveNoGap
    <3>3. j \in 1 .. Len(batches)
      BY <2>3
    <3> QED BY <1>1, <3>2, <3>3, InFlightMeans
  <2> QED BY <2>4
<1> QED BY <1>4, <1>5, <1>6

\* So does the first batch.
LEMMA FirstBatchHasNoGap ==
    ASSUME NostrInv, Orderly, batches # <<>>, NEW v \in Range(batches[1])
    PROVE  Sent + 1 .. v \subseteq Range(batches[1])
<1>1. BatchesHaveNoGap /\ 1 \in DOMAIN batches
  <2>1. batches \in Seq(Seq(Versions))
    BY DEF NostrInv, NostrTypeOK, SenderTypeOK
  <2>2. Len(batches) \in Nat \ {0} /\ DOMAIN batches = 1 .. Len(batches)
    BY <2>1, RangeHeadTail, LenProperties
  <2> QED BY <2>2 DEF NostrInv, NothingIsSkipped, Orderly, BatchesHaveNoGap
<1>2. \A j \in 1 .. 1 : j = 1
  OBVIOUS
<1> QED BY <1>1, <1>2 DEF BatchesHaveNoGap

\* After a step that leaves the sender orderly it was so before.
LEMMA OrderlyBefore ==
    ASSUME NostrInv, [Next]_vars, Orderly'
    PROVE  /\ ~OnCursor /\ ~RestartSender /\ ~Abandon
           /\ Serving /\ ~overtaken /\ (CallSync \/ Orderly)
           /\ UNCHANGED cursorEvent /\ send'.stream = send.stream
<1>1. NostrTypeOK /\ StreamsAreInOrder
  BY DEF NostrInv
<1>2. ~OnCursor /\ ~Abandon
  BY DEF OnCursor, Abandon, Orderly
<1>3. ~RestartSender
  <2>1. SUFFICES ASSUME RestartSender PROVE FALSE
    OBVIOUS
  <2>2. send' = saved /\ resync' = (saved # NoStream)
    BY <2>1 DEF RestartSender
  <2>3. send'.stream # 0 /\ ~resync'
    BY DEF Orderly, Serving
  <2>4. CASE saved = NoStream
    BY <2>2, <2>3, <2>4 DEF NoStream
  <2>5. CASE saved # NoStream
    BY <2>2, <2>3, <2>5
  <2> QED BY <2>4, <2>5
<1>4. Serving /\ UNCHANGED cursorEvent /\ send'.stream = send.stream
  BY <1>2, <1>3, ServingStays DEF Orderly
<1>5. ~overtaken
  BY WrongStays DEF Orderly
<1>6. CallSync \/ ~resync
  BY <1>1, <1>2, <1>3, CallsMove DEF Orderly, Write, BroadcastSend, OnSync
<1> QED BY <1>2, <1>3, <1>4, <1>5, <1>6 DEF Orderly

\* What is handed over next continues what is on its way.
LEMMA HandingOverHasNoGap ==
    ASSUME NostrInv, [Next]_vars, Orderly, Orderly', UNCHANGED batches,
           NEW data \in Seq(Versions), Scheduled(data), Sent' = Sent,
           NEW n \in Int, Below(n, OnItsWay),
           Takes(data) = data => \A v \in Range(data) : n + 1 .. v \subseteq Range(data)
    PROVE  QueueHasNoGap'
<1>1. NostrTypeOK /\ StreamsAreInOrder /\ QueueHasNoGap
  BY DEF NostrInv, NothingIsSkipped, Orderly, QueueHasNoGap
<1>2. InFlight' = InFlight \cup Range(Takes(data)) /\ Range(queue') = Range(queue) \cup Range(Takes(data))
  BY <1>1, InFlightOfPeer, ScheduledEffect
<1>3. Sent + 1 .. n \subseteq InFlight
  BY WayHasNoGap
<1>4. ASSUME NEW v \in Range(queue') PROVE Sent' + 1 .. v \subseteq InFlight'
  <2>1. CASE v \in Range(queue)
    BY <1>1, <1>2, <2>1 DEF QueueHasNoGap
  <2>2. CASE v \notin Range(queue)
    <3>1. v \in Range(Takes(data))
      BY <1>2, <1>4, <2>2
    <3>2. Range(<<>>) = {}
      BY DEF Range
    <3>3. Takes(data) = data
      BY <3>1, <3>2 DEF Takes
    <3>4. n + 1 .. v \subseteq Range(data) /\ v \in Nat /\ Sent \in Nat
      BY <1>1, <3>1, <3>3, SentIsTyped, RangeIsWithin DEF Versions
    <3>5. ASSUME NEW u \in Sent + 1 .. v PROVE u \in Sent + 1 .. n \/ u \in n + 1 .. v
      BY <3>4
    <3> QED BY <1>2, <1>3, <3>3, <3>4, <3>5
  <2> QED BY <2>1, <2>2
<1> QED BY <1>4 DEF QueueHasNoGap

\* Nothing is missing from what is on its way.
LEMMA WayKept ==
    ASSUME NostrInv, [Next]_vars, Orderly'
    PROVE  BatchesHaveNoGap' /\ QueueHasNoGap'
<1>1. /\ NostrTypeOK /\ StreamsAreInOrder /\ PeerIsConsistent /\ CallsAreInOrder /\ AllIsHandedOver
  BY DEF NostrInv
<1>2. /\ ~OnCursor /\ ~RestartSender /\ ~Abandon
      /\ Serving /\ ~overtaken /\ (CallSync \/ Orderly) /\ Serving'
  BY OrderlyBefore DEF Orderly
<1>3. CASE CallSync
  <2>1. queue' = <<>> /\ batches' = <<>>
    BY <1>1, <1>3, CallSyncEffect DEF CallSync
  <2>2. DOMAIN batches' = {} /\ Range(queue') = {}
    BY <2>1 DEF Range
  <2> QED BY <2>2 DEF BatchesHaveNoGap, QueueHasNoGap
<1>4. CASE Orderly /\ Publish
  <2>1. /\ InFlight = Range(batches[1]) \cup InFlight' /\ UNCHANGED queue
        /\ Len(batches') = Len(batches) - 1 /\ Len(batches) \in Nat \ {0}
        /\ \A i \in 1 .. Len(batches') : batches'[i] = batches[i + 1]
        /\ batches \in Seq(Seq(Versions)) /\ batches' \in Seq(Seq(Versions))
    BY <1>1, <1>4, PublishEffect DEF NostrTypeOK, SenderTypeOK
  <2>2. DOMAIN batches = 1 .. Len(batches) /\ DOMAIN batches' = 1 .. Len(batches')
    BY <2>1, LenProperties
  <2>3. Sent <= Sent' /\ (\A v \in Range(batches[1]) : v <= Sent') /\ Sent \in Nat /\ Sent' \in Nat
    BY <1>2, <1>4, SentMoves, ReachIsTyped
  <2>4. BatchesHaveNoGap /\ QueueHasNoGap
    BY <1>4 DEF NostrInv, NothingIsSkipped, Orderly, BatchesHaveNoGap, QueueHasNoGap
  <2>5. InFlight \subseteq Nat
    BY <1>1, InFlightIsWithin
  <2>6. ASSUME NEW v \in Int, NEW u \in Sent' + 1 .. v
        PROVE  u \in Sent + 1 .. v /\ u \notin Range(batches[1])
    <3>1. u \in Int /\ u > Sent' /\ u <= v
      <4>1. PICK t \in Nat : t = Sent'
        BY <2>3
      <4>2. u \in t + 1 .. v
        BY <2>6, <4>1
      <4>3. u \in Int /\ u > t /\ u <= v
        <5>1. v \in Int
          OBVIOUS
        <5> HIDE <2>6
        <5> QED BY <4>2, <5>1
      <4> QED BY <4>1, <4>3
    <3>2. u \notin Range(batches[1])
      BY <2>3, <3>1
    <3> QED BY <2>3, <3>1, <3>2
  <2>7. ASSUME NEW i \in DOMAIN batches', NEW v \in Range(batches'[i]), NEW u \in Sent' + 1 .. v
        PROVE  \E j \in 1 .. i : u \in Range(batches'[j])
    <3>0. PICK l \in Nat : l = Len(batches) /\ l - 1 = Len(batches')
      BY <2>1
    <3>1. i + 1 \in DOMAIN batches /\ batches'[i] = batches[i + 1] /\ i \in 1 .. l - 1
      <4>1. i \in 1 .. l - 1
        BY <2>2, <3>0
      <4>2. i + 1 \in 1 .. l
        BY <4>1
      <4> QED BY <2>1, <2>2, <3>0, <4>1, <4>2
    <3>2. v \in Nat
      <4>1. batches'[i] \in Seq(Versions)
        BY <2>1, ElementOfSeq, <2>2
      <4> QED BY <4>1, RangeIsWithin DEF Versions
    <3>3. u \in Sent + 1 .. v /\ u \notin Range(batches[1])
      BY <2>6, <3>2
    <3>4. PICK j \in 1 .. i + 1 : u \in Range(batches[j])
      BY <2>4, <3>1, <3>3 DEF BatchesHaveNoGap
    <3>5. j - 1 \in 1 .. i /\ (j - 1) + 1 = j /\ j - 1 \in 1 .. l - 1
      <4>1. j # 1
        BY <3>3, <3>4
      <4> QED BY <3>1, <4>1
    <3> QED BY <2>1, <3>0, <3>4, <3>5
  <2>8. ASSUME NEW v \in Range(queue') PROVE Sent' + 1 .. v \subseteq InFlight'
    <3>1. v \in InFlight /\ v \in Int
      BY <2>1, <2>5 DEF InFlight
    <3>2. Sent + 1 .. v \subseteq InFlight
      BY <2>1, <2>4 DEF QueueHasNoGap
    <3> QED BY <2>1, <2>6, <3>1, <3>2
  <2> QED BY <2>7, <2>8 DEF BatchesHaveNoGap, QueueHasNoGap
<1>5. CASE Orderly /\ ~Publish
  <2>1. Sent' = Sent /\ Sent \in Nat
    BY <1>2, <1>5, SentMoves, ReachIsTyped
  <2>2. BatchesHaveNoGap /\ QueueHasNoGap
    BY <1>5 DEF NostrInv, NothingIsSkipped, Orderly, BatchesHaveNoGap, QueueHasNoGap
  <2>3. CASE PublishPending
    <3>1. /\ queue # <<>> /\ queue' = <<>> /\ batches' = Split(queue) /\ InFlight = Range(queue)
          /\ batches' \in Seq(Seq(Versions)) /\ queue \in Seq(Versions)
      BY <1>1, <2>3, PublishPendingEffect DEF NostrTypeOK, SenderTypeOK
    <3>2. /\ \A i \in 1 .. Len(batches') : Range(batches'[i]) \subseteq Range(queue)
          /\ \A i \in 1 .. Len(batches') : \A v \in Range(batches'[i]) : \A u \in Range(queue) :
               u < v => \E j \in 1 .. i : u \in Range(batches'[j])
      <4> DEFINE b == Split(queue)
      <4>1. /\ \A i \in 1 .. Len(b) : Range(b[i]) \subseteq Range(queue)
            /\ \A i \in 1 .. Len(b) : \A v \in Range(b[i]) : \A u \in Range(queue) :
                 u < v => \E j \in 1 .. i : u \in Range(b[j])
        BY <3>1, SplitKeepsOrder
      <4>2. batches' = b
        BY <3>1
      <4> HIDE DEF b
      <4> QED BY <4>1, <4>2
    <3>3. DOMAIN batches' = 1 .. Len(batches') /\ Range(queue') = {} /\ Range(queue) \subseteq Nat
      BY <3>1, LenProperties, RangeIsWithin DEF Range, Versions
    <3>4. ASSUME NEW i \in DOMAIN batches', NEW v \in Range(batches'[i]), NEW u \in Sent' + 1 .. v
          PROVE  \E j \in 1 .. i : u \in Range(batches'[j])
      <4>1. v \in Range(queue) /\ v \in Nat /\ i \in 1 .. i
        BY <3>2, <3>3
      <4>2. u \in Range(queue) /\ u \in Nat
        BY <2>1, <2>2, <3>1, <3>3, <4>1 DEF QueueHasNoGap
      <4>3. u < v \/ u = v
        BY <2>1, <4>1, <4>2
      <4> QED BY <3>2, <3>3, <4>1, <4>2, <4>3
    <3> QED BY <3>3, <3>4 DEF BatchesHaveNoGap, QueueHasNoGap
  <2>4. CASE UNCHANGED <<batches, queue>>
    BY <2>1, <2>2, <2>4 DEF BatchesHaveNoGap, QueueHasNoGap, InFlight
  <2>5. CASE BroadcastSend
    <3>1. /\ UNCHANGED <<peer, written, batches>> /\ calls[1].type = "send" /\ calls # <<>>
          /\ peer.active /\ BroadcastData \in Seq(Versions) /\ Range(BroadcastData) \subseteq {written}
          /\ Scheduled(BroadcastData)
          /\ overtaken' = (overtaken \/ (Aliased /\ peer.sync.step # "off"))
      BY <1>1, <2>5, BroadcastEffect DEF BroadcastSend
    <3>2. written \in Nat /\ Len(calls) \in Nat \ {0} /\ DOMAIN calls = 1 .. Len(calls)
      BY <1>1, <3>1, RangeHeadTail, LenProperties, CursorsAreTyped DEF NostrTypeOK, SenderTypeOK
    <3>3. CASE peer.stream = send.stream
      <4>1. peer.sync.step = "off"
        BY <3>1, <3>3 DEF Aliased, Orderly
      <4>2. Len(calls) = 1
        <5>1. SUFFICES ASSUME Len(calls) # 1 PROVE FALSE
          OBVIOUS
        <5>2. 2 \in DOMAIN calls
          BY <3>2, <5>1
        <5>3. calls[2].type = "sync" /\ peer.stream < calls[2].stream /\ calls[2].stream <= send.stream
              /\ calls[2].stream \in Nat /\ send.stream \in Nat
          <6>1. calls[2] \in Calls
            BY <1>1, <5>2, <3>2, ElementOfSeq DEF NostrTypeOK, SenderTypeOK
          <6> QED BY <1>1, <5>2, <6>1, CursorsAreTyped DEF CallsAreInOrder, Calls
        <5> QED BY <3>3, <5>3
      <4>3. Below(written - 1, OnItsWay)
        <5>1. Unsent = 1
          BY <3>1, <4>2 DEF Unsent
        <5> QED BY <1>1, <1>5, <3>3, <4>1, <5>1, HandedOverMeans DEF PeerHandsOver, Orderly
      <4>4. \A v \in Range(BroadcastData) : (written - 1) + 1 .. v \subseteq Range(BroadcastData)
        <5>1. \A u \in (written - 1) + 1 .. written : u = written
          BY <3>2
        <5> QED BY <3>1, <5>1
      <4>5. written - 1 \in Int
        BY <3>2
      <4>6. QueueHasNoGap'
        BY <1>5, <2>1, <3>1, <4>3, <4>4, <4>5, HandingOverHasNoGap
      <4> QED BY <2>1, <2>2, <3>1, <4>6 DEF BatchesHaveNoGap
    <3>4. CASE peer.stream # send.stream
      <4>1. UNCHANGED <<batches, queue>>
        BY <3>1, <3>4 DEF Scheduled
      <4> QED BY <2>4, <4>1
    <3> QED BY <3>3, <3>4
  <2>6. CASE SyncSend
    <3> DEFINE s == peer.sync
               at == s.from + s.offset
    <3>1. /\ s.step = "send" /\ s.rows \in Seq(Versions) /\ Scheduled(s.rows) /\ UNCHANGED batches
      BY <1>1, <2>6, SyncSendEffect DEF SyncSend
    <3>2. at \in Nat /\ Len(s.rows) \in Nat
      BY <1>1, UnsentIsCounted
    <3>3. CASE peer.stream = send.stream
      <4>1. Below(at, OnItsWay)
        BY <1>1, <1>5, <3>1, <3>3, HandedOverMeans DEF PeerHandsOver, Orderly
      <4>2. \A k \in 1 .. Len(s.rows) : s.rows[k] = at + k
        BY <1>1, <3>1, LenProperties DEF PeerIsConsistent
      <4>3. ASSUME NEW v \in Range(s.rows), NEW u \in at + 1 .. v PROVE u \in Range(s.rows)
        <5>1. PICK k \in 1 .. Len(s.rows) : v = at + k
          BY <3>1, <4>2, LenProperties DEF Range
        <5>2. u - at \in 1 .. Len(s.rows) /\ at + (u - at) = u
          BY <3>2, <5>1
        <5>3. s.rows[u - at] = u /\ u - at \in DOMAIN s.rows
          BY <3>1, <4>2, <5>2, LenProperties
        <5> QED BY <5>3 DEF Range
      <4>4. \A v \in Range(s.rows) : at + 1 .. v \subseteq Range(s.rows)
        BY <4>3
      <4>5. at \in Int
        BY <3>2
      <4> HIDE DEF at
      <4>6. QueueHasNoGap'
        BY <1>5, <2>1, <3>1, <4>1, <4>4, <4>5, HandingOverHasNoGap
      <4> QED BY <2>1, <2>2, <3>1, <4>6 DEF BatchesHaveNoGap
    <3>4. CASE peer.stream # send.stream
      <4>1. UNCHANGED <<batches, queue>>
        BY <3>1, <3>4 DEF Scheduled
      <4> QED BY <2>4, <4>1
    <3> QED BY <3>3, <3>4
  <2>7. CASE SyncDrain
    <3> DEFINE p == peer.pending
               n == written - Len(p)
    <3>1. peer.sync.step = "drain" /\ p \in Seq(Versions) /\ Scheduled(p) /\ UNCHANGED batches
      BY <1>1, <2>7, SyncDrainEffect DEF SyncDrain
    <3>2. n \in Int /\ Len(p) \in Nat /\ written \in Nat
      BY <1>1, UnsentIsCounted
    <3>3. CASE peer.stream = send.stream /\ ~peer.active
      <4>1. Below(n, OnItsWay)
        <5>1. Unsent = Len(p)
          BY <3>3 DEF Unsent
        <5> QED BY <1>1, <1>5, <3>1, <3>3, <5>1, HandedOverMeans DEF PeerHandsOver, Orderly
      <4>2. \A k \in 1 .. Len(p) : p[k] = n + k
        BY <1>1, <3>1, LenProperties DEF PeerIsConsistent
      <4>3. ASSUME NEW v \in Range(p), NEW u \in n + 1 .. v PROVE u \in Range(p)
        <5>1. PICK k \in 1 .. Len(p) : v = n + k
          BY <3>1, <4>2, LenProperties DEF Range
        <5>2. u - n \in 1 .. Len(p) /\ n + (u - n) = u
          <6>1. PICK m \in Int : m = n
            BY <3>2
          <6>2. PICK l \in Nat : l = Len(p)
            BY <3>2
          <6>3. u \in m + 1 .. v /\ v = m + k /\ k \in 1 .. l
            BY <5>1, <6>1, <6>2
          <6>4. u - m \in 1 .. l /\ m + (u - m) = u
            BY <6>3
          <6> QED BY <6>1, <6>2, <6>4
        <5>3. p[u - n] = u /\ u - n \in DOMAIN p
          BY <3>1, <4>2, <5>2, LenProperties
        <5> QED BY <5>3 DEF Range
      <4>4. \A v \in Range(p) : n + 1 .. v \subseteq Range(p)
        BY <4>3
      <4>5. n \in Int
        BY <3>2
      <4> HIDE DEF n
      <4>6. QueueHasNoGap'
        BY <1>5, <2>1, <3>1, <4>1, <4>4, <4>5, HandingOverHasNoGap
      <4> QED BY <2>1, <2>2, <3>1, <4>6 DEF BatchesHaveNoGap
    <3>4. CASE ~ (peer.stream = send.stream /\ ~peer.active)
      <4>1. UNCHANGED queue
        <5>1. CASE peer.stream # send.stream
          BY <3>1, <5>1 DEF Scheduled
        <5>2. CASE peer.active
          <6>1. p = <<>>
            BY <1>1, <5>2 DEF PeerIsConsistent
          <6>2. Takes(p) = <<>> /\ queue' = queue \o Takes(p)
            BY <1>1, <3>1, <6>1, ScheduledEffect DEF Takes
          <6> QED BY <1>1, <6>2, ConcatEmptySeq DEF NostrTypeOK, SenderTypeOK
        <5> QED BY <3>4, <5>1, <5>2
      <4> QED BY <2>4, <3>1, <4>1
    <3> QED BY <3>3, <3>4
  <2>8. CASE ~PublishPending /\ ~BroadcastSend /\ ~SyncSend /\ ~SyncDrain
    <3>1. UNCHANGED <<batches, queue>> \/ CallSync
      BY <1>2, <1>5, <2>8, StepsOfTheParties DEF PeerStep, SendStep, Write, CancelSync, OnSync, SyncRead,
         Published, senderVars, vars
    <3> QED BY <1>3, <2>4, <3>1
  <2> QED BY <2>3, <2>5, <2>6, <2>7, <2>8
<1> QED BY <1>2, <1>3, <1>4, <1>5

\* An event of the stream was signed with what it reaches, and without a gap.
EventReaches(e) ==
    /\ covered[e.id] = Upto(Reached(e.prev), e.data)
    /\ ~overtaken /\ ~cutShort =>
        \A v \in Range(e.data) : Reached(e.prev) + 1 .. v \subseteq Range(e.data)

\* So it stays.
LEMMA EventReachesKept ==
    ASSUME NostrInv, [Next]_vars, NEW e \in AnyEvent', e.stream = cursorEvent'.stream
    PROVE  /\ covered'[e.id] = Upto(Reached(e.prev)', e.data)
           /\ ~overtaken' /\ ~cutShort' =>
               \A v \in Range(e.data) : Reached(e.prev)' + 1 .. v \subseteq Range(e.data)
<1>1. NostrTypeOK /\ StreamsAreInOrder /\ NothingIsSkipped
  BY DEF NostrInv
<1>2. /\ cursorEvent.stream \in Nat /\ lastId \in Nat /\ send.stream \in Nat /\ send.last \in Nat
      /\ send.last <= lastId
  BY <1>1, CursorsAreTyped DEF IsCursor
<1>3. AnyEvent' \subseteq AnyEvent \/ (Publish /\ AnyEvent' \subseteq AnyEvent \cup {signed'})
  BY <1>1, EventsKept
<1>4. CASE e \in AnyEvent
  <2>1. e.stream <= cursorEvent.stream /\ e.id <= lastId /\ e.prev < e.id
    BY <1>1, <1>4 DEF StreamsAreInOrder
  <2>2. e.id \in 1 .. lastId /\ e.prev \in 0 .. lastId /\ e.stream \in Nat
    BY <1>1, <1>2, <1>4, <2>1, EventsAreTyped
  <2>3. UNCHANGED cursorEvent
    <3>1. AsksAnew => cursorEvent'.stream = cursorEvent.stream + 1
      BY <1>1, ResyncEffect DEF AsksAnew
    <3>2. ~AsksAnew
      BY <1>2, <2>1, <2>2, <3>1
    <3> QED BY <3>2, CursorEventKept
  <2>4. covered'[e.id] = covered[e.id] /\ Reached(e.prev)' = Reached(e.prev)
    BY <1>1, <2>2, <2>3, CoveredGrows, ReachedStays
  <2>5. EventReaches(e)
    BY <1>1, <1>4, <2>3 DEF NothingIsSkipped, EventReaches
  <2>6. (overtaken => overtaken') /\ (cutShort => cutShort')
    BY WrongStays
  <2> QED BY <2>4, <2>5, <2>6 DEF EventReaches
<1>5. CASE e \notin AnyEvent
  <2>1. Publish /\ e = signed'
    BY <1>3, <1>5
  <2>2. /\ e.id = lastId + 1 /\ e.prev = send.last /\ e.data = batches[1] /\ e.stream = send.stream
        /\ batches # <<>> /\ ~resync
    BY <1>1, <2>1, PublishEffect
  <2>3. UNCHANGED <<cursorEvent, overtaken, cutShort>>
    BY <2>1 DEF Publish
  <2>4. send.last \in 0 .. lastId
    BY <1>2
  <2>5. Reached(e.prev)' = Reached(send.last)
    <3>1. PICK n \in 0 .. lastId : n = e.prev /\ n = send.last
      BY <2>2, <2>4
    <3>2. Reached(n)' = Reached(n)
      BY <2>3, ReachedStays
    <3> QED BY <3>1, <3>2
  <2>6. covered'[lastId + 1] = Upto(Reached(send.last), batches[1])
    BY <1>1, <2>1, CoveredGrows
  <2>7. Sent = Reached(send.last)
    BY <1>1, <2>1, PublishEffect DEF Sent
  <2>8. ASSUME ~overtaken', ~cutShort'
        PROVE  \A v \in Range(e.data) : Reached(e.prev)' + 1 .. v \subseteq Range(e.data)
    <3>1. send.stream # 0
      BY <1>1, <2>2 DEF StreamsAreInOrder, Publishing
    <3>2. Orderly
      BY <2>2, <2>3, <2>8, <3>1 DEF Orderly, Serving
    <3>3. \A v \in Range(batches[1]) : Sent + 1 .. v \subseteq Range(batches[1])
      BY <2>2, <3>2, FirstBatchHasNoGap
    <3> QED BY <2>2, <2>5, <2>7, <3>3
  <2> QED BY <2>2, <2>5, <2>6, <2>8
<1> QED BY <1>4, <1>5

\* What the stored recv cursor stands for it reaches.
LEMMA StoredReachesKept ==
    ASSUME NostrInv, [Next]_vars
    PROVE  Reached(stored.last)' <= stored'.cur
<1>1. NostrTypeOK /\ StreamsAreInOrder /\ NothingIsSkipped /\ ReceiverFollowsOneStream
  BY DEF NostrInv
<1>2. /\ stored.last \in Nat /\ stored.last <= lastId /\ lastId \in Nat /\ stored.cur \in Nat
      /\ written \in Nat /\ recv.last \in Nat /\ recv.cur \in Nat
  BY <1>1, CursorsAreTyped DEF IsCursor
<1>3. stored.last \in 0 .. lastId
  BY <1>2
<1>4. CASE AsksAnew
  <2>1. stored' = cursorEvent' /\ cursorEvent'.last = 0 /\ cursorEvent'.cur = known
    BY <1>1, <1>4, ResyncEffect DEF AsksAnew
  <2>2. known \in Nat
    BY <1>1, CursorsAreTyped
  <2> QED BY <2>1, <2>2 DEF Reached
<1>5. CASE ~AsksAnew /\ Note
  <2>1. UNCHANGED cursorEvent
    BY <1>5, CursorEventKept
  <2>2. /\ applied \in AnyEvent /\ applied # NoEvent /\ stored' = recv'
        /\ recv'.last = applied.id /\ recv'.cur \in 0 .. written /\ recv.cur <= recv'.cur
        /\ \A v \in Range(applied.data) : v <= recv'.cur
    BY <1>1, <1>5, NoteEffect
  <2>3. Follows(applied) /\ recv = stored /\ stored.stream = cursorEvent.stream
    BY <1>1, <2>2 DEF ReceiverFollowsOneStream
  <2>4. applied.stream = cursorEvent.stream /\ applied.prev = stored.last
    BY <2>3 DEF Follows
  <2>5. covered[applied.id] = Upto(Reached(stored.last), applied.data)
    BY <1>1, <2>2, <2>4 DEF NothingIsSkipped
  <2>6. /\ applied.id \in Nat \ {0} /\ applied.id <= lastId
        /\ Range(applied.data) \subseteq 1 .. written
    BY <1>1, <2>2, EventsAreTyped DEF StreamsAreInOrder
  <2>7. applied.id \in 0 .. lastId
    BY <1>2, <2>6
  <2>8. PICK n \in 0 .. lastId : n = applied.id
    BY <2>7
  <2>9. Reached(n)' = Upto(Reached(stored.last), applied.data)
    <3>1. n # 0 /\ covered[n] = Upto(Reached(stored.last), applied.data)
      BY <2>5, <2>6, <2>8
    <3>2. Reached(n)' = Reached(n)
      BY <2>1, ReachedStays
    <3> QED BY <3>1, <3>2 DEF Reached
  <2>10. Upto(Reached(stored.last), applied.data) = Reached(stored.last)
        \/ Upto(Reached(stored.last), applied.data) \in Range(applied.data)
    <3>1. Reached(stored.last) \in 0 .. MaxWrites
      BY <1>1, <1>3, ReachedIsTyped
    <3>2. Range(applied.data) \subseteq 1 .. MaxWrites /\ MaxWrites \in Nat
      <4>1. written \in 0 .. MaxWrites /\ MaxWrites \in Nat
        BY <1>1 DEF NostrTypeOK, SenderTypeOK, NostrConstants
      <4> QED BY <2>6, <4>1
    <3> QED BY <3>1, <3>2, UptoMovesOn
  <2>11. Reached(stored.last) \in Nat /\ Reached(stored.last) <= stored.cur
    BY <1>1, <1>3, ReachedIsTyped DEF NothingIsSkipped
  <2>12. recv'.cur \in Nat
    BY <1>2, <2>2
  <2>13. Upto(Reached(stored.last), applied.data) <= recv'.cur
    <3>1. CASE Upto(Reached(stored.last), applied.data) = Reached(stored.last)
      BY <1>2, <2>2, <2>3, <2>11, <2>12, <3>1
    <3>2. CASE Upto(Reached(stored.last), applied.data) \in Range(applied.data)
      BY <2>2, <3>2
    <3> QED BY <2>10, <3>1, <3>2
  <2>14. Reached(stored.last)' = Reached(n)'
    <3>1. stored'.last = n
      BY <2>2, <2>8
    <3> QED BY <3>1 DEF Reached
  <2> QED BY <2>2, <2>9, <2>13, <2>14
<1>6. CASE ~AsksAnew /\ ~Note
  <2>1. UNCHANGED cursorEvent
    BY <1>6, CursorEventKept
  <2>2. UNCHANGED stored
    <3>1. CASE ReceiverStep
      BY <1>6, <3>1, ReceiverShapes DEF Resumes, GoesLive, OnChanges, Apply, Reconnect, Lose,
         RestartReceiver, receiverVars
    <3> QED BY <3>1, StepsOfTheParties DEF receiverVars, vars
  <2>3. Reached(stored.last)' = Reached(stored.last)
    <3>1. ASSUME NEW n \in 0 .. lastId PROVE Reached(n)' = Reached(n)
      BY <2>1, ReachedStays
    <3>2. stored'.last = stored.last
      BY <2>2
    <3> QED BY <1>3, <3>1, <3>2 DEF Reached
  <2> QED BY <1>1, <2>2, <2>3 DEF NothingIsSkipped
<1> QED BY <1>4, <1>5, <1>6

\* Peer's cursor is beyond what it has applied.
LEMMA AppliedIsKnownKept ==
    ASSUME NostrInv, [Next]_vars
    PROVE  \A v \in Range(applied'.data) : v <= known'
<1>1. NostrTypeOK /\ NothingIsSkipped
  BY DEF NostrInv
<1>2. known <= known' /\ known' \in Nat /\ known \in Nat
  BY <1>1, KnownMoves, CursorsAreTyped
<1>3. CASE Apply
  BY <1>1, <1>3, ApplyEffect
<1>4. CASE applied' = NoEvent
  BY <1>4 DEF NoEvent, Range
<1>5. CASE applied' = applied /\ applied # NoEvent
  <2>1. applied \in AnyEvent
    BY <1>5 DEF AnyEvent, InHand
  <2>2. ASSUME NEW v \in Range(applied.data) PROVE v <= known'
    <3>1. v \in Int /\ v <= known
      BY <1>1, <2>1, EventsAreTyped DEF NothingIsSkipped
    <3> QED BY <1>2, <3>1
  <2> QED BY <1>5, <2>2
<1>6. Apply \/ applied' = NoEvent \/ applied' = applied
  <2>1. CASE ReceiverStep
    BY <2>1, ReceiverShapes DEF AsksAnew, Resumes, GoesLive, OnChanges, Note, Reconnect, Lose,
       RestartReceiver, receiverVars
  <2> QED BY <2>1, StepsOfTheParties DEF receiverVars, vars
<1> QED BY <1>3, <1>4, <1>5, <1>6

\* Nothing is skipped on the way.
LEMMA SkippingKept ==
    ASSUME NostrInv, [Next]_vars
    PROVE  NothingIsSkipped'
<1>1. ASSUME Serving', ~resync', ~overtaken' PROVE BatchesHaveNoGap' /\ QueueHasNoGap'
  BY <1>1, WayKept DEF Orderly
<1>2. \A e \in AnyEvent' : e.stream = cursorEvent'.stream =>
        /\ covered'[e.id] = Upto(Reached(e.prev)', e.data)
        /\ ~overtaken' /\ ~cutShort' =>
            \A v \in Range(e.data) : Reached(e.prev)' + 1 .. v \subseteq Range(e.data)
  BY EventReachesKept
<1> QED BY <1>1, <1>2, StoredReachesKept, AppliedIsKnownKept
     DEF NothingIsSkipped, BatchesHaveNoGap, QueueHasNoGap

---------------------------------------------------------------------------
(* The chain is whole.                                                     *)

\* What the receiver holds in memory is of the stream it has asked for.
LEMMA InMemoryIsCurrent ==
    ASSUME NostrInv
    PROVE  /\ \A e \in buffer : e.stream = cursorEvent.stream /\ recv = stored
           /\ applied # NoEvent => /\ applied.stream = cursorEvent.stream /\ recv = stored
                                   /\ applied.prev = stored.last
<1>1. ReceiverFollowsOneStream
  BY DEF NostrInv
<1>2. ASSUME NEW e \in buffer PROVE e.stream = cursorEvent.stream /\ recv = stored
  <2>1. buffer # {} /\ phase # "off"
    BY <1>1, <1>2 DEF ReceiverFollowsOneStream
  <2> QED BY <1>1, <1>2, <2>1 DEF ReceiverFollowsOneStream
<1>3. applied # NoEvent => /\ applied.stream = cursorEvent.stream /\ recv = stored
                           /\ applied.prev = stored.last
  BY <1>1 DEF ReceiverFollowsOneStream, Follows
<1> QED BY <1>2, <1>3

\* A stream that is not suspect has lost nothing and was not forked.
LEMMA CurrentMoves ==
    ASSUME NostrInv, [Next]_vars, ~AsksAnew, ~suspect'
    PROVE  /\ ~suspect /\ UNCHANGED cursorEvent
           /\ \/ ~Publish /\ Current' = Current
              \/ Publish /\ send.stream # cursorEvent.stream /\ Current' = Current
              \/ /\ Publish /\ send.stream = cursorEvent.stream /\ Current' = Current \cup {signed'}
                 /\ \A f \in Current : f.prev # send.last
<1>1. NostrTypeOK
  BY DEF NostrInv
<1>2. UNCHANGED cursorEvent
  BY CursorEventKept
<1>3. CASE Publish
  <2>1. /\ events' = events \cup {signed'} /\ signed'.stream = send.stream
        /\ suspect' = (suspect \/ (/\ send.stream = cursorEvent.stream
                                   /\ \E f \in events : f.stream = send.stream /\ f.prev = send.last))
    BY <1>1, <1>3, PublishEffect
  <2>2. ~suspect /\ ~ (/\ send.stream = cursorEvent.stream
                       /\ \E f \in events : f.stream = send.stream /\ f.prev = send.last)
    BY <2>1
  <2> QED BY <1>2, <1>3, <2>1, <2>2 DEF Current
<1>4. CASE Lose
  <2>1. PICK e \in events : events' = events \ {e} /\ suspect' = (suspect \/ e.stream = cursorEvent.stream)
    BY <1>4 DEF Lose
  <2>2. ~suspect /\ e.stream # cursorEvent.stream
    BY <2>1
  <2>3. ~Publish
    BY <1>1, <1>4, PublishEffect DEF Lose, senderVars
  <2> QED BY <1>2, <2>1, <2>2, <2>3 DEF Current
<1>5. CASE ~Publish /\ ~Lose
  <2>1. UNCHANGED <<events, suspect>>
    <3>1. CASE ReceiverStep
      BY <1>5, <3>1, ReceiverShapes DEF Resumes, GoesLive, OnChanges, Apply, Note, Reconnect,
         RestartReceiver, relayVars, ghostVars
    <3>2. CASE SendStep
      BY <1>5, <3>2 DEF SendStep, OnCursor, CallSync, PublishPending, Published, Abandon,
         RestartSender, relayVars, ghostVars
    <3> QED BY <3>1, <3>2, StepsOfTheParties DEF relayVars, ghostVars, vars
  <2> QED BY <1>2, <1>5, <2>1 DEF Current
<1> QED BY <1>3, <1>4, <1>5

\* The last event of the stream that is served stays the last until another is
\* published, unless the stream is taken up anew.
LEMMA LastOfMoves ==
    ASSUME NostrInv, [Next]_vars, UNCHANGED cursorEvent, ~Publish, send'.stream = cursorEvent.stream
    PROVE  \/ LastOf' = 0
           \/ /\ send.stream = cursorEvent.stream /\ LastOf # 0
              /\ Serving' => Serving /\ LastOf' = LastOf
<1>1. NostrTypeOK /\ StreamsAreInOrder /\ PeerIsConsistent
  BY DEF NostrInv
<1>2. /\ send.stream \in Nat /\ cursorEvent.stream \in Nat /\ saved.stream \in Nat
      /\ send.stream <= cursorEvent.stream /\ saved.stream <= send.stream
  BY <1>1, CursorsAreTyped DEF StreamsAreInOrder
<1>3. signed # NoEvent => /\ signed.stream \in Nat /\ signed.id \in Nat \ {0}
                          /\ signed.stream <= send.stream
  <2>1. SUFFICES ASSUME signed # NoEvent
                 PROVE  /\ signed.stream \in Nat /\ signed.id \in Nat \ {0}
                        /\ signed.stream <= send.stream
    OBVIOUS
  <2>2. signed \in AnyEvent
    BY <2>1 DEF AnyEvent, InHand
  <2> QED BY <1>1, <2>1, <2>2, EventsAreTyped DEF StreamsAreInOrder
<1>4. CASE OnCursor
  <2>1. send' = cursorEvent /\ send.stream # cursorEvent.stream /\ UNCHANGED signed
    BY <1>4 DEF OnCursor
  <2>2. ~ (signed # NoEvent /\ signed.stream = cursorEvent.stream) /\ cursorEvent.last = 0
    BY <1>1, <1>2, <1>3, <2>1 DEF StreamsAreInOrder
  <2> QED BY <2>1, <2>2 DEF LastOf
<1>5. CASE RestartSender
  <2>1. /\ send' = saved /\ signed' = NoEvent
        /\ cutShort' = (cutShort \/ (saved.stream = send.stream /\ (queue # <<>> \/ Publishing)))
    BY <1>5 DEF RestartSender
  <2>2. saved.stream = send.stream /\ send.stream = cursorEvent.stream
    BY <1>2, <2>1
  <2>3. LastOf' = send.last
    BY <1>1, <2>1, <2>2 DEF LastOf, StreamsAreInOrder
  <2>4. send.last # 0 => LastOf # 0
    BY <1>3 DEF LastOf
  <2>5. Serving' => Serving /\ LastOf = send.last
    <3>1. SUFFICES ASSUME Serving' PROVE Serving /\ LastOf = send.last
      OBVIOUS
    <3>2. ~cutShort' /\ cursorEvent.stream # 0
      BY <3>1 DEF Serving
    <3>3. ~cutShort /\ ~Publishing
      BY <2>1, <2>2, <3>2
    <3> QED BY <2>2, <3>2, <3>3 DEF Serving, Publishing, LastOf
  <2> QED BY <2>2, <2>3, <2>4, <2>5
<1>6. CASE ~OnCursor /\ ~RestartSender
  <2>1. LastOf' = LastOf /\ send'.stream = send.stream
    <3>1. CASE Published
      BY <1>1, <3>1, PublishedEffect DEF LastOf
    <3>2. CASE ~Published
      <4>1. send'.stream = send.stream /\ send'.last = send.last /\ signed' = signed
        BY <1>1, <1>6, <3>2, StreamOfSender
      <4> QED BY <4>1 DEF LastOf
    <3> QED BY <3>1, <3>2
  <2>2. Serving' => Serving
    BY <1>6, ServingStays
  <2> QED BY <2>1, <2>2
<1> QED BY <1>4, <1>5, <1>6

\* What the receiver has taken of a stream that is not suspect is on the relays.
LEMMA TakenIsThereKept ==
    ASSUME NostrInv, [Next]_vars, ~AsksAnew, ~suspect'
    PROVE  /\ stored'.last = 0 \/ \E e \in Current' : e.id = stored'.last
           /\ buffer' \subseteq events' /\ (applied' # NoEvent => applied' \in events')
<1>1. NostrTypeOK /\ ChainIsWhole
  BY DEF NostrInv
<1>2. ~suspect /\ UNCHANGED cursorEvent /\ Current \subseteq Current'
  BY CurrentMoves
<1>3. /\ stored.last = 0 \/ \E e \in Current : e.id = stored.last
      /\ buffer \subseteq events /\ (applied # NoEvent => applied \in events)
  BY <1>1, <1>2 DEF ChainIsWhole
<1>4. \A e \in buffer : e \in events'
  BY <1>2, <1>3, InMemoryIsCurrent DEF Current
<1>5. applied # NoEvent => applied \in events' /\ applied \in Current
  BY <1>2, <1>3, InMemoryIsCurrent DEF Current
<1>6. CASE Apply
  <2>1. UNCHANGED stored /\ buffer' \subseteq buffer /\ applied' \in buffer
    BY <1>6 DEF Apply
  <2> QED BY <1>2, <1>3, <1>4, <2>1
<1>7. CASE Note
  <2>1. applied # NoEvent /\ applied' = NoEvent /\ stored'.last = applied.id
    BY <1>1, <1>7, NoteEffect
  <2>2. UNCHANGED buffer
    BY <1>7 DEF Note
  <2> QED BY <1>2, <1>4, <1>5, <2>1, <2>2
<1>8. CASE GoesLive \/ OnChanges
  <2>1. buffer' \subseteq buffer \cup events /\ UNCHANGED <<events, stored, applied>>
    BY <1>8, BufferIsOfStream DEF GoesLive, OnChanges, relayVars
  <2> QED BY <1>2, <1>3, <2>1
<1>9. CASE RestartReceiver
  BY <1>2, <1>3, <1>9 DEF RestartReceiver
<1>10. CASE UNCHANGED <<stored, buffer, applied>>
  BY <1>2, <1>3, <1>4, <1>5, <1>10
<1>11. \/ Apply \/ Note \/ GoesLive \/ OnChanges \/ RestartReceiver
       \/ UNCHANGED <<stored, buffer, applied>>
  <2>1. CASE ReceiverStep
    BY <2>1, ReceiverShapes DEF Resumes, Reconnect, Lose, receiverVars
  <2> QED BY <2>1, StepsOfTheParties DEF receiverVars, vars
<1> QED BY <1>6, <1>7, <1>8, <1>9, <1>10, <1>11

\* The chain stays whole.
LEMMA ChainKept ==
    ASSUME NostrInv, [Next]_vars
    PROVE  ChainIsWhole'
<1>1. NostrTypeOK /\ StreamsAreInOrder /\ ChainIsWhole /\ ReceiverFollowsOneStream
  BY DEF NostrInv
<1>2. /\ send.stream \in Nat /\ cursorEvent.stream \in Nat /\ send.stream <= cursorEvent.stream
      /\ send.last \in Nat /\ send.last <= lastId /\ lastId \in Nat
  BY <1>1, CursorsAreTyped DEF StreamsAreInOrder, IsCursor
<1>3. CASE AsksAnew
  <2>1. /\ cursorEvent'.stream = cursorEvent.stream + 1 /\ stored' = cursorEvent'
        /\ cursorEvent'.last = 0 /\ buffer' = {} /\ UNCHANGED events
    BY <1>1, <1>3, ResyncEffect DEF AsksAnew
  <2>2. UNCHANGED <<send, applied>> /\ applied = NoEvent
    BY <1>1, <1>3 DEF AsksAnew, senderVars, ReceiverFollowsOneStream
  <2>3. Current' = {}
    <3>1. SUFFICES ASSUME NEW e \in events PROVE e.stream # cursorEvent'.stream
      BY <2>1 DEF Current
    <3>2. e \in AnyEvent
      BY DEF AnyEvent
    <3>3. e.stream <= cursorEvent.stream /\ e.stream \in Nat
      BY <1>1, <3>2, EventsAreTyped DEF StreamsAreInOrder
    <3> QED BY <1>2, <2>1, <3>3
  <2>4. send'.stream # cursorEvent'.stream
    BY <1>2, <2>1, <2>2
  <2> QED BY <2>1, <2>2, <2>3, <2>4 DEF ChainIsWhole, Serving
<1>4. CASE ~AsksAnew
  <2> SUFFICES ASSUME ~suspect'
               PROVE  /\ Current' # {} \/ (send'.stream = cursorEvent'.stream /\ LastOf' # 0) =>
                            \E e \in Current' : e.prev = 0
                      /\ Serving' /\ LastOf' # 0 =>
                            \A n \in {0} \cup {e.id : e \in Current'} :
                                n # LastOf' => \E f \in Current' : f.prev = n
    BY <1>4, TakenIsThereKept DEF ChainIsWhole
  <2>1. /\ ~suspect /\ UNCHANGED cursorEvent
        /\ \/ ~Publish /\ Current' = Current
           \/ Publish /\ send.stream # cursorEvent.stream /\ Current' = Current
           \/ /\ Publish /\ send.stream = cursorEvent.stream /\ Current' = Current \cup {signed'}
              /\ \A f \in Current : f.prev # send.last
    BY <1>4, CurrentMoves
  <2>2. /\ Current # {} \/ (send.stream = cursorEvent.stream /\ LastOf # 0) =>
              \E e \in Current : e.prev = 0
        /\ Serving /\ LastOf # 0 =>
              \A n \in {0} \cup {e.id : e \in Current} :
                  n # LastOf => \E f \in Current : f.prev = n
    BY <1>1, <2>1 DEF ChainIsWhole
  <2>3. CASE ~Publish
    <3>1. Current' = Current
      BY <2>1, <2>3
    <3>2. send'.stream = cursorEvent.stream =>
            \/ LastOf' = 0
            \/ /\ send.stream = cursorEvent.stream /\ LastOf # 0
               /\ Serving' => Serving /\ LastOf' = LastOf
      BY <2>1, <2>3, LastOfMoves
    <3>3. Serving' => send'.stream = cursorEvent.stream
      BY <2>1 DEF Serving
    <3> HIDE DEF Current, LastOf
    <3> QED BY <2>1, <2>2, <3>1, <3>2, <3>3
  <2>4. CASE Publish
    <3>1. /\ signed = NoEvent /\ signed' # NoEvent /\ signed'.id = lastId + 1
          /\ signed'.stream = send.stream /\ signed'.prev = send.last /\ UNCHANGED send
      BY <1>1, <2>4, PublishEffect
    <3>2. LastOf = send.last /\ LastOf' = lastId + 1
      BY <3>1 DEF LastOf
    <3>3. CASE send.stream # cursorEvent.stream
      BY <2>1, <2>2, <2>4, <3>1, <3>3 DEF Serving
    <3>4. CASE send.stream = cursorEvent.stream
      <4>1. /\ Current' = Current \cup {signed'} /\ \A f \in Current : f.prev # send.last
        BY <2>1, <2>4, <3>4
      <4>2. send.last = 0 => Current = {}
        BY <2>2, <4>1
      <4>3. \E e \in Current' : e.prev = 0
        BY <2>2, <3>1, <3>2, <3>4, <4>1
      <4>4. ASSUME Serving', NEW n \in {0} \cup {e.id : e \in Current'}, n # LastOf'
            PROVE  \E f \in Current' : f.prev = n
        <5>1. n \in {0} \cup {e.id : e \in Current}
          BY <3>1, <3>2, <4>1, <4>4
        <5>2. Serving
          BY <2>1, <2>4, <3>1, <4>4 DEF Serving, Publish
        <5>3. CASE send.last = 0
          <6>1. n = 0
            BY <4>2, <5>1, <5>3
          <6> QED BY <3>1, <4>1, <5>3, <6>1
        <5>4. CASE send.last # 0
          <6>1. CASE n = send.last
            BY <3>1, <4>1, <6>1
          <6>2. CASE n # send.last
            BY <2>2, <3>2, <4>1, <5>1, <5>2, <5>4, <6>2
          <6> QED BY <6>1, <6>2
        <5> QED BY <5>3, <5>4
      <4> QED BY <4>3, <4>4
    <3> QED BY <3>3, <3>4
  <2> QED BY <2>3, <2>4
<1> QED BY <1>3, <1>4

---------------------------------------------------------------------------
(* The theorems.                                                           *)

\* At first there is nothing.
LEMMA InitHolds ==
    ASSUME Init
    PROVE  NostrInv /\ NoHole
<1> USE DEF Init
<1>1. Range(<<>>) = {} /\ DOMAIN <<>> = {} /\ Len(<<>>) = 0 /\ 1 .. 0 = {}
  BY DEF Range
<1>2. AnyEvent = {} /\ InFlight = {} /\ Current = {} /\ LastOf = 0
  BY <1>1 DEF AnyEvent, InHand, InFlight, Current, LastOf, NoStream
<1>3. NewPeer \in PeerInfos /\ NoStream \in Streams /\ NoEvent.data = <<>>
  BY DEF NewPeer, NoSync, PeerInfos, Syncs, Versions, NoStream, Streams, NoEvent
<1>4. SenderTypeOK
  <2>1. calls \in Seq(Calls) /\ queue \in Seq(Versions) /\ batches \in Seq(Seq(Versions))
    BY EmptySeq
  <2>2. written \in 0 .. MaxWrites /\ peer \in PeerInfos
    BY <1>3
  <2> QED BY <1>1, <1>2, <2>1, <2>2 DEF SenderTypeOK
<1>5. ReceiverTypeOK
  BY <1>1, <1>3 DEF ReceiverTypeOK, NoStream
<1>6. EventTypeOK
  <2>1. covered \in [1 .. lastId -> 0 .. MaxWrites]
    BY <1>1
  <2> QED BY <1>2, <2>1 DEF EventTypeOK
<1>7. StoredIsApplied /\ ChainForksOnlyByRestart /\ FirstLife
  BY DEF StoredIsApplied, ChainForksOnlyByRestart, FirstLife, NoStream
<1>8. StreamsAreInOrder
  BY <1>1, <1>2 DEF StreamsAreInOrder, NoStream, NewPeer, Publishing
<1>9. ReceiverFollowsOneStream /\ CallsAreInOrder
  BY <1>1 DEF ReceiverFollowsOneStream, CallsAreInOrder, NoStream
<1>10. PeerIsConsistent
  BY <1>1 DEF PeerIsConsistent, NewPeer, NoSync
<1>11. CountIsRight
  <2>1. Waiting = 0
    BY <1>1, <1>3 DEF Waiting, InBatches
  <2> QED BY <1>1, <2>1 DEF CountIsRight
<1>12. AllIsHandedOver /\ NothingIsSkipped /\ ChainIsWhole
  <2>1. ~Serving
    BY DEF Serving, NoStream
  <2>2. Reached(stored.last) = 0 /\ stored.cur = 0
    BY DEF Reached, NoStream
  <2> QED BY <1>1, <1>2, <1>3, <2>1, <2>2
          DEF AllIsHandedOver, NothingIsSkipped, ChainIsWhole, NoStream
<1>13. NoHole
  BY <1>1 DEF NoHole
<1> QED BY <1>4, <1>5, <1>6, <1>7, <1>8, <1>9, <1>10, <1>11, <1>12, <1>13 DEF NostrInv, NostrTypeOK

\* The state stays within its types, the stored recv cursor is behind what is
\* applied, a stream is a chain, and what the steps rely on holds.
THEOREM NostrIsSafe == Spec => []NostrInv
<1>1. ASSUME NostrInv, [Next]_vars PROVE NostrInv'
  <2>1. NostrTypeOK'
    BY <1>1, SenderTypesKept, ReceiverTypesKept, EventTypesKept DEF NostrInv, NostrTypeOK
  <2>2. ReceiverFollowsOneStream'
    BY <1>1, FollowingKept DEF NostrInv
  <2>3. StoredIsApplied' /\ ChainForksOnlyByRestart' /\ StreamsAreInOrder' /\ CallsAreInOrder'
    BY <1>1, StoredIsAppliedKept, ForksKept, StreamsKept, CallsKept
  <2>4. PeerIsConsistent' /\ CountIsRight' /\ AllIsHandedOver'
    BY <1>1, PeerKept, CountKept, HandedOverKept
  <2>5. NothingIsSkipped' /\ ChainIsWhole' /\ FirstLife'
    BY <1>1, SkippingKept, ChainKept, FirstLifeKept
  <2> QED BY <2>1, <2>2, <2>3, <2>4, <2>5 DEF NostrInv
<1> QED BY InitHolds, <1>1, PTL DEF Spec

\* An event that is applied leaves no version out.
LEMMA HoleStep ==
    ASSUME NostrInv, NoHole, [Next]_vars
    PROVE  NoHole'
<1>1. NostrTypeOK /\ StoredIsApplied /\ NothingIsSkipped
  BY DEF NostrInv
<1>2. SUFFICES ASSUME ~overtaken', ~cutShort' PROVE 1 .. known' \subseteq have'
  BY DEF NoHole
<1>3. ~overtaken /\ ~cutShort
  BY <1>2, WrongStays
<1>4. 1 .. known \subseteq have /\ known \in Nat /\ stored.cur \in Nat
  BY <1>1, <1>3, CursorsAreTyped DEF NoHole
<1>5. CASE Apply
  <2>1. PICK e \in buffer :
          /\ e \in AnyEvent /\ Follows(e)
          /\ have' = have \cup {v \in Range(e.data) : v >= known}
          /\ known' \in 0 .. written /\ known <= known'
          /\ known' = known \/ known' \in Range(e.data)
    BY <1>1, <1>5, ApplyEffect
  <2>2. e.stream = cursorEvent.stream /\ e.prev = stored.last
    BY <2>1, InMemoryIsCurrent DEF Follows
  <2>3. \A v \in Range(e.data) : Reached(stored.last) + 1 .. v \subseteq Range(e.data)
    BY <1>1, <1>3, <2>1, <2>2 DEF NothingIsSkipped
  <2>4. PICK r \in Nat : r = Reached(stored.last)
    <3>1. stored.last \in 0 .. lastId
      BY <1>1, CursorsAreTyped DEF IsCursor
    <3> QED BY <1>1, <3>1, ReachedIsTyped
  <2>5. r <= known
    BY <1>1, <1>4, <2>4 DEF NothingIsSkipped, StoredIsApplied
  <2>6. CASE known' = known
    BY <1>4, <2>1, <2>6
  <2>7. CASE known' \in Range(e.data)
    <3>1. PICK k \in Nat : k = known'
      <4>1. known' \in Nat
        BY <1>1, KnownMoves
      <4> QED BY <4>1
    <3>2. r + 1 .. k \subseteq Range(e.data)
      BY <2>3, <2>4, <2>7, <3>1
    <3>3. ASSUME NEW u \in 1 .. k PROVE u \in have'
      <4>1. CASE u <= known
        BY <1>4, <2>1, <4>1
      <4>2. CASE ~ (u <= known)
        <5>1. u \in r + 1 .. k /\ u >= known
          BY <1>4, <2>5, <4>2
        <5> QED BY <2>1, <3>2, <5>1
      <4> QED BY <4>1, <4>2
    <3> QED BY <3>1, <3>3
  <2> QED BY <2>1, <2>6, <2>7
<1>6. CASE ~Apply
  BY <1>1, <1>4, <1>6, KnownMoves
<1> QED BY <1>5, <1>6

\* The receiver lacks nothing its cursor covers, through losses, restarts and
\* new streams, but for the two races of the sender.
THEOREM NothingIsMissed == Spec => []NoHole
<1>1. Init => NoHole
  BY InitHolds
<1> QED BY <1>1, HoleStep, NostrIsSafe, PTL DEF Spec

\* Whoever waits for waitCanSend waits for something that is queued or being
\* published, as long as nothing was dropped for a new stream.
THEOREM BackPressureEnds == Spec => []BlockedHasWork
<1>1. NostrInv => BlockedHasWork
  BY WaitingIsForSomething DEF NostrInv
<1> QED BY <1>1, NostrIsSafe, PTL

\* Where nothing is left to do, all that was written has arrived.
LEMMA RestMeans ==
    ASSUME NostrInv
    PROVE  RestIsCaughtUp
<1>1. /\ NostrTypeOK /\ StreamsAreInOrder /\ PeerIsConsistent /\ AllIsHandedOver
      /\ NothingIsSkipped /\ ChainIsWhole /\ StoredIsApplied /\ ReceiverFollowsOneStream
  BY DEF NostrInv
<1>2. SUFFICES ASSUME AtRest, ~cutShort PROVE known = written
  BY DEF RestIsCaughtUp
<1>3. /\ calls = <<>> /\ peer.sync.step = "off" /\ ~resync /\ queue = <<>> /\ batches = <<>>
      /\ signed = NoEvent /\ recv.stream = cursorEvent.stream /\ ~suspect
      /\ phase = "live" /\ \A e \in events : ~Follows(e)
  BY <1>2 DEF AtRest, IsIdle, Publishing
<1>4. Serving /\ send.stream # 0
  BY <1>2 DEF AtRest, Serving
<1>5. peer.stream = send.stream
  <2>1. DOMAIN calls = {}
    BY <1>3
  <2> QED BY <1>1, <1>3, <1>4, <2>1 DEF StreamsAreInOrder
<1>6. Unsent = 0
  <2>1. peer.active
    BY <1>1, <1>3, <1>4, <1>5 DEF PeerIsConsistent
  <2> QED BY <1>3, <2>1 DEF Unsent
<1>7. OnItsWay = {Sent}
  <2>1. Range(<<>>) = {}
    BY DEF Range
  <2> QED BY <1>3, <2>1 DEF OnItsWay, InFlight
<1>8. written <= Sent
  <2>1. Below(written - Unsent, OnItsWay)
    BY <1>1, <1>3, <1>4, <1>5, HandedOverMeans DEF PeerHandsOver
  <2>2. written - Unsent = written
    BY <1>1, <1>6, CursorsAreTyped
  <2> QED BY <1>7, <2>1, <2>2 DEF Below
<1>9. Sent = Reached(send.last) /\ LastOf = send.last
  BY <1>3 DEF Sent, LastOf
<1>10. /\ known \in Nat /\ written \in Nat /\ known <= written /\ stored.cur \in Nat
       /\ Sent \in Nat /\ cursorEvent.cur \in Nat
  BY <1>1, CursorsAreTyped, SentIsTyped
<1>11. CASE send.last = 0
  <2>1. Sent = cursorEvent.cur /\ cursorEvent.cur <= known
    BY <1>1, <1>9, <1>11 DEF Reached, StreamsAreInOrder
  <2> QED BY <1>8, <1>10, <2>1
<1>12. CASE send.last # 0
  <2>1. recv = stored
    BY <1>1, <1>3 DEF ReceiverFollowsOneStream
  <2>2. stored.last \in {0} \cup {e.id : e \in Current}
    BY <1>1, <1>3 DEF ChainIsWhole
  <2>3. stored.last = send.last
    <3>1. SUFFICES ASSUME stored.last # send.last PROVE FALSE
      OBVIOUS
    <3>2. PICK f \in Current : f.prev = stored.last
      BY <1>1, <1>3, <1>4, <1>9, <1>12, <2>2, <3>1 DEF ChainIsWhole
    <3>3. f \in events /\ Follows(f)
      BY <1>3, <2>1, <3>2 DEF Current, Follows
    <3> QED BY <1>3, <3>3
  <2>4. Sent <= stored.cur /\ stored.cur <= known
    BY <1>1, <1>9, <2>3 DEF NothingIsSkipped, StoredIsApplied
  <2> QED BY <1>8, <1>10, <2>4
<1> QED BY <1>11, <1>12

\* When nothing is left to do the receiver has caught up with the sender.
THEOREM RestIsComplete == Spec => []RestIsCaughtUp
BY RestMeans, NostrIsSafe, PTL
=============================================================================
