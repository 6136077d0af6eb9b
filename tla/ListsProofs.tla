------------------------------ MODULE ListsProofs ------------------------------
(***************************************************************************)
(* Facts about Lists for any sequences and sets.  Well-foundedness of <    *)
(* gives induction over Nat, which gives the sums; the picks rest on       *)
(* cardinalities and bijections alone.                                     *)
(***************************************************************************)
EXTENDS Lists, TLAPS, FiniteSetTheorems, SequenceTheorems

\* A set of naturals has a least member: < is well-founded on Nat.
LEMMA LeastOfSet ==
  ASSUME NEW T, T \subseteq Nat, T # {}
  PROVE  \E x \in T : \A y \in T : x <= y
<1> DEFINE R == {ss \in Nat \X Nat : ss[1] < ss[2]}
<1>1. OpToRel(<, Nat) = R
  BY Zenon DEF OpToRel
<1>2. IsWellFoundedOn(R, Nat)
  BY <1>1, NatLessThanWellFounded
<1> HIDE DEF R
<1>3. PICK x \in T : \A y \in T : ~ (<<y, x>> \in R)
  BY <1>2, WFMin, Zenon
<1>4. ASSUME NEW y \in T PROVE x <= y
  <2>1. x \in Nat /\ y \in Nat /\ ~ (<<y, x>> \in R)
    BY <1>3, <1>4
  <2>2. <<y, x>> \in Nat \X Nat /\ <<y, x>>[1] = y /\ <<y, x>>[2] = x
    BY <2>1
  <2>3. ~(y < x)
    BY <2>1, <2>2 DEF R
  <2> QED BY <2>1, <2>3
<1> QED BY <1>3, <1>4

\* Induction over Nat, for the set of the numbers that have a property.
LEMMA SetInduction ==
  ASSUME NEW T, T \subseteq Nat, 0 \in T, \A n \in T : n + 1 \in T
  PROVE  T = Nat
<1>1. SUFFICES ASSUME Nat \ T # {} PROVE FALSE
  OBVIOUS
<1>2. PICK x \in Nat \ T : \A y \in Nat \ T : x <= y
  BY <1>1, LeastOfSet
<1>3. x # 0 /\ x - 1 \in Nat
  BY <1>2
<1>4. x - 1 \in T
  BY <1>2, <1>3
<1>5. QED
  BY <1>2, <1>3, <1>4

\* The rank of a member grows with the member.
LEMMA RankOrder ==
  ASSUME NEW S, IsFiniteSet(S), S \subseteq Int, NEW i \in S
  PROVE  /\ Cardinality(S) \in Nat
         /\ Rank(S, i) \in 1..Cardinality(S)
         /\ \A j \in S : i < j <=> Rank(S, i) < Rank(S, j)
<1> DEFINE upto(k) == {j \in S : j <= k}
<1>1. ASSUME NEW k \in S
      PROVE  /\ IsFiniteSet(upto(k)) /\ Cardinality(upto(k)) \in Nat
             /\ Cardinality(upto(k)) <= Cardinality(S)
             /\ Cardinality(upto(k)) # 0
  <2>1. upto(k) \in SUBSET S /\ k \in upto(k)
    BY <1>1
  <2>2. IsFiniteSet(upto(k)) /\ Cardinality(upto(k)) <= Cardinality(S)
    BY <2>1, FS_Subset
  <2>3. Cardinality(upto(k)) # 0
    BY <2>1, <2>2, FS_EmptySet
  <2> QED BY <2>2, <2>3, FS_CardinalityType
<1>2. Cardinality(S) \in Nat
  BY FS_CardinalityType
<1>3. ASSUME NEW a \in S, NEW b \in S, a < b PROVE Cardinality(upto(a)) < Cardinality(upto(b))
  <2>0. a \in Int /\ b \in Int
    BY <1>3
  <2>1. upto(a) \in SUBSET upto(b) /\ b \in upto(b) /\ b \notin upto(a)
    <3>1. \A j \in S : j \in Int
      OBVIOUS
    <3>2. ~(b <= a) /\ b <= b
      BY <2>0, <1>3
    <3>3. \A j \in S : j <= a => j <= b
      BY <2>0, <3>1, <1>3
    <3> QED BY <3>2, <3>3, Zenon
  <2>2. upto(a) # upto(b)
    BY <2>1
  <2>3. /\ Cardinality(upto(a)) <= Cardinality(upto(b))
        /\ Cardinality(upto(a)) = Cardinality(upto(b)) => upto(b) = upto(a)
    <3> HIDE DEF upto
    <3> QED BY <2>1, <1>1, FS_Subset
  <2> QED BY <2>2, <2>3, <1>1
<1>4. ASSUME NEW j \in S PROVE i < j <=> Rank(S, i) < Rank(S, j)
  <2>1. i \in Int /\ j \in Int
    BY <1>4
  <2>2. /\ Rank(S, i) = Cardinality(upto(i)) /\ Rank(S, j) = Cardinality(upto(j))
    BY DEF Rank
  <2>3. Rank(S, i) \in Nat /\ Rank(S, j) \in Nat
    BY <2>2, <1>1, <1>4
  <2>4. i < j => Rank(S, i) < Rank(S, j)
    BY <2>2, <1>3, <1>4
  <2>5. j < i => Rank(S, j) < Rank(S, i)
    BY <2>2, <1>3, <1>4
  <2>6. j = i => Rank(S, j) = Rank(S, i)
    OBVIOUS
  <2> QED BY <2>1, <2>3, <2>4, <2>5, <2>6
<1>5. Rank(S, i) \in 1..Cardinality(S)
  BY <1>1, <1>2 DEF Rank
<1> QED BY <1>2, <1>4, <1>5

\* Every rank up to the size of the set is that of some member.
LEMMA RankOnto ==
  ASSUME NEW S, IsFiniteSet(S), S \subseteq Int, NEW k \in 1..Cardinality(S)
  PROVE  \E i \in S : Rank(S, i) = k
<1> DEFINE n == Cardinality(S)
           r == [i \in S |-> Rank(S, i)]
<1>1. n \in Nat /\ IsFiniteSet(1..n) /\ Cardinality(1..n) = n
  BY FS_CardinalityType, FS_Interval
<1>2. \A i \in S : Rank(S, i) \in 1..n
  BY RankOrder
<1>3. r \in [S -> 1..n]
  BY <1>2
<1>4. \A i, j \in S : r[i] = r[j] => i = j
  <2>1. ASSUME NEW i \in S, NEW j \in S, Rank(S, i) = Rank(S, j) PROVE i = j
    <3>1. i \in Int /\ j \in Int /\ Rank(S, i) \in Int /\ Rank(S, j) \in Int
      BY <1>2
    <3>2. (i < j <=> Rank(S, i) < Rank(S, j)) /\ (j < i <=> Rank(S, j) < Rank(S, i))
      BY RankOrder
    <3>3. ~(i < j) /\ ~(j < i)
      BY <2>1, <3>1, <3>2
    <3> QED BY <3>1, <3>3
  <2> QED BY <2>1
<1> HIDE DEF r
<1>5. r \in Injection(S, 1..n)
  BY <1>3, <1>4 DEF Injection, IsInjective
<1>6. r \in Surjection(S, 1..n)
  <2>1. Cardinality(S) = Cardinality(1..n)
    BY <1>1
  <2> HIDE DEF n
  <2> QED BY <2>1, <1>1, <1>5, FS_Injection
<1>7. \E i \in S : r[i] = k
  BY <1>6 DEF Surjection
<1> QED BY <1>7 DEF r

\* The ascending list of a finite set of numbers.
LEMMA AscendingList ==
  ASSUME NEW S, IsFiniteSet(S), S \subseteq Int
  PROVE  /\ Cardinality(S) \in Nat
         /\ Ascending(S) \in [1..Cardinality(S) -> S]
         /\ \A k, l \in 1..Cardinality(S) : k < l => Ascending(S)[k] < Ascending(S)[l]
         /\ \A k \in 1..Cardinality(S) : Rank(S, Ascending(S)[k]) = k
         /\ \A i \in S : \E k \in 1..Cardinality(S) : Ascending(S)[k] = i
<1> DEFINE n == Cardinality(S)
           a == Ascending(S)
<1>1. n \in Nat
  BY FS_CardinalityType
<1>2. ASSUME NEW k \in 1..n PROVE a[k] \in S /\ Rank(S, a[k]) = k
  <2>1. a[k] = CHOOSE i \in S : Rank(S, i) = k
    BY <1>2 DEF Ascending
  <2> QED BY <2>1, <1>2, RankOnto
<1>3. a = [k \in 1..n |-> a[k]]
  BY DEF Ascending
<1> HIDE DEF a, n
<1>4. a \in [1..n -> S]
  BY <1>2, <1>3
<1>5. ASSUME NEW k \in 1..n, NEW l \in 1..n, k < l PROVE a[k] < a[l]
  BY <1>2, <1>5, RankOrder, ZenonT(40)
<1>6. ASSUME NEW i \in S PROVE \E k \in 1..n : a[k] = i
  <2>1. Rank(S, i) \in 1..n
    BY <1>6, RankOrder DEF n
  <2> DEFINE k == Rank(S, i)
  <2>2. a[k] \in S /\ Rank(S, a[k]) = k
    BY <2>1, <1>2
  <2>3. ~(a[k] < i) /\ ~(i < a[k])
    <3>1. /\ a[k] < i <=> Rank(S, a[k]) < Rank(S, i)
          /\ i < a[k] <=> Rank(S, i) < Rank(S, a[k])
      BY <2>2, <1>6, RankOrder
    <3>2. Rank(S, a[k]) = Rank(S, i) /\ Rank(S, i) \in Int
      BY <2>1, <2>2
    <3> QED BY <3>1, <3>2
  <2>4. a[k] = i
    <3>1. a[k] \in Int /\ i \in Int
      BY <2>2, <1>6
    <3> HIDE DEF k
    <3> QED BY <2>3, <3>1
  <2> QED BY <2>1, <2>4
<1> QED BY <1>1, <1>2, <1>4, <1>5, <1>6 DEF a, n

\* A list that increases and holds all of S is the ascending one.
LEMMA AscendingUnique ==
  ASSUME NEW S, S \subseteq Int, NEW n \in Nat, NEW f \in [1..n -> S],
         \A k, l \in 1..n : k < l => f[k] < f[l], \A i \in S : \E k \in 1..n : f[k] = i
  PROVE  IsFiniteSet(S) /\ Cardinality(S) = n /\ f = Ascending(S)
<1>0. \A k \in 1..n : f[k] \in S /\ f[k] \in Int /\ k \in Int
  <2>1. \A i \in S : i \in Int
    OBVIOUS
  <2>2. ASSUME NEW k \in 1..n PROVE f[k] \in S /\ f[k] \in Int /\ k \in Int
    <3>1. f[k] \in S /\ k \in Int
      OBVIOUS
    <3> QED BY <2>1, <3>1
  <2> QED BY <2>2
<1>1. \A k, l \in 1..n : f[k] = f[l] => k = l
  <2>1. ASSUME NEW k \in 1..n, NEW l \in 1..n, f[k] = f[l] PROVE k = l
    <3>1. f[k] \in Int /\ k \in Int /\ l \in Int
      BY <1>0
    <3>2. ~(k < l) /\ ~(l < k)
      BY <2>1, <3>1
    <3> QED BY <3>1, <3>2
  <2> QED BY <2>1
<1>2. f \in Bijection(1..n, S)
  BY <1>1 DEF Bijection, Injection, IsInjective, Surjection
<1>3. ExistsBijection(1..n, S)
  BY <1>2 DEF ExistsBijection
<1>4. IsFiniteSet(S) /\ Cardinality(S) = n
  BY <1>3, FS_NatBijection, FS_CountingElements
<1>5. ASSUME NEW k \in 1..n PROVE Rank(S, f[k]) = k
  <2> DEFINE upto == {j \in S : j <= f[k]}
             g == [l \in 1..k |-> f[l]]
  <2>1. \A l \in 1..k : l \in 1..n /\ f[l] \in upto
    <3>1. ASSUME NEW l \in 1..k PROVE l \in 1..n /\ f[l] \in upto
      <4>1. l \in 1..n /\ (l < k \/ l = k)
        BY <3>1, k \in Int, l \in Int
      <4>2. f[l] <= f[k]
        BY <4>1, <1>0
      <4> QED BY <4>1, <4>2
    <3> QED BY <3>1
  <2>2. g \in [1..k -> upto]
    BY <2>1
  <2>3. \A i \in upto : \E l \in 1..k : g[l] = i
    <3>1. ASSUME NEW i \in upto PROVE \E l \in 1..k : g[l] = i
      <4>1. PICK l \in 1..n : f[l] = i
        BY <3>1
      <4>2. ~(k < l)
        <5>1. f[l] <= f[k] /\ f[l] \in Int /\ f[k] \in Int
          BY <4>1 DEF upto
        <5> QED BY <5>1
      <4>3. l \in 1..k
        BY <4>2
      <4> QED BY <4>1, <4>3
    <3> QED BY <3>1
  <2>4. \A l, m \in 1..k : g[l] = g[m] => l = m
    BY <1>1, <2>1
  <2> HIDE DEF g, upto
  <2>5. g \in Bijection(1..k, upto)
    BY <2>2, <2>3, <2>4 DEF Bijection, Injection, IsInjective, Surjection
  <2>6. Cardinality(upto) = k
    BY <2>5, FS_CountingElements DEF ExistsBijection
  <2> QED BY <2>6 DEF Rank, upto
<1>6. ASSUME NEW k \in 1..n PROVE f[k] = Ascending(S)[k]
  <2>1. PICK l \in 1..n : Ascending(S)[l] = f[k]
    BY <1>4, AscendingList
  <2>2. Rank(S, f[k]) = l
    BY <2>1, <1>4, AscendingList
  <2> QED BY <2>1, <2>2, <1>5
<1>7. Ascending(S) \in [1..n -> S]
  BY <1>4, AscendingList
<1> QED BY <1>4, <1>6, <1>7

\* What is picked from a sequence.
LEMMA AtList ==
  ASSUME NEW A, NEW s \in Seq(A), NEW I \in SUBSET (1..Len(s))
  PROVE  /\ IsFiniteSet(I) /\ Cardinality(I) \in Nat
         /\ At(s, I) \in Seq(A) /\ Len(At(s, I)) = Cardinality(I)
         /\ At(s, I) = [k \in 1..Cardinality(I) |-> s[Ascending(I)[k]]]
         /\ \A k \in 1..Cardinality(I) : Ascending(I)[k] \in I
<1>1. Len(s) \in Nat /\ (\A i \in 1..Len(s) : s[i] \in A)
  BY LenProperties, ElementOfSeq
<1>2. IsFiniteSet(I)
  <2>1. IsFiniteSet(1..Len(s))
    BY <1>1, FS_Interval
  <2> QED BY <2>1, FS_Subset
<1>3. I \subseteq Int
  OBVIOUS
<1> DEFINE n == Cardinality(I)
<1>4. n \in Nat /\ \A k \in 1..n : Ascending(I)[k] \in I
  BY <1>2, <1>3, AscendingList
<1> HIDE DEF n
<1>5. At(s, I) = [k \in 1..n |-> s[Ascending(I)[k]]]
  BY DEF At, n
<1>6. At(s, I) \in [1..n -> A]
  BY <1>1, <1>4, <1>5
<1>7. At(s, I) \in Seq(A)
  BY <1>4, <1>6, SeqDef
<1>8. Len(At(s, I)) = n
  BY <1>4, <1>6, <1>7, LenProperties
<1> QED BY <1>2, <1>4, <1>5, <1>7, <1>8 DEF n

\* Nothing picked.
LEMMA AtNothing == ASSUME NEW A, NEW s \in Seq(A) PROVE At(s, {}) = <<>>
<1>1. Len(At(s, {})) = 0 /\ At(s, {}) \in Seq(A)
  BY AtList, FS_EmptySet
<1> QED BY <1>1, EmptySeq

\* All of a sequence.
LEMMA AtAll == ASSUME NEW A, NEW s \in Seq(A) PROVE At(s, 1..Len(s)) = s
<1> DEFINE n == Len(s)
           S == 1..n
           f == [k \in 1..n |-> k]
           t == At(s, S)
<1>1. n \in Nat /\ \A i \in 1..n : s[i] \in A
  BY LenProperties, ElementOfSeq
<1>2. f \in [1..n -> S] /\ S \subseteq Int /\ \A k \in 1..n : f[k] = k
  BY <1>1
<1>3. \A k, l \in 1..n : k < l => f[k] < f[l]
  BY <1>2
<1>4. \A i \in S : \E k \in 1..n : f[k] = i
  BY <1>2
<1> HIDE DEF f
<1>5. Cardinality(S) = n /\ f = Ascending(S)
  <2> HIDE DEF S, n
  <2>1. n \in Nat /\ S \subseteq Int /\ f \in [1..n -> S]
    BY <1>1, <1>2
  <2> QED BY ONLY <2>1, <1>3, <1>4, AscendingUnique
<1>6. t \in Seq(A) /\ Len(t) = n /\ t = [k \in 1..n |-> s[Ascending(S)[k]]]
  <2>1. S \in SUBSET (1..Len(s))
    OBVIOUS
  <2> QED BY <1>5, <2>1, AtList
<1>7. \A k \in 1..n : t[k] = s[k]
  BY <1>2, <1>5, <1>6
<1> HIDE DEF t, n
<1>8. t = s
  BY <1>6, <1>7, SeqEqual DEF n
<1> QED BY <1>8 DEF t, n

\* The picks from two parts of a sequence follow each other.
LEMMA AtConcat ==
  ASSUME NEW A, NEW s \in Seq(A), NEW t \in Seq(A),
         NEW I \in SUBSET (1..Len(s)), NEW J \in SUBSET (1..Len(t)), NEW K,
         \A i : i \in K <=> (i \in I \/ \E j \in J : i = Len(s) + j)
  PROVE  At(s \o t, K) = At(s, I) \o At(t, J)
<1> DEFINE m == Len(s)
           a == Cardinality(I)
           b == Cardinality(J)
           f == [k \in 1..a + b |-> IF k <= a THEN Ascending(I)[k] ELSE m + Ascending(J)[k - a]]
<1>0. \A i : i \in K <=> (i \in I \/ \E j \in J : i = m + j)
  OBVIOUS
<1>1. /\ m \in Nat /\ Len(t) \in Nat
      /\ s \o t \in Seq(A) /\ Len(s \o t) = m + Len(t)
      /\ \A i \in 1..m + Len(t) : (s \o t)[i] = IF i <= m THEN s[i] ELSE t[i - m]
  BY LenProperties, ConcatProperties
<1>2. /\ IsFiniteSet(I) /\ a \in Nat /\ IsFiniteSet(J) /\ b \in Nat
      /\ I \subseteq Int /\ J \subseteq Int
  BY AtList
<1>3. /\ \A k \in 1..a : Ascending(I)[k] \in I /\ Ascending(I)[k] \in 1..m
      /\ \A k, l \in 1..a : k < l => Ascending(I)[k] < Ascending(I)[l]
      /\ \A i \in I : \E k \in 1..a : Ascending(I)[k] = i
  BY <1>2, AscendingList, ZenonT(40)
<1>4. /\ \A k \in 1..b : Ascending(J)[k] \in J /\ Ascending(J)[k] \in 1..Len(t)
      /\ \A k, l \in 1..b : k < l => Ascending(J)[k] < Ascending(J)[l]
      /\ \A i \in J : \E k \in 1..b : Ascending(J)[k] = i
  BY <1>2, AscendingList, ZenonT(40)
<1> DEFINE x == Ascending(I)
           y == Ascending(J)
<1>5. K \subseteq 1..m + Len(t)
  <2>1. \A j \in J : j \in 1..Len(t)
    OBVIOUS
  <2>2. \A i \in I : i \in 1..m
    OBVIOUS
  <2> HIDE DEF m
  <2>3. ASSUME NEW i \in K PROVE i \in 1..m + Len(t)
    <3>1. CASE i \in I
      BY <3>1, <1>1, <2>2
    <3>2. CASE i \notin I
      <4>1. PICK j \in J : i = m + j
        BY <3>2, <1>0
      <4> QED BY <4>1, <1>1, <2>1
    <3> QED BY <3>1, <3>2
  <2> QED BY <2>3
<1> HIDE DEF x, y, a, b, m
<1>6. ASSUME NEW k \in 1..a + b PROVE f[k] \in K
  <2>1. CASE k <= a
    BY <2>1, <1>0, <1>2, <1>3 DEF x
  <2>2. CASE ~(k <= a)
    <3>1. k - a \in 1..b
      BY <2>2, <1>2
    <3> QED BY <3>1, <2>2, <1>0, <1>4 DEF y
  <2> QED BY <2>1, <2>2
<1>7. ASSUME NEW k \in 1..a + b, NEW l \in 1..a + b, k < l PROVE f[k] < f[l]
  <2>1. CASE l <= a
    <3>1. k \in 1..a /\ l \in 1..a /\ f[k] = x[k] /\ f[l] = x[l]
      BY <2>1, <1>2, <1>7 DEF x
    <3> QED BY <3>1, <1>3, <1>7 DEF x
  <2>2. CASE k <= a /\ ~(l <= a)
    <3>1. k \in 1..a /\ l - a \in 1..b /\ f[k] = x[k] /\ f[l] = m + y[l - a]
      BY <2>2, <1>2, <1>7 DEF x, y
    <3>2. x[k] \in 1..m /\ y[l - a] \in Nat \ {0}
      BY <3>1, <1>3, <1>4 DEF x, y
    <3> QED BY <3>1, <3>2, <1>1
  <2>3. CASE ~(k <= a)
    <3>1. /\ k - a \in 1..b /\ l - a \in 1..b /\ k - a < l - a
          /\ f[k] = m + y[k - a] /\ f[l] = m + y[l - a]
      BY <2>3, <1>2, <1>7 DEF y
    <3>2. y[k - a] < y[l - a] /\ y[k - a] \in Nat /\ y[l - a] \in Nat
      BY <3>1, <1>4 DEF y
    <3> QED BY <3>1, <3>2, <1>1
  <2> QED BY <2>1, <2>2, <2>3, <1>7, <1>2
<1>8. ASSUME NEW i \in K PROVE \E k \in 1..a + b : f[k] = i
  <2>1. CASE i \in I
    <3>1. PICK k \in 1..a : x[k] = i
      BY <2>1, <1>3 DEF x
    <3>2. k \in 1..a + b /\ f[k] = i
      BY <3>1, <1>2 DEF x
    <3> QED BY <3>2
  <2>2. CASE i \notin I
    <3>1. PICK j \in J : i = m + j
      BY <2>2, <1>0
    <3>2. PICK k \in 1..b : y[k] = j
      BY <3>1, <1>4 DEF y
    <3>3. k + a \in 1..a + b /\ ~(k + a <= a) /\ (k + a) - a = k
      BY <1>2
    <3>4. f[k + a] = i
      BY <3>1, <3>2, <3>3 DEF y
    <3> QED BY <3>3, <3>4
  <2> QED BY <2>1, <2>2
<1>9. a + b \in Nat /\ K \subseteq Int
  BY <1>1, <1>2, <1>5
<1>10. f \in [1..a + b -> K]
  BY <1>6
<1>11. Cardinality(K) = a + b /\ f = Ascending(K)
  <2> HIDE DEF f
  <2> QED BY <1>7, <1>8, <1>9, <1>10, AscendingUnique, ZenonT(40)
<1>12. /\ At(s, I) \in Seq(A) /\ Len(At(s, I)) = a /\ At(s, I) = [k \in 1..a |-> s[x[k]]]
  BY AtList DEF a, x
<1>13. /\ At(t, J) \in Seq(A) /\ Len(At(t, J)) = b /\ At(t, J) = [k \in 1..b |-> t[y[k]]]
  BY AtList DEF b, y
<1>14. /\ At(s \o t, K) \in Seq(A) /\ Len(At(s \o t, K)) = a + b
       /\ At(s \o t, K) = [k \in 1..a + b |-> (s \o t)[f[k]]]
  <2>1. K \in SUBSET (1..Len(s \o t))
    BY <1>1, <1>5
  <2>2. /\ At(s \o t, K) \in Seq(A) /\ Len(At(s \o t, K)) = Cardinality(K)
        /\ At(s \o t, K) = [k \in 1..Cardinality(K) |-> (s \o t)[Ascending(K)[k]]]
    BY <2>1, <1>1, AtList, ZenonT(40)
  <2> HIDE DEF f
  <2> QED BY <2>2, <1>11
<1>15. /\ At(s, I) \o At(t, J) \in Seq(A) /\ Len(At(s, I) \o At(t, J)) = a + b
       /\ \A k \in 1..a + b : (At(s, I) \o At(t, J))[k] =
                                IF k <= a THEN At(s, I)[k] ELSE At(t, J)[k - a]
  <2> DEFINE u == At(s, I)
             v == At(t, J)
  <2>1. u \in Seq(A) /\ v \in Seq(A) /\ Len(u) = a /\ Len(v) = b
    BY <1>12, <1>13
  <2> HIDE DEF u, v
  <2>2. /\ u \o v \in Seq(A) /\ Len(u \o v) = a + b
        /\ \A k \in 1..a + b : (u \o v)[k] = IF k <= a THEN u[k] ELSE v[k - a]
    BY <2>1, ConcatProperties
  <2> QED BY <2>2 DEF u, v
<1>16. ASSUME NEW k \in 1..a + b PROVE At(s \o t, K)[k] = (At(s, I) \o At(t, J))[k]
  <2>1. CASE k <= a
    <3>1. k \in 1..a /\ f[k] = x[k] /\ x[k] \in 1..m
      BY <2>1, <1>2, <1>3 DEF x
    <3>2. (s \o t)[f[k]] = s[x[k]]
      BY <3>1, <1>1
    <3> HIDE DEF f
    <3> QED BY <3>1, <3>2, <2>1, <1>12, <1>14, <1>15
  <2>2. CASE ~(k <= a)
    <3>1. k - a \in 1..b /\ f[k] = m + y[k - a] /\ y[k - a] \in 1..Len(t)
      BY <2>2, <1>2, <1>4 DEF y
    <3>2. f[k] \in 1..m + Len(t) /\ ~(f[k] <= m) /\ f[k] - m = y[k - a]
      BY <3>1, <1>1, SMTT(30)
    <3>3. (s \o t)[f[k]] = t[y[k - a]]
      BY <3>2, <1>1
    <3> HIDE DEF f
    <3> QED BY <3>1, <3>3, <2>2, <1>13, <1>14, <1>15
  <2> QED BY <2>1, <2>2
<1>17. At(s \o t, K) = At(s, I) \o At(t, J)
  <2> HIDE DEF f
  <2> QED BY <1>14, <1>15, <1>16, SeqEqual
<1> QED BY <1>17

-------------------------------------------------------------------------------
\* f[n] is the sum of the first n elements of s.
Sums(f, s) ==
  /\ f \in [0..Len(s) -> Nat] /\ f[0] = 0
  /\ \A n \in 1..Len(s) : f[n] = f[n - 1] + s[n]

\* The partial sums exist: the recursion of Total has a solution,
LEMMA SumsExist == ASSUME NEW s \in Seq(Nat) PROVE \E f : Sums(f, s)
<1> DEFINE P(m) == \E f \in [0..m -> Nat] : f[0] = 0 /\ \A n \in 1..m : f[n] = f[n - 1] + s[n]
           T == {m \in Nat : m <= Len(s) => P(m)}
<1>1. Len(s) \in Nat /\ \A n \in 1..Len(s) : s[n] \in Nat
  BY LenProperties, ElementOfSeq
<1>2. P(0)
  <2> DEFINE f == [n \in 0..0 |-> 0]
  <2>1. f \in [0..0 -> Nat] /\ f[0] = 0 /\ 1..0 = {}
    OBVIOUS
  <2> HIDE DEF f
  <2> QED BY <2>1
<1>3. ASSUME NEW m \in Nat, m + 1 <= Len(s), P(m) PROVE P(m + 1)
  <2>1. PICK f \in [0..m -> Nat] : f[0] = 0 /\ \A n \in 1..m : f[n] = f[n - 1] + s[n]
    BY <1>3
  <2> DEFINE g == [n \in 0..m + 1 |-> IF n = m + 1 THEN f[m] + s[n] ELSE f[n]]
  <2>2. f[m] \in Nat /\ s[m + 1] \in Nat
    BY <1>1, <1>3
  <2>3. g \in [0..m + 1 -> Nat] /\ g[0] = 0
    <3>1. ASSUME NEW n \in 0..m + 1 PROVE g[n] \in Nat
      <4>1. n = m + 1 \/ n \in 0..m
        OBVIOUS
      <4> QED BY <4>1, <2>2
    <3> QED BY <3>1, <2>1
  <2>4. ASSUME NEW n \in 1..m + 1 PROVE g[n] = g[n - 1] + s[n]
    <3>1. CASE n = m + 1
      BY <3>1
    <3>2. CASE n \in 1..m
      BY <3>2, <2>1
    <3> QED BY <3>1, <3>2
  <2> HIDE DEF g
  <2> QED BY <2>3, <2>4
<1> HIDE DEF P
<1>4. \A m \in T : m + 1 \in T
  <2>1. ASSUME NEW m \in Nat, m <= Len(s) => P(m), m + 1 <= Len(s) PROVE P(m + 1)
    BY <2>1, <1>1, <1>3
  <2>2. ASSUME NEW m \in T PROVE m + 1 \in T
    <3>1. m \in Nat /\ m + 1 \in Nat /\ (m <= Len(s) => P(m))
      OBVIOUS
    <3>2. m + 1 <= Len(s) => P(m + 1)
      BY <3>1, <2>1
    <3> QED BY <3>1, <3>2
  <2> QED BY <2>2
<1>5. T = Nat
  <2>1. 0 \in T /\ T \subseteq Nat
    BY <1>2
  <2> HIDE DEF T
  <2> QED BY <2>1, <1>4, SetInduction
<1>6. P(Len(s))
  BY <1>1, <1>5
<1> QED BY <1>6 DEF P, Sums

\* only one,
LEMMA SumsUnique ==
  ASSUME NEW s \in Seq(Nat), NEW f, NEW g, Sums(f, s), Sums(g, s)
  PROVE  f = g
<1> DEFINE T == {m \in Nat : m <= Len(s) => f[m] = g[m]}
<1>1. Len(s) \in Nat
  BY LenProperties
<1>2. \A m \in T : m + 1 \in T
  BY <1>1 DEF Sums
<1>3. T = Nat
  <2>1. 0 \in T /\ T \subseteq Nat
    BY DEF Sums
  <2> HIDE DEF T
  <2> QED BY <2>1, <1>2, SetInduction
<1> QED BY <1>1, <1>3 DEF Sums

\* and Total is its last value.
LEMMA TotalIs == ASSUME NEW s \in Seq(Nat), NEW f, Sums(f, s) PROVE Total(s) = f[Len(s)]
<1> DEFINE Def(g) == [n \in 0..Len(s) |-> IF n = 0 THEN 0 ELSE g[n - 1] + s[n]]
           sum == CHOOSE g : g = Def(g)
<1>1. Len(s) \in Nat
  BY LenProperties
<1>2. f = Def(f)
  BY <1>1 DEF Sums
<1>3. sum = Def(sum)
  BY <1>2
<1>4. Total(s) = sum[Len(s)]
  BY DEF Total
<1> HIDE DEF sum
<1>5. \A n \in 0..Len(s) : sum[n] = IF n = 0 THEN 0 ELSE sum[n - 1] + s[n]
  BY <1>3
<1> DEFINE T == {m \in Nat : m <= Len(s) => sum[m] = f[m]}
<1>6. \A m \in T : m + 1 \in T
  <2>1. ASSUME NEW m \in Nat, m <= Len(s) => sum[m] = f[m], m + 1 <= Len(s)
        PROVE  sum[m + 1] = f[m + 1]
    <3>1. sum[m] = f[m] /\ m + 1 \in 1..Len(s) /\ m + 1 \in 0..Len(s) /\ (m + 1) - 1 = m
          /\ m + 1 # 0
      BY <2>1, <1>1
    <3>2. sum[m + 1] = sum[m] + s[m + 1]
      BY <3>1, <1>5
    <3>3. f[m + 1] = f[m] + s[m + 1]
      BY <3>1 DEF Sums
    <3> QED BY <3>1, <3>2, <3>3
  <2> QED BY <2>1
<1>7. T = Nat
  <2>1. 0 \in T /\ T \subseteq Nat
    BY <1>1, <1>5 DEF Sums
  <2> HIDE DEF T
  <2> QED BY <2>1, <1>6, SetInduction
<1> QED BY <1>1, <1>4, <1>7

\* The sum of a sequence of naturals, and how it changes at both ends.
LEMMA TotalNat == ASSUME NEW s \in Seq(Nat) PROVE Total(s) \in Nat
<1>1. PICK f : Sums(f, s)
  BY SumsExist
<1>2. f[Len(s)] \in Nat
  BY <1>1, LenProperties DEF Sums
<1> QED BY <1>1, <1>2, TotalIs

\* The sum of no numbers.
LEMMA TotalNothing == Total(<<>>) = 0
<1> DEFINE f == [n \in 0..0 |-> 0]
<1>1. <<>> \in Seq(Nat) /\ Len(<<>>) = 0 /\ f[0] = 0
  BY EmptySeq
<1>2. Sums(f, <<>>)
  BY <1>1 DEF Sums
<1> HIDE DEF f
<1> QED BY <1>1, <1>2, TotalIs

\* One number more at the end.
LEMMA TotalAppend ==
  ASSUME NEW s \in Seq(Nat), NEW e \in Nat
  PROVE  Total(Append(s, e)) = Total(s) + e
<1> DEFINE m == Len(s)
           t == Append(s, e)
<1>1. /\ m \in Nat /\ t \in Seq(Nat) /\ Len(t) = m + 1
      /\ (\A i \in 1..m : t[i] = s[i]) /\ t[m + 1] = e
  BY LenProperties, AppendProperties
<1>2. PICK f : Sums(f, s)
  BY SumsExist
<1> DEFINE g == [n \in 0..m + 1 |-> IF n = m + 1 THEN f[m] + e ELSE f[n]]
<1>3. f \in [0..m -> Nat] /\ f[0] = 0 /\ \A n \in 1..m : f[n] = f[n - 1] + s[n]
  BY <1>2 DEF Sums
<1> HIDE DEF t, m
<1>4. g \in [0..m + 1 -> Nat] /\ g[0] = 0
  <2>1. f[m] \in Nat /\ \A n \in 0..m + 1 : n = m + 1 \/ n \in 0..m
    BY <1>1, <1>3
  <2> QED BY <2>1, <1>1, <1>3
<1>5. ASSUME NEW n \in 1..m + 1 PROVE g[n] = g[n - 1] + t[n]
  <2>1. CASE n = m + 1
    BY <2>1, <1>1
  <2>2. CASE n \in 1..m
    BY <2>2, <1>1, <1>3
  <2> QED BY <2>1, <2>2, <1>1
<1>6. g[m + 1] = f[m] + e
  BY <1>1
<1> HIDE DEF g
<1>7. Sums(g, t)
  BY <1>1, <1>4, <1>5 DEF Sums
<1>8. Total(t) = g[m + 1] /\ Total(s) = f[m]
  BY <1>1, <1>2, <1>7, TotalIs DEF m
<1> QED BY <1>6, <1>8 DEF t

\* One number less at the front.
LEMMA TotalTail ==
  ASSUME NEW s \in Seq(Nat), s # <<>>
  PROVE  Total(s) = s[1] + Total(Tail(s))
<1> DEFINE t == Tail(s)
           m == Len(t)
<1>1. /\ m \in Nat /\ t \in Seq(Nat) /\ Len(s) = m + 1
      /\ (\A i \in 1..m : t[i] = s[i + 1]) /\ s[1] \in Nat
  BY LenProperties, HeadTailProperties, EmptySeq, ElementOfSeq
<1>2. PICK f : Sums(f, t)
  BY <1>1, SumsExist
<1>3. f \in [0..m -> Nat] /\ f[0] = 0 /\ \A n \in 1..m : f[n] = f[n - 1] + t[n]
  BY <1>2 DEF Sums
<1> DEFINE g == [n \in 0..m + 1 |-> IF n = 0 THEN 0 ELSE s[1] + f[n - 1]]
<1> HIDE DEF t, m
<1>4. g \in [0..m + 1 -> Nat] /\ g[0] = 0
  <2>1. \A n \in 0..m + 1 : n = 0 \/ f[n - 1] \in Nat
    BY <1>1, <1>3
  <2> QED BY <2>1, <1>1
<1>5. ASSUME NEW n \in 1..m + 1 PROVE g[n] = g[n - 1] + s[n]
  <2>1. CASE n = 1
    BY <2>1, <1>1, <1>3
  <2>2. CASE n - 1 \in 1..m
    <3>1. f[n - 1] = f[n - 2] + s[n] /\ f[n - 2] \in Nat
      BY <2>2, <1>1, <1>3, SMTT(30)
    <3>2. s[n] \in Nat
      BY <1>1, ElementOfSeq
    <3>3. g[n] = s[1] + f[n - 1] /\ g[n - 1] = s[1] + f[n - 2]
      BY <2>2, <1>1
    <3> QED BY <3>1, <3>2, <3>3, <1>1, SMTT(30)
  <2> QED BY <2>1, <2>2, <1>1
<1>6. g[m + 1] = s[1] + f[m]
  BY <1>1
<1> HIDE DEF g
<1>7. Sums(g, s)
  BY <1>1, <1>4, <1>5 DEF Sums
<1>8. Total(s) = g[m + 1] /\ Total(t) = f[m]
  BY <1>1, <1>2, <1>7, TotalIs DEF m
<1> QED BY <1>6, <1>8 DEF t

-------------------------------------------------------------------------------
\* The elements of s as g weighs them, and what they weigh together.
Along(g, s) == [i \in 1..Len(s) |-> g[s[i]]]

\* A sequence weighed element by element: what an element adds at the end and takes at the front.
LEMMA TotalAlong ==
  ASSUME NEW A, NEW g \in [A -> Nat], NEW s \in Seq(A)
  PROVE  /\ Total(Along(g, s)) \in Nat
         /\ s = <<>> => Total(Along(g, s)) = 0
         /\ \A e \in A : Total(Along(g, Append(s, e))) = Total(Along(g, s)) + g[e]
         /\ s # <<>> => Total(Along(g, s)) = g[Head(s)] + Total(Along(g, Tail(s)))
<1> DEFINE w == Along(g, s)
<1>1. Len(s) \in Nat /\ \A i \in 1..Len(s) : s[i] \in A
  BY LenProperties, ElementOfSeq
<1>2. w \in Seq(Nat) /\ Len(w) = Len(s) /\ \A i \in 1..Len(s) : w[i] = g[s[i]]
  BY <1>1 DEF Along
<1>3. Total(w) \in Nat
  BY <1>2, TotalNat
<1>4. s = <<>> => Total(w) = 0
  <2>1. s = <<>> => w = <<>>
    BY <1>2, EmptySeq
  <2> QED BY <2>1, TotalNothing
<1>5. ASSUME NEW e \in A PROVE Total(Along(g, Append(s, e))) = Total(w) + g[e]
  <2> DEFINE t == Append(s, e)
             v == Along(g, t)
             u == Append(w, g[e])
  <2>1. /\ t \in Seq(A) /\ Len(t) = Len(s) + 1
        /\ (\A i \in 1..Len(s) : t[i] = s[i]) /\ t[Len(s) + 1] = e
    BY AppendProperties
  <2> HIDE DEF t
  <2>2. \A i \in 1..Len(t) : t[i] \in A
    BY <2>1, ElementOfSeq
  <2>3. v \in Seq(Nat) /\ Len(v) = Len(s) + 1 /\ \A i \in 1..Len(s) + 1 : v[i] = g[t[i]]
    BY <1>1, <2>1, <2>2 DEF Along
  <2> HIDE DEF v, w
  <2>4. /\ u \in Seq(Nat) /\ Len(u) = Len(s) + 1
        /\ (\A i \in 1..Len(s) : u[i] = w[i]) /\ u[Len(s) + 1] = g[e]
    BY <1>2, AppendProperties
  <2> HIDE DEF u
  <2>5. ASSUME NEW i \in 1..Len(s) + 1 PROVE v[i] = u[i]
    <3>1. v[i] = g[t[i]]
      BY <2>3
    <3>2. CASE i \in 1..Len(s)
      BY <3>1, <3>2, <1>2, <2>1, <2>4
    <3>3. CASE i = Len(s) + 1
      BY <3>1, <3>3, <2>1, <2>4
    <3> QED BY <3>2, <3>3, <1>1
  <2>6. v = u
    BY <2>3, <2>4, <2>5, SeqEqual
  <2>7. Total(u) = Total(w) + g[e]
    BY <1>2, TotalAppend DEF u
  <2> QED BY <2>6, <2>7 DEF v, t
<1>6. ASSUME s # <<>> PROVE Total(w) = g[Head(s)] + Total(Along(g, Tail(s)))
  <2> DEFINE t == Tail(s)
             v == Along(g, t)
             u == Tail(w)
  <2>1. /\ t \in Seq(A) /\ Len(t) = Len(s) - 1 /\ Len(s) > 0 /\ Head(s) = s[1]
        /\ \A i \in 1..Len(t) : t[i] = s[i + 1]
    BY <1>1, <1>6, HeadTailProperties, EmptySeq
  <2> HIDE DEF t
  <2>2. \A i \in 1..Len(t) : t[i] \in A
    BY <2>1, ElementOfSeq
  <2>3. v \in Seq(Nat) /\ Len(v) = Len(t) /\ \A i \in 1..Len(t) : v[i] = g[t[i]]
    BY <1>1, <2>1, <2>2 DEF Along
  <2> HIDE DEF v, w
  <2>4. w # <<>>
    BY <1>2, <2>1, EmptySeq
  <2>5. /\ u \in Seq(Nat) /\ Len(u) = Len(s) - 1
        /\ \A i \in 1..Len(u) : u[i] = w[i + 1]
    BY <1>2, <2>4, HeadTailProperties
  <2> HIDE DEF u
  <2>6. ASSUME NEW i \in 1..Len(t) PROVE v[i] = u[i]
    <3>1. i \in 1..Len(u) /\ i + 1 \in 1..Len(s)
      BY <1>1, <2>1, <2>5
    <3>2. v[i] = g[s[i + 1]]
      BY <2>1, <2>3
    <3>3. u[i] = w[i + 1]
      BY <3>1, <2>5
    <3>4. w[i + 1] = g[s[i + 1]]
      BY <3>1, <1>2
    <3> QED BY <3>2, <3>3, <3>4
  <2>7. v = u
    BY <2>1, <2>3, <2>5, <2>6, SeqEqual
  <2>8. Total(w) = w[1] + Total(u)
    BY <1>2, <2>4, TotalTail DEF u
  <2>9. w[1] = g[Head(s)]
    BY <1>1, <1>2, <2>1
  <2> QED BY <2>7, <2>8, <2>9 DEF v, t
<1> QED BY <1>3, <1>4, <1>5, <1>6

-------------------------------------------------------------------------------
\* The end of a sequence, cut in two.
LEMMA Split ==
  ASSUME NEW A, NEW s \in Seq(A), NEW a \in Nat, NEW m \in Nat, a <= m, m <= Len(s)
  PROVE  LET u == SubSeq(s, a + 1, m)
             v == SubSeq(s, m + 1, Len(s))
         IN  /\ u \in Seq(A) /\ Len(u) = m - a /\ \A i \in 1..m - a : u[i] = s[a + i]
             /\ v \in Seq(A) /\ Len(v) = Len(s) - m /\ \A i \in 1..Len(s) - m : v[i] = s[m + i]
             /\ SubSeq(s, a + 1, Len(s)) = u \o v
<1> DEFINE n == Len(s)
<1>1. n \in Nat /\ \A i \in 1..n : s[i] \in A
  BY LenProperties, ElementOfSeq
<1>2. ASSUME NEW p \in Nat, NEW q \in Nat, p <= q, q <= n
      PROVE  /\ SubSeq(s, p + 1, q) \in Seq(A) /\ Len(SubSeq(s, p + 1, q)) = q - p
             /\ \A i \in 1..q - p : SubSeq(s, p + 1, q)[i] = s[p + i]
  <2> DEFINE b == SubSeq(s, p + 1, q)
  <2>1. \A i \in p + 1..q : s[i] \in A
    BY <1>1, <1>2
  <2>2. /\ b \in Seq(A) /\ Len(b) = (IF p + 1 <= q THEN q - (p + 1) + 1 ELSE 0)
        /\ \A i \in 1..q - (p + 1) + 1 : b[i] = s[(p + 1) + i - 1]
    BY <1>2, <2>1, SubSeqProperties
  <2>3. (IF p + 1 <= q THEN q - (p + 1) + 1 ELSE 0) = q - p /\ q - (p + 1) + 1 = q - p
    BY <1>2
  <2>4. ASSUME NEW i \in 1..q - p PROVE b[i] = s[p + i]
    <3>1. (p + 1) + i - 1 = p + i
      BY <1>2
    <3> QED BY <2>2, <2>3, <3>1
  <2> HIDE DEF b
  <2>5. b \in Seq(A) /\ Len(b) = q - p /\ \A i \in 1..q - p : b[i] = s[p + i]
    BY <2>2, <2>3, <2>4
  <2> QED BY <2>5 DEF b
<1> DEFINE u == SubSeq(s, a + 1, m)
           v == SubSeq(s, m + 1, n)
           w == SubSeq(s, a + 1, n)
           x == u \o v
<1>3. u \in Seq(A) /\ Len(u) = m - a /\ \A i \in 1..m - a : u[i] = s[a + i]
  BY <1>2
<1>4. v \in Seq(A) /\ Len(v) = n - m /\ \A i \in 1..n - m : v[i] = s[m + i]
  BY <1>1, <1>2
<1>5. w \in Seq(A) /\ Len(w) = n - a /\ \A i \in 1..n - a : w[i] = s[a + i]
  <2>1. a <= n
    BY <1>1
  <2> QED BY <1>1, <1>2, <2>1
<1> HIDE DEF u, v, w
<1>6. /\ x \in Seq(A) /\ Len(x) = (m - a) + (n - m)
      /\ \A i \in 1..(m - a) + (n - m) : x[i] = IF i <= m - a THEN u[i] ELSE v[i - (m - a)]
  <2>1. /\ x \in Seq(A) /\ Len(x) = Len(u) + Len(v)
        /\ \A i \in 1..Len(u) + Len(v) : x[i] = IF i <= Len(u) THEN u[i] ELSE v[i - Len(u)]
    BY <1>3, <1>4, ConcatProperties
  <2> HIDE DEF x
  <2> QED BY <1>3, <1>4, <2>1
<1> HIDE DEF x, n
<1>7. (m - a) + (n - m) = n - a
  BY <1>1
<1>8. ASSUME NEW i \in 1..n - a PROVE w[i] = x[i]
  <2>1. CASE i <= m - a
    <3>1. i \in 1..m - a
      BY <2>1
    <3> QED BY <1>3, <1>5, <1>6, <1>7, <2>1, <3>1
  <2>2. CASE ~(i <= m - a)
    <3>1. i - (m - a) \in 1..n - m /\ m + (i - (m - a)) = a + i
      BY <1>1, <2>2
    <3>2. v[i - (m - a)] = s[a + i]
      BY <1>4, <3>1
    <3> QED BY <1>5, <1>6, <1>7, <2>2, <3>2
  <2> QED BY <2>1, <2>2
<1>9. w = x
  BY <1>5, <1>6, <1>7, <1>8, SeqEqual
<1> QED BY <1>3, <1>4, <1>9 DEF u, v, w, x, n
===============================================================================
