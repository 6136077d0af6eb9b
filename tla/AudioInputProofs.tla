---------------------------- MODULE AudioInputProofs ----------------------------
(***************************************************************************)
(* Theorems about the audio input, from the watcher that picks the device  *)
(* to the samples the backend hears: the VAD, for any frame, ring, levels  *)
(* and thresholds; the pipeline, for any device, batches and failures of   *)
(* the resampler and the model; the watcher, for any nodes, commands and   *)
(* delays.                                                                 *)
(***************************************************************************)
EXTENDS VadStream, Pipeline, Watcher, ListsProofs, TLAPS, FiniteSetTheorems, SequenceTheorems

-------------------------------------------------------------------------------
(***************************************************************************)
(* Remainders.                                                             *)
(***************************************************************************)
\* A multiple of c is at least as far from zero as c.
LEMMA MultipleFar ==
  ASSUME NEW c \in Nat \ {0}, NEW k \in Int, k # 0
  PROVE  c * k \in Int /\ (c * k >= c \/ c * k <= -c)
<1>1. CASE k >= 1
  <2>1. c * k = c + c * (k - 1) /\ c * (k - 1) >= 0
    BY <1>1
  <2> QED BY <2>1
<1>2. CASE k <= -1
  <2>1. c * k = -c - c * (-k - 1) /\ c * (-k - 1) >= 0
    BY <1>2
  <2> QED BY <2>1
<1> QED BY <1>1, <1>2

\* The quotient and the remainder of a number, which are the only ones.
LEMMA Remainder ==
  ASSUME NEW a \in Nat, NEW c \in Nat \ {0}
  PROVE  /\ a % c \in 0..c - 1 /\ a \div c \in Nat
         /\ a = c * (a \div c) + (a % c)
OBVIOUS

\* Quotient and remainder are the only numbers that make the division.
LEMMA RemainderUnique ==
  ASSUME NEW a \in Nat, NEW c \in Nat \ {0}, NEW k \in Int, NEW r \in 0..c - 1, a = c * k + r
  PROVE  a % c = r /\ a \div c = k
<1> DEFINE j == a \div c
           s == a % c
<1>1. s \in 0..c - 1 /\ j \in Nat /\ a = c * j + s
  BY Remainder
<1> HIDE DEF j, s
<1>2. c * k + r = c * j + s
  BY <1>1
<1>3. c * (k - j) = s - r
  <2>1. c * (k - j) = c * k - c * j /\ c * k \in Int /\ c * j \in Int
    BY <1>1
  <2> QED BY <1>1, <1>2, <2>1
<1>4. k - j = 0
  <2>1. k - j \in Int
    BY <1>1
  <2>2. s - r < c /\ s - r > -c
    BY <1>1
  <2> QED BY <1>3, <2>1, <2>2, MultipleFar
<1>5. k = j
  BY <1>1, <1>4
<1> QED BY <1>1, <1>2, <1>5 DEF j, s

\* What is below the divisor is its own remainder.
LEMMA SmallRemainder == ASSUME NEW c \in Nat \ {0}, NEW a \in 0..c - 1 PROVE a % c = a
<1>1. a = c * 0 + a
  OBVIOUS
<1> QED BY <1>1, RemainderUnique

\* Taking the remainder first changes nothing.
LEMMA RemainderSum ==
  ASSUME NEW a \in Nat, NEW b \in Nat, NEW c \in Nat \ {0}
  PROVE  ((a % c) + b) % c = (a + b) % c
<1> DEFINE d == (a % c) + b
           j == a \div c
           k == d \div c
<1>1. a % c \in 0..c - 1 /\ j \in Nat /\ a = c * j + (a % c)
  BY Remainder
<1>2. d \in Nat
  BY <1>1
<1>3. d % c \in 0..c - 1 /\ k \in Nat /\ d = c * k + (d % c)
  BY <1>2, Remainder
<1> HIDE DEF k, j
<1>4. a + b = c * j + d
  BY <1>1
<1> HIDE DEF d
<1>5. a + b = c * j + (c * k + (d % c))
  BY <1>3, <1>4
<1>6. c * j + c * k = c * (j + k)
  BY <1>1, <1>3
<1>7. a + b = c * (j + k) + (d % c)
  BY <1>1, <1>3, <1>5, <1>6
<1>8. (a + b) % c = d % c
  <2>1. j + k \in Int /\ a + b \in Nat
    BY <1>1, <1>3
  <2> QED BY <1>3, <1>7, <2>1, RemainderUnique
<1> QED BY <1>8 DEF d

\* The remainder of a sum with the divisor.
LEMMA RemainderShift == ASSUME NEW a \in Nat, NEW c \in Nat \ {0} PROVE (a + c) % c = a % c
<1> DEFINE j == a \div c
           r == a % c
<1>1. r \in 0..c - 1 /\ j \in Nat /\ a = c * j + r
  BY Remainder
<1> HIDE DEF j, r
<1>2. c * (j + 1) = c * j + c
  BY <1>1
<1>3. a + c = c * (j + 1) + r
  BY <1>1, <1>2
<1>4. (a + c) % c = r
  BY <1>1, <1>3, RemainderUnique
<1> QED BY <1>4 DEF r

\* Two numbers less than c apart have different remainders.
LEMMA RemaindersApart ==
  ASSUME NEW a \in Nat, NEW b \in Nat, NEW c \in Nat \ {0}, a < b, b < a + c
  PROVE  a % c # b % c
<1> SUFFICES ASSUME a % c = b % c PROVE FALSE
  OBVIOUS
<1> DEFINE j == a \div c
           k == b \div c
           r == a % c
<1>1. /\ r \in 0..c - 1 /\ j \in Nat /\ a = c * j + r
      /\ k \in Nat /\ b = c * k + r
  BY Remainder
<1> HIDE DEF j, k, r
<1>2. c * (k - j) = c * k - c * j /\ c * k \in Int /\ c * j \in Int
  BY <1>1
<1>3. c * (k - j) = b - a /\ b - a > 0 /\ b - a < c
  BY <1>1, <1>2
<1>4. k - j # 0 /\ k - j \in Int
  BY <1>1, <1>3
<1> QED BY <1>3, <1>4, MultipleFar

-------------------------------------------------------------------------------
(***************************************************************************)
(* The ring buffer.                                                        *)
(***************************************************************************)
LEMMA MaxIs == ASSUME NEW S, NEW m \in S, \A x \in S : x \in Int /\ m >= x PROVE Max(S) = m
<1>1. \A x \in S : (\A y \in S : x >= y) => x = m
  OBVIOUS
<1>2. m \in S /\ \A y \in S : m >= y
  OBVIOUS
<1> QED BY <1>1, <1>2 DEF Max

\* The minimum of two numbers.
LEMMA MinIs ==
  ASSUME NEW a \in Int, NEW b \in Int
  PROVE  Min({a, b}) = IF a < b THEN a ELSE b
<1> DEFINE m == IF a < b THEN a ELSE b
<1>1. m \in {a, b} /\ \A y \in {a, b} : m <= y
  OBVIOUS
<1>2. \A x \in {a, b} : (\A y \in {a, b} : x <= y) => x = m
  OBVIOUS
<1> HIDE DEF m
<1>3. Min({a, b}) = m
  BY <1>1, <1>2 DEF Min
<1> QED BY <1>3 DEF m

Rings == [data : [Slot -> Nat], write_pos : Slot, len : 0..RingCapacity]

\* r is a ring that has been given q since it was last empty.
RingOf(r, q) ==
  /\ r.len = IF Len(q) < RingCapacity THEN Len(q) ELSE RingCapacity
  /\ r.write_pos = Len(q) % RingCapacity
  /\ \A i \in 1..Len(q) : i > Len(q) - RingCapacity => r.data[(i - 1) % RingCapacity] = q[i]

\* A slice that is pushed: the slot of a sample is not written again by the samples behind
\* it that the ring still holds.
LEMMA RingPush ==
  ASSUME NEW r \in Rings, NEW q \in Seq(Nat), NEW s \in Seq(Nat), RingOf(r, q)
  PROVE  PushSlice(r, s) \in Rings /\ RingOf(PushSlice(r, s), q \o s)
<1> DEFINE c == RingCapacity
           n == Len(q)
           m == Len(s)
           t == q \o s
           p == PushSlice(r, s)
           writers(i) == {j \in 1..m : (r.write_pos + j - 1) % c = i}
<1>1. c \in Nat \ {0} /\ n \in Nat /\ m \in Nat
  BY VadAssumption, LenProperties
<1>2. /\ t \in Seq(Nat) /\ Len(t) = n + m
      /\ (\A i \in 1..n : t[i] = q[i]) /\ \A j \in 1..m : t[n + j] = s[j]
  <2>1. \A i \in 1..Len(q) + Len(s) : t[i] = IF i <= Len(q) THEN q[i] ELSE s[i - Len(q)]
    BY ConcatProperties
  <2>2. t \in Seq(Nat) /\ Len(t) = n + m
    BY ConcatProperties
  <2>3. ASSUME NEW j \in 1..m PROVE t[n + j] = s[j]
    BY <1>1, <2>1
  <2> QED BY <1>1, <2>1, <2>2, <2>3
<1>3. r.write_pos = n % c /\ r.write_pos \in 0..c - 1
  BY DEF RingOf, Rings, Slot
<1>4. /\ p.write_pos = (n + m) % c
      /\ p.len = IF n + m < c THEN n + m ELSE c
      /\ \A i \in Slot : p.data[i] = IF writers(i) = {} THEN r.data[i] ELSE s[Max(writers(i))]
      /\ DOMAIN p.data = Slot
  <2>1. p.write_pos = ((n % c) + m) % c
    BY <1>3 DEF PushSlice
  <2>2. p.len = Min({r.len + m, c})
    BY DEF PushSlice
  <2>3. r.len = IF n < c THEN n ELSE c
    BY DEF RingOf
  <2>4. p.len = IF r.len + m < c THEN r.len + m ELSE c
    <3>1. r.len + m \in Int /\ c \in Int
      BY <1>1, <2>3
    <3> QED BY <2>2, <3>1, MinIs
  <2>5. p.data = [i \in Slot |-> IF writers(i) = {} THEN r.data[i] ELSE s[Max(writers(i))]]
    BY DEF PushSlice
  <2>6. ((n % c) + m) % c = (n + m) % c
    BY <1>1, RemainderSum
  <2>7. (IF r.len + m < c THEN r.len + m ELSE c) = IF n + m < c THEN n + m ELSE c
    BY <1>1, <2>3
  <2> HIDE DEF p
  <2>8. /\ \A i \in Slot : p.data[i] = IF writers(i) = {} THEN r.data[i] ELSE s[Max(writers(i))]
        /\ DOMAIN p.data = Slot
    BY <2>5
  <2> QED BY <2>1, <2>4, <2>6, <2>7, <2>8
<1>5. p = [data |-> p.data, write_pos |-> p.write_pos, len |-> p.len]
  BY DEF PushSlice
<1> HIDE DEF p
\* Who writes a slot.
<1>6. ASSUME NEW j \in 1..m PROVE (r.write_pos + j - 1) % c = (n + j - 1) % c
  <2>1. r.write_pos + j - 1 = (n % c) + (j - 1) /\ n + j - 1 = n + (j - 1) /\ j - 1 \in Nat
    BY <1>1, <1>3
  <2>2. ((n % c) + (j - 1)) % c = (n + (j - 1)) % c
    BY <1>1, <2>1, RemainderSum
  <2> QED BY <2>1, <2>2
<1>7. \A i : \A j \in writers(i) : j \in 1..m /\ (n + j - 1) % c = i
  BY <1>6
<1>8. ASSUME NEW j \in 1..m PROVE j \in writers((n + j - 1) % c)
  BY <1>6
<1> HIDE DEF writers
<1>9. ASSUME NEW i \in 1..n + m, i > n + m - c PROVE p.data[(i - 1) % c] = t[i]
  <2> DEFINE slot == (i - 1) % c
  <2>1. slot \in Slot
    <3>1. i - 1 \in Nat
      BY <1>1
    <3> QED BY <1>1, <3>1, Remainder DEF Slot
  <2>2. CASE i > n
    <3> DEFINE j == i - n
    <3>1. j \in 1..m /\ n + j - 1 = i - 1 /\ j > m - c
      BY <1>1, <1>9, <2>2
    <3>2. j \in writers(slot)
      BY <1>8, <3>1
    <3>3. ASSUME NEW k \in writers(slot) PROVE k \in Int /\ j >= k
      <4>1. k \in 1..m /\ (n + k - 1) % c = slot
        BY <1>7
      <4>2. ASSUME k > j PROVE FALSE
        <5>0. j \in Int /\ k \in Int /\ j >= 1 /\ k <= m /\ j > m - c
          BY <1>1, <3>1, <4>1
        <5> HIDE DEF j
        <5>1. /\ n + j - 1 \in Nat /\ n + k - 1 \in Nat
              /\ n + j - 1 < n + k - 1 /\ n + k - 1 < (n + j - 1) + c
          BY ONLY <1>1, <4>2, <5>0
        <5>2. (n + j - 1) % c # (n + k - 1) % c
          BY <1>1, <5>1, RemaindersApart
        <5> QED BY <3>1, <4>1, <5>2
      <4> QED BY <1>1, <3>1, <4>1, <4>2
    <3>4. Max(writers(slot)) = j
      BY <3>2, <3>3, MaxIs
    <3>5. p.data[slot] = s[j]
      BY <1>4, <2>1, <3>2, <3>4
    <3>6. t[n + j] = s[j] /\ n + j = i
      BY <1>1, <1>2, <3>1, SMTT(30)
    <3> QED BY <3>5, <3>6
  <2>3. CASE i <= n
    <3>1. ASSUME NEW k \in writers(slot) PROVE FALSE
      <4>1. k \in 1..m /\ (n + k - 1) % c = slot
        BY <1>7
      <4>0. i \in Int /\ k \in Int /\ i >= 1 /\ k >= 1 /\ k <= m /\ i > n + m - c
        BY <1>1, <1>9, <4>1
      <4>2. i - 1 \in Nat /\ n + k - 1 \in Nat /\ i - 1 < n + k - 1 /\ n + k - 1 < (i - 1) + c
        <5>1. i - 1 < n + k - 1
          BY <1>1, <2>3, <4>0
        <5>2. n + k - 1 < (i - 1) + c
          BY <1>1, <4>0
        <5> QED BY <1>1, <4>0, <5>1, <5>2
      <4>3. (i - 1) % c # (n + k - 1) % c
        BY <1>1, <4>2, RemaindersApart
      <4> QED BY <4>1, <4>3
    <3>2. p.data[slot] = r.data[slot]
      BY <1>4, <2>1, <3>1
    <3>3. i \in 1..n /\ i > n - c
      BY <1>1, <1>9, <2>3
    <3>4. r.data[slot] = q[i]
      BY <3>3 DEF RingOf
    <3> QED BY <1>2, <3>2, <3>3, <3>4
  <2> QED BY <1>1, <2>2, <2>3
<1>10. RingOf(p, t)
  <2>1. Len(t) = n + m
    BY <1>2
  <2> HIDE DEF t
  <2>2. \A i \in 1..Len(t) : i > Len(t) - c => p.data[(i - 1) % c] = t[i]
    <3>1. ASSUME NEW i \in 1..Len(t), i > Len(t) - c PROVE p.data[(i - 1) % c] = t[i]
      <4>1. i \in 1..n + m /\ i > n + m - c
        BY <1>1, <2>1, <3>1
      <4> QED BY <1>9, <4>1
    <3> QED BY <3>1
  <2>3. p.len = (IF Len(t) < c THEN Len(t) ELSE c) /\ p.write_pos = Len(t) % c
    BY <1>4, <2>1
  <2> QED BY ONLY <2>2, <2>3 DEF RingOf
<1>11. p \in Rings
  <2>1. ASSUME NEW i \in Slot PROVE p.data[i] \in Nat
    <3>1. CASE writers(i) = {}
      BY <1>4, <3>1 DEF Rings
    <3>2. CASE writers(i) # {}
      <4>1. writers(i) \in SUBSET (1..m) /\ IsFiniteSet(1..m)
        BY <1>1, <1>7, FS_Interval
      <4>2. PICK k \in writers(i) : \A x \in writers(i) : k >= x
        <5> DEFINE S == {m - x : x \in writers(i)}
        <5>1. S \subseteq Nat /\ S # {}
          BY <1>1, <3>2, <4>1
        <5>2. PICK y \in S : \A z \in S : y <= z
          BY <5>1, LeastOfSet
        <5>3. PICK k \in writers(i) : y = m - k
          BY <5>2
        <5>4. ASSUME NEW x \in writers(i) PROVE k >= x
          <6>1. y <= m - x
            BY <5>2
          <6>2. k \in 1..m /\ x \in 1..m
            BY <4>1
          <6> QED BY <1>1, <5>3, <6>1, <6>2
        <5> QED BY <5>4
      <4>3. Max(writers(i)) = k /\ k \in 1..m
        <5>1. \A x \in writers(i) : x \in Int
          BY <1>1, <4>1
        <5> QED BY <4>1, <4>2, <5>1, MaxIs
      <4>4. p.data[i] = s[k]
        BY <1>4, <3>2, <4>3
      <4> QED BY <4>3, <4>4, ElementOfSeq
    <3> QED BY <3>1, <3>2
  <2>2. p.data = [i \in Slot |-> p.data[i]]
    <3>1. p.data = [i \in Slot |-> IF writers(i) = {} THEN r.data[i] ELSE s[Max(writers(i))]]
      BY DEF p, PushSlice, writers
    <3> QED BY <3>1
  <2>3. p.data \in [Slot -> Nat]
    BY <2>1, <2>2
  <2>4. p.write_pos \in Slot
    <3>1. n + m \in Nat
      BY <1>1
    <3> QED BY <1>1, <1>4, <3>1, Remainder DEF Slot
  <2>5. p.len \in 0..RingCapacity
    BY <1>1, <1>4
  <2> QED BY <1>5, <2>3, <2>4, <2>5 DEF Rings
<1> QED BY <1>10, <1>11 DEF p, t

\* What is read from the ring is the end of what it was given.
LEMMA RingOut ==
  ASSUME NEW r \in Rings, NEW q \in Seq(Nat), RingOf(r, q)
  PROVE  InOrder(r) = Latest(q, RingCapacity) /\ InOrder(r) \in Seq(Nat)
<1> DEFINE c == RingCapacity
           n == Len(q)
           a == InOrder(r)
           b == Latest(q, c)
<1>1. c \in Nat \ {0} /\ n \in Nat
  BY VadAssumption, LenProperties
<1>2. r.len = (IF n < c THEN n ELSE c) /\ r.write_pos = n % c
  BY DEF RingOf
<1> DEFINE low == IF n < c THEN 1 ELSE n - c + 1
<1>3. Max({1, n - c + 1}) = low
  <2>1. low \in {1, n - c + 1} /\ \A x \in {1, n - c + 1} : x \in Int /\ low >= x
    BY <1>1
  <2> HIDE DEF low
  <2> QED BY <2>1, MaxIs
<1>4. low \in 1..n + 1 /\ n - low + 1 = r.len
  BY <1>1, <1>2
<1> HIDE DEF low
<1>5. /\ b \in Seq(Nat) /\ Len(b) = r.len
      /\ \A i \in 1..r.len : b[i] = q[low + i - 1]
  <2>1. b = SubSeq(q, low, n)
    BY <1>3 DEF Latest
  <2>2. \A i \in low..n : i \in 1..Len(q)
    BY <1>1, <1>4
  <2>3. /\ SubSeq(q, low, n) \in Seq(Nat)
        /\ Len(SubSeq(q, low, n)) = (IF low <= n THEN n - low + 1 ELSE 0)
        /\ \A i \in 1..n - low + 1 : SubSeq(q, low, n)[i] = q[low + i - 1]
    BY <1>1, <1>4, <2>2, SubSeqProperties, SMTT(30)
  <2> QED BY <1>1, <1>4, <2>1, <2>3
<1>6. r.len \in Nat
  BY <1>1, <1>2
<1>7. ASSUME NEW i \in 1..r.len PROVE a[i] = q[low + i - 1]
  <2>1. a[i] = r.data[((IF r.len < c THEN 0 ELSE r.write_pos) + i - 1) % c]
    BY <1>7 DEF InOrder
  <2>2. low + i - 1 \in 1..n /\ low + i - 1 > n - c
    BY <1>1, <1>2, <1>4 DEF low
  <2>3. r.data[((low + i - 1) - 1) % c] = q[low + i - 1]
    BY <2>2 DEF RingOf
  <2>4. CASE n < c
    <3>1. (IF r.len < c THEN 0 ELSE r.write_pos) + i - 1 = (low + i - 1) - 1
      BY <1>1, <1>2, <2>4 DEF low
    <3> QED BY <2>1, <2>3, <3>1
  <2>5. CASE n >= c
    <3>1. (IF r.len < c THEN 0 ELSE r.write_pos) + i - 1 = (n % c) + (i - 1) /\ i - 1 \in Nat
      BY <1>1, <1>2, <1>6, <2>5, Remainder
    <3>2. ((n % c) + (i - 1)) % c = (n + (i - 1)) % c
      BY <1>1, <3>1, RemainderSum
    <3>3. n + (i - 1) = ((low + i - 1) - 1) + c /\ (low + i - 1) - 1 \in Nat
      BY <1>1, <2>2, <2>5 DEF low
    <3>4. (((low + i - 1) - 1) + c) % c = ((low + i - 1) - 1) % c
      BY <1>1, <3>3, RemainderShift
    <3> QED BY <2>1, <2>3, <3>1, <3>2, <3>3, <3>4
  <2> QED BY <1>1, <2>4, <2>5
<1>8. a \in Seq(Nat) /\ Len(a) = r.len
  <2>1. ASSUME NEW i \in 1..r.len PROVE a[i] \in Nat
    <3>1. low + i - 1 \in 1..n
      BY <1>1, <1>2, <1>4 DEF low
    <3> QED BY <1>7, <3>1, ElementOfSeq
  <2>2. a = [i \in 1..r.len |-> a[i]]
    BY DEF InOrder
  <2> HIDE DEF a
  <2>3. [i \in 1..r.len |-> a[i]] \in Seq(Nat)
    BY <1>6, <2>1, IsASeq
  <2>4. Len([i \in 1..r.len |-> a[i]]) = r.len
    BY <1>6
  <2> QED BY <2>2, <2>3, <2>4
<1>9. \A i \in 1..r.len : a[i] = b[i]
  BY <1>5, <1>7
<1> HIDE DEF a, b
<1>10. a = b
  BY <1>5, <1>8, <1>9, SeqEqual
<1> QED BY <1>8, <1>10 DEF a, b

-------------------------------------------------------------------------------
(***************************************************************************)
(* The counts of the state machine.                                        *)
(***************************************************************************)
Judgement == [onset : BOOLEAN, pause : BOOLEAN]

\* Surplus for a list of frames, and that c is the largest of any stretch.
Onsets(q, from) == {i \in from..Len(q) : q[i].onset}
SurplusIn(q, from) == 2 * Cardinality(Onsets(q, from)) - Cardinality(from..Len(q))
Peak(c, q) ==
  /\ c \in Nat
  /\ c = 0 \/ \E i \in 1..Len(q) : c = SurplusIn(q, i)
  /\ \A i \in 1..Len(q) : c >= SurplusIn(q, i)

\* A frame adds one to, or takes one from, the surplus of every stretch that ends in it.
LEMMA SurplusStep ==
  ASSUME NEW q \in Seq(Judgement), NEW e \in Judgement, NEW i \in 1..Len(q) + 1
  PROVE  /\ SurplusIn(q, i) \in Int
         /\ i = Len(q) + 1 => SurplusIn(q, i) = 0
         /\ SurplusIn(Append(q, e), i) = SurplusIn(q, i) + (IF e.onset THEN 1 ELSE -1)
<1> DEFINE n == Len(q)
           t == Append(q, e)
<1>1. /\ n \in Nat /\ Len(t) = n + 1 /\ (\A j \in 1..n : t[j] = q[j]) /\ t[n + 1] = e
  BY LenProperties, AppendProperties
<1> HIDE DEF t
<1>2. i \in 1..n + 1 /\ n + 1 \in Nat
  BY <1>1
<1>3. IsFiniteSet(i..n) /\ Cardinality(i..n) = n - i + 1
  <2>1. i \in Int /\ n \in Int
    BY <1>1
  <2>2. IsFiniteSet(i..n) /\ Cardinality(i..n) = (IF i > n THEN 0 ELSE n - i + 1)
    BY ONLY <2>1, FS_Interval
  <2> QED BY <1>1, <2>2
<1>4. Cardinality(i..n + 1) = n - i + 2
  <2>1. i \in Int /\ n + 1 \in Int
    BY <1>1
  <2>2. Cardinality(i..n + 1) = (IF i > n + 1 THEN 0 ELSE (n + 1) - i + 1)
    BY ONLY <2>1, FS_Interval
  <2> QED BY <1>1, <2>2
<1> DEFINE S == Onsets(q, i)
           T == Onsets(t, i)
<1>5. S \subseteq i..n /\ IsFiniteSet(S) /\ Cardinality(S) \in Nat
  <2>1. S \subseteq i..n
    BY DEF Onsets
  <2>2. IsFiniteSet(S)
    BY <1>3, <2>1, FS_Subset
  <2> QED BY <2>1, <2>2, FS_CardinalityType
<1>6. i = n + 1 => Cardinality(S) = 0
  <2>1. i = n + 1 => S = {}
    BY <1>1, <1>5
  <2> QED BY <2>1, FS_EmptySet
<1>7. T = IF e.onset THEN S \cup {n + 1} ELSE S
  <2>1. \A j \in i..n : j \in 1..n
    BY <1>1
  <2>2. i..n + 1 = (i..n) \cup {n + 1}
    BY <1>1
  <2>3. T = {j \in i..n + 1 : t[j].onset}
    BY <1>1 DEF Onsets
  <2>4. S = {j \in i..n : q[j].onset}
    BY DEF Onsets
  <2> HIDE DEF S, T
  <2>5. \A j \in i..n : t[j].onset <=> q[j].onset
    BY <1>1, <2>1
  <2> QED BY <1>1, <2>2, <2>3, <2>4, <2>5
<1> HIDE DEF S, T
<1>8. Cardinality(T) = Cardinality(S) + (IF e.onset THEN 1 ELSE 0)
  <2>1. n + 1 \notin S
    BY <1>1, <1>5
  <2>2. Cardinality(S \cup {n + 1}) = Cardinality(S) + 1
    BY <1>5, <2>1, FS_AddElement
  <2> QED BY <1>5, <1>7, <2>2
<1>9. SurplusIn(q, i) = 2 * Cardinality(S) - (n - i + 1)
  BY <1>3 DEF SurplusIn, S
<1>10. SurplusIn(t, i) = 2 * Cardinality(T) - (n - i + 2)
  BY <1>1, <1>4 DEF SurplusIn, T
<1>11. SurplusIn(t, i) = SurplusIn(q, i) + (IF e.onset THEN 1 ELSE -1)
  BY <1>1, <1>5, <1>8, <1>9, <1>10
<1>12. i = n + 1 => SurplusIn(q, i) = 0
  BY <1>1, <1>6, <1>9
<1> QED BY <1>1, <1>5, <1>9, <1>11, <1>12 DEF t

\* What the count of speech frames does is what the largest surplus does.
LEMMA PeakStep ==
  ASSUME NEW q \in Seq(Judgement), NEW e \in Judgement, NEW c, Peak(c, q)
  PROVE  Peak(IF e.onset THEN c + 1 ELSE IF c = 0 THEN 0 ELSE c - 1, Append(q, e))
<1> DEFINE n == Len(q)
           t == Append(q, e)
           d == IF e.onset THEN c + 1 ELSE IF c = 0 THEN 0 ELSE c - 1
           old == [i \in 1..n + 1 |-> SurplusIn(q, i)]
           new == [i \in 1..n + 1 |-> SurplusIn(t, i)]
<1>1. n \in Nat /\ Len(t) = n + 1 /\ e.onset \in BOOLEAN
  BY LenProperties, AppendProperties DEF Judgement
<1>2. /\ \A i \in 1..n + 1 : old[i] \in Int /\ new[i] = old[i] + (IF e.onset THEN 1 ELSE -1)
      /\ old[n + 1] = 0
  <2>1. n + 1 \in 1..n + 1
    BY <1>1
  <2> QED BY <2>1, SurplusStep
<1>3. /\ c \in Nat
      /\ c = 0 \/ \E i \in 1..n : c = old[i]
      /\ \A i \in 1..n : c >= old[i]
  <2>1. \A i \in 1..n : old[i] = SurplusIn(q, i)
    BY <1>1
  <2> HIDE DEF old
  <2> QED BY <2>1 DEF Peak
<1>4. \A i \in 1..Len(t) : SurplusIn(t, i) = new[i]
  BY <1>1
<1>5. Len(t) = n + 1
  BY <1>1
<1> HIDE DEF old, new, n, t
<1>6. \A i \in 1..n + 1 : i \in 1..n \/ i = n + 1
  BY <1>1
<1>7. n + 1 \in 1..n + 1 /\ \A i \in 1..n : i \in 1..n + 1
  BY <1>1
<1>8. d \in Nat
  BY <1>1, <1>3
<1>9. ASSUME NEW i \in 1..n + 1 PROVE d >= new[i]
  <2>1. c >= old[i]
    BY <1>2, <1>3, <1>6
  <2>2. old[i] \in Int /\ new[i] = old[i] + (IF e.onset THEN 1 ELSE -1)
    BY <1>2
  <2> QED BY <1>1, <1>3, <2>1, <2>2
<1>10. d = 0 \/ \E i \in 1..n + 1 : d = new[i]
  <2>1. CASE c = 0
    <3>1. e.onset => new[n + 1] = 1 /\ d = 1
      BY <1>2, <1>7, <2>1
    <3> QED BY <1>7, <2>1, <3>1
  <2>2. CASE c # 0
    <3>1. PICK i \in 1..n : c = old[i]
      BY <1>3, <2>2
    <3>2. i \in 1..n + 1
      BY <1>7
    <3>3. d = new[i]
      BY <1>1, <1>2, <1>3, <2>2, <3>1, <3>2
    <3> QED BY <3>2, <3>3
  <2> QED BY <2>1, <2>2
<1> HIDE DEF d
<1>11. Peak(d, t)
  BY <1>4, <1>5, <1>8, <1>9, <1>10 DEF Peak
<1> QED BY <1>11 DEF d, t

\* The largest surplus of a list of frames is attained and bounds every other.
LEMMA PeakIsMax ==
  ASSUME NEW q \in Seq(Judgement), NEW c, Peak(c, q)
  PROVE  c = Max({0} \cup {SurplusIn(q, i) : i \in 1..Len(q)})
<1> DEFINE S == {0} \cup {SurplusIn(q, i) : i \in 1..Len(q)}
<1>1. Len(q) \in Nat
  BY LenProperties
<1>2. \A i \in 1..Len(q) : SurplusIn(q, i) \in Int
  <2>1. PICK e : e = [onset |-> TRUE, pause |-> TRUE]
    OBVIOUS
  <2>2. e \in Judgement
    BY <2>1 DEF Judgement
  <2>3. \A i \in 1..Len(q) : i \in 1..Len(q) + 1
    BY <1>1
  <2> QED BY <2>2, <2>3, SurplusStep
<1>3. c \in S
  BY DEF Peak
<1>4. \A x \in S : x \in Int /\ c >= x
  BY <1>2 DEF Peak
<1> HIDE DEF S
<1>5. Max(S) = c
  BY <1>3, <1>4, MaxIs
<1> QED BY <1>5 DEF S

-------------------------------------------------------------------------------
(***************************************************************************)
(* The invariant of the VAD, whoever gives it frames.                      *)
(***************************************************************************)
\* The last n frames were below the end threshold.
Pauses(q, n) == n <= Len(q) /\ \A i \in 0..n - 1 : q[Len(q) - i].pause

InSpeech ==
  /\ quiet = <<>>
  /\ decision.type \in {"started", "continues"}
  /\ Pauses(judged, silence_frame_count)
InSilence == Peak(speech_frame_count, judged) /\ speech_frame_count < MinSpeech

VadInv ==
  /\ VadTypeOK
  /\ RingOf(ring, quiet)
  /\ state = "speech" => InSpeech
  /\ state = "silence" => InSilence

\* What may happen to the VAD.
VadStep ==
  \/ \E p \in Level : \E f \in Seq(Nat) : Process(p, f)
  \/ \E t \in Thresholds : UpdateParams(t)
  \/ Reset
  \/ UNCHANGED vadVars

\* A quiet frame makes the run of quiet frames longer by one.
LEMMA PausesStep ==
  ASSUME NEW q \in Seq(Judgement), NEW n \in Nat, Pauses(q, n),
         NEW e \in Judgement, e.pause
  PROVE  Pauses(Append(q, e), n + 1)
<1> DEFINE t == Append(q, e)
           l == Len(q)
<1>1. l \in Nat /\ Len(t) = l + 1 /\ (\A j \in 1..l : t[j] = q[j]) /\ t[l + 1] = e
  BY LenProperties, AppendProperties
<1> HIDE DEF t, l
<1>2. n <= l /\ \A i \in 0..n - 1 : q[l - i].pause
  BY DEF Pauses, l
<1>3. ASSUME NEW i \in 0..n PROVE t[l + 1 - i].pause
  <2>1. CASE i = 0
    BY <2>1, <1>1
  <2>2. CASE i # 0
    <3>1. i - 1 \in 0..n - 1 /\ l + 1 - i = l - (i - 1) /\ l - (i - 1) \in 1..l
      BY <1>1, <1>2, <2>2
    <3> QED BY <1>1, <1>2, <3>1
  <2> QED BY <2>1, <2>2
<1>4. (n + 1) - 1 = n /\ n + 1 <= l + 1
  BY <1>1, <1>2
<1>5. Pauses(t, n + 1)
  BY <1>1, <1>3, <1>4 DEF Pauses
<1> QED BY <1>5 DEF t

\* An empty ring holds the empty list.
LEMMA EmptyRingFits == EmptyRing \in Rings /\ RingOf(EmptyRing, <<>>)
<1>1. RingCapacity \in Nat \ {0} /\ 0 \in Slot /\ Len(<<>>) = 0 /\ 0 % RingCapacity = 0
  <2>1. RingCapacity \in Nat \ {0} /\ 0 \in 0..RingCapacity - 1
    BY VadAssumption
  <2> QED BY <2>1, SmallRemainder, EmptySeq DEF Slot
<1>2. EmptyRing \in Rings
  BY <1>1 DEF EmptyRing, Rings
<1>3. EmptyRing.len = 0 /\ EmptyRing.write_pos = 0
  BY DEF EmptyRing
<1>4. RingOf(EmptyRing, <<>>)
  BY <1>1, <1>3 DEF RingOf
<1> QED BY <1>2, <1>4

\* A ring that has been drained is empty.
LEMMA DrainedFits ==
  ASSUME NEW r \in Rings, NEW q \in Seq(Nat), RingOf(r, q)
  PROVE  Drained(r) \in Rings /\ RingOf(Drained(r), <<>>)
<1>1. RingCapacity \in Nat \ {0} /\ 0 \in Slot /\ Len(<<>>) = 0 /\ 0 % RingCapacity = 0
  <2>1. RingCapacity \in Nat \ {0} /\ 0 \in 0..RingCapacity - 1
    BY VadAssumption
  <2> QED BY <2>1, SmallRemainder, EmptySeq DEF Slot
<1>2. Drained(r) \in Rings /\ Drained(r).len = 0
  <2>1. CASE r.len = 0
    BY <2>1 DEF Drained
  <2>2. CASE r.len # 0
    <3>1. Drained(r) = [data |-> r.data, write_pos |-> 0, len |-> 0]
      BY <2>2 DEF Drained, Rings
    <3> QED BY <1>1, <3>1 DEF Rings
  <2> QED BY <2>1, <2>2
<1>3. Drained(r).write_pos = 0
  <2>1. CASE r.len = 0
    <3>1. Len(q) = 0
      BY <1>1, <2>1, LenProperties DEF RingOf
    <3> QED BY <1>1, <2>1, <3>1 DEF RingOf, Drained
  <2>2. CASE r.len # 0
    BY <2>2 DEF Drained, Rings
  <2> QED BY <2>1, <2>2
<1> QED BY <1>1, <1>2, <1>3 DEF RingOf

\* The invariant of the VAD holds at first,
LEMMA VadInvInit == VadInit => VadInv
<1> SUFFICES ASSUME VadInit PROVE VadInv
  OBVIOUS
<1>1. <<>> \in Seq(Nat) /\ <<>> \in Seq(Judgement) /\ Len(<<>>) = 0
  BY EmptySeq
<1>2. /\ ring = EmptyRing /\ state = "silence" /\ speech_frame_count = 0
      /\ silence_frame_count = 0 /\ threshold \in Thresholds /\ quiet = <<>> /\ judged = <<>>
      /\ decision = [type |-> "silence", pre_speech_samples |-> <<>>]
  BY DEF VadInit
<1>3. decision.type = "silence" /\ decision.pre_speech_samples = <<>>
  BY <1>2
<1>4. VadTypeOK
  BY <1>1, <1>2, <1>3, EmptyRingFits DEF VadTypeOK, Rings, Judgement
<1>5. InSilence
  BY <1>1, <1>2, VadAssumption DEF InSilence, Peak
<1> QED BY <1>2, <1>4, <1>5, EmptyRingFits DEF VadInv
\* and every call of the VAD keeps it.
LEMMA VadInvStep == ASSUME VadInv, VadStep PROVE VadInv'
<1> DEFINE J == Judgement
<1>0. /\ ring \in Rings /\ state \in {"silence", "speech"} /\ threshold \in Thresholds
      /\ speech_frame_count \in Nat /\ silence_frame_count \in Nat
      /\ quiet \in Seq(Nat) /\ judged \in Seq(J)
      /\ threshold.start \in Nat /\ threshold.end \in Nat
      /\ RingOf(ring, quiet) /\ MinSpeech \in Nat \ {0} /\ MinSilence \in Nat \ {0}
  BY VadAssumption DEF VadInv, VadTypeOK, Rings, Judgement
<1>1. <<>> \in Seq(Nat) /\ <<>> \in Seq(J) /\ Len(<<>>) = 0
  BY EmptySeq
<1>2. Peak(0, <<>>) /\ 0 < MinSpeech
  BY <1>0, <1>1 DEF Peak
<1>3. \A q \in Seq(J) : Pauses(q, 0)
  BY LenProperties DEF Pauses
\* The parts of the invariant after a step.
<1>4. ASSUME ring' \in Rings, RingOf(ring', quiet'), quiet' \in Seq(Nat), judged' \in Seq(J),
             threshold' \in Thresholds, speech_frame_count' \in Nat, silence_frame_count' \in Nat,
             decision'.type \in {"silence", "started", "continues", "ended"},
             decision'.pre_speech_samples \in Seq(Nat),
             \/ state' = "speech" /\ InSpeech'
             \/ state' = "silence" /\ InSilence'
      PROVE  VadInv'
  <2>1. state' \in {"silence", "speech"}
    BY <1>4
  <2>2. VadTypeOK'
    BY <1>4, <2>1 DEF VadTypeOK, Rings, Judgement
  <2> QED BY <1>4, <2>2 DEF VadInv
<1>5. ASSUME NEW p \in Level, NEW f \in Seq(Nat), Process(p, f) PROVE VadInv'
  <2> DEFINE e == [onset |-> p >= threshold.start, pause |-> p < threshold.end]
  <2>1. p \in Nat /\ e \in J /\ threshold' = threshold
    BY <1>0, <1>5, VadAssumption DEF Judgement, Process
  <2>2. Append(judged, e) \in Seq(J) /\ quiet \o f \in Seq(Nat)
    BY <1>0, <2>1, AppendProperties, ConcatProperties
  <2>3. (e.onset <=> p >= threshold.start) /\ (e.pause <=> p < threshold.end)
    OBVIOUS
  <2> HIDE DEF e
  <2>4. /\ Heard(p, f, TRUE) => quiet' = quiet \o f
        /\ Heard(p, f, FALSE) => quiet' = <<>>
        /\ Heard(p, f, TRUE) \/ Heard(p, f, FALSE) =>
             judged' = IF state = "speech" /\ state' = "silence" THEN <<>> ELSE Append(judged, e)
    BY DEF Heard, e
  <2>9. \A type, pre : Decide(type, pre) => decision'.type = type /\ decision'.pre_speech_samples = pre
    BY DEF Decide
  <2>5. CASE SpeechStarts(p, f)
    <3>1. /\ state' = "speech" /\ quiet' = <<>> /\ judged' = Append(judged, e) /\ ring' = Drained(ring)
          /\ speech_frame_count' = speech_frame_count + 1 /\ silence_frame_count' = 0
          /\ decision'.type = "started" /\ decision'.pre_speech_samples = InOrder(ring)
      BY <2>4, <2>5 DEF SpeechStarts, Decide
    <3>2. ring' \in Rings /\ RingOf(ring', quiet') /\ InOrder(ring) \in Seq(Nat)
      BY <1>0, <3>1, DrainedFits, RingOut
    <3>3. InSpeech'
      BY <1>3, <2>2, <3>1 DEF InSpeech
    <3>4. speech_frame_count' \in Nat /\ silence_frame_count' \in Nat
      BY <1>0, <3>1
    <3> QED BY <1>0, <1>1, <1>4, <2>1, <2>2, <3>1, <3>2, <3>3, <3>4
  <2>6. CASE OnsetFrame(p, f) \/ QuietFrame(p, f)
    <3>0. /\ OnsetFrame(p, f) => silence_frame_count' = 0
          /\ QuietFrame(p, f) => silence_frame_count' = silence_frame_count + 1
          /\ OnsetFrame(p, f) \/ QuietFrame(p, f) =>
               /\ state = "silence" /\ state' = state /\ ring' = PushSlice(ring, f)
               /\ Decide("silence", <<>>) /\ Heard(p, f, TRUE)
      BY Zenon DEF OnsetFrame, QuietFrame
    <3>1. /\ state = "silence" /\ state' = "silence" /\ quiet' = quiet \o f
          /\ judged' = Append(judged, e) /\ ring' = PushSlice(ring, f)
          /\ decision'.type = "silence" /\ decision'.pre_speech_samples = <<>>
      BY <2>4, <2>6, <2>9, <3>0
    <3>2. ring' \in Rings /\ RingOf(ring', quiet')
      BY <1>0, <3>1, RingPush
    <3>3. silence_frame_count' \in Nat
      BY <1>0, <2>6, <3>0
    <3>4. /\ speech_frame_count' = IF e.onset THEN speech_frame_count + 1
                                   ELSE IF speech_frame_count = 0 THEN 0 ELSE speech_frame_count - 1
          /\ e.onset => speech_frame_count + 1 < MinSpeech
      <4>1. IsSpeech(p) <=> e.onset
        BY <2>3, <3>1 DEF IsSpeech
      <4> QED BY <2>6, <4>1 DEF OnsetFrame, QuietFrame
    <3>5. InSilence
      BY <3>1 DEF VadInv
    <3>6. Peak(speech_frame_count', judged')
      BY <1>0, <2>1, <3>1, <3>4, <3>5, PeakStep DEF InSilence
    <3>7. speech_frame_count' < MinSpeech /\ speech_frame_count' \in Nat
      BY <1>0, <3>4, <3>5 DEF InSilence
    <3> QED BY <1>1, <1>0, <1>4, <2>1, <2>2, <3>1, <3>2, <3>3, <3>6, <3>7 DEF InSilence
  <2>7. CASE SpeechGoesOn(p, f) \/ BriefPause(p, f)
    <3>0. /\ SpeechGoesOn(p, f) =>
               silence_frame_count' = 0 /\ speech_frame_count' = speech_frame_count + 1
          /\ BriefPause(p, f) =>
               silence_frame_count' = silence_frame_count + 1 /\ speech_frame_count' = 0
          /\ SpeechGoesOn(p, f) \/ BriefPause(p, f) =>
               /\ state = "speech" /\ state' = state /\ ring' = ring
               /\ Decide("continues", <<>>) /\ Heard(p, f, FALSE)
      BY Zenon DEF SpeechGoesOn, BriefPause
    <3>1. /\ state = "speech" /\ state' = "speech" /\ quiet' = <<>>
          /\ judged' = Append(judged, e) /\ ring' = ring
          /\ decision'.type = "continues" /\ decision'.pre_speech_samples = <<>>
      BY <2>4, <2>7, <2>9, <3>0
    <3>2. InSpeech
      BY <3>1 DEF VadInv
    <3>3. RingOf(ring', quiet')
      BY <1>0, <3>1, <3>2 DEF InSpeech
    <3>4. speech_frame_count' \in Nat /\ silence_frame_count' \in Nat
      BY <1>0, <2>7, <3>0
    <3>5. Pauses(judged', silence_frame_count')
      <4>1. CASE SpeechGoesOn(p, f)
        BY <1>3, <2>2, <3>1, <4>1 DEF SpeechGoesOn
      <4>2. CASE BriefPause(p, f)
        <5>1. ~IsSpeech(p) /\ state = "speech" /\ silence_frame_count' = silence_frame_count + 1
          BY <4>2, <3>0, <3>1 DEF BriefPause
        <5>2. e.pause
          <6>1. ~(p >= threshold.end)
            BY <5>1 DEF IsSpeech
          <6>2. p < threshold.end
            BY <1>0, <2>1, <6>1
          <6> QED BY <2>3, <6>2
        <5> QED BY <1>0, <2>1, <3>1, <3>2, <5>1, <5>2, PausesStep DEF InSpeech
      <4> QED BY <2>7, <4>1, <4>2
    <3>6. InSpeech'
      BY <3>1, <3>5 DEF InSpeech
    <3> QED BY <1>0, <1>1, <1>4, <2>1, <2>2, <3>1, <3>3, <3>4, <3>6
  <2>8. CASE SpeechEnds(p, f)
    <3>1. /\ state = "speech" /\ state' = "silence" /\ quiet' = <<>> /\ judged' = <<>> /\ ring' = ring
          /\ speech_frame_count' = 0 /\ silence_frame_count' = silence_frame_count + 1
          /\ decision'.type = "ended" /\ decision'.pre_speech_samples = <<>>
      BY <2>4, <2>8 DEF SpeechEnds, Decide
    <3>2. InSpeech
      BY <3>1 DEF VadInv
    <3>3. RingOf(ring', quiet')
      BY <1>0, <3>1, <3>2 DEF InSpeech
    <3>4. InSilence'
      BY <1>2, <3>1 DEF InSilence
    <3>5. speech_frame_count' \in Nat /\ silence_frame_count' \in Nat
      BY <1>0, <3>1
    <3> QED BY <1>0, <1>1, <1>4, <2>1, <3>1, <3>3, <3>4, <3>5
  <2> QED BY <1>5, <2>5, <2>6, <2>7, <2>8 DEF Process
<1>6. ASSUME NEW t \in Thresholds, UpdateParams(t) PROVE VadInv'
  BY <1>6 DEF UpdateParams, machine, history, VadInv, VadTypeOK, InSpeech, InSilence
<1>7. CASE Reset
  <2>1. /\ ring' = EmptyRing /\ state' = "silence" /\ quiet' = <<>> /\ judged' = <<>>
        /\ speech_frame_count' = 0 /\ silence_frame_count' = 0 /\ threshold' = threshold
        /\ decision'.type = "silence" /\ decision'.pre_speech_samples = <<>>
    BY <1>7 DEF Reset
  <2>2. InSilence'
    BY <1>2, <2>1 DEF InSilence
  <2> QED BY <1>0, <1>1, <1>4, <2>1, <2>2, EmptyRingFits
<1>8. CASE UNCHANGED vadVars
  BY <1>8 DEF vadVars, machine, history, VadInv, VadTypeOK, InSpeech, InSilence
<1> QED BY <1>5, <1>6, <1>7, <1>8 DEF VadStep

\* What the invariant says of the ring and of the count.
LEMMA VadInvShows == ASSUME VadInv PROVE RingHoldsLatest /\ LeakyCount
<1>1. ring \in Rings /\ quiet \in Seq(Nat) /\ RingOf(ring, quiet) /\ judged \in Seq(Judgement)
  BY DEF VadInv, VadTypeOK, Rings, Judgement
<1>2. RingHoldsLatest
  BY <1>1, RingOut DEF RingHoldsLatest
<1>3. \A i : Surplus(i) = SurplusIn(judged, i)
  BY DEF Surplus, SurplusIn, Onsets
<1>4. ASSUME state = "silence"
      PROVE  /\ speech_frame_count = Max({0} \cup {Surplus(i) : i \in 1..Len(judged)})
             /\ speech_frame_count < MinSpeech
  <2>1. InSilence
    BY <1>4 DEF VadInv
  <2>2. speech_frame_count = Max({0} \cup {SurplusIn(judged, i) : i \in 1..Len(judged)})
    BY <1>1, <2>1, PeakIsMax DEF InSilence
  <2>3. {Surplus(i) : i \in 1..Len(judged)} = {SurplusIn(judged, i) : i \in 1..Len(judged)}
    BY <1>3
  <2> QED BY <2>1, <2>2, <2>3 DEF InSilence
<1> QED BY <1>2, <1>4 DEF LeakyCount

\* The step that ends speech.
LEMMA VadStepEnds ==
  ASSUME VadInv, VadStep, state = "speech", decision'.type = "ended",
         NEW i \in 0..MinSilence - 2
  PROVE  Len(judged) > i /\ judged[Len(judged) - i].pause
<1>1. InSpeech /\ silence_frame_count \in Nat /\ judged \in Seq(Judgement) /\ MinSilence \in Nat
  BY VadAssumption DEF VadInv, VadTypeOK, Judgement
<1>2. \E p \in Level : \E f \in Seq(Nat) : SpeechEnds(p, f)
  <2>1. ASSUME NEW p \in Level, NEW f \in Seq(Nat), Process(p, f) PROVE SpeechEnds(p, f)
    <3>1. /\ OnsetFrame(p, f) => state = "silence"
          /\ QuietFrame(p, f) => state = "silence"
          /\ SpeechStarts(p, f) => state = "silence"
      BY Zenon DEF SpeechStarts, OnsetFrame, QuietFrame
    <3>2. SpeechGoesOn(p, f) \/ BriefPause(p, f) => Decide("continues", <<>>)
      BY Zenon DEF SpeechGoesOn, BriefPause
    <3>3. Decide("continues", <<>>) => decision'.type = "continues"
      BY DEF Decide
    <3> QED BY <2>1, <3>1, <3>2, <3>3 DEF Process
  <2>2. ASSUME NEW t \in Thresholds, UpdateParams(t) PROVE FALSE
    BY <1>1, <2>2 DEF UpdateParams, InSpeech
  <2>3. ~Reset
    BY DEF Reset
  <2>4. ~UNCHANGED vadVars
    BY <1>1 DEF vadVars, InSpeech
  <2> QED BY <2>1, <2>2, <2>3, <2>4 DEF VadStep
<1>3. silence_frame_count + 1 >= MinSilence
  BY <1>2 DEF SpeechEnds
<1>4. i \in 0..silence_frame_count - 1 /\ Len(judged) \in Nat
  BY <1>1, <1>3, LenProperties
<1>5. silence_frame_count <= Len(judged) /\ judged[Len(judged) - i].pause
  BY <1>1, <1>4 DEF InSpeech, Pauses
<1> QED BY <1>1, <1>4, <1>5

-------------------------------------------------------------------------------
(***************************************************************************)
(* The VAD on its own.                                                     *)
(***************************************************************************)
StreamInv == VadInv /\ frames \in Nat

\* The samples of the stream are numbers, so its steps are steps of the VAD.
LEMMA StreamSteps ==
  ASSUME StreamInv, [StreamNext]_streamVars
  PROVE  VadStep /\ frames' \in Nat
<1>1. CASE Hear
  <2>1. \A j \in 1..FrameSize : frames * FrameSize + j \in Nat
    BY VadAssumption DEF StreamInv
  <2>2. FrameSize \in Nat
    BY VadAssumption
  <2>3. [j \in 1..FrameSize |-> frames * FrameSize + j] \in Seq(Nat)
    BY <2>1, <2>2, IsASeq
  <2>4. NextFrame \in Seq(Nat)
    BY <2>3 DEF NextFrame
  <2>5. \E p \in Level : Process(p, NextFrame)
    BY <1>1 DEF Hear
  <2> QED BY <1>1, <2>4, <2>5 DEF VadStep, Hear, StreamInv
<1>2. CASE HotReload
  BY <1>2 DEF HotReload, VadStep, StreamInv
<1>3. CASE Restart
  BY <1>3 DEF Restart, VadStep, StreamInv
<1>4. CASE UNCHANGED streamVars
  BY <1>4 DEF streamVars, VadStep, StreamInv
<1> QED BY <1>1, <1>2, <1>3, <1>4 DEF StreamNext

LEMMA StreamInvAlways == StreamSpec => []StreamInv
<1>1. StreamInit => StreamInv
  BY VadInvInit DEF StreamInit, StreamInv
<1>2. StreamInv /\ [StreamNext]_streamVars => StreamInv'
  BY StreamSteps, VadInvStep DEF StreamInv
<1> QED BY <1>1, <1>2, PTL DEF StreamSpec

\* At any moment the ring holds, in order, the end of what has been kept back since it was
\* last drained or reset, however often it has wrapped.
THEOREM AlwaysRingHoldsLatest == StreamSpec => []RingHoldsLatest
<1>1. StreamInv => RingHoldsLatest
  BY VadInvShows DEF StreamInv
<1> QED BY <1>1, StreamInvAlways, PTL

\* The count of speech frames is the largest surplus of speech over silence of any stretch of
\* frames up to now, and speech opens as soon as that reaches MinSpeech.
THEOREM AlwaysLeakyCount == StreamSpec => []LeakyCount
<1>1. StreamInv => LeakyCount
  BY VadInvShows DEF StreamInv
<1> QED BY <1>1, StreamInvAlways, PTL

\* Speech ends only behind MinSilence frames in a row below the end threshold, across hot
\* reloads of the thresholds.
THEOREM AlwaysEndsAfterSilence == StreamSpec => EndsAfterSilence
<1>1. ASSUME StreamInv, [StreamNext]_streamVars
      PROVE  [state = "speech" /\ decision'.type = "ended" =>
                \A i \in 0..MinSilence - 2 : Len(judged) > i /\ judged[Len(judged) - i].pause]_vadVars
  <2>1. VadStep /\ VadInv
    BY <1>1, StreamSteps DEF StreamInv
  <2> QED BY <2>1, VadStepEnds
<1> QED BY <1>1, StreamInvAlways, PTL DEF StreamSpec, EndsAfterSilence

-------------------------------------------------------------------------------
(***************************************************************************)
(* Increasing lists: what is in them, and how they are cut and joined.     *)
(***************************************************************************)
Before(S, T) == \A a \in S : \A b \in T : a < b

\* The elements of a sequence of numbers.
LEMMA ElementsOf ==
  ASSUME NEW s \in Seq(Nat)
  PROVE  /\ Len(s) \in Nat /\ Range(s) \subseteq Nat /\ \A a \in Range(s) : a \in Nat
         /\ \A i \in 1..Len(s) : s[i] \in Range(s)
         /\ \A a \in Range(s) : \E i \in 1..Len(s) : a = s[i]
<1>1. Len(s) \in Nat /\ DOMAIN s = 1..Len(s) /\ \A i \in 1..Len(s) : s[i] \in Nat
  BY LenProperties, ElementOfSeq
<1> QED BY <1>1 DEF Range

\* The empty sequence.
LEMMA NoElementsOf == Range(<<>>) = {} /\ Increasing(<<>>) /\ <<>> \in Seq(Nat) /\ Len(<<>>) = 0
<1>1. <<>> \in Seq(Nat) /\ Len(<<>>) = 0
  BY EmptySeq
<1>2. Range(<<>>) = {}
  <2>1. \A a \in Range(<<>>) : \E i \in 1..0 : a = <<>>[i]
    BY <1>1, ElementsOf
  <2>2. 1..0 = {}
    OBVIOUS
  <2> QED BY <2>1, <2>2
<1> QED BY <1>1, <1>2 DEF Increasing

\* The elements of a joined list by their place.
LEMMA Joint ==
  ASSUME NEW s \in Seq(Nat), NEW t \in Seq(Nat)
  PROVE  /\ s \o t \in Seq(Nat) /\ Len(s \o t) = Len(s) + Len(t)
         /\ \A i \in 1..Len(s) : (s \o t)[i] = s[i]
         /\ \A i \in 1..Len(t) : (s \o t)[Len(s) + i] = t[i]
<1>1. \A i \in 1..Len(s) + Len(t) : (s \o t)[i] = IF i <= Len(s) THEN s[i] ELSE t[i - Len(s)]
  BY ConcatProperties
<1>2. s \o t \in Seq(Nat) /\ Len(s \o t) = Len(s) + Len(t)
  BY ConcatProperties
<1>3. Len(s) \in Nat /\ Len(t) \in Nat
  BY LenProperties
<1>4. ASSUME NEW i \in 1..Len(t) PROVE (s \o t)[Len(s) + i] = t[i]
  BY <1>1, <1>3
<1> QED BY <1>1, <1>2, <1>3, <1>4

\* The elements of two sequences, one after the other.
LEMMA JointElements ==
  ASSUME NEW s \in Seq(Nat), NEW t \in Seq(Nat)
  PROVE  Range(s \o t) = Range(s) \cup Range(t)
<1> DEFINE u == s \o t
<1>1. /\ u \in Seq(Nat) /\ Len(u) = Len(s) + Len(t)
      /\ (\A i \in 1..Len(s) : u[i] = s[i]) /\ \A i \in 1..Len(t) : u[Len(s) + i] = t[i]
  BY Joint
<1> HIDE DEF u
<1>2. Len(s) \in Nat /\ Len(t) \in Nat
  BY LenProperties
<1>3. ASSUME NEW a \in Range(u) PROVE a \in Range(s) \cup Range(t)
  <2>1. PICK i \in 1..Len(u) : a = u[i]
    BY <1>1, ElementsOf
  <2>2. CASE i \in 1..Len(s)
    BY <1>1, <2>1, <2>2, ElementsOf
  <2>3. CASE i \notin 1..Len(s)
    <3>1. i - Len(s) \in 1..Len(t) /\ Len(s) + (i - Len(s)) = i
      BY <1>1, <1>2, <2>3
    <3>2. a = t[i - Len(s)]
      BY <1>1, <2>1, <3>1
    <3> QED BY <3>1, <3>2, ElementsOf
  <2> QED BY <2>2, <2>3
<1>4. ASSUME NEW a \in Range(s) PROVE a \in Range(u)
  <2>1. PICK i \in 1..Len(s) : a = s[i]
    BY ElementsOf
  <2>2. i \in 1..Len(u) /\ u[i] = a
    BY <1>1, <1>2, <2>1
  <2> QED BY <1>1, <2>2, ElementsOf
<1>5. ASSUME NEW a \in Range(t) PROVE a \in Range(u)
  <2>1. PICK i \in 1..Len(t) : a = t[i]
    BY ElementsOf
  <2>2. Len(s) + i \in 1..Len(u) /\ u[Len(s) + i] = a
    BY <1>1, <1>2, <2>1, SMTT(30)
  <2> QED BY <1>1, <2>2, ElementsOf
<1>6. Range(u) = Range(s) \cup Range(t)
  BY <1>3, <1>4, <1>5
<1> QED BY <1>6 DEF u

\* A joined list increases when both parts do and the first is before the second.
LEMMA JointIncreasing ==
  ASSUME NEW s \in Seq(Nat), NEW t \in Seq(Nat)
  PROVE  Increasing(s \o t) <=> Increasing(s) /\ Increasing(t) /\ Before(Range(s), Range(t))
<1> DEFINE u == s \o t
           n == Len(s)
           m == Len(t)
<1>1. /\ u \in Seq(Nat) /\ Len(u) = n + m
      /\ (\A i \in 1..n : u[i] = s[i]) /\ \A i \in 1..m : u[n + i] = t[i]
  BY Joint
<1>2. n \in Nat /\ m \in Nat
  BY LenProperties
<1> HIDE DEF u
<1>3. ASSUME Increasing(u) PROVE Increasing(s) /\ Increasing(t) /\ Before(Range(s), Range(t))
  <2>1. ASSUME NEW i \in 1..n, NEW j \in 1..n, i < j PROVE s[i] < s[j]
    <3>1. i \in 1..Len(u) /\ j \in 1..Len(u)
      BY <1>1, <1>2
    <3> QED BY <1>1, <1>3, <2>1, <3>1 DEF Increasing
  <2>2. ASSUME NEW i \in 1..m, NEW j \in 1..m, i < j PROVE t[i] < t[j]
    <3>1. n + i \in 1..Len(u) /\ n + j \in 1..Len(u) /\ n + i < n + j
      BY <1>1, <1>2, <2>2, SMTT(30)
    <3>2. u[n + i] < u[n + j]
      BY <1>3, <3>1 DEF Increasing
    <3> QED BY <1>1, <3>2
  <2>3. ASSUME NEW a \in Range(s), NEW b \in Range(t) PROVE a < b
    <3>1. PICK i \in 1..n : a = s[i]
      BY ElementsOf
    <3>2. PICK j \in 1..m : b = t[j]
      BY ElementsOf
    <3>3. i \in 1..Len(u) /\ n + j \in 1..Len(u) /\ i < n + j
      BY <1>1, <1>2, SMTT(30)
    <3>4. u[i] < u[n + j]
      BY <1>3, <3>3 DEF Increasing
    <3> QED BY <1>1, <3>1, <3>2, <3>4
  <2> QED BY <2>1, <2>2, <2>3 DEF Increasing, Before
<1>4. ASSUME Increasing(s), Increasing(t), Before(Range(s), Range(t)) PROVE Increasing(u)
  <2>1. ASSUME NEW i \in 1..n + m, NEW j \in 1..n + m, i < j PROVE u[i] < u[j]
    <3>1. CASE j \in 1..n
      <4>1. i \in 1..n
        BY <1>2, <2>1, <3>1
      <4> QED BY <1>1, <1>4, <2>1, <3>1, <4>1 DEF Increasing
    <3>2. CASE i \notin 1..n
      <4>1. i - n \in 1..m /\ j - n \in 1..m /\ i - n < j - n /\ n + (i - n) = i /\ n + (j - n) = j
        BY <1>2, <2>1, <3>2
      <4>2. t[i - n] < t[j - n]
        BY <1>4, <4>1 DEF Increasing
      <4>3. u[i] = t[i - n] /\ u[j] = t[j - n]
        BY <1>1, <4>1
      <4> QED BY <4>2, <4>3
    <3>3. CASE i \in 1..n /\ j \notin 1..n
      <4>1. j - n \in 1..m /\ n + (j - n) = j
        BY <1>2, <3>3
      <4>2. u[i] = s[i] /\ u[j] = t[j - n]
        BY <1>1, <3>3, <4>1
      <4>3. s[i] \in Range(s) /\ t[j - n] \in Range(t)
        BY <3>3, <4>1, ElementsOf
      <4> QED BY <1>4, <4>2, <4>3 DEF Before
    <3> QED BY <3>1, <3>2, <3>3
  <2> QED BY <1>1, <2>1 DEF Increasing
<1> QED BY <1>3, <1>4 DEF u

\* A list cut in two.
LEMMA Cut ==
  ASSUME NEW s \in Seq(Nat), NEW k \in 0..Len(s)
  PROVE  /\ SubSeq(s, 1, k) \in Seq(Nat) /\ Len(SubSeq(s, 1, k)) = k
         /\ SubSeq(s, k + 1, Len(s)) \in Seq(Nat) /\ Len(SubSeq(s, k + 1, Len(s))) = Len(s) - k
         /\ \A i \in 1..k : SubSeq(s, 1, k)[i] = s[i]
         /\ \A i \in 1..Len(s) - k : SubSeq(s, k + 1, Len(s))[i] = s[k + i]
         /\ SubSeq(s, 1, k) \o SubSeq(s, k + 1, Len(s)) = s
<1> DEFINE n == Len(s)
           a == SubSeq(s, 1, k)
           b == SubSeq(s, k + 1, n)
<1>1. n \in Nat /\ k \in Nat /\ k <= n /\ \A i \in 1..n : s[i] \in Nat
  BY LenProperties, ElementOfSeq
<1>2. /\ a \in Seq(Nat) /\ Len(a) = k
      /\ \A i \in 1..k : a[i] = s[i]
  <2>1. \A i \in 1..k : s[i] \in Nat
    BY <1>1
  <2>2. /\ a \in Seq(Nat) /\ Len(a) = (IF 1 <= k THEN k - 1 + 1 ELSE 0)
        /\ \A i \in 1..k - 1 + 1 : a[i] = s[1 + i - 1]
    BY <1>1, <2>1, SubSeqProperties
  <2>3. (IF 1 <= k THEN k - 1 + 1 ELSE 0) = k /\ k - 1 + 1 = k
    BY <1>1
  <2>4. ASSUME NEW i \in 1..k PROVE a[i] = s[i]
    <3>1. 1 + i - 1 = i
      BY SMTT(30)
    <3> QED BY <2>2, <2>3, <3>1
  <2> HIDE DEF a
  <2> QED BY <2>2, <2>3, <2>4
<1>3. /\ b \in Seq(Nat) /\ Len(b) = n - k
      /\ \A i \in 1..n - k : b[i] = s[k + i]
  <2>1. \A i \in k + 1..n : s[i] \in Nat
    BY <1>1
  <2>2. /\ b \in Seq(Nat) /\ Len(b) = (IF k + 1 <= n THEN n - (k + 1) + 1 ELSE 0)
        /\ \A i \in 1..n - (k + 1) + 1 : b[i] = s[(k + 1) + i - 1]
    BY <1>1, <2>1, SubSeqProperties
  <2>3. (IF k + 1 <= n THEN n - (k + 1) + 1 ELSE 0) = n - k /\ n - (k + 1) + 1 = n - k
    BY <1>1, SMTT(30)
  <2>4. ASSUME NEW i \in 1..n - k PROVE b[i] = s[k + i]
    <3>1. (k + 1) + i - 1 = k + i
      BY <1>1
    <3> QED BY <2>2, <2>3, <3>1
  <2> HIDE DEF b
  <2> QED BY <2>2, <2>3, <2>4
<1> HIDE DEF a, b
<1>4. /\ a \o b \in Seq(Nat) /\ Len(a \o b) = k + (n - k)
      /\ (\A i \in 1..k : (a \o b)[i] = a[i]) /\ \A i \in 1..n - k : (a \o b)[k + i] = b[i]
  <2>1. /\ a \o b \in Seq(Nat) /\ Len(a \o b) = Len(a) + Len(b)
        /\ (\A i \in 1..Len(a) : (a \o b)[i] = a[i])
        /\ \A i \in 1..Len(b) : (a \o b)[Len(a) + i] = b[i]
    BY <1>2, <1>3, Joint
  <2> QED BY <1>2, <1>3, <2>1
<1> DEFINE u == a \o b
<1> HIDE DEF u
<1>5. u \in Seq(Nat) /\ Len(u) = n
  BY <1>1, <1>4 DEF u
<1>6. ASSUME NEW i \in 1..n PROVE u[i] = s[i]
  <2>1. CASE i <= k
    BY <1>1, <1>2, <1>4, <2>1 DEF u
  <2>2. CASE i > k
    <3>1. i - k \in 1..n - k /\ k + (i - k) = i
      BY <1>1, <2>2
    <3>2. u[i] = b[i - k] /\ b[i - k] = s[i]
      BY <1>3, <1>4, <3>1 DEF u
    <3> QED BY <3>2
  <2> QED BY <1>1, <2>1, <2>2
<1>7. u = s
  BY <1>5, <1>6, SeqEqual
<1> QED BY <1>2, <1>3, <1>7 DEF a, b, u

\* The end of a list: all of it, or its last n elements behind the rest.
LEMMA LatestPart ==
  ASSUME NEW s \in Seq(Nat), NEW n \in Nat
  PROVE  /\ Latest(s, n) \in Seq(Nat)
         /\ Len(Latest(s, n)) = IF Len(s) < n THEN Len(s) ELSE n
         /\ Len(s) > n => Len(Latest(s, n)) = n
         /\ \E p \in Seq(Nat) : s = p \o Latest(s, n) /\ (p # <<>> => Len(Latest(s, n)) = n)
         /\ \A i \in 1..Len(Latest(s, n)) : Latest(s, n)[i] = s[Len(s) - Len(Latest(s, n)) + i]
<1> DEFINE k == IF Len(s) < n THEN 0 ELSE Len(s) - n
           l == Latest(s, n)
           p == SubSeq(s, 1, k)
<1>1. Len(s) \in Nat /\ k \in 0..Len(s)
  BY LenProperties
<1>2. Max({1, Len(s) - n + 1}) = k + 1
  <2>1. k + 1 \in {1, Len(s) - n + 1} /\ \A x \in {1, Len(s) - n + 1} : x \in Int /\ k + 1 >= x
    BY <1>1
  <2> HIDE DEF k
  <2> QED BY <2>1, MaxIs
<1>3. l = SubSeq(s, k + 1, Len(s))
  BY <1>2 DEF Latest
<1>4. Len(s) - k = (IF Len(s) < n THEN Len(s) ELSE n) /\ (Len(s) > n => Len(s) - k = n)
      /\ (k # 0 => Len(s) - k = n)
  BY <1>1
<1> HIDE DEF k, l
<1>5. /\ l \in Seq(Nat) /\ Len(l) = Len(s) - k /\ p \in Seq(Nat) /\ Len(p) = k /\ s = p \o l
      /\ \A i \in 1..Len(s) - k : l[i] = s[k + i]
  BY <1>1, <1>3, Cut
<1> HIDE DEF p
<1>6. p # <<>> => k # 0
  BY <1>1, <1>5, EmptySeq
<1>7. Len(s) - Len(l) = k
  BY <1>1, <1>5
<1>8. /\ l \in Seq(Nat)
      /\ Len(l) = IF Len(s) < n THEN Len(s) ELSE n
      /\ Len(s) > n => Len(l) = n
      /\ \E q \in Seq(Nat) : s = q \o l /\ (q # <<>> => Len(l) = n)
      /\ \A i \in 1..Len(l) : l[i] = s[Len(s) - Len(l) + i]
  BY <1>4, <1>5, <1>6, <1>7
<1> QED BY <1>8 DEF l

-------------------------------------------------------------------------------
(***************************************************************************)
(* Gaps: what a backend has not heard of what there was to hear.           *)
(***************************************************************************)
\* Gap and the first part of MissesSilenceOnly for any list and what there was to hear.
GapIn(p, V, i) == \E s \in V : s < p[i + 1] /\ (i > 0 => p[i] < s)
Sparse(p, V) ==
  \A i \in {j \in 0..Len(p) - 1 : GapIn(p, V, j)} :
     LET end == i + RingCapacity + FrameSize
     IN  end <= Len(p) /\ \A j \in i + 1..end - 1 : ~GapIn(p, V, j)

\* All there is to hear and that is later than the list is in q.
After(p, V, q) == \A s \in V : Before(Range(p), {s}) => s \in Range(q)

\* Between two neighbours of an increasing sequence none of its elements lies.
LEMMA NothingBetween ==
  ASSUME NEW s \in Seq(Nat), Increasing(s), NEW a \in Range(s)
  PROVE  /\ \A i \in 1..Len(s) - 1 : ~(s[i] < a /\ a < s[i + 1])
         /\ ~(a < s[1])
<1>1. PICK k \in 1..Len(s) : a = s[k]
  BY ElementsOf
<1>2. Len(s) \in Nat /\ \A i \in 1..Len(s) : s[i] \in Nat
  BY LenProperties, ElementOfSeq
<1>3. ASSUME NEW i \in 1..Len(s) - 1, s[i] < a, a < s[i + 1] PROVE FALSE
  <2>1. i \in 1..Len(s) /\ i + 1 \in 1..Len(s)
    BY <1>2
  <2>2. k <= i \/ k >= i + 1
    BY <1>1, <1>2
  <2>3. CASE k <= i
    <3>1. k = i \/ s[k] < s[i]
      BY <1>1, <1>2, <2>1, <2>3 DEF Increasing
    <3> QED BY <1>1, <1>2, <1>3, <2>1, <3>1
  <2>4. CASE k >= i + 1
    <3>1. k = i + 1 \/ s[i + 1] < s[k]
      BY <1>1, <1>2, <2>1, <2>4 DEF Increasing
    <3> QED BY <1>1, <1>2, <1>3, <2>1, <3>1
  <2> QED BY <2>2, <2>3, <2>4
<1>4. ASSUME a < s[1] PROVE FALSE
  <2>1. 1 \in 1..Len(s)
    BY <1>1, <1>2
  <2>2. k = 1 \/ s[1] < s[k]
    BY <1>1, <1>2, <2>1 DEF Increasing
  <2> QED BY <1>1, <1>2, <1>4, <2>1, <2>2
<1> QED BY <1>3, <1>4

\* Of what comes later a list does not notice anything.
LEMMA SparseLater ==
  ASSUME NEW p \in Seq(Nat), NEW V \in SUBSET Nat, NEW W \in SUBSET Nat, Before(Range(p), W)
  PROVE  /\ \A i \in 0..Len(p) - 1 : GapIn(p, V \cup W, i) => GapIn(p, V, i)
         /\ Sparse(p, V) => Sparse(p, V \cup W)
<1>0. Len(p) \in Nat /\ RingCapacity \in Nat \ {0} /\ FrameSize \in Nat \ {0}
  BY LenProperties, VadAssumption
<1>1. ASSUME NEW i \in 0..Len(p) - 1, GapIn(p, V \cup W, i) PROVE GapIn(p, V, i)
  <2>1. PICK s \in V \cup W : s < p[i + 1] /\ (i > 0 => p[i] < s)
    BY <1>1 DEF GapIn
  <2>2. i + 1 \in 1..Len(p)
    BY <1>0
  <2>3. p[i + 1] \in Range(p) /\ p[i + 1] \in Nat
    BY <2>2, ElementsOf
  <2>4. s \notin W
    <3>1. s \in W => p[i + 1] < s /\ s \in Nat
      BY <2>3 DEF Before
    <3> QED BY <2>1, <2>3, <3>1
  <2> QED BY <2>1, <2>4 DEF GapIn
<1>2. ASSUME Sparse(p, V), NEW i \in 0..Len(p) - 1, GapIn(p, V \cup W, i)
      PROVE  /\ i + RingCapacity + FrameSize <= Len(p)
             /\ \A j \in i + 1..(i + RingCapacity + FrameSize) - 1 : ~GapIn(p, V \cup W, j)
  <2>1. GapIn(p, V, i)
    BY <1>1, <1>2
  <2>2. /\ i + RingCapacity + FrameSize <= Len(p)
        /\ \A j \in i + 1..(i + RingCapacity + FrameSize) - 1 : ~GapIn(p, V, j)
    BY <1>2, <2>1 DEF Sparse
  <2>3. \A j \in i + 1..(i + RingCapacity + FrameSize) - 1 : j \in 0..Len(p) - 1
    BY <1>0, <2>2
  <2> QED BY <1>1, <2>2, <2>3
<1> QED BY <1>1, <1>2 DEF Sparse

\* A list that gets the end of q and a frame: what it misses of q is older than a whole ring.
LEMMA SparseFlush ==
  ASSUME NEW p \in Seq(Nat), NEW q \in Seq(Nat), NEW f \in Seq(Nat), Len(f) = FrameSize,
         NEW V \in SUBSET Nat, Increasing(p \o q), Increasing(f),
         Range(p) \subseteq V, Range(q) \subseteq V, Before(V, Range(f)),
         After(p, V, q), Sparse(p, V)
  PROVE  LET r == (p \o Latest(q, RingCapacity)) \o f
         IN  /\ r \in Seq(Nat) /\ Increasing(r)
             /\ Range(r) \subseteq V \cup Range(f)
             /\ Sparse(r, V \cup Range(f))
             /\ After(r, V \cup Range(f), <<>>)
<1> DEFINE c == RingCapacity
           l == Latest(q, c)
           t == l \o f
           r == p \o t
           W == Range(f)
           n == Len(p)
<1>0. c \in Nat \ {0} /\ FrameSize \in Nat \ {0} /\ n \in Nat /\ Len(f) \in Nat
  BY LenProperties, VadAssumption
<1>1. /\ l \in Seq(Nat) /\ Len(l) \in Nat /\ Len(l) <= c
      /\ \E o \in Seq(Nat) : q = o \o l /\ (o # <<>> => Len(l) = c)
  <2>1. /\ l \in Seq(Nat) /\ Len(l) = IF Len(q) < c THEN Len(q) ELSE c
        /\ \E o \in Seq(Nat) : q = o \o l /\ (o # <<>> => Len(l) = c)
    BY <1>0, LatestPart
  <2>2. Len(q) \in Nat
    BY LenProperties
  <2> HIDE DEF l
  <2>3. Len(l) = IF Len(q) < c THEN Len(q) ELSE c
    BY <2>1
  <2>4. Len(l) \in Nat /\ Len(l) <= c
    BY <1>0, <2>2, <2>3
  <2> QED BY <2>1, <2>4
<1>2. PICK o \in Seq(Nat) : q = o \o l /\ (o # <<>> => Len(l) = c)
  BY <1>1
<1> HIDE DEF l
<1>3. /\ Increasing(p) /\ Increasing(q) /\ Before(Range(p), Range(q))
      /\ Increasing(l) /\ Before(Range(o), Range(l)) /\ Range(q) = Range(o) \cup Range(l)
  BY <1>1, <1>2, JointIncreasing, JointElements
<1>4. /\ W \subseteq Nat /\ (\A a \in W : a \in Nat) /\ \A a \in V : a \in Nat
  BY ElementsOf
<1>5. t \in Seq(Nat) /\ Range(t) = Range(l) \cup W /\ Len(t) = Len(l) + FrameSize
  BY <1>1, Joint, JointElements
<1>6. Before(Range(l), W) /\ Range(l) \subseteq V
  BY <1>3 DEF Before
<1>7. Increasing(t)
  BY <1>1, <1>3, <1>6, JointIncreasing
<1> HIDE DEF t
<1>8. Before(Range(p), Range(t))
  BY <1>3, <1>5 DEF Before
<1>9. /\ r \in Seq(Nat) /\ Len(r) = n + Len(t) /\ Range(r) = Range(p) \cup Range(t) /\ Increasing(r)
      /\ (\A i \in 1..n : r[i] = p[i]) /\ \A i \in 1..Len(t) : r[n + i] = t[i]
  BY <1>3, <1>5, <1>7, <1>8, Joint, JointElements, JointIncreasing
<1> HIDE DEF r
<1>10. Len(t) \in Nat /\ (\A i \in 1..Len(t) : t[i] \in Range(t) /\ t[i] \in Nat)
  BY <1>5, ElementsOf
<1>11. \A i \in 1..n : p[i] \in Range(p) /\ p[i] \in Nat
  BY ElementsOf
\* Of what was to hear, all that is later than the start of t is in t.
<1>12. ASSUME NEW s \in V \cup W, NEW k \in 1..Len(t), t[k] < s PROVE s \in Range(t)
  <2>1. CASE s \in W
    BY <1>5, <2>1
  <2>2. CASE s \in V
    <3>1. t[k] \notin W
      BY <1>4, <1>12, <2>2, <1>10 DEF Before
    <3>2. t[k] \in Range(l)
      BY <1>5, <1>10, <3>1
    <3>3. \A a \in Range(p) : a < s
      <4>1. ASSUME NEW a \in Range(p) PROVE a < s
        <5>1. a < t[k] /\ a \in Nat
          BY <1>8, <1>10, ElementsOf DEF Before
        <5> QED BY <1>4, <1>10, <1>12, <2>2, <5>1
      <4> QED BY <4>1
    <3>4. s \in Range(q)
      BY <2>2, <3>3 DEF After, Before
    <3>5. s \notin Range(o)
      <4>1. s \in Range(o) => s < t[k]
        BY <1>3, <3>2 DEF Before
      <4> QED BY <1>4, <1>10, <1>12, <2>2, <4>1
    <3> QED BY <1>3, <1>5, <3>4, <3>5
  <2> QED BY <2>1, <2>2
<1>13. ASSUME NEW i \in n + 1..Len(r) - 1 PROVE ~GapIn(r, V \cup W, i)
  <2>1. /\ i - n \in 1..Len(t) /\ i - n \in 1..Len(t) - 1 /\ (i - n) + 1 \in 1..Len(t)
        /\ n + (i - n) = i /\ n + ((i - n) + 1) = i + 1 /\ i > 0
    BY <1>0, <1>9, <1>10, SMTT(30)
  <2>2. r[i] = t[i - n] /\ r[i + 1] = t[(i - n) + 1]
    <3>1. r[n + (i - n)] = t[i - n] /\ r[n + ((i - n) + 1)] = t[(i - n) + 1]
      BY <1>9, <2>1
    <3> QED BY <2>1, <3>1
  <2>3. ASSUME NEW s \in V \cup W, s < r[i + 1], r[i] < s PROVE FALSE
    <3>1. s \in Range(t)
      BY <1>12, <2>1, <2>2, <2>3
    <3> QED BY <1>5, <1>7, <2>1, <2>2, <2>3, <3>1, NothingBetween
  <2> QED BY <2>1, <2>3 DEF GapIn
<1>14. ASSUME GapIn(r, V \cup W, n) PROVE Len(l) = c
  <2>1. PICK s \in V \cup W : s < r[n + 1] /\ (n > 0 => r[n] < s)
    BY <1>14 DEF GapIn
  <2>2. 1 \in 1..Len(t) /\ r[n + 1] = t[1]
    <3>1. 1 \in 1..Len(t)
      BY <1>0, <1>1, <1>5
    <3> QED BY <1>9, <3>1
  <2>3. s \notin Range(t)
    BY <1>5, <1>7, <2>1, <2>2, NothingBetween
  <2>4. s \in V /\ s \notin Range(l)
    BY <1>5, <2>3
  <2>5. ASSUME NEW a \in Range(p) PROVE a < s
    <3>1. PICK i \in 1..n : a = p[i]
      BY ElementsOf
    <3>2. n \in 1..n /\ n > 0
      BY <1>0, <3>1
    <3>3. i = n \/ p[i] < p[n]
      BY <1>0, <1>3, <3>1, <3>2 DEF Increasing
    <3>4. p[n] < s
      BY <1>9, <2>1, <3>2
    <3> QED BY <1>4, <1>11, <2>4, <3>1, <3>2, <3>3, <3>4
  <2>6. s \in Range(q)
    BY <2>4, <2>5 DEF After, Before
  <2>7. s \in Range(o)
    BY <1>3, <2>4, <2>6
  <2>8. o # <<>>
    BY <2>7, NoElementsOf
  <2> QED BY <1>2, <2>8
<1>15. ASSUME NEW i \in 0..n - 1, GapIn(r, V \cup W, i) PROVE GapIn(p, V, i)
  <2>1. i + 1 \in 1..n /\ (i > 0 => i \in 1..n)
    BY <1>0
  <2>2. r[i + 1] = p[i + 1] /\ (i > 0 => r[i] = p[i])
    BY <1>9, <2>1
  <2>3. PICK s \in V \cup W : s < r[i + 1] /\ (i > 0 => r[i] < s)
    BY <1>15 DEF GapIn
  <2>4. s \notin W
    <3>1. p[i + 1] \in V /\ p[i + 1] \in Nat
      BY <1>11, <2>1
    <3>2. s \in W => p[i + 1] < s /\ s \in Nat
      BY <1>4, <3>1 DEF Before
    <3> QED BY <2>2, <2>3, <3>1, <3>2
  <2> QED BY <2>2, <2>3, <2>4 DEF GapIn
<1>16. ASSUME NEW i \in 0..Len(r) - 1, GapIn(r, V \cup W, i)
       PROVE  /\ i + c + FrameSize <= Len(r)
              /\ \A j \in i + 1..(i + c + FrameSize) - 1 : ~GapIn(r, V \cup W, j)
  <2>1. CASE i < n
    <3>1. i \in 0..n - 1
      BY <1>0, <2>1
    <3>2. GapIn(p, V, i)
      BY <1>15, <1>16, <3>1
    <3>3. /\ i + c + FrameSize <= n
          /\ \A j \in i + 1..(i + c + FrameSize) - 1 : ~GapIn(p, V, j)
      BY <3>1, <3>2 DEF Sparse
    <3>4. \A j \in i + 1..(i + c + FrameSize) - 1 : j \in 0..n - 1
      BY <1>0, <3>1, <3>3
    <3>5. \A j \in i + 1..(i + c + FrameSize) - 1 : ~GapIn(r, V \cup W, j)
      BY <1>15, <3>3, <3>4
    <3>6. i + c + FrameSize <= Len(r)
      BY <1>0, <1>9, <1>10, <3>3
    <3> QED BY <3>5, <3>6
  <2>2. CASE i = n
    <3>1. Len(l) = c
      BY <1>14, <1>16, <2>2
    <3>2. i + c + FrameSize = Len(r)
      BY <1>0, <1>5, <1>9, <2>2, <3>1
    <3>3. \A j \in i + 1..(i + c + FrameSize) - 1 : j \in n + 1..Len(r) - 1
      BY <1>0, <2>2, <3>2
    <3>4. i + c + FrameSize <= Len(r)
      <4>1. Len(r) \in Nat
        BY <1>0, <1>9, <1>10
      <4> QED BY <3>2, <4>1
    <3>5. \A j \in i + 1..(i + c + FrameSize) - 1 : ~GapIn(r, V \cup W, j)
      BY <1>13, <3>3
    <3> QED BY <3>4, <3>5
  <2>3. CASE i > n
    <3>1. i \in n + 1..Len(r) - 1
      BY <1>0, <2>3
    <3> QED BY <1>13, <1>16, <3>1
  <2>4. i \in Int /\ n \in Int
    BY <1>0
  <2>5. i < n \/ i = n \/ i > n
    BY ONLY <2>4
  <2> QED BY <2>1, <2>2, <2>3, <2>5
<1>17. Sparse(r, V \cup W)
  BY <1>16 DEF Sparse
<1>18. Range(r) \subseteq V \cup W
  BY <1>5, <1>6, <1>9
\* The frame is the last there is.
<1>19. ASSUME NEW s \in V \cup W, Before(Range(r), {s}) PROVE FALSE
  <2>1. 1 \in 1..Len(f)
    BY <1>0
  <2>2. f[1] \in W
    BY <2>1, ElementsOf
  <2>3. CASE s \in W
    <3>1. s \in Range(r)
      BY <1>5, <1>9, <2>3
    <3> QED BY <1>4, <1>19, <2>3, <3>1 DEF Before
  <2>4. CASE s \in V
    <3>1. s < f[1] /\ f[1] < s
      BY <1>5, <1>9, <1>19, <2>2, <2>4 DEF Before
    <3> QED BY <1>4, <2>2, <2>4, <3>1
  <2> QED BY <2>3, <2>4
<1>20. After(r, V \cup W, <<>>)
  BY <1>19 DEF After
<1>21. (p \o l) \o f = r
  BY <1>1, ConcatAssociative, SMTT(30) DEF r, t
<1> QED BY <1>9, <1>17, <1>18, <1>20, <1>21 DEF l

-------------------------------------------------------------------------------
(***************************************************************************)
(* Blocks.                                                                 *)
(***************************************************************************)
\* A list is its whole blocks and less than a block.
LEMMA BlocksOf ==
  ASSUME NEW s \in Seq(Nat)
  PROVE  /\ Whole(s, Block) \in Seq(Nat) /\ Rest(s, Block) \in Seq(Nat)
         /\ Whole(s, Block) \o Rest(s, Block) = s /\ Len(Rest(s, Block)) < Block
<1> DEFINE n == Len(s) \div Block
           k == n * Block
<1>1. Block \in Nat \ {0} /\ Len(s) \in Nat
  BY PipelineAssumption, LenProperties
<1>2. /\ n \in Nat /\ Len(s) % Block \in 0..Block - 1
      /\ Len(s) = Block * n + (Len(s) % Block)
  BY <1>1, Remainder
<1> HIDE DEF n
<1>3. k \in Nat /\ Len(s) = k + (Len(s) % Block)
  BY <1>1, <1>2
<1>4. k \in 0..Len(s) /\ Len(s) - k < Block
  BY <1>1, <1>2, <1>3
<1>5. Complete(s, Block) = k
  BY DEF Complete, n
<1> HIDE DEF k
<1> QED BY <1>4, <1>5, Cut DEF Whole, Rest

-------------------------------------------------------------------------------
(***************************************************************************)
(* The invariant of the pipeline, stage by stage.                          *)
(***************************************************************************)
Controls ==
  /\ pc \in {"starting", "drain", "frames", "process"}
  /\ audio_gating \in {"VadGated", "Continuous"}
  /\ speaking \in BOOLEAN /\ sessions \in Nat

\* The capture buffer holds what was captured last; what it has lost is counted.
CaptureOK ==
  /\ samples \in Seq(Nat) /\ capacity \in Nat /\ captured \in Nat
  /\ drained \in [all : Seq(Nat), upto : Nat]
  /\ Len(samples) <= capacity
  /\ drained.upto + Len(samples) <= captured
  /\ \A i \in 1..Len(samples) : samples[i] = captured - Len(samples) + i
  /\ dropped_samples = captured - drained.upto - Len(samples)

\* What has been drained is handed on or waits for a whole block; without a resampler it is what
\* goes to the VAD, with one what the resampler yields goes there in its order.
StageOK ==
  /\ given \in Seq(Nat) /\ resample_leftover \in Seq(Nat) /\ drained.all \in Seq(Nat)
  /\ resampled \in Seq(Nat) /\ yielded \in Nat /\ needs_resample \in BOOLEAN
  /\ drained.all = given \o resample_leftover /\ Increasing(drained.all)
  /\ \A a \in Range(drained.all) : a <= drained.upto
  /\ Len(resample_leftover) < Block
  /\ ~needs_resample => resample_leftover = <<>> /\ resampled = drained.all
  /\ Increasing(resampled)
  /\ needs_resample => \A a \in Range(resampled) : a <= yielded

\* What has been resampled has gone through the VAD, or waits in front of it in order.
Done == Range(resampled) \ Waiting
FrameOK ==
  /\ vad_leftover \in Seq(Nat) /\ vad_input \in Seq(Nat) /\ failed \subseteq Nat
  /\ pc = "frames" => vad_leftover = <<>>
  /\ pc # "frames" => vad_input = <<>>
  /\ Increasing(vad_leftover) /\ Increasing(vad_input)
  /\ Waiting \subseteq Range(resampled) /\ failed \subseteq Done
  /\ Before(Done, Waiting)

\* The newest n of the samples up to e are again the samples up to e.
LEMMA KeepNewest ==
  ASSUME NEW s \in Seq(Nat), NEW n \in Nat, NEW e \in Nat, Len(s) <= e,
         \A i \in 1..Len(s) : s[i] = e - Len(s) + i
  PROVE  LET k == Newest(s, n)
         IN  /\ k \in Seq(Nat) /\ Len(k) <= n /\ Len(k) <= Len(s)
             /\ Max({0, Len(s) - n}) = Len(s) - Len(k)
             /\ \A i \in 1..Len(k) : k[i] = e - Len(k) + i
<1> DEFINE k == Latest(s, n)
<1>1. /\ k \in Seq(Nat) /\ Len(k) = (IF Len(s) < n THEN Len(s) ELSE n)
      /\ \A i \in 1..Len(k) : k[i] = s[Len(s) - Len(k) + i]
  BY LatestPart
<1>2. Newest(s, n) = k
  BY DEF Newest, Latest
<1> HIDE DEF k
<1>3. Len(s) \in Nat /\ Len(k) \in Nat /\ Len(k) <= n /\ Len(k) <= Len(s)
  <2>1. Len(s) \in Nat
    BY LenProperties
  <2> QED BY <1>1, <2>1
<1>4. Max({0, Len(s) - n}) = Len(s) - Len(k)
  <2> DEFINE d == Len(s) - Len(k)
  <2>1. d \in {0, Len(s) - n} /\ \A x \in {0, Len(s) - n} : x \in Int /\ d >= x
    BY <1>1, <1>3
  <2> HIDE DEF d
  <2>2. Max({0, Len(s) - n}) = d
    BY <2>1, MaxIs
  <2> QED BY <2>2 DEF d
<1>5. ASSUME NEW i \in 1..Len(k) PROVE k[i] = e - Len(k) + i
  <2>1. Len(s) - Len(k) + i \in 1..Len(s)
    BY <1>3
  <2>2. k[i] = e - Len(s) + (Len(s) - Len(k) + i)
    BY <1>1, <2>1
  <2> QED BY <1>3, <2>2
<1> QED BY <1>1, <1>2, <1>3, <1>4, <1>5

\* Every step keeps the invariant of the capture buffer and the resampler stage.
LEMMA CaptureStep == ASSUME CaptureOK, [PipeNext]_pipeVars PROVE CaptureOK'
<1>0. /\ samples \in Seq(Nat) /\ Len(samples) \in Nat /\ capacity \in Nat /\ captured \in Nat
      /\ drained.upto \in Nat /\ drained.all \in Seq(Nat) /\ CaptureCapacity \in Nat
      /\ Len(samples) <= captured
  BY PipelineAssumption, LenProperties DEF CaptureOK
\* Room is made for e - captured new samples, or in a smaller buffer.
<1>1. ASSUME NEW s \in Seq(Nat), captured' \in Nat, captured' >= captured,
             Len(s) = Len(samples) + (captured' - captured),
             \A i \in 1..Len(s) : s[i] = captured' - Len(s) + i,
             capacity' \in Nat, samples' = Newest(s, capacity'), UNCHANGED drained,
             dropped_samples' = dropped_samples + Max({0, Len(s) - capacity'})
      PROVE  CaptureOK'
  <2>1. Len(s) \in Nat /\ Len(s) <= captured'
    BY <1>0, <1>1
  <2>2. /\ samples' \in Seq(Nat) /\ Len(samples') <= capacity' /\ Len(samples') <= Len(s)
        /\ Max({0, Len(s) - capacity'}) = Len(s) - Len(samples')
        /\ \A i \in 1..Len(samples') : samples'[i] = captured' - Len(samples') + i
    BY <1>1, <2>1, KeepNewest
  <2>3. Len(samples') \in Nat
    BY <2>2, LenProperties
  <2>4. /\ dropped_samples = captured - drained.upto - Len(samples)
        /\ drained.upto + Len(samples) <= captured
        /\ drained \in [all : Seq(Nat), upto : Nat]
    BY DEF CaptureOK
  <2>5. dropped_samples' = captured' - drained'.upto - Len(samples')
    <3>1. dropped_samples' = (captured - drained.upto - Len(samples)) + (Len(s) - Len(samples'))
      BY <1>1, <2>2, <2>4
    <3>2. drained'.upto = drained.upto
      BY <1>1
    <3> QED BY <1>0, <1>1, <2>1, <2>3, <3>1, <3>2, SMTT(30)
  <2>6. drained'.upto + Len(samples') <= captured' /\ drained' \in [all : Seq(Nat), upto : Nat]
    <3>1. drained' = drained
      BY <1>1
    <3>2. drained.upto + Len(s) <= captured'
      BY <1>0, <1>1, <2>4, SMTT(30)
    <3>3. drained.upto \in Nat /\ captured' \in Nat
      BY <1>0, <1>1, <2>4
    <3>4. Len(samples') <= Len(s)
      BY <2>2
    <3>5. drained.upto + Len(samples') <= captured'
      BY <2>1, <2>3, <3>2, <3>3, <3>4
    <3> QED BY <2>4, <3>1, <3>5
  <2> QED BY <1>1, <2>2, <2>5, <2>6 DEF CaptureOK
<1>2. CASE Capture
  <2>1. PICK n \in Batch : CaptureBatch(n)
    BY <1>2 DEF Capture
  <2>2. n \in Nat
    BY PipelineAssumption
  <2> DEFINE t == [i \in 1..n |-> captured + i]
             s == samples \o t
  <2>3. t \in Seq(Nat) /\ Len(t) = n
    <3>1. \A i \in 1..n : captured + i \in Nat
      BY <1>0, <2>2
    <3> QED BY <2>2, <3>1, IsASeq
  <2>4. \A i \in 1..n : t[i] = captured + i
    OBVIOUS
  <2> HIDE DEF t
  <2>5. /\ s \in Seq(Nat) /\ Len(s) = Len(samples) + n
        /\ (\A i \in 1..Len(samples) : s[i] = samples[i])
        /\ \A i \in 1..n : s[Len(samples) + i] = t[i]
    BY <1>0, <2>3, Joint
  <2>6. /\ captured' = captured + n /\ UNCHANGED <<capacity, drained>>
        /\ samples' = Newest(s, capacity) /\ dropped_samples' = dropped_samples + Max({0, Len(s) - capacity})
    BY <1>2, <2>1 DEF CaptureBatch, Capture, Excess, session, t
  <2> HIDE DEF s
  <2>7. ASSUME NEW i \in 1..Len(s) PROVE s[i] = captured' - Len(s) + i
    <3>1. CASE i \in 1..Len(samples)
      <4>1. s[i] = captured - Len(samples) + i
        BY <2>5, <3>1 DEF CaptureOK
      <4> QED BY <1>0, <2>2, <2>5, <2>6, <4>1
    <3>2. CASE i \notin 1..Len(samples)
      <4>1. i - Len(samples) \in 1..n /\ Len(samples) + (i - Len(samples)) = i
        BY <1>0, <2>2, <2>5, <3>2
      <4>2. s[i] = captured + (i - Len(samples))
        BY <2>4, <2>5, <4>1
      <4> QED BY <1>0, <2>2, <2>5, <2>6, <4>2
    <3> QED BY <3>1, <3>2
  <2>8. /\ captured' \in Nat /\ captured' >= captured /\ capacity' \in Nat
        /\ Len(s) = Len(samples) + (captured' - captured)
    BY <1>0, <2>2, <2>5, <2>6
  <2> QED BY <1>1, <2>5, <2>6, <2>7, <2>8
<1>3. CASE SetCapacity
  <2>1. /\ UNCHANGED <<captured, drained>> /\ capacity' = CaptureCapacity
        /\ samples' = Newest(samples, CaptureCapacity)
        /\ dropped_samples' = dropped_samples + Max({0, Len(samples) - CaptureCapacity})
    BY <1>3 DEF SetCapacity, session
  <2>2. \A i \in 1..Len(samples) : samples[i] = captured' - Len(samples) + i
    BY <2>1 DEF CaptureOK
  <2>3. Len(samples) = Len(samples) + (captured' - captured) /\ captured' >= captured
    BY <1>0, <2>1
  <2> QED BY <1>0, <1>1, <2>1, <2>2, <2>3
<1>4. ASSUME samples' = <<>>, dropped_samples' = 0, captured' = captured, capacity' \in Nat,
             drained' \in [all : Seq(Nat), upto : Nat], drained'.upto = captured
      PROVE  CaptureOK'
  <2>1. samples' \in Seq(Nat) /\ Len(samples') = 0
    BY <1>4, NoElementsOf
  <2>2. drained'.upto = captured'
    BY <1>4
  <2>3. \A i \in 1..Len(samples') : samples'[i] = captured' - Len(samples') + i
    BY <2>1
  <2>4. captured' \in Nat /\ Len(samples') <= capacity'
    BY <1>0, <1>4, <2>1
  <2>5. captured + Len(samples') <= captured /\ captured - captured - Len(samples') = 0
    BY <1>0, <2>1
  <2>6. captured' + Len(samples') <= captured' /\ dropped_samples' = captured' - captured' - Len(samples')
    BY <1>4, <2>5
  <2> QED BY <1>4, <2>1, <2>2, <2>3, <2>4, <2>6 DEF CaptureOK
<1>5. CASE DrainAndStage
  <2>1. /\ samples' = <<>> /\ dropped_samples' = 0 /\ UNCHANGED <<captured, capacity>>
        /\ drained' = [all |-> drained.all \o samples, upto |-> captured]
    BY <1>5 DEF DrainAndStage
  <2>2. drained.all \o samples \in Seq(Nat)
    BY <1>0, Joint
  <2> QED BY <1>0, <1>4, <2>1, <2>2
<1>6. CASE NewSession
  <2>1. /\ samples' = <<>> /\ dropped_samples' = 0 /\ UNCHANGED captured
        /\ capacity' = InitialCapacity /\ drained' = [all |-> <<>>, upto |-> captured]
    BY <1>6 DEF NewSession
  <2>2. InitialCapacity \in Nat
    BY <1>0 DEF InitialCapacity
  <2>3. <<>> \in Seq(Nat)
    BY NoElementsOf
  <2> QED BY <1>0, <1>4, <2>1, <2>2, <2>3
<1>7. ASSUME UNCHANGED <<captureBuffer, capacity, drained>> PROVE CaptureOK'
  BY <1>7 DEF captureBuffer, CaptureOK
<1>8. CASE FrameHeard \/ FrameFails \/ FramesDone \/ BackendProcess \/ UNCHANGED pipeVars
  BY <1>7, <1>8 DEF FrameHeard, FrameFails, FramesDone, BackendProcess, pipeVars, session, captureBuffer
<1> QED BY <1>2, <1>3, <1>5, <1>6, <1>8 DEF PipeNext

\* A session that starts has drained nothing, and nothing waits.
LEMMA NothingStaged ==
  /\ <<>> \o <<>> = <<>> /\ <<>> \in Seq(Nat) /\ Increasing(<<>>) /\ Range(<<>>) = {}
  /\ Len(<<>>) < Block
<1>1. Len(<<>> \o <<>>) = 0 /\ <<>> \o <<>> \in Seq(Nat)
  BY NoElementsOf, Joint
<1>2. <<>> \o <<>> = <<>>
  BY <1>1, EmptySeq
<1>3. Block \in Nat \ {0}
  BY PipelineAssumption
<1> QED BY <1>2, <1>3, NoElementsOf

\* Where the lists are joined makes no difference.
LEMMA Regrouped ==
  ASSUME NEW a \in Seq(Nat), NEW b \in Seq(Nat), NEW c \in Seq(Nat)
  PROVE  (a \o b) \o c = a \o (b \o c)
BY ConcatAssociative, SMTT(30)

\* A list of the numbers after m.
LEMMA NumbersAfter ==
  ASSUME NEW m \in Nat, NEW n \in Nat
  PROVE  LET t == [i \in 1..n |-> m + i]
         IN  /\ t \in Seq(Nat) /\ Increasing(t) /\ \A a \in Range(t) : a \in Nat /\ m < a /\ a <= m + n
<1> DEFINE t == [i \in 1..n |-> m + i]
<1>1. t \in Seq(Nat) /\ Len(t) = n
  <2>1. \A i \in 1..n : m + i \in Nat
    OBVIOUS
  <2> QED BY <2>1, IsASeq
<1>2. \A i \in 1..n : t[i] = m + i
  OBVIOUS
<1> HIDE DEF t
<1>3. Increasing(t)
  BY <1>1, <1>2 DEF Increasing
<1>4. ASSUME NEW a \in Range(t) PROVE a \in Nat /\ m < a /\ a <= m + n
  <2>1. PICK i \in 1..n : a = t[i]
    BY <1>1, ElementsOf
  <2> QED BY <1>2, <2>1
<1> QED BY <1>1, <1>3, <1>4 DEF t

\* A drain: all of it is handed on but for what waits for a whole block, and what goes to the VAD
\* is later than all that went there before.
LEMMA StageOut ==
  ASSUME CaptureOK, StageOK, DrainAndStage
  PROVE  /\ StageOK'
         /\ \E out \in Seq(Nat) : /\ resampled' = resampled \o out /\ vad_input' = vad_leftover \o out
                                  /\ Increasing(out) /\ Before(Range(resampled), Range(out))
<1> DEFINE all == drained.all \o samples
           old == drained.upto
           l == Len(samples)
<1>1. /\ samples \in Seq(Nat) /\ l \in Nat /\ captured \in Nat /\ old \in Nat /\ old + l <= captured
      /\ \A i \in 1..l : samples[i] = captured - l + i
  BY LenProperties DEF CaptureOK
<1>2. /\ given \in Seq(Nat) /\ resample_leftover \in Seq(Nat) /\ drained.all \in Seq(Nat)
      /\ resampled \in Seq(Nat) /\ yielded \in Nat /\ needs_resample \in BOOLEAN
      /\ drained.all = given \o resample_leftover /\ Increasing(drained.all)
      /\ (\A a \in Range(drained.all) : a <= old)
      /\ Increasing(resampled) /\ Block \in Nat \ {0} /\ MaxYield \in Nat
  BY PipelineAssumption DEF StageOK
<1>3. Increasing(samples)
  BY <1>1 DEF Increasing
<1>4. ASSUME NEW a \in Range(samples) PROVE a \in Nat /\ old < a /\ a <= captured
  <2>1. PICK i \in 1..l : a = samples[i]
    BY <1>1, ElementsOf
  <2>2. a = captured - l + i
    BY <1>1, <2>1
  <2> HIDE DEF old, l
  <2> QED BY <1>1, <2>2
<1>5. Before(Range(drained.all), Range(samples))
  <2>1. \A a \in Range(drained.all) : a \in Nat /\ a <= old
    BY <1>2, ElementsOf
  <2> HIDE DEF old
  <2> QED BY <1>1, <1>4, <2>1 DEF Before
<1>6. /\ all \in Seq(Nat) /\ Increasing(all) /\ Range(all) = Range(drained.all) \cup Range(samples)
  BY <1>1, <1>2, <1>3, <1>5, Joint, JointElements, JointIncreasing
<1>7. \A a \in Range(all) : a <= captured
  <2>1. \A a \in Range(drained.all) : a \in Nat /\ a <= old
    BY <1>2, ElementsOf
  <2> HIDE DEF old, l, all
  <2>2. \A a \in Range(drained.all) : a <= captured
    BY <1>1, <2>1
  <2> QED BY <1>4, <1>6, <2>2
<1>8. drained' = [all |-> all, upto |-> captured] /\ UNCHANGED needs_resample /\ (PassOn \/ Resample)
  BY DEF DrainAndStage
<1>9. drained'.all = all /\ drained'.upto = captured
  BY <1>8
<1> HIDE DEF all, old, l
<1>10. CASE PassOn
  <2>1. /\ ~needs_resample /\ given' = given \o samples /\ UNCHANGED <<resample_leftover, yielded>>
        /\ vad_input' = vad_leftover \o samples /\ resampled' = resampled \o samples
    BY <1>10 DEF PassOn, Stage
  <2>2. resample_leftover = <<>> /\ resampled = drained.all
    BY <2>1 DEF StageOK
  <2>3. given = drained.all
    BY <1>2, <2>2, NoElementsOf
  <2>4. all \o <<>> = all
    BY <1>6, NoElementsOf
  <2>5. /\ given' = all /\ resampled' = all /\ resample_leftover' = <<>> /\ Len(resample_leftover') = 0
        /\ drained'.all = given' \o resample_leftover'
    BY <1>9, <2>1, <2>2, <2>3, <2>4, NoElementsOf DEF all
  <2>6. yielded' \in Nat /\ needs_resample' = FALSE /\ 0 < Block
    BY <1>2, <1>8, <2>1
  <2>7. StageOK'
    BY <1>6, <1>7, <1>9, <2>5, <2>6, NoElementsOf DEF StageOK
  <2> QED BY <1>1, <1>3, <1>5, <2>1, <2>2, <2>7
<1>11. CASE Resample
  <2> DEFINE input == resample_leftover \o samples
             w == Whole(input, Block)
             t == Rest(input, Block)
  <2>1. PICK n \in 0..MaxYield * (Len(input) \div Block) :
          /\ Stage([i \in 1..n |-> yielded + i])
          /\ yielded' = yielded + n
    BY <1>11 DEF Resample
  <2> DEFINE out == [i \in 1..n |-> yielded + i]
  <2>2. /\ needs_resample /\ given' = given \o w /\ resample_leftover' = t
        /\ vad_input' = vad_leftover \o out /\ resampled' = resampled \o out
    BY <1>11, <2>1 DEF Resample, Stage
  <2>3. input \in Seq(Nat)
    BY <1>1, <1>2, Joint
  <2> HIDE DEF input
  <2>4. w \in Seq(Nat) /\ t \in Seq(Nat) /\ w \o t = input /\ Len(t) < Block
    BY <2>3, BlocksOf
  <2> HIDE DEF w, t
  <2>5. n \in Nat
    <3>1. Len(input) \in Nat
      BY <2>3, LenProperties
    <3>2. Len(input) \div Block \in Nat
      BY <1>2, <3>1, Remainder
    <3>3. MaxYield * (Len(input) \div Block) \in Nat
      BY <1>2, <3>2
    <3> QED BY <2>1, <3>3
  <2>6. out \in Seq(Nat) /\ Increasing(out) /\ \A a \in Range(out) : a \in Nat /\ yielded < a /\ a <= yielded + n
    BY <1>2, <2>5, NumbersAfter
  <2> HIDE DEF out
  <2>7. \A a \in Range(resampled) : a \in Nat /\ a <= yielded
    BY <1>2, <2>2, ElementsOf DEF StageOK
  <2>8. Before(Range(resampled), Range(out))
    BY <1>2, <2>6, <2>7 DEF Before
  <2>9. /\ resampled' \in Seq(Nat) /\ Increasing(resampled')
        /\ Range(resampled') = Range(resampled) \cup Range(out)
    BY <1>2, <2>2, <2>6, <2>8, Joint, JointElements, JointIncreasing
  <2>10. yielded' \in Nat /\ \A a \in Range(resampled') : a <= yielded'
    BY <1>2, <2>1, <2>5, <2>6, <2>7, <2>9
  <2>11. given' \in Seq(Nat) /\ drained'.all = given' \o resample_leftover'
    <3>1. given \o w \in Seq(Nat)
      BY <1>2, <2>4, Joint
    <3>2. all = given \o input
      <4>1. (given \o resample_leftover) \o samples = given \o (resample_leftover \o samples)
        BY <1>1, <1>2, Regrouped
      <4> QED BY <1>2, <4>1 DEF all, input
    <3>3. (given \o w) \o t = given \o (w \o t)
      BY <1>2, <2>4, Regrouped
    <3> QED BY <1>9, <2>2, <2>4, <3>1, <3>2, <3>3
  <2>12. needs_resample' = TRUE
    BY <1>2, <1>8, <2>2
  <2>13. StageOK'
    BY <1>6, <1>7, <1>9, <2>2, <2>4, <2>9, <2>10, <2>11, <2>12 DEF StageOK
  <2> QED BY <2>2, <2>6, <2>8, <2>13
<1> QED BY <1>8, <1>10, <1>11

\* The stages in front of the VAD keep their invariant.
LEMMA StageStep == ASSUME CaptureOK, StageOK, [PipeNext]_pipeVars PROVE StageOK'
<1>1. CASE NewSession
  <2>1. /\ resample_leftover' = <<>> /\ resampled' = <<>> /\ given' = <<>> /\ yielded' = yielded
        /\ needs_resample' \in BOOLEAN /\ drained' = [all |-> <<>>, upto |-> captured]
    BY <1>1 DEF NewSession
  <2>2. yielded \in Nat
    BY DEF StageOK
  <2> QED BY <2>1, <2>2, NothingStaged DEF StageOK
<1>2. ASSUME UNCHANGED <<resample_leftover, resampled, given, yielded, needs_resample, drained>> PROVE StageOK'
  BY <1>2 DEF StageOK
<1>3. CASE Capture \/ SetCapacity \/ FrameHeard \/ FrameFails \/ FramesDone \/ BackendProcess \/ UNCHANGED pipeVars
  BY <1>2, <1>3 DEF Capture, SetCapacity, FrameHeard, FrameFails, FramesDone, BackendProcess, pipeVars,
     session, stages
<1> QED BY <1>1, <1>3, StageOut DEF PipeNext

\* The frame that is taken from what waits in front of the VAD.
LEMMA TakeFrame ==
  ASSUME FrameOK, pc = "frames", Len(vad_input) >= FrameSize, pc' = pc,
         vad_input' = SubSeq(vad_input, FrameSize + 1, Len(vad_input)),
         UNCHANGED <<vad_leftover, resampled>>,
         failed' \subseteq failed \cup Range(SubSeq(vad_input, 1, FrameSize))
  PROVE  LET frame == SubSeq(vad_input, 1, FrameSize)
         IN  /\ frame \in Seq(Nat) /\ Len(frame) = FrameSize /\ Increasing(frame)
             /\ Before(Done, Range(frame)) /\ Done' = Done \cup Range(frame)
             /\ FrameOK'
<1> DEFINE a == SubSeq(vad_input, 1, FrameSize)
           b == SubSeq(vad_input, FrameSize + 1, Len(vad_input))
<1>1. /\ vad_input \in Seq(Nat) /\ vad_leftover = <<>> /\ Increasing(vad_input) /\ failed \subseteq Nat
      /\ Waiting \subseteq Range(resampled) /\ failed \subseteq Done /\ Before(Done, Waiting)
  BY DEF FrameOK
<1>2. FrameSize \in 0..Len(vad_input)
  <2>1. FrameSize \in Nat /\ Len(vad_input) \in Nat
    BY <1>1, VadAssumption, LenProperties
  <2> QED BY <2>1
<1>3. a \in Seq(Nat) /\ Len(a) = FrameSize /\ b \in Seq(Nat) /\ a \o b = vad_input /\ vad_input' = b
  BY <1>1, <1>2, Cut
<1> HIDE DEF a, b
<1>4. /\ Increasing(a) /\ Increasing(b) /\ Before(Range(a), Range(b))
      /\ Range(vad_input) = Range(a) \cup Range(b)
  <2>1. Increasing(a \o b)
    BY <1>1, <1>3
  <2>2. Range(a \o b) = Range(a) \cup Range(b)
    BY <1>3, JointElements
  <2> QED BY <1>3, <2>1, <2>2, JointIncreasing
<1>5. Waiting = Range(a) \cup Range(b) /\ Waiting' = Range(b)
  <2>1. vad_leftover' = <<>>
    BY <1>1
  <2> QED BY <1>1, <1>3, <1>4, <2>1, NoElementsOf DEF Waiting
<1>6. Range(a) \cap Range(b) = {}
  <2>1. \A x \in Range(a) : x \in Int
    BY <1>3, ElementsOf
  <2>2. \A x \in Range(a) : ~(x < x)
    BY <2>1
  <2> QED BY <1>4, <2>2 DEF Before
<1>7. Done' = Done \cup Range(a)
  BY <1>1, <1>5, <1>6 DEF Done
<1>8. Before(Done, Range(a)) /\ Before(Done', Waiting') /\ Waiting' \subseteq Range(resampled')
  BY <1>1, <1>4, <1>5, <1>7 DEF Before
<1>9. failed' \subseteq Done' /\ failed' \subseteq Nat
  <2>1. failed' \subseteq failed \cup Range(a)
    BY DEF a
  <2>2. Range(a) \subseteq Nat
    BY <1>3, ElementsOf
  <2> QED BY <1>1, <1>7, <2>1, <2>2
<1>10. FrameOK'
  <2>1. vad_leftover' = <<>> /\ pc' = "frames"
    BY <1>1
  <2> QED BY <1>3, <1>4, <1>8, <1>9, <2>1, NoElementsOf DEF FrameOK
<1> QED BY <1>3, <1>4, <1>7, <1>8, <1>10 DEF a

\* A frame that is heard is later than all that there was to hear; one that fails changes
\* nothing there.
LEMMA FrameMoves ==
  ASSUME FrameOK
  PROVE  /\ FrameHeard =>
              LET frame == SubSeq(vad_input, 1, FrameSize)
              IN  /\ FrameOK' /\ frame \in Seq(Nat) /\ Len(frame) = FrameSize /\ Increasing(frame)
                  /\ Before(Live, Range(frame)) /\ Live' = Live \cup Range(frame)
         /\ FrameFails => FrameOK' /\ Live' = Live
<1> DEFINE frame == SubSeq(vad_input, 1, FrameSize)
<1>1. Live = Done \ failed /\ failed \subseteq Done /\ Live' = Done' \ failed'
  BY DEF Live, Done, FrameOK
<1>2. ASSUME frame \in Seq(Nat), Before(Done, Range(frame)) PROVE Done \cap Range(frame) = {}
  <2> HIDE DEF frame
  <2>1. \A x \in Range(frame) : x \in Int
    BY <1>2, ElementsOf
  <2>2. \A x \in Range(frame) : ~(x < x)
    BY <2>1
  <2> QED BY <1>2, <2>2 DEF Before
<1>3. ASSUME FrameHeard
      PROVE  /\ FrameOK' /\ frame \in Seq(Nat) /\ Len(frame) = FrameSize /\ Increasing(frame)
             /\ Before(Live, Range(frame)) /\ Live' = Live \cup Range(frame)
  <2>1. /\ pc = "frames" /\ Len(vad_input) >= FrameSize /\ pc' = pc
        /\ vad_input' = SubSeq(vad_input, FrameSize + 1, Len(vad_input))
        /\ UNCHANGED <<vad_leftover, resampled>> /\ failed' = failed
    BY <1>3 DEF FrameHeard, session
  <2>2. /\ frame \in Seq(Nat) /\ Len(frame) = FrameSize /\ Increasing(frame)
        /\ Before(Done, Range(frame)) /\ Done' = Done \cup Range(frame) /\ FrameOK'
    <3>1. failed' \subseteq failed \cup Range(SubSeq(vad_input, 1, FrameSize))
      BY <2>1
    <3> QED BY <2>1, <3>1, TakeFrame
  <2>3. Done \cap Range(frame) = {}
    BY <1>2, <2>2
  <2> HIDE DEF frame
  <2>4. Before(Live, Range(frame)) /\ Live' = Live \cup Range(frame)
    BY <1>1, <2>1, <2>2, <2>3 DEF Before
  <2> QED BY <2>2, <2>4
<1>4. ASSUME FrameFails PROVE FrameOK' /\ Live' = Live
  <2>1. /\ pc = "frames" /\ Len(vad_input) >= FrameSize /\ pc' = pc
        /\ vad_input' = SubSeq(vad_input, FrameSize + 1, Len(vad_input))
        /\ UNCHANGED <<vad_leftover, resampled>> /\ failed' = failed \cup Range(frame)
    BY <1>4 DEF FrameFails
  <2>2. /\ frame \in Seq(Nat) /\ Len(frame) = FrameSize /\ Increasing(frame)
        /\ Before(Done, Range(frame)) /\ Done' = Done \cup Range(frame) /\ FrameOK'
    <3>1. failed' \subseteq failed \cup Range(SubSeq(vad_input, 1, FrameSize))
      BY <2>1
    <3> QED BY <2>1, <3>1, TakeFrame
  <2>3. Done \cap Range(frame) = {}
    BY <1>2, <2>2
  <2> HIDE DEF frame
  <2> QED BY <1>1, <2>1, <2>2, <2>3
<1> QED BY <1>3, <1>4

\* All but a frame that is heard leaves what there was to hear.
LEMMA FrameStep ==
  ASSUME CaptureOK, StageOK, FrameOK, [PipeNext]_pipeVars
  PROVE  /\ FrameOK' /\ (Live' = Live \/ FrameHeard \/ NewSession)
         /\ NewSession => Live' = {}
<1>1. ASSUME vad_input' = <<>>, vad_leftover' = <<>>, resampled' = <<>>, failed' = {}
      PROVE  FrameOK' /\ Live' = {}
  <2>1. Waiting' = {} /\ Range(resampled') = {}
    BY <1>1, NoElementsOf DEF Waiting
  <2>2. Done' = {} /\ Live' = {}
    BY <2>1 DEF Done, Live
  <2> QED BY <1>1, <2>1, <2>2, NoElementsOf DEF FrameOK, Before
<1>2. CASE NewSession
  <2>1. vad_input' = <<>> /\ vad_leftover' = <<>> /\ resampled' = <<>> /\ failed' = {}
    BY <1>2 DEF NewSession
  <2> QED BY <1>1, <1>2, <2>1
<1>3. ~(NewSession /\ ~(vad_input' = <<>> /\ vad_leftover' = <<>> /\ resampled' = <<>> /\ failed' = {}))
  BY DEF NewSession
<1>4. NewSession => Live' = {}
  BY <1>1, <1>3
<1>5. CASE DrainAndStage
  <2>1. pc = "drain" /\ vad_input = <<>> /\ vad_leftover' = <<>> /\ pc' = "frames" /\ failed' = failed
    BY <1>5 DEF DrainAndStage, FrameOK
  <2>2. PICK out \in Seq(Nat) : /\ resampled' = resampled \o out /\ vad_input' = vad_leftover \o out
                                /\ Increasing(out) /\ Before(Range(resampled), Range(out))
    BY <1>5, StageOut
  <2>3. /\ vad_leftover \in Seq(Nat) /\ Increasing(vad_leftover) /\ failed \subseteq Nat
        /\ Waiting \subseteq Range(resampled) /\ failed \subseteq Done /\ Before(Done, Waiting)
        /\ resampled \in Seq(Nat)
    BY DEF FrameOK, StageOK
  <2>4. Waiting = Range(vad_leftover)
    BY <2>1, NoElementsOf DEF Waiting
  <2>5. /\ vad_input' \in Seq(Nat) /\ Range(vad_input') = Waiting \cup Range(out)
        /\ Range(resampled') = Range(resampled) \cup Range(out)
    BY <2>2, <2>3, <2>4, Joint, JointElements
  <2>6. Waiting' = Waiting \cup Range(out)
    BY <2>1, <2>5, NoElementsOf DEF Waiting
  <2>7. Range(resampled) \cap Range(out) = {}
    <3>1. \A x \in Range(out) : x \in Int
      BY ElementsOf
    <3>2. \A x \in Range(out) : ~(x < x)
      BY <3>1
    <3> QED BY <2>2, <3>2 DEF Before
  <2>8. Done' = Done
    BY <2>3, <2>5, <2>6, <2>7 DEF Done
  <2>9. Live = Done \ failed /\ Live' = Done' \ failed'
    BY DEF Done, Live
  <2>10. Increasing(vad_input')
    <3>1. Before(Range(vad_leftover), Range(out))
      BY <2>2, <2>3, <2>4 DEF Before
    <3> QED BY <2>2, <2>3, <3>1, JointIncreasing
  <2>11. Before(Done', Waiting') /\ Waiting' \subseteq Range(resampled') /\ failed' \subseteq Done'
    <3>1. Done \subseteq Range(resampled)
      BY DEF Done
    <3> QED BY <2>1, <2>2, <2>3, <2>5, <2>6, <2>8, <3>1 DEF Before
  <2>12. FrameOK'
    BY <2>1, <2>3, <2>5, <2>10, <2>11, NoElementsOf DEF FrameOK
  <2> QED BY <1>4, <2>1, <2>8, <2>9, <2>12
<1>6. CASE FramesDone
  <2>1. /\ pc = "frames" /\ vad_leftover = <<>> /\ vad_leftover' = vad_input /\ vad_input' = <<>>
        /\ pc' = "process" /\ UNCHANGED <<resampled, failed>>
    BY <1>6 DEF FramesDone, FrameOK, session
  <2>2. Waiting' = Waiting
    BY <2>1 DEF Waiting
  <2>3. Done' = Done /\ Live' = Live
    BY <2>1, <2>2 DEF Done, Live
  <2>4. FrameOK'
    BY <2>1, <2>2, <2>3, NoElementsOf DEF FrameOK
  <2> QED BY <1>4, <2>3, <2>4
<1>7. CASE FrameHeard \/ FrameFails
  BY <1>4, <1>7, FrameMoves
<1>8. ASSUME UNCHANGED <<vad_input, vad_leftover, resampled, failed>>, pc' = "frames" <=> pc = "frames"
      PROVE  FrameOK' /\ Live' = Live
  <2>1. Waiting' = Waiting
    BY <1>8 DEF Waiting
  <2>2. Done' = Done /\ Live' = Live
    BY <1>8, <2>1 DEF Done, Live
  <2> QED BY <1>8, <2>1, <2>2 DEF FrameOK
<1>9. CASE Capture \/ SetCapacity \/ BackendProcess \/ UNCHANGED pipeVars
  <2>1. UNCHANGED <<vad_input, vad_leftover, resampled, failed>>
    BY <1>9 DEF Capture, SetCapacity, BackendProcess, pipeVars, session, stages
  <2>2. pc' = "frames" <=> pc = "frames"
    BY <1>9 DEF Capture, SetCapacity, BackendProcess, pipeVars
  <2> QED BY <1>4, <1>8, <2>1, <2>2
<1> QED BY <1>2, <1>4, <1>5, <1>6, <1>7, <1>9 DEF PipeNext

\* What the backend has heard of what there was to hear.
GatedOK ==
  /\ Increasing(pushed \o quiet) /\ Range(quiet) \subseteq Live
  /\ After(pushed, Live, quiet) /\ Sparse(pushed, Live)
HeardOK ==
  /\ pushed \in Seq(Nat) /\ Increasing(pushed) /\ Range(pushed) \subseteq Live
  /\ speaking <=> state = "speech"
  /\ audio_gating = "Continuous" => Live \subseteq Range(pushed)
  /\ audio_gating = "VadGated" => GatedOK

\* A frame is kept back, or comes with all that the ring holds of what was kept back.
LEMMA KeptOrFlushed ==
  ASSUME VadInv, NEW p \in Level, NEW f, Process(p, f)
  PROVE  /\ \/ decision'.type = "silence" /\ quiet' = quiet \o f
            \/ /\ decision'.type # "silence" /\ quiet' = <<>>
               /\ decision'.pre_speech_samples = Latest(quiet, RingCapacity)
         /\ state' = (CASE decision'.type = "started" -> "speech"
                        [] decision'.type = "ended" -> "silence"
                        [] OTHER -> state)
<1>1. \A type, pre : Decide(type, pre) => decision'.type = type /\ decision'.pre_speech_samples = pre
  BY DEF Decide
<1>2. /\ \A k : Heard(p, f, k) => quiet' = IF k THEN quiet \o f ELSE <<>>
      /\ Heard(p, f, TRUE) => quiet' = quiet \o f
      /\ Heard(p, f, FALSE) => quiet' = <<>>
  BY DEF Heard
<1>3. quiet \in Seq(Nat) /\ ring \in Rings /\ RingOf(ring, quiet)
  BY DEF VadInv, VadTypeOK, Rings
<1>4. state = "speech" => Latest(quiet, RingCapacity) = <<>>
  <2>1. RingCapacity \in Nat
    BY VadAssumption
  <2>2. ASSUME state = "speech" PROVE Latest(quiet, RingCapacity) = <<>>
    <3>1. quiet = <<>>
      BY <2>2 DEF VadInv, InSpeech
    <3>2. Len(quiet) = 0 /\ 0 <= RingCapacity
      BY <2>1, <3>1, NoElementsOf
    <3>3. /\ Latest(quiet, RingCapacity) \in Seq(Nat)
          /\ Len(Latest(quiet, RingCapacity)) = IF Len(quiet) < RingCapacity THEN Len(quiet) ELSE RingCapacity
      BY <1>3, <2>1, LatestPart
    <3>4. Len(Latest(quiet, RingCapacity)) = 0
      BY <2>1, <3>2, <3>3
    <3> QED BY <3>3, <3>4, EmptySeq
  <2> QED BY <2>2
<1>5. ASSUME SpeechStarts(p, f)
      PROVE  /\ decision'.type = "started" /\ quiet' = <<>> /\ state' = "speech"
             /\ decision'.pre_speech_samples = Latest(quiet, RingCapacity)
  <2>1. Decide("started", InOrder(ring)) /\ Heard(p, f, FALSE) /\ state' = "speech"
    BY <1>5 DEF SpeechStarts
  <2>2. InOrder(ring) = Latest(quiet, RingCapacity)
    BY <1>3, RingOut
  <2> QED BY <1>1, <1>2, <2>1, <2>2
<1>6. ASSUME OnsetFrame(p, f) \/ QuietFrame(p, f)
      PROVE  decision'.type = "silence" /\ quiet' = quiet \o f /\ state' = state
  <2>1. Decide("silence", <<>>) /\ Heard(p, f, TRUE) /\ state' = state
    BY <1>6, Zenon DEF OnsetFrame, QuietFrame
  <2> QED BY <1>1, <1>2, <2>1
<1>7. ASSUME SpeechGoesOn(p, f) \/ BriefPause(p, f)
      PROVE  /\ decision'.type = "continues" /\ quiet' = <<>> /\ state' = state
             /\ decision'.pre_speech_samples = Latest(quiet, RingCapacity)
  <2>1. Decide("continues", <<>>) /\ Heard(p, f, FALSE) /\ state' = state /\ state = "speech"
    BY <1>7, Zenon DEF SpeechGoesOn, BriefPause
  <2> QED BY <1>1, <1>2, <1>4, <2>1
<1>8. ASSUME SpeechEnds(p, f)
      PROVE  /\ decision'.type = "ended" /\ quiet' = <<>> /\ state' = "silence"
             /\ decision'.pre_speech_samples = Latest(quiet, RingCapacity)
  <2>1. Decide("ended", <<>>) /\ Heard(p, f, FALSE) /\ state' = "silence" /\ state = "speech"
    BY <1>8, Zenon DEF SpeechEnds
  <2> QED BY <1>1, <1>2, <1>4, <2>1
<1> QED BY <1>5, <1>6, <1>7, <1>8 DEF Process

\* A frame on its way to the backend.
LEMMA FrameRouted ==
  ASSUME VadInv, StageOK, FrameOK, HeardOK, FrameHeard, audio_gating \in {"VadGated", "Continuous"},
         speaking \in BOOLEAN
  PROVE  HeardOK' /\ speaking' \in BOOLEAN
<1> DEFINE f == SubSeq(vad_input, 1, FrameSize)
<1>1. /\ f \in Seq(Nat) /\ Len(f) = FrameSize /\ Increasing(f)
      /\ Before(Live, Range(f)) /\ Live' = Live \cup Range(f)
  BY FrameMoves
<1>2. /\ \E p \in Level : Process(p, f)
      /\ Route(f) /\ audio_gating' = audio_gating
  BY DEF FrameHeard, session
<1> HIDE DEF f
<1>3. /\ pushed' = IF audio_gating = "Continuous" THEN pushed \o f
                   ELSE IF decision'.type = "silence" THEN pushed
                   ELSE pushed \o decision'.pre_speech_samples \o f
      /\ speaking' = CASE decision'.type = "started" -> TRUE
                       [] decision'.type = "ended" -> FALSE
                       [] OTHER -> speaking
  BY <1>2 DEF Route
<1>4. /\ \/ decision'.type = "silence" /\ quiet' = quiet \o f
         \/ /\ decision'.type # "silence" /\ quiet' = <<>>
            /\ decision'.pre_speech_samples = Latest(quiet, RingCapacity)
      /\ state' = (CASE decision'.type = "started" -> "speech"
                     [] decision'.type = "ended" -> "silence"
                     [] OTHER -> state)
  BY <1>2, KeptOrFlushed
<1>5. /\ pushed \in Seq(Nat) /\ Increasing(pushed) /\ Range(pushed) \subseteq Live
      /\ (speaking <=> state = "speech") /\ Live \subseteq Nat /\ quiet \in Seq(Nat)
      /\ Range(f) \subseteq Nat /\ Before(Range(pushed), Range(f))
  <2>1. pushed \in Seq(Nat) /\ Increasing(pushed) /\ Range(pushed) \subseteq Live /\ (speaking <=> state = "speech")
    BY Zenon DEF HeardOK
  <2>2. quiet \in Seq(Nat)
    BY DEF VadInv, VadTypeOK
  <2>3. Range(f) \subseteq Nat
    BY <1>1, ElementsOf
  <2>4. \A s \in Live : s \in Nat
    <3>1. resampled \in Seq(Nat)
      BY DEF StageOK
    <3> QED BY <3>1, ElementsOf DEF Live
  <2> QED BY <1>1, <2>1, <2>2, <2>3, <2>4 DEF Before
<1>6. speaking' \in BOOLEAN /\ (speaking' <=> state' = "speech")
  <2>1. CASE decision'.type = "started"
    BY <1>3, <1>4, <2>1
  <2>2. CASE decision'.type = "ended"
    BY <1>3, <1>4, <2>2
  <2>3. CASE decision'.type # "started" /\ decision'.type # "ended"
    BY <1>3, <1>4, <1>5, <2>3
  <2> QED BY <2>1, <2>2, <2>3
<1>7. CASE audio_gating = "Continuous"
  <2>1. pushed' = pushed \o f
    BY <1>3, <1>7
  <2>2. /\ pushed' \in Seq(Nat) /\ Range(pushed') = Range(pushed) \cup Range(f) /\ Increasing(pushed')
    BY <1>1, <1>5, <2>1, Joint, JointElements, JointIncreasing
  <2>3. Live \subseteq Range(pushed)
    BY <1>7 DEF HeardOK
  <2>4. Range(pushed') \subseteq Live' /\ Live' \subseteq Range(pushed')
    BY <1>1, <1>5, <2>2, <2>3
  <2>5. audio_gating' = "Continuous" /\ "Continuous" # "VadGated"
    BY <1>2, <1>7
  <2> QED BY <1>6, <2>2, <2>4, <2>5, Zenon DEF HeardOK
<1>8. CASE audio_gating = "VadGated"
  <2>1. /\ Increasing(pushed \o quiet) /\ Range(quiet) \subseteq Live
        /\ After(pushed, Live, quiet) /\ Sparse(pushed, Live)
    BY <1>8 DEF HeardOK, GatedOK
  <2>2. audio_gating' = "VadGated" /\ "Continuous" # "VadGated"
    BY <1>2, <1>8
  <2>3. CASE decision'.type = "silence"
    <3>1. pushed' = pushed /\ quiet' = quiet \o f
      BY <1>3, <1>4, <1>8, <2>3
    <3>2. Increasing(quiet) /\ Before(Range(pushed), Range(quiet))
      BY <1>5, <2>1, JointIncreasing
    <3>3. Range(quiet \o f) = Range(quiet) \cup Range(f) /\ quiet \o f \in Seq(Nat)
      BY <1>1, <1>5, Joint, JointElements
    <3>4. Increasing(quiet \o f)
      <4>1. Before(Range(quiet), Range(f))
        BY <1>1, <2>1 DEF Before
      <4> QED BY <1>1, <1>5, <3>2, <4>1, JointIncreasing
    <3>5. Increasing(pushed \o (quiet \o f))
      <4>1. Before(Range(pushed), Range(quiet \o f))
        BY <1>5, <3>2, <3>3 DEF Before
      <4> QED BY <1>5, <3>3, <3>4, <4>1, JointIncreasing
    <3>6. Range(quiet \o f) \subseteq Live'
      BY <1>1, <2>1, <3>3
    <3>7. After(pushed, Live', quiet \o f)
      BY <1>1, <2>1, <3>3 DEF After
    <3>8. Sparse(pushed, Live \cup Range(f))
      BY <1>5, <2>1, SparseLater
    <3>9. GatedOK'
      BY <1>1, <3>1, <3>5, <3>6, <3>7, <3>8 DEF GatedOK
    <3>10. Range(pushed') \subseteq Live' /\ pushed' \in Seq(Nat) /\ Increasing(pushed')
      BY <1>1, <1>5, <3>1
    <3> QED BY <1>6, <2>2, <3>9, <3>10, Zenon DEF HeardOK
  <2>4. CASE decision'.type # "silence"
    <3> DEFINE r == (pushed \o Latest(quiet, RingCapacity)) \o f
    <3>1. pushed' = r /\ quiet' = <<>>
      BY <1>3, <1>4, <1>8, <2>4
    <3>2. /\ r \in Seq(Nat) /\ Increasing(r) /\ Range(r) \subseteq Live \cup Range(f)
          /\ Sparse(r, Live \cup Range(f)) /\ After(r, Live \cup Range(f), <<>>)
      BY <1>1, <1>5, <2>1, SparseFlush
    <3> HIDE DEF r
    <3>3. Increasing(r \o <<>>)
      BY <3>2, NoElementsOf, JointIncreasing DEF Before
    <3>4. GatedOK'
      BY <1>1, <3>1, <3>2, <3>3, NoElementsOf DEF GatedOK
    <3>5. Range(pushed') \subseteq Live' /\ pushed' \in Seq(Nat) /\ Increasing(pushed')
      BY <1>1, <3>1, <3>2
    <3> QED BY <1>6, <2>2, <3>4, <3>5, Zenon DEF HeardOK
  <2> QED BY <2>3, <2>4
<1> QED BY <1>6, <1>7, <1>8

\* Where the loop is and whose session it is.
LEMMA ControlsStep ==
  ASSUME Controls, [PipeNext]_pipeVars, FrameHeard => speaking' \in BOOLEAN
  PROVE  Controls'
<1>1. CASE NewSession
  <2>1. sessions + 1 \in Nat
    BY DEF Controls
  <2> QED BY <1>1, <2>1 DEF NewSession, Controls
<1>2. CASE FrameHeard
  BY <1>2 DEF FrameHeard, Controls, session
<1>3. CASE Capture \/ SetCapacity \/ DrainAndStage \/ FrameFails \/ FramesDone \/ BackendProcess \/ UNCHANGED pipeVars
  <2>1. UNCHANGED <<audio_gating, speaking, sessions>>
    BY <1>3 DEF Capture, SetCapacity, DrainAndStage, FrameFails, FramesDone, BackendProcess, pipeVars, session
  <2>2. pc' \in {pc, "drain", "frames", "process"}
    BY <1>3 DEF Capture, SetCapacity, DrainAndStage, FrameFails, FramesDone, BackendProcess, pipeVars
  <2> QED BY <2>1, <2>2 DEF Controls
<1> QED BY <1>1, <1>2, <1>3 DEF PipeNext

\* Whatever the pipeline does is a step of the VAD.
LEMMA PipeVadStep == ASSUME FrameOK, [PipeNext]_pipeVars PROVE VadStep
<1>1. CASE FrameHeard
  <2> DEFINE f == SubSeq(vad_input, 1, FrameSize)
  <2>1. f \in Seq(Nat)
    BY <1>1, FrameMoves
  <2>2. \E p \in Level : Process(p, f)
    BY <1>1 DEF FrameHeard
  <2> QED BY <2>1, <2>2 DEF VadStep
<1>2. CASE NewSession
  BY <1>2 DEF NewSession, VadStep
<1>3. CASE Capture \/ SetCapacity \/ DrainAndStage \/ FrameFails \/ FramesDone \/ BackendProcess \/ UNCHANGED pipeVars
  BY <1>3 DEF Capture, SetCapacity, DrainAndStage, FrameFails, FramesDone, BackendProcess, pipeVars, VadStep
<1> QED BY <1>1, <1>2, <1>3 DEF PipeNext

\* All of it.
PipeInv == Controls /\ VadInv /\ CaptureOK /\ StageOK /\ FrameOK /\ HeardOK

\* What the backend has heard keeps its invariant, across sessions too.
LEMMA HeardStep ==
  ASSUME PipeInv, [PipeNext]_pipeVars
  PROVE  HeardOK' /\ (FrameHeard => speaking' \in BOOLEAN)
<1>0. /\ CaptureOK /\ StageOK /\ FrameOK /\ HeardOK /\ VadInv
      /\ audio_gating \in {"VadGated", "Continuous"} /\ speaking \in BOOLEAN
  BY DEF PipeInv, Controls
<1>1. ASSUME FrameHeard PROVE HeardOK' /\ speaking' \in BOOLEAN
  BY <1>0, <1>1, FrameRouted
<1>2. CASE NewSession
  <2>1. /\ pushed' = <<>> /\ speaking' = FALSE /\ state' = "silence" /\ quiet' = <<>>
    BY <1>2 DEF NewSession, Reset
  <2>2. Live' = {}
    BY <1>0, <1>2, FrameStep
  <2>3. <<>> \o <<>> = <<>>
    <3>1. Len(<<>> \o <<>>) = 0 /\ <<>> \o <<>> \in Seq(Nat)
      BY NoElementsOf, Joint
    <3> QED BY <3>1, EmptySeq
  <2>4. After(<<>>, {}, <<>>) /\ Sparse(<<>>, {})
    <3>1. {j \in 0..Len(<<>>) - 1 : GapIn(<<>>, {}, j)} = {}
      BY DEF GapIn
    <3> QED BY <3>1 DEF After, Sparse
  <2>5. GatedOK'
    BY <2>1, <2>2, <2>3, <2>4, NoElementsOf DEF GatedOK
  <2> QED BY <1>1, <2>1, <2>2, <2>5, NoElementsOf DEF HeardOK
<1>3. CASE Capture \/ SetCapacity \/ DrainAndStage \/ FrameFails \/ FramesDone \/ BackendProcess \/ UNCHANGED pipeVars
  <2>1. UNCHANGED <<pushed, speaking, audio_gating>> /\ UNCHANGED vadVars
    BY <1>3 DEF Capture, SetCapacity, DrainAndStage, FrameFails, FramesDone, BackendProcess, pipeVars, session
  <2>2. quiet' = quiet /\ state' = state
    BY <2>1 DEF vadVars, machine, history
  <2>3. CASE Live' = Live
    <3>1. GatedOK => GatedOK'
      BY <2>1, <2>2, <2>3 DEF GatedOK
    <3> QED BY <1>0, <1>1, <2>1, <2>2, <2>3, <3>1 DEF HeardOK
  <2>4. CASE FrameHeard
    BY <1>1, <2>4
  <2>5. ~NewSession
    <3>1. NewSession => sessions' = sessions + 1
      BY DEF NewSession
    <3>2. sessions' = sessions
      BY <1>3 DEF Capture, SetCapacity, DrainAndStage, FrameFails, FramesDone, BackendProcess, pipeVars, session
    <3>3. sessions \in Nat
      BY DEF PipeInv, Controls
    <3> QED BY <3>1, <3>2, <3>3
  <2> QED BY <1>0, <2>3, <2>4, <2>5, FrameStep
<1> QED BY <1>1, <1>2, <1>3 DEF PipeNext

\* A pipeline that starts has heard nothing and missed nothing.
LEMMA PipeInvInit == PipeInit => PipeInv
<1> SUFFICES ASSUME PipeInit PROVE PipeInv
  OBVIOUS
<1>1. /\ samples = <<>> /\ capacity = InitialCapacity /\ dropped_samples = 0 /\ captured = 0
      /\ resample_leftover = <<>> /\ vad_leftover = <<>> /\ vad_input = <<>>
      /\ pc = "starting" /\ audio_gating \in {"VadGated", "Continuous"} /\ needs_resample \in BOOLEAN
      /\ pushed = <<>> /\ speaking = FALSE /\ sessions = 1 /\ resampled = <<>> /\ failed = {}
      /\ drained = [all |-> <<>>, upto |-> 0] /\ given = <<>> /\ yielded = 0
      /\ state = "silence" /\ quiet = <<>>
  BY DEF PipeInit, VadInit
<1>2. InitialCapacity \in Nat
  BY PipelineAssumption DEF InitialCapacity
<1>3. drained.all = <<>> /\ drained.upto = 0
  BY <1>1
<1>4. <<>> \o <<>> = <<>>
  <2>1. Len(<<>> \o <<>>) = 0 /\ <<>> \o <<>> \in Seq(Nat)
    BY NoElementsOf, Joint
  <2> QED BY <2>1, EmptySeq
<1>5. Range(resampled) = {} /\ Waiting = {}
  BY <1>1, NoElementsOf DEF Waiting
<1>6. Live = {} /\ Done = {}
  BY <1>5 DEF Live, Done
<1>7. Controls
  BY <1>1 DEF Controls
<1>8. VadInv
  BY VadInvInit DEF PipeInit
<1>9. CaptureOK
  <2>1. samples \in Seq(Nat) /\ Len(samples) = 0
    BY <1>1, NoElementsOf
  <2> QED BY <1>1, <1>2, <1>3, <2>1 DEF CaptureOK
<1>10. StageOK
  BY <1>1, <1>3, NothingStaged DEF StageOK
<1>11. FrameOK
  BY <1>1, <1>5, <1>6, NoElementsOf DEF FrameOK, Before
<1>12. HeardOK
  <2>1. After(<<>>, {}, <<>>) /\ Sparse(<<>>, {})
    <3>1. {j \in 0..Len(<<>>) - 1 : GapIn(<<>>, {}, j)} = {}
      BY DEF GapIn
    <3> QED BY <3>1 DEF After, Sparse
  <2> QED BY <1>1, <1>4, <1>6, <2>1, NoElementsOf DEF HeardOK, GatedOK
<1> QED BY <1>7, <1>8, <1>9, <1>10, <1>11, <1>12 DEF PipeInv

\* The invariant of the pipeline is inductive.
LEMMA PipeInvAlways == PipeSpec => []PipeInv
<1>1. ASSUME PipeInv, [PipeNext]_pipeVars PROVE PipeInv'
  <2>1. Controls /\ VadInv /\ CaptureOK /\ StageOK /\ FrameOK
    BY <1>1 DEF PipeInv
  <2>2. HeardOK' /\ (FrameHeard => speaking' \in BOOLEAN)
    BY <1>1, HeardStep
  <2>3. Controls'
    BY <1>1, <2>1, <2>2, ControlsStep
  <2>4. VadInv'
    BY <1>1, <2>1, PipeVadStep, VadInvStep
  <2>5. CaptureOK' /\ StageOK' /\ FrameOK'
    BY <1>1, <2>1, CaptureStep, StageStep, FrameStep
  <2> QED BY <2>2, <2>3, <2>4, <2>5 DEF PipeInv
<1> QED BY <1>1, PipeInvInit, PTL DEF PipeSpec

\* A full capture buffer loses its oldest and counts them, and what is drained is handed to the
\* resampler, or on, once and in order but for less than a block that waits: whatever the size
\* of the batches and of a block, and whatever the resampler yields.
THEOREM AlwaysStagesExact == PipeSpec => []StagesExact
<1>1. ASSUME PipeInv PROVE StagesExact
  <2>1. Controls /\ VadInv /\ CaptureOK /\ StageOK /\ FrameOK /\ HeardOK
    BY <1>1 DEF PipeInv
  <2>2. PipeTypeOK
    <3>1. dropped_samples \in Nat
      <4>1. /\ dropped_samples = captured - drained.upto - Len(samples) /\ captured \in Nat
            /\ drained.upto \in Nat /\ drained.upto + Len(samples) <= captured /\ Len(samples) \in Nat
        BY <2>1, LenProperties DEF CaptureOK
      <4> QED BY <4>1
    <3>2. pushed \in Seq(Nat)
      BY <2>1 DEF HeardOK
    <3> QED BY <2>1, <3>1, <3>2 DEF PipeTypeOK, Controls, VadInv, CaptureOK, StageOK, FrameOK
  <2>3. samples = [i \in 1..Len(samples) |-> captured - Len(samples) + i]
    <3>1. \A i \in 1..Len(samples) : samples[i] = captured - Len(samples) + i
      BY <2>1 DEF CaptureOK
    <3>2. samples = [i \in 1..Len(samples) |-> samples[i]]
      BY <2>1 DEF CaptureOK
    <3> QED BY <3>1, <3>2
  <2> QED BY <2>1, <2>2, <2>3 DEF StagesExact, CaptureOK, StageOK
<1> QED BY <1>1, PipeInvAlways, PTL

\* The backend hears no sample twice and none out of order, in either gating mode.
THEOREM AlwaysPushedOnceInOrder == PipeSpec => []PushedOnceInOrder
<1>1. ASSUME PipeInv PROVE PushedOnceInOrder
  BY <1>1 DEF PipeInv, HeardOK, PushedOnceInOrder, Live
<1> QED BY <1>1, PipeInvAlways, PTL

\* A continuous backend hears all that leaves the resampler; a gated one misses only silence
\* that is older than a full ring and nothing once speech is open; and the marks it gets agree
\* with the state of the VAD.
THEOREM AlwaysGatingKeepsSpeech == PipeSpec => []GatingKeepsSpeech
<1>1. ASSUME PipeInv PROVE GatingKeepsSpeech
  <2>1. /\ audio_gating \in {"VadGated", "Continuous"} /\ HeardOK /\ VadInv /\ StageOK
        /\ speaking \in BOOLEAN
    BY <1>1 DEF PipeInv, Controls
  <2>2. /\ pushed \in Seq(Nat) /\ Increasing(pushed) /\ Range(pushed) \subseteq Live
        /\ (speaking <=> state = "speech")
    BY <2>1 DEF HeardOK
  <2>3. MarksFollowVad
    <3>1. speaking \in BOOLEAN /\ (speaking <=> state = "speech")
      BY <2>1, <2>2
    <3> QED BY <3>1, Zenon DEF MarksFollowVad
  <2>4. audio_gating = "Continuous" => HearsAll
    BY <2>1, <2>2 DEF HeardOK, HearsAll
  <2>5. ASSUME audio_gating = "VadGated" PROVE MissesSilenceOnly
    <3>1. After(pushed, Live, quiet) /\ Sparse(pushed, Live)
      BY <2>1, <2>5 DEF HeardOK, GatedOK
    <3>2. \A i : Gap(i) <=> GapIn(pushed, Live, i)
      BY DEF Gap, GapIn
    <3>3. \A i \in {j \in 0..Len(pushed) - 1 : Gap(j)} :
             LET end == i + RingCapacity + FrameSize
             IN  end <= Len(pushed) /\ \A j \in i + 1..end - 1 : ~Gap(j)
      BY <3>1, <3>2 DEF Sparse
    <3>4. ASSUME state = "speech", NEW s \in Live PROVE s <= Last(pushed)
      <4>1. quiet = <<>>
        BY <2>1, <3>4 DEF VadInv, InSpeech
      <4>2. s \notin Range(quiet) /\ s \in Nat
        BY <2>1, <4>1, NoElementsOf, ElementsOf DEF StageOK, Live
      <4>3. PICK a \in Range(pushed) : ~(a < s)
        BY <3>1, <4>2 DEF After, Before
      <4>4. PICK i \in 1..Len(pushed) : a = pushed[i]
        BY <2>2, ElementsOf
      <4> DEFINE n == Len(pushed)
      <4>5. n \in Nat /\ n \in 1..n
        BY <2>2, <4>4, LenProperties
      <4>6. pushed[n] \in Nat /\ pushed[i] \in Nat
        BY <2>2, <4>5, ElementOfSeq
      <4>7. pushed[i] <= pushed[n]
        <5>1. i = n \/ i < n
          BY <4>4, <4>5
        <5>2. i < n => pushed[i] < pushed[n]
          BY <2>2, <4>4, <4>5 DEF Increasing
        <5> QED BY <4>6, <5>1, <5>2
      <4>8. s <= pushed[n]
        BY <4>2, <4>3, <4>4, <4>6, <4>7
      <4> QED BY <4>8 DEF Last
    <3> QED BY <3>3, <3>4 DEF MissesSilenceOnly
  <2> QED BY <2>1, <2>3, <2>4, <2>5 DEF GatingKeepsSpeech
<1> QED BY <1>1, PipeInvAlways, PTL

-------------------------------------------------------------------------------
(***************************************************************************)
(* The watcher: its map follows the graph, and a stopped session stays     *)
(* stopped.                                                                *)
(***************************************************************************)
Event == [type : {"add", "remove"}, node : Node]

\* A node is announced once and withdrawn once, in this order.
EventsInOrder ==
  /\ \A i, j \in 1..Len(events) : events[i] = events[j] => i = j
  /\ \A i \in 1..Len(events) : LET n == events[i].node IN
       /\ events[i].type = "add" => n \in (graph \cup gone) \ devices
       /\ events[i].type = "remove" =>
            /\ n \in gone
            /\ n \in devices \/ \E j \in 1..(i - 1) : events[j] = [type |-> "add", node |-> n]
  /\ devices \subseteq graph \cup gone /\ graph \cap gone = {}

\* Which commands the channel holds, and what the engine has of a session where.
QueueHolds ==
  \A i \in 1..Len(queue) : /\ queue[i].type \in {"start", "reconnect"} => queue[i].device \in Node
                           /\ queue[i].type \in {"stop", "list"} => queue[i].device = NoNode
Control ==
  /\ epc \in {"joining", "choosing"} => stream = NoStream
  /\ epc \in {"choosing", "started"} => ~active /\ target \in Node
  /\ epc = "refreshing" => active /\ target \in Node

WatcherInv == TypeOK /\ MapTracksGraph /\ EventsInOrder /\ QueueHolds /\ Control /\ StoppedStaysStopped

-------------------------------------------------------------------------------
(***************************************************************************)
(* Events.                                                                 *)
(***************************************************************************)
\* A new event goes to the end of what is on its way.
LEMMA AppendEvent ==
  ASSUME events \in Seq(Event), NEW e \in Event, events' = Append(events, e)
  PROVE  /\ events' \in Seq(Event) /\ Len(events') = Len(events) + 1 /\ Len(events) \in Nat
         /\ events'[Len(events) + 1] = e /\ \A i \in 1..Len(events) : events'[i] = events[i]
         /\ \A t \in {"add", "remove"} :
              {events'[i].node : i \in {j \in 1..Len(events') : events'[j].type = t}}
                = Pending(t) \cup (IF e.type = t THEN {e.node} ELSE {})
<1>1. /\ events' \in Seq(Event) /\ Len(events') = Len(events) + 1 /\ Len(events) \in Nat
      /\ events'[Len(events) + 1] = e /\ \A i \in 1..Len(events) : events'[i] = events[i]
  OBVIOUS
<1>2. \A i \in 1..Len(events') : i = Len(events) + 1 \/ i \in 1..Len(events)
  BY <1>1
<1>3. \A i \in 1..Len(events) : i \in 1..Len(events')
  BY <1>1
<1>4. Len(events) + 1 \in 1..Len(events')
  BY <1>1
<1>5. ASSUME NEW t \in {"add", "remove"}
      PROVE  {events'[i].node : i \in {j \in 1..Len(events') : events'[j].type = t}}
                = Pending(t) \cup (IF e.type = t THEN {e.node} ELSE {})
  <2> DEFINE S == {events'[i].node : i \in {j \in 1..Len(events') : events'[j].type = t}}
  <2>1. S \subseteq Pending(t) \cup (IF e.type = t THEN {e.node} ELSE {})
    BY <1>1, <1>2 DEF Pending
  <2>2. Pending(t) \subseteq S
    BY <1>1, <1>3 DEF Pending
  <2>3. (IF e.type = t THEN {e.node} ELSE {}) \subseteq S
    BY <1>1, <1>4
  <2> QED BY <2>1, <2>2, <2>3
<1> QED BY <1>1, <1>5

\* The first event is taken out of what is on its way.
LEMMA TakeEvent ==
  ASSUME events \in Seq(Event), events # <<>>, events' = Tail(events)
  PROVE  /\ Head(events) \in Event /\ Head(events) = events[1] /\ events' \in Seq(Event)
         /\ Len(events') + 1 = Len(events) /\ Len(events') \in Nat
         /\ \A i \in 1..Len(events') : events'[i] = events[i + 1] /\ i + 1 \in 1..Len(events)
         /\ \A t \in {"add", "remove"} :
              Pending(t) = {events'[i].node : i \in {j \in 1..Len(events') : events'[j].type = t}}
                             \cup (IF Head(events).type = t THEN {Head(events).node} ELSE {})
<1>1. /\ Head(events) \in Event /\ Head(events) = events[1] /\ events' \in Seq(Event)
      /\ Len(events') + 1 = Len(events) /\ Len(events') \in Nat /\ Len(events) > 0
      /\ \A i \in 1..Len(events') : events'[i] = events[i + 1] /\ i + 1 \in 1..Len(events)
  OBVIOUS
<1>2. ASSUME NEW t \in {"add", "remove"}
      PROVE  Pending(t) = {events'[i].node : i \in {j \in 1..Len(events') : events'[j].type = t}}
                             \cup (IF Head(events).type = t THEN {Head(events).node} ELSE {})
  <2> DEFINE S == {events'[i].node : i \in {j \in 1..Len(events') : events'[j].type = t}}
  <2>1. ASSUME NEW i \in 1..Len(events), events[i].type = t
        PROVE  events[i].node \in S \cup (IF Head(events).type = t THEN {Head(events).node} ELSE {})
    <3>1. CASE i = 1
      BY <1>1, <2>1, <3>1
    <3>2. CASE i # 1
      <4>1. i - 1 \in 1..Len(events')
        BY <1>1, <3>2
      <4>2. events'[i - 1] = events[(i - 1) + 1]
        BY <1>1, <4>1
      <4>3. (i - 1) + 1 = i
        OBVIOUS
      <4> QED BY <2>1, <4>1, <4>2, <4>3
    <3> QED BY <3>1, <3>2
  <2>2. Pending(t) \subseteq S \cup (IF Head(events).type = t THEN {Head(events).node} ELSE {})
    BY <2>1 DEF Pending
  <2>3. S \subseteq Pending(t)
    BY <1>1 DEF Pending
  <2>4. (IF Head(events).type = t THEN {Head(events).node} ELSE {}) \subseteq Pending(t)
    <3>1. 1 \in 1..Len(events)
      BY <1>1
    <3> QED BY <1>1, <3>1 DEF Pending
  <2> QED BY <2>2, <2>3, <2>4
<1> QED BY <1>1, <1>2

-------------------------------------------------------------------------------
(***************************************************************************)
(* The graph and the watcher.                                              *)
(***************************************************************************)
LEMMA AppearsKeeps == ASSUME WatcherInv, NodeAppears PROVE WatcherInv'
<1> USE DEF WatcherInv, channel
<1>1. PICK n \in Node \ (graph \cup gone) :
        /\ graph' = graph \cup {n} /\ events' = Append(events, [type |-> "add", node |-> n])
        /\ found' \in {found, found \cup {n}}
        /\ default_sink' \in {default_sink, n}
        /\ UNCHANGED <<gone, devices, devices_cache, channel, epc, target, info, active, stream, told>>
  BY DEF NodeAppears
<1> DEFINE e == [type |-> "add", node |-> n]
<1>2. e \in Event /\ e.type = "add" /\ e.node = n /\ events \in Seq(Event)
  BY DEF Event, TypeOK
<1> HIDE DEF e
<1>3. /\ events' \in Seq(Event) /\ Len(events') = Len(events) + 1 /\ Len(events) \in Nat
      /\ events'[Len(events) + 1] = e /\ \A i \in 1..Len(events) : events'[i] = events[i]
      /\ Pending("add")' = Pending("add") \cup {n} /\ Pending("remove")' = Pending("remove")
  BY <1>1, <1>2, AppendEvent DEF e, Pending
<1>4. \A i \in 1..Len(events') : i = Len(events) + 1 \/ i \in 1..Len(events)
  BY <1>3
<1>5. \A i \in 1..Len(events) : /\ events[i].node # n /\ events[i] \in Event
                                /\ i - 1 \in Nat /\ \A j \in 1..(i - 1) : j \in 1..Len(events)
  <2> TAKE i \in 1..Len(events)
  <2>1. events[i] \in Event /\ i - 1 \in Nat /\ \A j \in 1..(i - 1) : j \in 1..Len(events)
    BY <1>2, <1>3
  <2>2. events[i].type \in {"add", "remove"}
    BY <2>1 DEF Event
  <2> QED BY <1>1, <2>1, <2>2 DEF EventsInOrder
<1>6. n \notin devices /\ n \notin Pending("remove")
  BY <1>1, <1>5 DEF EventsInOrder, Pending
<1>7. TypeOK' /\ MapTracksGraph'
  <2>1. TypeOK'
    BY <1>1, <1>3 DEF TypeOK, Event
  <2> QED BY <1>1, <1>3, <1>6, <2>1 DEF MapTracksGraph
<1>8. EventsInOrder'
  <2>1. \A i, j \in 1..Len(events') : events'[i] = events'[j] => i = j
    BY <1>2, <1>3, <1>4, <1>5 DEF EventsInOrder
  <2>2. ASSUME NEW i \in 1..Len(events)
        PROVE  LET m == events'[i].node IN
                 /\ events'[i].type = "add" => m \in (graph' \cup gone') \ devices'
                 /\ events'[i].type = "remove" =>
                      /\ m \in gone'
                      /\ m \in devices' \/ \E j \in 1..(i - 1) : events'[j] = [type |-> "add", node |-> m]
    BY <1>1, <1>3, <1>5 DEF EventsInOrder
  <2>3. events'[Len(events) + 1].type = "add" /\ events'[Len(events) + 1].node \in graph' \ devices'
    BY <1>1, <1>2, <1>3, <1>6
  <2>4. devices' \subseteq graph' \cup gone' /\ graph' \cap gone' = {}
    BY <1>1 DEF EventsInOrder
  <2> QED BY <1>4, <2>1, <2>2, <2>3, <2>4 DEF EventsInOrder
<1>9. QueueHolds' /\ Control' /\ StoppedStaysStopped'
  BY <1>1 DEF QueueHolds, Control, StoppedStaysStopped
<1> QED BY <1>7, <1>8, <1>9

LEMMA VanishesKeeps == ASSUME WatcherInv, NodeVanishes PROVE WatcherInv'
<1> USE DEF WatcherInv, channel, engine
<1>1. PICK n \in graph :
        /\ graph' = graph \ {n} /\ gone' = gone \cup {n}
        /\ events' = Append(events, [type |-> "remove", node |-> n])
        /\ UNCHANGED <<devices, devices_cache, channel, engine>>
        /\ (n # default_sink /\ default_sink' = default_sink) \/ default_sink' \in graph' \cup {NoNode}
  BY DEF NodeVanishes
<1> DEFINE e == [type |-> "remove", node |-> n]
<1>2. e \in Event /\ e.type = "remove" /\ e.node = n /\ events \in Seq(Event) /\ n \in Node
  BY DEF Event, TypeOK
<1> HIDE DEF e
<1>3. /\ events' \in Seq(Event) /\ Len(events') = Len(events) + 1 /\ Len(events) \in Nat
      /\ events'[Len(events) + 1] = e /\ \A i \in 1..Len(events) : events'[i] = events[i]
      /\ Pending("add")' = Pending("add") /\ Pending("remove")' = Pending("remove") \cup {n}
  BY <1>1, <1>2, AppendEvent DEF e, Pending
<1>4. \A i \in 1..Len(events') : i = Len(events) + 1 \/ i \in 1..Len(events)
  BY <1>3
<1>5. \A i \in 1..Len(events) : /\ events[i] # e /\ events[i] \in Event
                                /\ i - 1 \in Nat /\ \A j \in 1..(i - 1) : j \in 1..Len(events)
  <2> TAKE i \in 1..Len(events)
  <2>1. events[i] \in Event /\ i - 1 \in Nat /\ \A j \in 1..(i - 1) : j \in 1..Len(events)
    BY <1>2, <1>3
  <2>2. n \notin gone
    BY <1>1 DEF EventsInOrder
  <2> QED BY <1>2, <2>1, <2>2 DEF EventsInOrder
<1>6. n \in devices \/ \E j \in 1..Len(events) : events[j] = [type |-> "add", node |-> n]
  <2>1. CASE n \in devices BY <2>1
  <2>2. CASE n \in Pending("add")
    <3>1. PICK j \in 1..Len(events) : events[j].type = "add" /\ events[j].node = n
      BY <2>2 DEF Pending
    <3>2. events[j] \in Event
      BY <1>2
    <3> QED BY <3>1, <3>2 DEF Event
  <2> QED BY <1>1, <2>1, <2>2 DEF MapTracksGraph
<1>7. TypeOK' /\ MapTracksGraph'
  <2>1. TypeOK'
    BY <1>1, <1>2, <1>3 DEF TypeOK, Event
  <2> QED BY <1>1, <1>3, <2>1 DEF MapTracksGraph
<1>8. EventsInOrder'
  <2>1. \A i, j \in 1..Len(events') : events'[i] = events'[j] => i = j
    BY <1>2, <1>3, <1>4, <1>5 DEF EventsInOrder
  <2>2. ASSUME NEW i \in 1..Len(events)
        PROVE  LET m == events'[i].node IN
                 /\ events'[i].type = "add" => m \in (graph' \cup gone') \ devices'
                 /\ events'[i].type = "remove" =>
                      /\ m \in gone'
                      /\ m \in devices' \/ \E j \in 1..(i - 1) : events'[j] = [type |-> "add", node |-> m]
    BY <1>1, <1>3, <1>5 DEF EventsInOrder
  <2>3. /\ events'[Len(events) + 1].type = "remove" /\ events'[Len(events) + 1].node = n
        /\ n \in gone' /\ (Len(events) + 1) - 1 = Len(events)
        /\ (n \in devices' \/ \E j \in 1..Len(events) : events'[j] = [type |-> "add", node |-> n])
    BY <1>1, <1>2, <1>3, <1>6
  <2>4. devices' \subseteq graph' \cup gone' /\ graph' \cap gone' = {}
    BY <1>1 DEF EventsInOrder
  <2> QED BY <1>4, <2>1, <2>2, <2>3, <2>4 DEF EventsInOrder
<1>9. QueueHolds' /\ Control' /\ StoppedStaysStopped'
  BY <1>1 DEF QueueHolds, Control, StoppedStaysStopped
<1> QED BY <1>7, <1>8, <1>9

\* One event is taken: each that stays keeps its place in the order.
LEMMA TakenKeeps ==
  ASSUME WatcherInv, events # <<>>, events' = Tail(events), UNCHANGED external,
         devices' = IF Head(events).type = "add" THEN devices \cup {Head(events).node}
                                                 ELSE devices \ {Head(events).node}
  PROVE  /\ graph' = (devices' \cup Pending("add")') \ Pending("remove")'
         /\ EventsInOrder' /\ events' \in Seq(Event)
         /\ Head(events).node \in Node /\ devices' \subseteq Node
<1> USE DEF WatcherInv, external
<1> DEFINE e == Head(events)
           n == e.node
<1>1. events \in Seq(Event)
  BY DEF TypeOK, Event
<1>2. /\ e \in Event /\ e = events[1] /\ events' \in Seq(Event)
      /\ Len(events') + 1 = Len(events) /\ Len(events') \in Nat
      /\ \A i \in 1..Len(events') : events'[i] = events[i + 1] /\ i + 1 \in 1..Len(events)
      /\ Pending("add") = Pending("add")' \cup (IF e.type = "add" THEN {n} ELSE {})
      /\ Pending("remove") = Pending("remove")' \cup (IF e.type = "remove" THEN {n} ELSE {})
  BY <1>1, TakeEvent DEF Pending
<1>3. n \in Node /\ e = [type |-> e.type, node |-> n] /\ e.type \in {"add", "remove"}
  BY <1>2 DEF Event
<1>4. devices' \subseteq Node
  BY <1>3 DEF TypeOK
<1>5. \A i \in 1..Len(events') : events'[i] # e /\ events'[i] \in Event
  <2> TAKE i \in 1..Len(events')
  <2>1. events'[i] = events[i + 1] /\ i + 1 \in 1..Len(events) /\ i + 1 # 1 /\ 1 \in 1..Len(events)
    BY <1>2
  <2>2. events'[i] # e
    BY <1>2, <2>1 DEF EventsInOrder
  <2> QED BY <1>1, <2>1, <2>2
<1>6. 1 \in 1..Len(events) /\ events[1].node = n /\ events[1].type = e.type
  BY <1>2
<1>7. e.type = "add" => n \in (graph \cup gone) \ devices
  BY <1>6 DEF EventsInOrder
<1>8. e.type = "remove" => n \in gone /\ n \in devices
  <2>1. 1..(1 - 1) = {}
    OBVIOUS
  <2> QED BY <1>6, <2>1 DEF EventsInOrder
<1> HIDE DEF e
<1>9. TypeOK /\ devices' = IF e.type = "add" THEN devices \cup {n} ELSE devices \ {n}
  BY DEF e
<1>10. e.type = "remove" => n \notin Pending("add")
  <2> SUFFICES ASSUME e.type = "remove", NEW i \in 1..Len(events), events[i].type = "add",
                      events[i].node = n
               PROVE  FALSE
    BY DEF Pending
  <2> QED BY <1>8 DEF EventsInOrder
<1>11. graph = (devices' \cup Pending("add")') \ Pending("remove")'
  <2>1. graph = (devices \cup Pending("add")) \ Pending("remove")
    BY DEF MapTracksGraph
  <2>2. CASE e.type = "add"
    BY <1>2, <1>9, <2>1, <2>2
  <2>3. CASE e.type = "remove"
    <3>1. n \notin graph
      BY <1>8, <2>3 DEF EventsInOrder
    <3> QED BY <1>2, <1>9, <1>10, <2>1, <2>3, <3>1
  <2> QED BY <1>3, <2>2, <2>3
<1>12. EventsInOrder'
  <2>1. ASSUME NEW i \in 1..Len(events'), NEW j \in 1..Len(events'), events'[i] = events'[j]
        PROVE  i = j
    <3>1. i + 1 \in 1..Len(events) /\ j + 1 \in 1..Len(events) /\ events[i + 1] = events[j + 1]
      BY <1>2, <2>1
    <3>2. i + 1 = j + 1
      BY <3>1 DEF EventsInOrder
    <3> QED BY <3>2
  <2>2. ASSUME NEW i \in 1..Len(events'), events'[i].type = "add"
        PROVE  events'[i].node \in (graph' \cup gone') \ devices'
    <3>1. events'[i] = events[i + 1] /\ i + 1 \in 1..Len(events)
      BY <1>2
    <3>2. events'[i].node \in (graph \cup gone) \ devices
      BY <2>2, <3>1 DEF EventsInOrder
    <3>3. events'[i].node # n \/ e.type = "remove"
      BY <1>3, <1>5, <2>2 DEF Event
    <3> QED BY <1>9, <3>2, <3>3
  <2>3. ASSUME NEW i \in 1..Len(events'), events'[i].type = "remove"
        PROVE  /\ events'[i].node \in gone'
               /\ \/ events'[i].node \in devices'
                  \/ \E j \in 1..(i - 1) : events'[j] = [type |-> "add", node |-> events'[i].node]
    <3> DEFINE m == events'[i].node
    <3>1. events'[i] = events[i + 1] /\ i + 1 \in 1..Len(events) /\ (i + 1) - 1 = i
      BY <1>2
    <3>2. m \in gone /\ (m \in devices \/ \E j \in 1..i : events[j] = [type |-> "add", node |-> m])
      BY <2>3, <3>1 DEF EventsInOrder
    <3>3. CASE m \in devices
      <4>1. m # n \/ e.type = "add"
        BY <1>3, <1>5, <2>3 DEF Event
      <4> QED BY <1>9, <3>2, <3>3, <4>1
    <3>4. ASSUME NEW j \in 1..i, events[j] = [type |-> "add", node |-> m]
          PROVE  m \in devices' \/ \E k \in 1..(i - 1) : events'[k] = [type |-> "add", node |-> m]
      <4>1. CASE j = 1
        <5>1. e = [type |-> "add", node |-> m]
          BY <1>2, <3>4, <4>1
        <5>2. n = m /\ e.type = "add"
          BY <5>1
        <5> QED BY <1>9, <5>2
      <4>2. CASE j # 1
        <5>1. j - 1 \in 1..(i - 1) /\ j - 1 \in 1..Len(events') /\ (j - 1) + 1 = j
          BY <1>2, <4>2
        <5>2. events'[j - 1] = [type |-> "add", node |-> m]
          BY <1>2, <3>4, <5>1
        <5> QED BY <5>1, <5>2
      <4> QED BY <4>1, <4>2
    <3> QED BY <3>2, <3>3, <3>4
  <2>4. devices' \subseteq graph' \cup gone' /\ graph' \cap gone' = {}
    BY <1>7, <1>9 DEF EventsInOrder
  <2> QED BY <2>1, <2>2, <2>3, <2>4 DEF EventsInOrder
<1> QED BY <1>2, <1>3, <1>4, <1>11, <1>12

\* A command goes to the end of the channel, or the first is taken.
LEMMA QueueAppends ==
  ASSUME TypeOK, QueueHolds, NEW c, queue' = Append(queue, c),
         c \in [type : {"start", "stop", "list", "reconnect"}, device : Node \cup {NoNode}],
         c.type \in {"start", "reconnect"} => c.device \in Node,
         c.type \in {"stop", "list"} => c.device = NoNode
  PROVE  /\ QueueHolds'
         /\ queue' \in Seq([type : {"start", "stop", "list", "reconnect"}, device : Node \cup {NoNode}])
<1>1. queue \in Seq([type : {"start", "stop", "list", "reconnect"}, device : Node \cup {NoNode}])
  BY DEF TypeOK
<1>2. /\ queue' \in Seq([type : {"start", "stop", "list", "reconnect"}, device : Node \cup {NoNode}])
      /\ Len(queue') = Len(queue) + 1 /\ Len(queue) \in Nat /\ queue'[Len(queue) + 1] = c
      /\ \A i \in 1..Len(queue) : queue'[i] = queue[i]
  BY <1>1
<1>3. \A i \in 1..Len(queue') : i = Len(queue) + 1 \/ i \in 1..Len(queue)
  BY <1>2
<1> QED BY <1>2, <1>3 DEF QueueHolds

LEMMA QueuePops ==
  ASSUME TypeOK, QueueHolds, Pop
  PROVE  /\ QueueHolds'
         /\ queue' \in Seq([type : {"start", "stop", "list", "reconnect"}, device : Node \cup {NoNode}])
         /\ Next1.type \in {"start", "stop", "list", "reconnect"} /\ Next1.device \in Node \cup {NoNode}
         /\ Next1.type \in {"start", "reconnect"} => Next1.device \in Node
<1>1. /\ queue \in Seq([type : {"start", "stop", "list", "reconnect"}, device : Node \cup {NoNode}])
      /\ queue # <<>> /\ queue' = Tail(queue)
  BY DEF TypeOK, Pop
<1>2. /\ Next1 = queue[1] /\ 1 \in 1..Len(queue)
      /\ Next1 \in [type : {"start", "stop", "list", "reconnect"}, device : Node \cup {NoNode}]
      /\ queue' \in Seq([type : {"start", "stop", "list", "reconnect"}, device : Node \cup {NoNode}])
      /\ \A i \in 1..Len(queue') : queue'[i] = queue[i + 1] /\ i + 1 \in 1..Len(queue)
  <2>1. Next1 = queue[1] /\ 1 \in 1..Len(queue)
    BY <1>1 DEF Next1
  <2>2. queue' \in Seq([type : {"start", "stop", "list", "reconnect"}, device : Node \cup {NoNode}])
    BY <1>1
  <2>3. Next1 \in [type : {"start", "stop", "list", "reconnect"}, device : Node \cup {NoNode}]
    <3> DEFINE C == [type : {"start", "stop", "list", "reconnect"}, device : Node \cup {NoNode}]
    <3>1. queue \in Seq(C) /\ queue # <<>>
      BY <1>1
    <3> HIDE DEF C
    <3>2. Head(queue) \in C
      BY <3>1
    <3> QED BY <3>2 DEF C, Next1
  <2>4. \A i \in 1..Len(queue') : queue'[i] = queue[i + 1] /\ i + 1 \in 1..Len(queue)
    BY <1>1
  <2> QED BY <2>1, <2>2, <2>3, <2>4
<1> QED BY <1>2 DEF QueueHolds

LEMMA WatcherKeeps == ASSUME WatcherInv, WatcherNext PROVE WatcherInv'
<1> USE DEF WatcherInv
<1>1. CASE OnGlobal
  <2>1. /\ events # <<>> /\ events' = Tail(events) /\ UNCHANGED <<external, channel, engine>>
        /\ Head(events).type = "add" /\ devices' = devices \cup {Head(events).node}
        /\ devices_cache' = devices'
    BY <1>1 DEF OnGlobal, Emit
  <2>2. /\ graph' = (devices' \cup Pending("add")') \ Pending("remove")' /\ EventsInOrder'
        /\ events' \in Seq(Event) /\ devices' \subseteq Node
    BY <2>1, TakenKeeps
  <2>3. TypeOK'
    BY <2>1, <2>2 DEF TypeOK, Event, external, channel, engine
  <2>4. QueueHolds' /\ Control' /\ StoppedStaysStopped'
    BY <2>1 DEF QueueHolds, Control, StoppedStaysStopped, channel, engine
  <2> QED BY <2>2, <2>3, <2>4 DEF MapTracksGraph
<1>2. CASE OnGlobalRemove
  <2>1. /\ events # <<>> /\ events' = Tail(events) /\ UNCHANGED <<external, sent, engine>>
        /\ Head(events).type = "remove" /\ devices' = devices \ {Head(events).node}
        /\ devices_cache' = devices'
    BY <1>2 DEF OnGlobalRemove, Emit
  <2>2. /\ graph' = (devices' \cup Pending("add")') \ Pending("remove")' /\ EventsInOrder'
        /\ events' \in Seq(Event) /\ devices' \subseteq Node
    BY <2>1, TakenKeeps
  <2>3. /\ QueueHolds'
        /\ queue' \in Seq([type : {"start", "stop", "list", "reconnect"}, device : Node \cup {NoNode}])
    <3>1. CASE UNCHANGED queue
      BY <3>1 DEF QueueHolds, TypeOK
    <3>2. ASSUME NEW m \in Fallbacks, queue' = Append(queue, Command("reconnect", m))
          PROVE  /\ QueueHolds'
                 /\ queue' \in Seq([type : {"start", "stop", "list", "reconnect"},
                                    device : Node \cup {NoNode}])
      <4>1. m \in Node
        BY DEF Fallbacks, Monitors
      <4>2. /\ Command("reconnect", m) \in [type : {"start", "stop", "list", "reconnect"},
                                            device : Node \cup {NoNode}]
            /\ Command("reconnect", m).type = "reconnect" /\ Command("reconnect", m).device = m
        BY <4>1 DEF Command
      <4> QED BY <3>2, <4>1, <4>2, QueueAppends
    <3> QED BY <1>2, <3>1, <3>2 DEF OnGlobalRemove
  <2>4. TypeOK'
    BY <2>1, <2>2, <2>3 DEF TypeOK, Event, external, engine
  <2>5. Control' /\ StoppedStaysStopped'
    BY <2>1 DEF Control, StoppedStaysStopped, engine
  <2> QED BY <2>2, <2>3, <2>4, <2>5 DEF MapTracksGraph
<1> QED BY <1>1, <1>2 DEF WatcherNext

-------------------------------------------------------------------------------
(***************************************************************************)
(* The engine and the user.                                                *)
(***************************************************************************)
LEMMA GraphStays ==
  ASSUME EventsInOrder, MapTracksGraph, TypeOK', UNCHANGED <<external, watcher>>
  PROVE  EventsInOrder' /\ MapTracksGraph'
<1> USE DEF external, watcher
<1>1. UNCHANGED <<events, graph, gone, devices>>
  OBVIOUS
<1> QED BY <1>1 DEF EventsInOrder, MapTracksGraph, Pending

LEMMA UserKeeps == ASSUME WatcherInv, UiSends PROVE WatcherInv'
<1> USE DEF WatcherInv
<1>1. PICK c \in {Command("start", n) : n \in devices} \cup
                 {Command("stop", NoNode), Command("list", NoNode)} : queue' = Append(queue, c)
  BY DEF UiSends
<1>2. UNCHANGED <<external, watcher, devices_cache, engine>>
  BY DEF UiSends
<1>3. /\ c \in [type : {"start", "stop", "list", "reconnect"}, device : Node \cup {NoNode}]
      /\ c.type \in {"start", "reconnect"} => c.device \in Node
      /\ c.type \in {"stop", "list"} => c.device = NoNode
  BY DEF Command, TypeOK
<1>4. /\ QueueHolds'
      /\ queue' \in Seq([type : {"start", "stop", "list", "reconnect"}, device : Node \cup {NoNode}])
  BY <1>1, <1>3, QueueAppends
<1>5. TypeOK'
  BY <1>2, <1>4 DEF TypeOK, external, watcher, engine
<1>6. Control' /\ StoppedStaysStopped'
  BY <1>2 DEF Control, StoppedStaysStopped, engine
<1> QED BY <1>2, <1>4, <1>5, <1>6, GraphStays

LEMMA EngineKeeps == ASSUME WatcherInv, EngineNext PROVE WatcherInv'
<1> USE DEF WatcherInv
<1>0. UNCHANGED <<external, watcher>>
  BY DEF EngineNext, HandleList, Listed, HandleStartOrStop, Joined, StartStream, StartFails,
         SessionStarted, HandleReconnect, Reconnected
<1>1. ASSUME TypeOK', QueueHolds', Control', StoppedStaysStopped' PROVE WatcherInv'
  BY <1>0, <1>1, GraphStays
<1> DEFINE Cache == devices_cache' \subseteq Node
<1>2. NoStream \in [device : Node \cup {NoNode}, type : {"none", "application", "input", "monitor"}]
      /\ \A n \in Node, C \in SUBSET Node :
           /\ [device |-> n, type |-> TypeFor(n, C)] \in
                [device : Node \cup {NoNode}, type : {"none", "application", "input", "monitor"}]
           /\ n # NoNode
  BY WatcherAssumption DEF NoStream, TypeFor
<1>3. graph \subseteq Node /\ found \subseteq Node /\ devices_cache \subseteq Node
  BY DEF TypeOK
<1>4. Enumerated => devices_cache' \subseteq Node
  BY <1>3 DEF Enumerated
<1>5. Enumerate => found' \subseteq Node
  BY <1>3 DEF Enumerate
<1> USE <1>0, <1>2, <1>3 DEF TypeOK, QueueHolds, Control, StoppedStaysStopped, external, watcher, channel
<1>6. CASE HandleList
  <2>1. Pop /\ epc = "idle"
    BY <1>6 DEF HandleList, Pop
  <2>2. TypeOK' /\ QueueHolds'
    BY <1>5, <1>6, <2>1, QueuePops DEF HandleList
  <2> QED BY <1>1, <1>6, <2>1, <2>2 DEF HandleList
<1>7. CASE Listed
  BY <1>1, <1>4, <1>7 DEF Listed
<1>8. CASE HandleStartOrStop
  <2>1. Pop
    BY <1>8 DEF HandleStartOrStop
  <2>2. TypeOK' /\ QueueHolds'
    BY <1>8, <2>1, QueuePops DEF HandleStartOrStop
  <2> QED BY <1>1, <1>8, <2>2 DEF HandleStartOrStop
<1>9. CASE Joined
  BY <1>1, <1>5, <1>9 DEF Joined
<1>10. CASE StartStream
  BY <1>1, <1>4, <1>10 DEF StartStream
<1>11. CASE SessionStarted
  BY <1>1, <1>11 DEF SessionStarted
<1>12. CASE HandleReconnect
  <2>1. Pop /\ epc = "idle" /\ Next1.type = "reconnect"
    BY <1>12 DEF HandleReconnect, Pop
  <2>2. QueueHolds' /\ Next1.device \in Node
        /\ queue' \in Seq([type : {"start", "stop", "list", "reconnect"}, device : Node \cup {NoNode}])
    BY <2>1, QueuePops
  <2>3. UNCHANGED <<sent, devices_cache, info, active>>
    BY <1>12, <2>1 DEF HandleReconnect, Pop
  <2>4. ASSUME active, epc' = "refreshing", target' = Next1.device, Enumerate, UNCHANGED told,
               stream' = [device |-> Next1.device, type |-> TypeFor(Next1.device, devices_cache)]
        PROVE  WatcherInv'
    <3>1. stream' \in [device : Node \cup {NoNode}, type : {"none", "application", "input", "monitor"}]
      BY <2>2, <2>4
    <3>2. TypeOK'
      BY <1>5, <2>2, <2>3, <2>4, <3>1
    <3> QED BY <1>1, <2>2, <2>3, <2>4, <3>2
  <2>5. ASSUME active, stream' = NoStream, told' = info, UNCHANGED <<target, epc, found>>
        PROVE  WatcherInv'
    BY <1>1, <2>1, <2>2, <2>3, <2>5
  <2>6. ASSUME ~active, UNCHANGED <<stream, target, epc, found, told>> PROVE WatcherInv'
    BY <1>1, <2>1, <2>2, <2>3, <2>6
  <2> QED BY <1>12, <2>4, <2>5, <2>6 DEF HandleReconnect
<1>13. CASE Reconnected
  BY <1>1, <1>4, <1>13 DEF Reconnected
<1>14. CASE StartFails
  BY <1>1, <1>4, <1>14 DEF StartFails
<1> QED BY <1>6, <1>7, <1>8, <1>9, <1>10, <1>11, <1>12, <1>13, <1>14 DEF EngineNext

-------------------------------------------------------------------------------
(***************************************************************************)
(* The theorems.                                                           *)
(***************************************************************************)
LEMMA InvInit == Init => WatcherInv
<1> SUFFICES ASSUME Init PROVE WatcherInv
  OBVIOUS
<1>1. /\ default_sink \in Node /\ graph = {default_sink} /\ gone = {}
      /\ events = <<[type |-> "add", node |-> default_sink]>> /\ devices = {} /\ devices_cache = {}
      /\ queue = <<>> /\ epc = "idle" /\ target = NoNode /\ found = {} /\ info = NoNode
      /\ active = FALSE /\ stream = NoStream /\ told = NoNode
  BY DEF Init, Monitors
<1>2. /\ events \in Seq(Event) /\ Len(events) = 1 /\ 1..1 = {1}
      /\ events[1] = [type |-> "add", node |-> default_sink]
  BY <1>1 DEF Event
<1>3. TypeOK
  <2>1. /\ graph \subseteq Node /\ gone \subseteq Node /\ default_sink \in graph
        /\ devices \subseteq Node /\ devices_cache \subseteq Node /\ found \subseteq Node
    BY <1>1
  <2>2. events \in Seq([type : {"add", "remove"}, node : Node])
    BY <1>2 DEF Event
  <2>3. queue \in Seq([type : {"start", "stop", "list", "reconnect"}, device : Node \cup {NoNode}])
    BY <1>1
  <2>4. /\ epc = "idle" /\ target \in Node \cup {NoNode} /\ info \in Node \cup {NoNode}
        /\ active = (info # NoNode)
    BY <1>1
  <2>5. stream \in [device : Node \cup {NoNode}, type : {"none", "application", "input", "monitor"}]
    BY <1>1 DEF NoStream
  <2>6. told \in Node \cup {NoNode} /\ default_sink \in graph \cup {NoNode}
    BY <1>1
  <2> QED BY <2>1, <2>2, <2>3, <2>4, <2>5, <2>6 DEF TypeOK
<1>4. Pending("add") = {default_sink} /\ Pending("remove") = {}
  BY <1>2 DEF Pending
<1>5. MapTracksGraph
  BY <1>1, <1>3, <1>4 DEF MapTracksGraph
<1>6. EventsInOrder
  BY <1>1, <1>2 DEF EventsInOrder
<1>7. QueueHolds /\ Control /\ StoppedStaysStopped
  BY <1>1 DEF QueueHolds, Control, StoppedStaysStopped
<1> QED BY <1>3, <1>5, <1>6, <1>7 DEF WatcherInv

LEMMA InvStep == ASSUME WatcherInv, [Next]_vars PROVE WatcherInv'
<1>1. CASE UNCHANGED vars
  <2>1. TypeOK' /\ QueueHolds' /\ Control' /\ StoppedStaysStopped'
    BY <1>1 DEF WatcherInv, TypeOK, QueueHolds, Control, StoppedStaysStopped, vars, external, watcher,
                channel, engine
  <2> QED BY <1>1, <2>1, GraphStays DEF WatcherInv, vars
<1> QED BY <1>1, AppearsKeeps, VanishesKeeps, UserKeeps, WatcherKeeps, EngineKeeps DEF Next

LEMMA WatcherInvAlways == Spec => []WatcherInv
BY InvInit, InvStep, PTL DEF Spec

\* A fallback that was sent for a session restarts nothing once the user has stopped it.
THEOREM AlwaysStoppedStaysStopped == Spec => []StoppedStaysStopped
<1>1. WatcherInv => StoppedStaysStopped
  BY DEF WatcherInv
<1> QED BY <1>1, WatcherInvAlways, PTL

\* The device list that is published differs from the graph only by the events on their way.
THEOREM AlwaysMapTracksGraph == Spec => []MapTracksGraph
<1>1. WatcherInv => MapTracksGraph
  BY DEF WatcherInv
<1> QED BY <1>1, WatcherInvAlways, PTL
===============================================================================
