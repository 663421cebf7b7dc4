-------------------------- MODULE BlockManager_proofs --------------------------
(***************************************************************************)
(* Lemmas about the lists, counts and operators that BlockManager is built *)
(* from, for any members and lengths.                                      *)
(***************************************************************************)
EXTENDS BlockManager, FiniteSetTheorems, TLAPS

\* The greater of two numbers.
LEMMA MaxOfTwo ==
  ASSUME NEW a \in Int, NEW b \in Int
  PROVE  Max({a, b}) = IF a >= b THEN a ELSE b
<1> DEFINE m == IF a >= b THEN a ELSE b
<1>1. m \in {a, b} /\ \A y \in {a, b} : m >= y
  OBVIOUS
<1>2. \A x \in {a, b} : (\A y \in {a, b} : x >= y) => x = m
  OBVIOUS
<1> QED BY <1>1, <1>2 DEF Max

\* A list without duplicates is as long as the set of its members is large.
LEMMA ListLength ==
  ASSUME NEW S, NEW l \in Seq(S), IsInjective(l)
  PROVE  /\ IsFiniteSet(Range(l)) /\ Len(l) = Cardinality(Range(l))
         /\ Range(l) \subseteq S
<1>1. Len(l) \in Nat /\ DOMAIN l = 1..Len(l)
  OBVIOUS
<1>2. l \in Bijection(1..Len(l), Range(l))
  BY <1>1 DEF Bijection, Injection, Surjection, IsInjective, Range
<1>3. ExistsBijection(1..Len(l), Range(l))
  BY <1>2 DEF ExistsBijection
<1>4. Cardinality(Range(l)) = Len(l)
  BY <1>1, <1>3, FS_CountingElements
<1>5. IsFiniteSet(Range(l))
  BY <1>1, <1>3, FS_NatBijection
<1>6. Range(l) \subseteq S
  BY DEF Range
<1> QED
  BY <1>4, <1>5, <1>6

\* The positions of kept members, numbered in their order, are numbered from 1
\* to their count.
LEMMA RankIsBijective ==
  ASSUME NEW n \in Nat, NEW P \in SUBSET (1..n)
  PROVE  /\ IsFiniteSet(P) /\ Cardinality(P) \in Nat
         /\ \A k \in 1..Cardinality(P) : \E i \in P : Cardinality({j \in P : j <= i}) = k
         /\ \A i \in P : Cardinality({j \in P : j <= i}) \in 1..Cardinality(P)
         /\ \A i, j \in P : Cardinality({m \in P : m <= i}) = Cardinality({m \in P : m <= j}) => i = j
<1> DEFINE upto(i) == {j \in P : j <= i}
           rank == [i \in P |-> Cardinality(upto(i))]
<1>1. IsFiniteSet(P) /\ Cardinality(P) \in Nat
  <2>1. IsFiniteSet(1..n)
    BY FS_Interval
  <2> QED BY <2>1, FS_Subset, FS_CardinalityType
<1>2. ASSUME NEW i \in P
      PROVE  IsFiniteSet(upto(i)) /\ Cardinality(upto(i)) \in 1..Cardinality(P)
  <2>1. upto(i) \in SUBSET P /\ i \in upto(i)
    OBVIOUS
  <2>2. IsFiniteSet(upto(i)) /\ Cardinality(upto(i)) <= Cardinality(P)
    BY <1>1, <2>1, FS_Subset
  <2>3. Cardinality(upto(i)) \in Nat
    BY <2>2, FS_CardinalityType
  <2>4. Cardinality(upto(i)) # 0
    BY <2>1, <2>2, FS_EmptySet
  <2> QED BY <1>1, <2>2, <2>3, <2>4
<1>3. ASSUME NEW i \in P, NEW j \in P, i < j
      PROVE  Cardinality(upto(i)) # Cardinality(upto(j))
  <2>1. \A m \in P : m \in Int /\ (m <= i => m <= j)
    BY <1>3
  <2>2. upto(i) \in SUBSET upto(j)
    BY <2>1
  <2>3. upto(i) # upto(j)
    <3>1. j \in upto(j) /\ j \notin upto(i)
      BY <1>3, <2>1
    <3> QED BY <3>1
  <2> QED BY <1>2, <2>2, <2>3, FS_Subset
<1>4. \A i, j \in P : Cardinality(upto(i)) = Cardinality(upto(j)) => i = j
  <2> SUFFICES ASSUME NEW i \in P, NEW j \in P, Cardinality(upto(i)) = Cardinality(upto(j))
               PROVE  i = j
    OBVIOUS
  <2>1. ~ (i < j) /\ ~ (j < i)
    BY <1>3
  <2> QED BY <2>1
<1>5. rank \in Injection(P, 1..Cardinality(P))
  BY <1>2, <1>4 DEF Injection, IsInjective
<1>6. IsFiniteSet(1..Cardinality(P)) /\ Cardinality(1..Cardinality(P)) = Cardinality(P)
  BY <1>1, FS_Interval
<1>7. rank \in Surjection(P, 1..Cardinality(P))
  BY <1>5, <1>6, FS_Injection
<1>8. \A k \in 1..Cardinality(P) : \E i \in P : Cardinality(upto(i)) = k
  BY <1>7 DEF Surjection
<1> QED
  BY <1>1, <1>2, <1>4, <1>8

\* Filter keeps exactly the members of T, each as often as before.
LEMMA FilterFacts ==
  ASSUME NEW S, NEW l \in Seq(S), NEW T
  PROVE  /\ Filter(l, T) \in Seq(S)
         /\ Range(Filter(l, T)) = Range(l) \cap T
         /\ IsInjective(l) => IsInjective(Filter(l, T))
<1> DEFINE kept == {i \in DOMAIN l : l[i] \in T}
           rank(i) == Cardinality({j \in kept : j <= i})
           pos(k) == CHOOSE i \in kept : rank(i) = k
           f == Filter(l, T)
<1>1. kept \in SUBSET (1..Len(l)) /\ Len(l) \in Nat
  OBVIOUS
<1> HIDE DEF kept
<1>2. /\ Cardinality(kept) \in Nat
      /\ \A k \in 1..Cardinality(kept) : \E i \in kept : rank(i) = k
      /\ \A i \in kept : rank(i) \in 1..Cardinality(kept)
      /\ \A i, j \in kept : rank(i) = rank(j) => i = j
  BY <1>1, RankIsBijective
<1>3. f = [k \in 1..Cardinality(kept) |-> l[pos(k)]]
  BY DEF Filter, kept
<1> HIDE DEF rank, f
<1>4. \A k \in 1..Cardinality(kept) : pos(k) \in kept /\ rank(pos(k)) = k
  BY <1>2
<1>5. \A i \in kept : pos(rank(i)) = i
  BY <1>2, <1>4
<1> HIDE DEF pos
<1>6. \A i \in kept : i \in DOMAIN l /\ l[i] \in T /\ l[i] \in S
  BY DEF kept
<1>7. \A i \in DOMAIN l : l[i] \in T => i \in kept
  BY DEF kept
<1>8. f \in Seq(S) /\ DOMAIN f = 1..Cardinality(kept)
  BY <1>2, <1>3, <1>4, <1>6
<1>9. Range(f) \subseteq Range(l) \cap T
  BY <1>3, <1>4, <1>6, <1>8 DEF Range
<1>10. Range(l) \cap T \subseteq Range(f)
  <2> SUFFICES ASSUME NEW i \in DOMAIN l, l[i] \in T PROVE \E k \in DOMAIN f : f[k] = l[i]
    BY DEF Range
  <2>1. rank(i) \in DOMAIN f /\ f[rank(i)] = l[i]
    BY <1>2, <1>3, <1>5, <1>7, <1>8
  <2> QED BY <2>1
<1>11. ASSUME IsInjective(l), NEW k \in DOMAIN f, NEW m \in DOMAIN f, f[k] = f[m]
       PROVE  k = m
  <2>1. pos(k) = pos(m)
    BY <1>3, <1>4, <1>6, <1>8, <1>11 DEF IsInjective
  <2> QED BY <1>4, <1>8, <2>1
<1> QED
  BY <1>8, <1>9, <1>10, <1>11 DEF f, IsInjective

-----------------------------------------------------------------------------
\* A list without duplicates, cut in two.
LEMMA CutList ==
  ASSUME NEW S, NEW l \in Seq(S), IsInjective(l), NEW k \in Nat, k <= Len(l)
  PROVE  /\ SubSeq(l, 1, k) \in Seq(S) /\ Len(SubSeq(l, 1, k)) = k
         /\ IsInjective(SubSeq(l, 1, k))
         /\ Drop(l, k) \in Seq(S) /\ IsInjective(Drop(l, k))
         /\ Range(SubSeq(l, 1, k)) \subseteq Range(l)
         /\ Range(Drop(l, k)) = Range(l) \ Range(SubSeq(l, 1, k))
<1> DEFINE a == SubSeq(l, 1, k)
           d == Drop(l, k)
<1>1. /\ a \in Seq(S) /\ Len(a) = k /\ DOMAIN a = 1..k
      /\ \A i \in 1..k : a[i] = l[i]
  OBVIOUS
<1>2. /\ d \in Seq(S) /\ Len(d) = Len(l) - k /\ DOMAIN d = 1 .. Len(l) - k
      /\ \A i \in 1 .. Len(l) - k : d[i] = l[k + i]
  BY DEF Drop
<1>3. Len(l) \in Nat /\ DOMAIN l = 1..Len(l)
  OBVIOUS
<1> HIDE DEF a, d
<1>4. IsInjective(a)
  BY <1>1, <1>3 DEF IsInjective
<1>5. IsInjective(d)
  <2> SUFFICES ASSUME NEW i \in DOMAIN d, NEW j \in DOMAIN d, d[i] = d[j] PROVE i = j
    BY DEF IsInjective
  <2>1. k + i \in DOMAIN l /\ k + j \in DOMAIN l
    BY <1>2, <1>3
  <2>2. l[k + i] = l[k + j]
    BY <1>2
  <2>3. k + i = k + j
    BY <2>1, <2>2 DEF IsInjective
  <2> QED BY <1>2, <2>3
<1>6. Range(a) \subseteq Range(l)
  BY <1>1, <1>3 DEF Range
<1>7. ASSUME NEW i \in DOMAIN d
      PROVE  d[i] \in Range(l) \ Range(a)
  <2>1. k + i \in DOMAIN l /\ d[i] = l[k + i]
    BY <1>2, <1>3
  <2>2. ASSUME NEW j \in DOMAIN a, a[j] = d[i] PROVE FALSE
    <3>1. j \in DOMAIN l /\ l[j] = l[k + i] /\ j <= k
      BY <1>1, <1>3, <2>1, <2>2
    <3>2. j = k + i
      BY <2>1, <3>1 DEF IsInjective
    <3> QED BY <1>1, <1>2, <3>1, <3>2
  <2> QED BY <2>1, <2>2 DEF Range
<1>8. ASSUME NEW i \in DOMAIN l, l[i] \notin Range(a)
      PROVE  l[i] \in Range(d)
  <2>1. ~ (i <= k)
    BY <1>1, <1>3, <1>8 DEF Range
  <2>2. i - k \in DOMAIN d /\ d[i - k] = l[i]
    BY <1>2, <1>3, <2>1
  <2> QED BY <2>2 DEF Range
<1>9. Range(d) = Range(l) \ Range(a)
  BY <1>7, <1>8 DEF Range
<1> QED
  BY <1>1, <1>2, <1>4, <1>5, <1>6, <1>9 DEF a, d

\* One list after the other.
LEMMA JoinLists ==
  ASSUME NEW S, NEW p \in Seq(S), NEW q \in Seq(S)
  PROVE  /\ p \o q \in Seq(S) /\ Len(p \o q) = Len(p) + Len(q)
         /\ Range(p \o q) = Range(p) \cup Range(q)
         /\ IsInjective(p) /\ IsInjective(q) /\ Range(p) \cap Range(q) = {} => IsInjective(p \o q)
<1> DEFINE l == p \o q
<1>1. /\ l \in Seq(S) /\ Len(l) = Len(p) + Len(q)
      /\ \A i \in 1..Len(p) : l[i] = p[i]
      /\ \A i \in 1..Len(q) : l[Len(p) + i] = q[i]
  OBVIOUS
<1>2. /\ DOMAIN l = 1 .. Len(p) + Len(q) /\ DOMAIN p = 1..Len(p) /\ DOMAIN q = 1..Len(q)
      /\ Len(p) \in Nat /\ Len(q) \in Nat
  BY <1>1
<1> HIDE DEF l
<1>3. ASSUME NEW i \in DOMAIN l
      PROVE  \/ i \in DOMAIN p /\ l[i] = p[i]
             \/ i - Len(p) \in DOMAIN q /\ l[i] = q[i - Len(p)]
  <2>1. CASE i <= Len(p)
    BY <1>1, <1>2, <2>1
  <2>2. CASE ~(i <= Len(p))
    <3>1. i - Len(p) \in DOMAIN q /\ i = Len(p) + (i - Len(p))
      BY <1>2, <2>2
    <3> QED BY <1>1, <1>2, <3>1
  <2> QED BY <2>1, <2>2
<1>4. \A i \in DOMAIN p : i \in DOMAIN l /\ l[i] = p[i]
  BY <1>1, <1>2
<1>5. \A i \in DOMAIN q : Len(p) + i \in DOMAIN l /\ l[Len(p) + i] = q[i]
  BY <1>1, <1>2
<1>6. Range(l) = Range(p) \cup Range(q)
  BY <1>3, <1>4, <1>5 DEF Range
<1>7. ASSUME IsInjective(p), IsInjective(q), Range(p) \cap Range(q) = {},
             NEW i \in DOMAIN l, NEW j \in DOMAIN l, l[i] = l[j]
      PROVE  i = j
  <2>1. \A x \in DOMAIN p : \A y \in DOMAIN q : p[x] # q[y]
    BY <1>7 DEF Range
  <2>2. CASE i \in DOMAIN p /\ l[i] = p[i] /\ j \in DOMAIN p /\ l[j] = p[j]
    BY <1>7, <2>2 DEF IsInjective
  <2>3. CASE /\ i - Len(p) \in DOMAIN q /\ l[i] = q[i - Len(p)]
             /\ j - Len(p) \in DOMAIN q /\ l[j] = q[j - Len(p)]
    <3>1. i - Len(p) = j - Len(p)
      BY <1>7, <2>3 DEF IsInjective
    <3> QED BY <1>2, <3>1
  <2> QED BY <1>3, <1>7, <2>1, <2>2, <2>3
<1>8. IsInjective(p) /\ IsInjective(q) /\ Range(p) \cap Range(q) = {} => IsInjective(l)
  BY <1>7 DEF IsInjective
<1> QED
  BY <1>1, <1>6, <1>8 DEF l

\* A reversed list has the same members.
LEMMA ReverseFacts ==
  ASSUME NEW S, NEW l \in Seq(S)
  PROVE  /\ Reverse(l) \in Seq(S) /\ Range(Reverse(l)) = Range(l)
         /\ IsInjective(l) => IsInjective(Reverse(l))
<1> DEFINE r == Reverse(l)
           n == Len(l)
<1>1. n \in Nat /\ DOMAIN l = 1..n /\ \A i \in 1..n : l[i] \in S
  OBVIOUS
<1>2. \A i \in 1..n : n - i + 1 \in 1..n /\ n - (n - i + 1) + 1 = i
  BY <1>1
<1>3. r = [i \in 1..n |-> l[n - i + 1]]
  BY DEF Reverse
<1> HIDE DEF n, r
<1>4. r \in Seq(S) /\ DOMAIN r = 1..n /\ \A i \in 1..n : r[i] = l[n - i + 1]
  BY <1>1, <1>2, <1>3
<1>5. Range(r) = Range(l)
  <2>1. \A i \in DOMAIN r : r[i] \in Range(l)
    BY <1>1, <1>2, <1>4 DEF Range
  <2>2. \A i \in DOMAIN l : l[i] \in Range(r)
    BY <1>1, <1>2, <1>4 DEF Range
  <2> QED BY <2>1, <2>2 DEF Range
<1>6. IsInjective(l) => IsInjective(r)
  <2> SUFFICES ASSUME IsInjective(l), NEW i \in DOMAIN r, NEW j \in DOMAIN r, r[i] = r[j]
               PROVE  i = j
    BY DEF IsInjective
  <2>1. n - i + 1 = n - j + 1
    <3>1. n - i + 1 \in DOMAIN l /\ n - j + 1 \in DOMAIN l
      BY <1>1, <1>2, <1>4
    <3>2. l[n - i + 1] = l[n - j + 1]
      BY <1>4
    <3> QED BY <3>1, <3>2 DEF IsInjective
  <2> QED BY <1>1, <1>4, <2>1
<1> QED
  BY <1>4, <1>5, <1>6 DEF r

\* The largest of some numbers up to a bound is one of them.
LEMMA MaxExists ==
  ASSUME NEW n \in Nat, NEW P \in SUBSET (0..n), P # {}
  PROVE  Max(P) \in P /\ \A x \in P : x <= Max(P)
<1> DEFINE T == {x..n : x \in P}
<1>1. T \subseteq FiniteSubsetsOf(Nat) /\ T # {}
  <2>1. ASSUME NEW x \in P PROVE x..n \in SUBSET Nat /\ IsFiniteSet(x..n)
    BY FS_Interval
  <2> QED BY <2>1 DEF FiniteSubsetsOf
<1>2. \E I \in T : \A J \in T : ~(<<J, I>> \in StrictSubsetOrdering(Nat))
  BY <1>1, FS_StrictSubsetOrderingWellFounded, WFMin
<1>3. PICK x \in P : \A y \in P : ~(<<y..n, x..n>> \in StrictSubsetOrdering(Nat))
  BY <1>2
<1>4. ASSUME NEW y \in P PROVE y <= x
  <2> SUFFICES ASSUME x < y PROVE <<y..n, x..n>> \in StrictSubsetOrdering(Nat)
    BY <1>3
  <2>1. y..n \subseteq x..n /\ x \in x..n /\ x \notin y..n /\ x..n \subseteq Nat /\ y..n \subseteq Nat
    OBVIOUS
  <2>2. y..n # x..n
    BY <2>1
  <2> QED BY <2>1, <2>2 DEF StrictSubsetOrdering
<1>5. \E m \in P : \A y \in P : m >= y
  BY <1>4
<1> QED
  BY <1>5 DEF Max

\* Division with remainder.
LEMMA Division ==
  ASSUME NEW B \in Nat \ {0}, NEW a \in Nat
  PROVE  /\ a \div B \in Nat /\ a % B \in 0..B - 1
         /\ a = (a \div B) * B + (a % B)
  BY SMT

\* A quotient is what fits.
LEMMA Quotient ==
  ASSUME NEW B \in Nat \ {0}, NEW a \in Nat, NEW q \in Nat
  PROVE  /\ q <= a \div B <=> q * B <= a
         /\ a < q * B <=> a \div B < q
<1> DEFINE d == a \div B
           r == a % B
<1>1. d \in Nat /\ r \in 0..B - 1 /\ a = d * B + r
  BY Division
<1> HIDE DEF d, r
<1>2. q * B \in Nat /\ d * B \in Nat
  BY <1>1, SMT
<1>3. CASE q <= d
  <2>1. q * B <= d * B
    BY <1>1, <1>3, SMT
  <2> QED BY <1>1, <1>2, <1>3, <2>1 DEF d
<1>4. CASE d < q
  <2>1. (d + 1) * B <= q * B
    BY <1>1, <1>4, SMT
  <2>2. (d + 1) * B = d * B + B
    BY <1>1, SMT
  <2> QED BY <1>1, <1>2, <1>4, <2>1, <2>2 DEF d
<1> QED
  BY <1>1, <1>3, <1>4

\* Blocks for n tokens: enough for them, and with one less they would not fit.
LEMMA BlocksFor ==
  ASSUME BlockSize \in Nat \ {0}, NEW n \in Nat, NEW k \in Nat
  PROVE  /\ blocks_for(n) \in Nat
         /\ n <= k * BlockSize <=> blocks_for(n) <= k
<1> DEFINE B == BlockSize
<1>1. blocks_for(n) \in Nat
  <2>1. n + B - 1 \in Nat
    OBVIOUS
  <2> QED BY <2>1, Division DEF blocks_for
<1>2. k * B \in Nat /\ (k + 1) * B = k * B + B
  BY SMT
<1>3. n + B - 1 < (k + 1) * B <=> blocks_for(n) < k + 1
  <2>1. n + B - 1 \in Nat /\ k + 1 \in Nat
    OBVIOUS
  <2> QED BY <2>1, Quotient DEF blocks_for
<1> QED
  BY <1>1, <1>2, <1>3

\* More tokens need no fewer blocks, and full blocks no more than themselves.
LEMMA BlocksForMore ==
  ASSUME BlockSize \in Nat \ {0}, NEW n \in Nat
  PROVE  /\ n <= blocks_for(n) * BlockSize
         /\ \A m \in Nat : n <= m => blocks_for(n) <= blocks_for(m)
         /\ n # 0 => blocks_for(n) # 0
         /\ \A k \in Nat : k * BlockSize <= n => k <= blocks_for(n)
<1>1. blocks_for(n) \in Nat /\ n <= blocks_for(n) * BlockSize
  BY BlocksFor
<1>2. ASSUME NEW m \in Nat, n <= m PROVE blocks_for(n) <= blocks_for(m)
  <2> DEFINE b == blocks_for(m)
  <2>1. b \in Nat /\ m <= b * BlockSize
    BY BlocksFor
  <2>2. b * BlockSize \in Nat
    BY <2>1, SMT
  <2> HIDE DEF b
  <2>3. n <= b * BlockSize
    BY <1>2, <2>1, <2>2
  <2>4. blocks_for(n) <= b
    BY <2>1, <2>3, BlocksFor
  <2> QED BY <2>4 DEF b
<1>3. n # 0 => blocks_for(n) # 0
  <2>1. 0 * BlockSize = 0
    BY SMT
  <2> QED BY <1>1, <2>1
<1>4. ASSUME NEW k \in Nat, k * BlockSize <= n PROVE k <= blocks_for(n)
  <2> DEFINE b == blocks_for(n)
  <2>1. b \in Nat /\ n <= b * BlockSize
    BY <1>1
  <2> HIDE DEF b
  <2>2. ASSUME b < k PROVE FALSE
    <3>1. (b + 1) * BlockSize <= k * BlockSize
      BY <2>1, <2>2, SMT
    <3>2. (b + 1) * BlockSize = b * BlockSize + BlockSize /\ b * BlockSize \in Nat /\ k * BlockSize \in Nat
      BY <2>1, SMT
    <3> QED BY <1>4, <2>1, <3>1, <3>2
  <2> QED BY <2>1, <2>2 DEF b
<1> QED
  BY <1>1, <1>2, <1>3, <1>4

-----------------------------------------------------------------------------
\* The lists of the allocator have no duplicates and no member in common.
ListsOK ==
  /\ free_blocks \in Seq(Blocks) /\ IsInjective(free_blocks)
  /\ evictable \in Seq(Blocks) /\ IsInjective(evictable)
  /\ Range(free_blocks) \cap Range(evictable) = {}

\* What the pops of an Acquire do to the lists: `new` is what they return.
Taken(cached, new) ==
  /\ free_blocks' \in Seq(Blocks) /\ IsInjective(free_blocks')
  /\ evictable' \in Seq(Blocks) /\ IsInjective(evictable')
  /\ Range(new) \cap Range(evictable) # {} => Range(free_blocks) \subseteq Range(new)
  /\ Range(free_blocks') = Range(free_blocks) \ Range(new)
  /\ Range(evictable') = Range(evictable) \ (Range(cached) \cup Range(new))
  /\ ref_counts' = [b \in Blocks |-> IF b \in Range(new) THEN 1
                                     ELSE IF b \in Range(cached) THEN ref_counts[b] + 1
                                     ELSE ref_counts[b]]
  /\ block_hash' = [b \in Blocks |-> IF b \in Range(new) \cap Range(evictable)
                                     THEN None ELSE block_hash[b]]
  /\ hash_to_block' = [h \in {h \in DOMAIN hash_to_block :
                                hash_to_block[h] \notin Range(new) \cap Range(evictable)}
                         |-> hash_to_block[h]]

\* An Acquire for which there is room takes distinct blocks off the two lists,
\* evictable ones only behind the last free one.
LEMMA AcquireTakes ==
  ASSUME ListsOK, NEW s, NEW cached \in Seq(Blocks), NEW k \in Nat,
         Range(cached) \cap Range(free_blocks) = {},
         k <= Len(free_blocks) + Cardinality(Range(evictable) \ Range(cached)),
         Acquire(s, cached, k)
  PROVE  \E new \in Seq(Blocks) :
           /\ IsInjective(new) /\ Len(new) = k
           /\ Range(new) \subseteq (Range(free_blocks) \cup Range(evictable)) \ Range(cached)
           /\ Taken(cached, new)
           /\ block_table' = [block_table EXCEPT ![s] = @ \o cached \o new]
<1> DEFINE lru == Filter(evictable, Blocks \ Range(cached))
           both == free_blocks \o lru
           new == SubSeq(both, 1, k)
           m == k - Len(free_blocks)
           old == SubSeq(lru, 1, m)
<1>1. /\ free_blocks \in Seq(Blocks) /\ IsInjective(free_blocks)
      /\ evictable \in Seq(Blocks) /\ IsInjective(evictable)
      /\ Range(free_blocks) \cap Range(evictable) = {}
      /\ Range(evictable) \subseteq Blocks /\ Len(free_blocks) \in Nat
  BY ListLength DEF ListsOK
<1>2. /\ free_blocks' = Drop(free_blocks, k)
      /\ evictable' = Filter(lru, Blocks \ Range(old))
      /\ ref_counts' = [b \in Blocks |-> IF b \in Range(new) THEN 1
                                         ELSE IF b \in Range(cached) THEN ref_counts[b] + 1
                                         ELSE ref_counts[b]]
      /\ block_hash' = [b \in Blocks |-> IF b \in Range(old) THEN None ELSE block_hash[b]]
      /\ hash_to_block' = [h \in {h \in DOMAIN hash_to_block : hash_to_block[h] \notin Range(old)}
                             |-> hash_to_block[h]]
      /\ block_table' = [block_table EXCEPT ![s] = @ \o cached \o new]
  BY DEF Acquire, counted, Restrict
<1> HIDE DEF lru, both, new, old, m
<1>3. /\ lru \in Seq(Blocks) /\ IsInjective(lru)
      /\ Range(lru) = Range(evictable) \ Range(cached)
  <2>1. /\ lru \in Seq(Blocks) /\ IsInjective(lru)
        /\ Range(lru) = Range(evictable) \cap (Blocks \ Range(cached))
    BY <1>1, FilterFacts DEF lru
  <2> QED BY <1>1, <2>1
<1>4. Len(lru) = Cardinality(Range(evictable) \ Range(cached)) /\ Len(lru) \in Nat
  <2>1. Len(lru) = Cardinality(Range(lru))
    BY <1>3, ListLength
  <2> QED BY <1>3, <2>1
<1>5. /\ both \in Seq(Blocks) /\ IsInjective(both) /\ Len(both) = Len(free_blocks) + Len(lru)
      /\ Range(both) = Range(free_blocks) \cup Range(lru)
  <2>1. Range(free_blocks) \cap Range(lru) = {}
    BY <1>1, <1>3
  <2> QED BY <1>1, <1>3, <2>1, JoinLists DEF both
<1>6. k <= Len(both)
  BY <1>4, <1>5
<1>7. /\ new \in Seq(Blocks) /\ Len(new) = k /\ IsInjective(new)
      /\ Range(new) \subseteq Range(free_blocks) \cup Range(lru)
  <2>1. /\ new \in Seq(Blocks) /\ Len(new) = k /\ IsInjective(new)
        /\ Range(new) \subseteq Range(both)
    BY <1>5, <1>6, CutList DEF new
  <2> QED BY <1>5, <2>1
<1>8. Filter(lru, Blocks \ Range(old)) \in Seq(Blocks) /\ IsInjective(Filter(lru, Blocks \ Range(old)))
      /\ Range(Filter(lru, Blocks \ Range(old))) = Range(lru) \ Range(old)
  <2>1. /\ Filter(lru, Blocks \ Range(old)) \in Seq(Blocks)
        /\ IsInjective(Filter(lru, Blocks \ Range(old)))
        /\ Range(Filter(lru, Blocks \ Range(old))) = Range(lru) \cap (Blocks \ Range(old))
    BY <1>3, FilterFacts
  <2> QED BY <1>1, <1>3, <2>1
\* The first Len(free_blocks) pops come from the free list.
<1>9. CASE m <= 0
  <2>1. k <= Len(free_blocks) /\ m \in Int
    BY <1>1, <1>9 DEF m
  <2>2. Range(old) = {}
    BY <1>3, <1>9, <2>1 DEF Range, old
  <2>3. new = SubSeq(free_blocks, 1, k)
    BY <1>1, <1>3, <1>5, <2>1 DEF new, both
  <2>4. /\ Drop(free_blocks, k) \in Seq(Blocks) /\ IsInjective(Drop(free_blocks, k))
        /\ Range(new) \subseteq Range(free_blocks)
        /\ Range(Drop(free_blocks, k)) = Range(free_blocks) \ Range(new)
    BY <1>1, <2>1, <2>3, CutList
  <2>5. Range(new) \cap Range(evictable) = {}
    BY <1>1, <2>4
  <2>6. Taken(cached, new)
    BY <1>2, <1>3, <1>8, <2>2, <2>4, <2>5 DEF Taken
  <2> QED BY <1>1, <1>2, <1>3, <1>7, <2>6
<1>10. CASE m > 0
  <2>1. m \in Nat /\ m <= Len(lru) /\ k > Len(free_blocks)
    BY <1>1, <1>4, <1>10 DEF m
  <2>2. /\ old \in Seq(Blocks) /\ Len(old) = m /\ Range(old) \subseteq Range(lru)
    BY <1>3, <2>1, CutList DEF old
  <2>3. /\ DOMAIN new = 1..k
        /\ \A i \in 1..Len(free_blocks) : new[i] = free_blocks[i]
        /\ \A i \in 1..m : new[Len(free_blocks) + i] = old[i]
    BY <1>1, <1>3, <1>5, <1>6, <2>1 DEF new, both, old, m
  <2>4. DOMAIN free_blocks = 1..Len(free_blocks) /\ DOMAIN old = 1..m
    BY <1>1, <2>2
  <2>5. Range(new) = Range(free_blocks) \cup Range(old)
    <3>1. \A i \in 1..k : i \in 1..Len(free_blocks) \/ (i - Len(free_blocks) \in 1..m /\ i = Len(free_blocks) + (i - Len(free_blocks)))
      BY <1>1, <2>1 DEF m
    <3>2. \A i \in 1..k : new[i] \in Range(free_blocks) \cup Range(old)
      <4> SUFFICES ASSUME NEW i \in 1..k PROVE new[i] \in Range(free_blocks) \cup Range(old)
        OBVIOUS
      <4>1. CASE i \in 1..Len(free_blocks)
        BY <2>3, <2>4, <4>1 DEF Range
      <4>2. CASE i - Len(free_blocks) \in 1..m /\ i = Len(free_blocks) + (i - Len(free_blocks))
        <5>1. PICK j \in 1..m : i = Len(free_blocks) + j
          BY <4>2
        <5> QED BY <2>3, <2>4, <5>1 DEF Range
      <4> QED BY <3>1, <4>1, <4>2
    <3>3. \A i \in 1..Len(free_blocks) : i \in 1..k
      BY <1>1, <2>1
    <3>4. \A i \in 1..m : Len(free_blocks) + i \in 1..k
      BY <1>1, <2>1 DEF m
    <3>5. Range(new) \subseteq Range(free_blocks) \cup Range(old)
      BY <2>3, <3>2 DEF Range
    <3>6. Range(free_blocks) \subseteq Range(new)
      BY <2>3, <2>4, <3>3 DEF Range
    <3>7. Range(old) \subseteq Range(new)
      BY <2>3, <2>4, <3>4 DEF Range
    <3> QED BY <3>5, <3>6, <3>7
  <2>6. Drop(free_blocks, k) = <<>>
    BY <1>1, <2>1 DEF Drop
  <2>7. /\ Drop(free_blocks, k) \in Seq(Blocks) /\ IsInjective(Drop(free_blocks, k))
        /\ Range(Drop(free_blocks, k)) = {}
    BY <2>6 DEF IsInjective, Range
  <2>8. Range(new) \cap Range(evictable) = Range(old)
    BY <1>1, <1>3, <2>2, <2>5
  <2>9. Taken(cached, new)
    <3>1. Range(free_blocks') = Range(free_blocks) \ Range(new)
      BY <1>2, <2>5, <2>7
    <3>2. Range(evictable') = Range(evictable) \ (Range(cached) \cup Range(new))
      BY <1>1, <1>2, <1>3, <1>8, <2>5
    <3> QED BY <1>2, <1>8, <2>5, <2>7, <2>8, <3>1, <3>2 DEF Taken
  <2> QED BY <1>1, <1>2, <1>3, <1>7, <2>9
<1> QED
  <2>1. m <= 0 \/ m > 0
    BY <1>1 DEF m
  <2> QED BY <1>9, <1>10, <2>1, Zenon

\* A Release puts the blocks that s held alone, each once, behind the list they
\* belong to.
LEMMA ReleaseReturns ==
  ASSUME ListsOK, NEW s, NEW table \in Seq(Blocks), table = block_table[s], IsInjective(table),
         Range(table) \cap (Range(free_blocks) \cup Range(evictable)) = {},
         Release(s)
  PROVE  /\ free_blocks' \in Seq(Blocks) /\ IsInjective(free_blocks')
         /\ evictable' \in Seq(Blocks) /\ IsInjective(evictable')
         /\ Range(free_blocks') = Range(free_blocks)
              \cup {b \in Range(table) : ref_counts[b] = 1 /\ block_hash'[b] = None}
         /\ Range(evictable') = Range(evictable)
              \cup {b \in Range(table) : ref_counts[b] = 1 /\ block_hash'[b] # None}
<1> DEFINE alone == {b \in Blocks : ref_counts[b] = 1}
           last == Filter(Reverse(table), alone)
           unpub == {b \in Blocks : block_hash'[b] = None}
           pub == {b \in Blocks : block_hash'[b] # None}
<1>1. /\ evictable' = evictable \o Filter(last, pub)
      /\ free_blocks' = free_blocks \o Filter(last, unpub)
  BY DEF Release, published, unpublished
<1>2. /\ free_blocks \in Seq(Blocks) /\ IsInjective(free_blocks)
      /\ evictable \in Seq(Blocks) /\ IsInjective(evictable)
      /\ Range(table) \subseteq Blocks
  BY ListLength DEF ListsOK
<1>3. Reverse(table) \in Seq(Blocks) /\ Range(Reverse(table)) = Range(table) /\ IsInjective(Reverse(table))
  BY ReverseFacts
<1> HIDE DEF last, alone, unpub, pub
<1>4. /\ last \in Seq(Blocks) /\ IsInjective(last)
      /\ Range(last) = Range(table) \cap alone
  BY <1>3, FilterFacts DEF last
<1>5. /\ Filter(last, pub) \in Seq(Blocks) /\ IsInjective(Filter(last, pub))
      /\ Range(Filter(last, pub)) = Range(last) \cap pub
  BY <1>4, FilterFacts
<1>6. /\ Filter(last, unpub) \in Seq(Blocks) /\ IsInjective(Filter(last, unpub))
      /\ Range(Filter(last, unpub)) = Range(last) \cap unpub
  BY <1>4, FilterFacts
<1>7. /\ Range(free_blocks) \cap Range(Filter(last, unpub)) = {}
      /\ Range(evictable) \cap Range(Filter(last, pub)) = {}
  BY <1>4, <1>5, <1>6
<1>8. /\ free_blocks' \in Seq(Blocks) /\ IsInjective(free_blocks')
      /\ Range(free_blocks') = Range(free_blocks) \cup Range(Filter(last, unpub))
  BY <1>1, <1>2, <1>6, <1>7, JoinLists
<1>9. /\ evictable' \in Seq(Blocks) /\ IsInjective(evictable')
      /\ Range(evictable') = Range(evictable) \cup Range(Filter(last, pub))
  BY <1>1, <1>2, <1>5, <1>7, JoinLists
<1>10. /\ Range(last) \cap unpub = {b \in Range(table) : ref_counts[b] = 1 /\ block_hash'[b] = None}
       /\ Range(last) \cap pub = {b \in Range(table) : ref_counts[b] = 1 /\ block_hash'[b] # None}
  BY <1>2, <1>4 DEF alone, unpub, pub
<1> QED
  BY <1>5, <1>6, <1>8, <1>9, <1>10

\* The cached prefix of s: blocks found under the hashes of its first positions,
\* which leave at least one token to compute.
LEMMA CachedPrefix ==
  ASSUME NEW s, num_tokens(s) \in Nat \ {0}
  PROVE  \E k \in Nat :
           /\ cached_prefix(s) = [j \in 1..k |-> hash_to_block[Hash(s, j)]]
           /\ k * BlockSize < num_tokens(s)
           /\ \A j \in 1..k : Hash(s, j) \in DOMAIN hash_to_block
           /\ ~PrefixCaching => k = 0
<1> DEFINE m == IF PrefixCaching THEN (num_tokens(s) - 1) \div BlockSize ELSE 0
           P == {k \in 0..m : \A j \in 1..k : Hash(s, j) \in DOMAIN hash_to_block}
<1>1. m \in Nat /\ m <= (num_tokens(s) - 1) \div BlockSize /\ (num_tokens(s) - 1) \div BlockSize \in Nat
  <2>1. num_tokens(s) - 1 \in Nat /\ BlockSize \in Nat \ {0}
    BY PoolAssumption
  <2>2. (num_tokens(s) - 1) \div BlockSize \in Nat
    BY <2>1, Division
  <2> QED BY <2>2
<1>2. cached_prefix(s) = [j \in 1..Max(P) |-> hash_to_block[Hash(s, j)]]
  BY DEF cached_prefix
<1>3. ~PrefixCaching => m = 0
  OBVIOUS
<1> HIDE DEF m
<1>4. P \in SUBSET (0..m) /\ 0 \in P
  BY <1>1
<1>5. PICK k \in P : k = Max(P)
  BY <1>1, <1>4, MaxExists
<1>6. k \in Nat /\ k <= (num_tokens(s) - 1) \div BlockSize /\ (~PrefixCaching => k = 0)
  BY <1>1, <1>3, <1>5
<1>7. k * BlockSize <= num_tokens(s) - 1
  <2>1. num_tokens(s) - 1 \in Nat /\ BlockSize \in Nat \ {0}
    BY PoolAssumption
  <2> QED BY <1>6, <2>1, Quotient
<1>8. k * BlockSize \in Nat
  BY <1>6, PoolAssumption, SMT
<1>9. \A j \in 1..k : Hash(s, j) \in DOMAIN hash_to_block
  BY <1>5
<1>10. cached_prefix(s) = [j \in 1..k |-> hash_to_block[Hash(s, j)]]
  BY <1>2, <1>5
<1>11. k * BlockSize < num_tokens(s)
  BY <1>7, <1>8
<1> HIDE DEF P
<1> QED
  BY <1>6, <1>9, <1>10, <1>11
=============================================================================
