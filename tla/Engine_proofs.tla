---------------------------- MODULE Engine_proofs ----------------------------
(***************************************************************************)
(* Engine, for any requests, pool, policy, mode and batch layout: what the *)
(* layout of a batch guarantees for every block size and either backend;   *)
(* and that the pages hold what the tables, the queued copies and the      *)
(* published hashes say, through every step of the scheduler, so that a    *)
(* sequence always reads its own context.                                  *)
(***************************************************************************)
EXTENDS Engine, Scheduler_proofs

-----------------------------------------------------------------------------
\* The layout of a batch.

\* Division with remainder is unique.
LEMMA DivisionUnique ==
  ASSUME NEW B \in Nat \ {0}, NEW a \in Int, NEW b \in Int,
         NEW r \in 0..B - 1, NEW s \in 0..B - 1, a * B + r = b * B + s
  PROVE  a = b /\ r = s
<1>1. CASE a < b
  <2>1. (b - a) * B >= B
    BY <1>1, SMT
  <2>2. b * B - a * B = (b - a) * B
    BY SMT
  <2> QED BY <2>1, <2>2, SMT
<1>2. CASE b < a
  <2>1. (a - b) * B >= B
    BY <1>2, SMT
  <2>2. a * B - b * B = (a - b) * B
    BY SMT
  <2> QED BY <2>1, <2>2, SMT
<1>3. CASE a = b
  BY <1>3, SMT
<1> QED BY <1>1, <1>2, <1>3, SMT

\* A position is its page's first one plus its offset.
LEMMA DivisionFacts ==
  ASSUME NEW B \in Nat \ {0}, NEW p \in Nat
  PROVE  /\ p \div B \in Nat /\ p % B \in 0..B - 1
         /\ p = (p \div B) * B + (p % B)
  BY SMT

\* A row's table covers its positions, and no page more.
LEMMA PageCount ==
  ASSUME BlockSize \in Nat \ {0}, NEW n \in Nat \ {0}
  PROVE  /\ pages(n) \in Nat \ {0}
         /\ n - (pages(n) - 1) * BlockSize \in 1..BlockSize
         /\ \A p \in 0..n - 1 : p \div BlockSize + 1 \in 1..pages(n)
<1> DEFINE P == pages(n)
           r == (n + BlockSize - 1) % BlockSize
<1>1. P \in Nat /\ r \in 0..BlockSize - 1 /\ n + BlockSize - 1 = P * BlockSize + r
  <2> DEFINE m == n + BlockSize - 1
  <2>1. m \in Nat
    OBVIOUS
  <2> HIDE DEF m
  <2>2. /\ m \div BlockSize \in Nat /\ m % BlockSize \in 0..BlockSize - 1
        /\ m = (m \div BlockSize) * BlockSize + (m % BlockSize)
    BY <2>1, DivisionFacts
  <2> QED BY <2>2 DEF m, pages
<1> HIDE DEF P, r
<1>2. P # 0
  BY <1>1, SMT
<1>3. (P - 1) * BlockSize = P * BlockSize - BlockSize
  BY <1>1, SMT
<1>4. n - (P - 1) * BlockSize \in 1..BlockSize
  BY <1>1, <1>3, SMT
<1>5. ASSUME NEW p \in 0..n - 1
      PROVE  p \div BlockSize + 1 \in 1..P
  <2> DEFINE q == p \div BlockSize
             s == p % BlockSize
  <2>1. q \in Nat /\ s \in 0..BlockSize - 1 /\ p = q * BlockSize + s
    BY DivisionFacts, p \in Nat, SMT
  <2> HIDE DEF q, s
  <2>2. CASE q >= P
    <3>1. q * BlockSize >= P * BlockSize
      BY <1>1, <2>1, <2>2, SMT
    <3> QED BY <1>1, <2>1, <3>1, SMT
  <2>3. q + 1 \in 1..P
    BY <1>1, <2>1, <2>2, SMT
  <2> QED BY <2>3 DEF q
<1> QED BY <1>1, <1>2, <1>4, <1>5 DEF P

\* Two positions with one slot.
Meet(t, p, u, q) ==
  /\ p \div BlockSize + 1 \in DOMAIN t /\ q \div BlockSize + 1 \in DOMAIN u
  /\ Slot(t, p) = Slot(u, q)

\* They have the same offset in one page.
Agree(t, p, u, q) ==
  /\ t[p \div BlockSize + 1] = u[q \div BlockSize + 1]
  /\ p % BlockSize = q % BlockSize
  /\ t = u /\ IsInjective(t) => p = q

LEMMA MeetInOnePage ==
  ASSUME BlockSize \in Nat \ {0}, NEW t \in Seq(Int), NEW u \in Seq(Int), NEW p \in Nat, NEW q \in Nat,
         Meet(t, p, u, q)
  PROVE  Agree(t, p, u, q)
<1> DEFINE a == t[p \div BlockSize + 1]
           b == u[q \div BlockSize + 1]
           c == p \div BlockSize
           d == q \div BlockSize
           r == p % BlockSize
           s == q % BlockSize
<1>1. a \in Int /\ b \in Int
  BY DEF Meet
<1>2. /\ c \in Nat /\ r \in 0..BlockSize - 1 /\ p = c * BlockSize + r
      /\ d \in Nat /\ s \in 0..BlockSize - 1 /\ q = d * BlockSize + s
  BY DivisionFacts
<1>3. a * BlockSize + r = b * BlockSize + s
  BY DEF Meet, Slot
<1>4. a = t[c + 1] /\ b = u[d + 1] /\ c + 1 \in DOMAIN t /\ d + 1 \in DOMAIN u
  BY DEF Meet
<1> HIDE DEF a, b, c, d, r, s
<1>5. a = b /\ r = s
  <2>1. \A x, y \in Int : \A v, w \in 0..BlockSize - 1 :
          x * BlockSize + v = y * BlockSize + w => x = y /\ v = w
    BY DivisionUnique
  <2>2. \A v, w \in 0..BlockSize - 1 : a * BlockSize + v = b * BlockSize + w => a = b /\ v = w
    BY <1>1, <2>1, Zenon
  <2>3. a * BlockSize + r = b * BlockSize + s => a = b /\ r = s
    BY <1>2, <2>2, Zenon
  <2> QED BY <1>3, <2>3, Zenon
<1>6. ASSUME t = u, IsInjective(t)
      PROVE  p = q
  <2>1. c + 1 = d + 1
    BY <1>4, <1>5, <1>6 DEF IsInjective
  <2>2. c = d
    BY <1>2, <2>1
  <2> QED BY <1>2, <1>5, <2>2
<1> QED BY <1>5, <1>6 DEF Agree, a, b, r, s

\* Two positions share a slot only if they have the same offset in a page that
\* both tables hold, so a batch whose new positions are in private pages writes
\* no slot twice; and a sequence whose table names no block twice has one slot
\* per position.
THEOREM SlotsAreDistinct ==
  ASSUME BlockSize \in Nat \ {0},
         NEW t \in Seq(Int), NEW u \in Seq(Int), NEW p \in Nat, NEW q \in Nat,
         p \div BlockSize + 1 \in DOMAIN t, q \div BlockSize + 1 \in DOMAIN u,
         Slot(t, p) = Slot(u, q)
  PROVE  /\ t[p \div BlockSize + 1] = u[q \div BlockSize + 1]
         /\ p % BlockSize = q % BlockSize
         /\ t = u /\ IsInjective(t) => p = q
<1>1. Meet(t, p, u, q)
  BY DEF Meet
<1>2. Agree(t, p, u, q)
  BY <1>1, MeetInOnePage
<1> QED BY <1>2 DEF Agree

\* A position of a sequence lies in the pool, and the padding of a CUDA-graph
\* batch does not: padded rows neither write nor read a page of the pool.
THEOREM PaddingLeavesThePool ==
  ASSUME BlockSize \in Nat \ {0}, NumBlocks \in Nat,
         NEW t \in Seq(0..NumBlocks - 1), NEW p \in Nat, p \div BlockSize + 1 \in DOMAIN t
  PROVE  /\ Slot(t, p) \in 0..NumBlocks * BlockSize - 1
         /\ Slot(padding.table, padding.start) \notin 0..NumBlocks * BlockSize - 1
<1> DEFINE b == t[p \div BlockSize + 1]
           r == p % BlockSize
<1>1. b \in 0..NumBlocks - 1
  OBVIOUS
<1>2. r \in 0..BlockSize - 1
  BY DivisionFacts
<1>3. Slot(t, p) = b * BlockSize + r
  BY DEF Slot
<1> HIDE DEF b, r
<1>4. b * BlockSize >= 0 /\ b * BlockSize <= (NumBlocks - 1) * BlockSize
  BY <1>1, SMT
<1>5. (NumBlocks - 1) * BlockSize = NumBlocks * BlockSize - BlockSize
  BY SMT
<1>6. b * BlockSize \in Int /\ NumBlocks * BlockSize \in Int
  BY <1>1, SMT
<1>7. b * BlockSize + r \in 0..NumBlocks * BlockSize - 1
  BY <1>2, <1>4, <1>5, <1>6, SMT
<1>8. 0 \div BlockSize = 0 /\ 0 % BlockSize = 0
  BY SMT
<1>9. Slot(padding.table, padding.start) = NumBlocks * BlockSize
  BY <1>6, <1>8 DEF Slot, padding, scratch_block
<1> QED BY <1>3, <1>6, <1>7, <1>9

\* The slots of a row are those of its table.
LEMMA RowKeepsSlots ==
  ASSUME BlockSize \in Nat \ {0}, NEW S, NEW t \in Seq(S), NEW start \in Nat,
         NEW n \in Nat \ {0}, pages(start + n) <= Len(t)
  PROVE  \A p \in 0..start + n - 1 : Slot(Row(t, start, n).table, p) = Slot(t, p)
<1>1. PICK m \in Nat \ {0} : m = start + n
  OBVIOUS
<1> DEFINE P == pages(m)
           table == Row(t, start, n).table
<1>2. P \in Nat \ {0} /\ \A p \in 0..m - 1 : p \div BlockSize + 1 \in 1..P
  BY PageCount
<1>3. table = SubSeq(t, 1, P) /\ P <= Len(t)
  BY <1>1 DEF Row
<1> HIDE DEF P, table
<1>4. \A k \in 1..P : table[k] = t[k]
  BY <1>2, <1>3
<1>5. \A p \in 0..m - 1 : Slot(table, p) = Slot(t, p)
  BY <1>2, <1>4 DEF Slot
<1> QED BY <1>1, <1>5 DEF table

\* The page index gives a kernel exactly the positions of a row: all its pages
\* but the last are full, and the last one holds the rest.
THEOREM IndexCoversRow ==
  ASSUME BlockSize \in Nat \ {0}, NEW S, NEW t \in Seq(S), NEW start \in Nat,
         NEW n \in Nat \ {0}, pages(start + n) <= Len(t)
  PROVE  LET row  == Row(t, start, n)
             last == kv_len(row) - (Len(row.table) - 1) * BlockSize
         IN /\ last \in 1..BlockSize
            /\ (Len(row.table) - 1) * BlockSize + last = start + n
            /\ \A p \in 0..start + n - 1 :
                 /\ p \div BlockSize + 1 \in DOMAIN row.table
                 /\ Slot(row.table, p) = Slot(t, p)
<1>1. PICK m \in Nat \ {0} : m = start + n
  OBVIOUS
<1> DEFINE row == Row(t, start, n)
           P == pages(m)
<1>2. /\ P \in Nat \ {0}
      /\ m - (P - 1) * BlockSize \in 1..BlockSize
      /\ \A p \in 0..m - 1 : p \div BlockSize + 1 \in 1..P
  BY PageCount
<1>3. kv_len(row) = m /\ row.table = SubSeq(t, 1, P)
  BY <1>1 DEF kv_len, Row
<1> HIDE DEF P, row
<1>4. P <= Len(t)
  BY <1>1 DEF P
<1>5. /\ Len(SubSeq(t, 1, P)) = P /\ DOMAIN SubSeq(t, 1, P) = 1..P
      /\ \A k \in 1..P : SubSeq(t, 1, P)[k] = t[k]
  <2>1. P \in Nat
    BY <1>2
  <2>2. Len(SubSeq(t, 1, P)) = P /\ DOMAIN SubSeq(t, 1, P) = 1..P
    BY <2>1
  <2>3. \A k \in 1..P : SubSeq(t, 1, P)[k] = t[k]
    BY <2>1
  <2> QED BY <2>2, <2>3
<1>6. (P - 1) * BlockSize \in Int
  BY <1>2, SMT
<1>7. (P - 1) * BlockSize + (m - (P - 1) * BlockSize) = m
  BY <1>6, SMT
<1>8. ASSUME NEW p \in 0..m - 1
      PROVE  Slot(row.table, p) = Slot(t, p)
  BY <1>2, <1>3, <1>5 DEF Slot
<1>9. Len(row.table) = P /\ DOMAIN row.table = 1..P
  BY <1>3, <1>5
<1> DEFINE last == kv_len(row) - (Len(row.table) - 1) * BlockSize
<1>10. (Len(row.table) - 1) * BlockSize = (P - 1) * BlockSize
  BY <1>9, Zenon
<1>11. last = m - (P - 1) * BlockSize
  BY <1>3, <1>10, Zenon
<1> HIDE DEF last
<1>12. last \in 1..BlockSize /\ (P - 1) * BlockSize + last = m
  BY <1>2, <1>7, <1>11, Zenon
<1>13. (Len(row.table) - 1) * BlockSize + last = start + n
  BY <1>1, <1>10, <1>12, Zenon
<1>14. \A p \in 0..m - 1 :
         p \div BlockSize + 1 \in DOMAIN row.table /\ Slot(row.table, p) = Slot(t, p)
  BY <1>2, <1>8, <1>9, Zenon
<1>15. \A p \in 0..start + n - 1 :
         p \div BlockSize + 1 \in DOMAIN row.table /\ Slot(row.table, p) = Slot(t, p)
  <2>1. 0..start + n - 1 = 0..m - 1
    BY <1>1
  <2> QED BY <1>14, <2>1, Zenon
<1> QED BY <1>12, <1>13, <1>15, Zenon DEF last, row

-----------------------------------------------------------------------------
\* The page index of a batch.  Its two recursive functions are what they are
\* defined to be, which takes a proof: the library's theorem on recursive
\* functions has an operator parameter.

PageSums(R, f) == f = [k \in 0..Len(R) |-> IF k = 0 THEN 0 ELSE f[k - 1] + Len(R[k].table)]

Flattened(T, g) == g = [k \in 1..Len(T) |-> IF k = 1 THEN T[k] ELSE g[k - 1] \o T[k]]

LEMMA IndexUnfolds ==
  ASSUME NEW R
  PROVE  /\ paged_kv_index(R).indptr = CHOOSE f : PageSums(R, f)
         /\ Len([k \in DOMAIN R |-> R[k].table]) # 0 =>
              paged_kv_index(R).indices =
                (CHOOSE g : Flattened([k \in DOMAIN R |-> R[k].table], g))
                  [Len([k \in DOMAIN R |-> R[k].table])]
         /\ paged_kv_index(R).last_page_len
              = [k \in DOMAIN R |-> kv_len(R[k]) - (Len(R[k].table) - 1) * BlockSize]
<1>1. paged_kv_index(R).indptr = CHOOSE f : PageSums(R, f)
  BY Zenon DEF paged_kv_index, PageSums
<1>2. Len([k \in DOMAIN R |-> R[k].table]) # 0 =>
        paged_kv_index(R).indices =
          (CHOOSE g : Flattened([k \in DOMAIN R |-> R[k].table], g))
            [Len([k \in DOMAIN R |-> R[k].table])]
  BY Zenon DEF paged_kv_index, Flattened, FlattenSeq
<1>3. paged_kv_index(R).last_page_len
        = [k \in DOMAIN R |-> kv_len(R[k]) - (Len(R[k].table) - 1) * BlockSize]
  BY DEF paged_kv_index
<1> QED BY <1>1, <1>2, <1>3

\* If a statement on 0..N can always be taken one further, it reaches N: G is
\* the set of numbers that it holds for.
LEMMA ReachesEnd ==
  ASSUME NEW N \in Nat, NEW G \in SUBSET (0..N), 0 \in G,
         \A m \in G : m < N => m + 1 \in G
  PROVE  N \in G
<1>1. Max(G) \in G /\ \A x \in G : x <= Max(G)
  BY MaxExists
<1>2. PICK m \in G : m = Max(G)
  BY <1>1
<1>3. m \in 0..N
  OBVIOUS
<1>4. ~(m < N)
  <2>1. m + 1 \in G => m + 1 <= m
    BY <1>1, <1>2
  <2>2. ~(m + 1 <= m)
    BY <1>3
  <2> QED BY <2>1, <2>2
<1>5. m = N
  BY <1>3, <1>4
<1> QED BY <1>5

LEMMA PageSumsExist ==
  ASSUME NEW R, NEW N \in Nat, Len(R) = N, \A k \in 1..N : Len(R[k].table) \in Nat
  PROVE  \E f : PageSums(R, f)
<1> DEFINE Sums(m, f) == f \in [0..m -> Nat] /\ f[0] = 0 /\ \A k \in 1..m : f[k] = f[k - 1] + Len(R[k].table)
           G == {m \in 0..N : \E f : Sums(m, f)}
<1>1. 0 \in G
  <2>1. Sums(0, [k \in 0..0 |-> 0])
    OBVIOUS
  <2> HIDE DEF Sums
  <2> QED BY <2>1
<1>2. ASSUME NEW m \in G, m < N PROVE m + 1 \in G
  <2>1. PICK f : Sums(m, f)
    OBVIOUS
  <2> DEFINE h == [k \in 0..m + 1 |-> IF k = m + 1 THEN f[m] + Len(R[m + 1].table) ELSE f[k]]
  <2>2. m \in 0..N /\ m + 1 \in 1..N
    BY <1>2
  <2>3. f[m] \in Nat /\ Len(R[m + 1].table) \in Nat
    BY <2>1, <2>2
  <2>4. h \in [0..m + 1 -> Nat]
    BY <2>1, <2>2, <2>3
  <2>5. h[0] = 0 /\ h[m + 1] = h[m] + Len(R[m + 1].table)
    BY <2>1, <2>2
  <2>6. ASSUME NEW k \in 1..m PROVE h[k] = h[k - 1] + Len(R[k].table)
    <3>1. k \in 0..m + 1 /\ k - 1 \in 0..m + 1 /\ k # m + 1 /\ k - 1 # m + 1
      BY <2>2
    <3>2. h[k] = f[k] /\ h[k - 1] = f[k - 1]
      BY <3>1
    <3> QED BY <2>1, <3>2
  <2>7. \A k \in 1..m + 1 : k \in 1..m \/ k = m + 1
    BY <2>2
  <2>8. (m + 1) - 1 = m
    BY <2>2
  <2>9. Sums(m + 1, h)
    <3> HIDE DEF h
    <3> QED BY <2>4, <2>5, <2>6, <2>7, <2>8
  <2>10. m + 1 \in 0..N
    BY <2>2
  <2> HIDE DEF Sums
  <2> QED BY <2>9, <2>10
<1>3. N \in G
  <2>1. G \in SUBSET (0..N)
    OBVIOUS
  <2> HIDE DEF G
  <2> QED BY <1>1, <1>2, <2>1, ReachesEnd
<1>4. PICK f : Sums(N, f)
  BY <1>3
<1>5. \A k \in 0..N : f[k] = IF k = 0 THEN 0 ELSE f[k - 1] + Len(R[k].table)
  BY <1>4
<1>6. f = [k \in 0..N |-> f[k]]
  BY <1>4
<1> HIDE DEF Sums
<1>7. f = [k \in 0..N |-> IF k = 0 THEN 0 ELSE f[k - 1] + Len(R[k].table)]
  BY <1>5, <1>6
<1> QED BY <1>7 DEF PageSums

LEMMA FlattenedExists ==
  ASSUME NEW S, NEW T \in Seq(Seq(S))
  PROVE  \E g : Flattened(T, g)
<1> DEFINE N == Len(T)
           Flat(m, g) == g \in [1..m -> Seq(S)] /\ \A k \in 1..m : g[k] = IF k = 1 THEN T[k] ELSE g[k - 1] \o T[k]
           G == {m \in 0..N : \E g : Flat(m, g)}
<1>1. N \in Nat /\ \A k \in 1..N : T[k] \in Seq(S)
  OBVIOUS
<1> HIDE DEF N
<1>2. 0 \in G
  <2>1. Flat(0, [k \in 1..0 |-> T[k]])
    OBVIOUS
  <2>2. 0 \in 0..N
    BY <1>1
  <2> HIDE DEF Flat
  <2> QED BY <2>1, <2>2
<1>3. ASSUME NEW m \in G, m < N PROVE m + 1 \in G
  <2>1. PICK g : Flat(m, g)
    OBVIOUS
  <2> DEFINE next == IF m = 0 THEN T[1] ELSE g[m] \o T[m + 1]
             h == [k \in 1..m + 1 |-> IF k = m + 1 THEN next ELSE g[k]]
  <2>2. m \in 0..N /\ m + 1 \in 1..N /\ m \in Nat
    BY <1>1, <1>3
  <2>3. next \in Seq(S)
    <3>1. CASE m = 0
      BY <1>1, <2>2, <3>1
    <3>2. CASE m # 0
      <4>1. g[m] \in Seq(S)
        BY <2>1, <2>2, <3>2
      <4>2. T[m + 1] \in Seq(S)
        BY <1>1, <2>2
      <4> QED BY <3>2, <4>1, <4>2
    <3> QED BY <3>1, <3>2
  <2>4. next = IF m + 1 = 1 THEN T[m + 1] ELSE g[m] \o T[m + 1]
    BY <2>2
  <2> HIDE DEF next
  <2>5. h \in [1..m + 1 -> Seq(S)]
    BY <2>1, <2>2, <2>3
  <2>6. ASSUME NEW k \in 1..m PROVE h[k] = IF k = 1 THEN T[k] ELSE h[k - 1] \o T[k]
    <3>1. k \in 1..m + 1 /\ k # m + 1 /\ (k # 1 => k - 1 \in 1..m + 1 /\ k - 1 # m + 1)
      BY <2>2
    <3>2. h[k] = g[k] /\ (k # 1 => h[k - 1] = g[k - 1])
      BY <3>1
    <3> HIDE DEF h
    <3> QED BY <2>1, <3>2
  <2>7. h[m + 1] = IF m + 1 = 1 THEN T[m + 1] ELSE h[m] \o T[m + 1]
    <3>1. h[m + 1] = next
      BY <2>2
    <3>2. m + 1 # 1 => h[m] = g[m]
      BY <2>2
    <3> HIDE DEF h
    <3> QED BY <2>4, <3>1, <3>2
  <2>8. \A k \in 1..m + 1 : k \in 1..m \/ k = m + 1
    BY <2>2
  <2>9. (m + 1) - 1 = m
    BY <2>2
  <2>10. Flat(m + 1, h)
    <3> HIDE DEF h
    <3> QED BY <2>5, <2>6, <2>7, <2>8, <2>9
  <2>11. m + 1 \in 0..N
    BY <2>2
  <2> HIDE DEF Flat, h
  <2> QED BY <2>10, <2>11
<1>4. N \in G
  <2>1. G \in SUBSET (0..N)
    OBVIOUS
  <2> HIDE DEF G
  <2> QED BY <1>1, <1>2, <1>3, <2>1, ReachesEnd
<1>5. PICK g : Flat(N, g)
  BY <1>4
<1>6. g = [k \in 1..N |-> IF k = 1 THEN T[k] ELSE g[k - 1] \o T[k]]
  BY <1>5
<1> QED BY <1>6 DEF Flattened, N

\* The pages of the first m rows are in the first f[m] places of g[m].
Indexed(T, f, g, m) ==
  /\ f[m] \in Nat
  /\ m # 0 => Len(g[m]) = f[m]
  /\ \A l \in 1..m :
       /\ f[l - 1] \in Nat /\ f[l] = f[l - 1] + Len(T[l]) /\ f[l] <= f[m]
       /\ \A j \in 1..Len(T[l]) : g[m][f[l - 1] + j] = T[l][j]

LEMMA IndexStep ==
  ASSUME NEW S, NEW T \in Seq(Seq(S)), NEW f, NEW g, NEW m \in 0..Len(T) - 1, Indexed(T, f, g, m),
         m # 0 => g[m] \in Seq(S), f[0] = 0, f[m + 1] = f[m] + Len(T[m + 1]),
         g[m + 1] = IF m + 1 = 1 THEN T[m + 1] ELSE g[m] \o T[m + 1]
  PROVE  Indexed(T, f, g, m + 1) /\ g[m + 1] \in Seq(S)
<1>1. m \in Nat /\ m + 1 \in 1..Len(T) /\ m + 1 - 1 = m /\ m + 1 # 0
  OBVIOUS
<1>2. T[m + 1] \in Seq(S) /\ Len(T[m + 1]) \in Nat
  BY <1>1
<1>3. f[m] \in Nat /\ f[m + 1] \in Nat /\ f[m] <= f[m + 1]
  BY <1>2 DEF Indexed
<1>4. PICK u \in Seq(S) : u = T[m + 1]
  BY <1>2
<1>5. CASE m = 0
  <2>1. g[1] = T[1] /\ f[1] = Len(T[1]) /\ f[0] = 0 /\ 1 \in 1..1
    BY <1>1, <1>2, <1>5
  <2>2. \A l \in 1..1 : l = 1
    OBVIOUS
  <2>3. \A j \in 1..Len(T[1]) : 0 + j = j
    OBVIOUS
  <2>4. 1 - 1 = 0 /\ Len(T[1]) \in Nat /\ g[1] \in Seq(S)
    BY <1>2, <1>5, <2>1
  <2>5. Indexed(T, f, g, 1)
    BY <2>1, <2>2, <2>3, <2>4 DEF Indexed
  <2> QED BY <1>5, <2>4, <2>5
<1>6. CASE m # 0
  <2>1. PICK v \in Seq(S) : v = g[m] /\ Len(v) = f[m]
    BY <1>6 DEF Indexed
  <2>2. g[m + 1] = v \o u
    <3>1. m + 1 # 1
      BY <1>1, <1>6
    <3>2. g[m + 1] = g[m] \o T[m + 1]
      BY <3>1
    <3> QED BY <1>4, <2>1, <3>2
  <2>3. /\ v \o u \in Seq(S) /\ Len(v \o u) = Len(v) + Len(u)
        /\ \A j \in 1..Len(v) : (v \o u)[j] = v[j]
        /\ \A j \in 1..Len(u) : (v \o u)[Len(v) + j] = u[j]
    OBVIOUS
  <2>4. Len(g[m + 1]) = f[m + 1]
    BY <1>4, <2>1, <2>2, <2>3
  <2>5. ASSUME NEW l \in 1..m
        PROVE  /\ f[l - 1] \in Nat /\ f[l] = f[l - 1] + Len(T[l]) /\ f[l] <= f[m + 1]
               /\ \A j \in 1..Len(T[l]) : g[m + 1][f[l - 1] + j] = T[l][j]
    <3>1. /\ f[l - 1] \in Nat /\ f[l] = f[l - 1] + Len(T[l]) /\ f[l] <= f[m]
          /\ \A j \in 1..Len(T[l]) : g[m][f[l - 1] + j] = T[l][j]
      BY DEF Indexed
    <3>2. Len(T[l]) \in Nat
      <4>1. l \in 1..Len(T)
        BY <1>1
      <4>2. T[l] \in Seq(S)
        BY <4>1
      <4> QED BY <4>2
    <3>3. ASSUME NEW j \in 1..Len(T[l]) PROVE g[m + 1][f[l - 1] + j] = T[l][j]
      <4>1. f[l - 1] + j \in 1..Len(v)
        <5>1. PICK a \in Nat, b \in Nat, c \in Nat : a = f[l - 1] /\ b = Len(T[l]) /\ c = f[m]
          BY <1>3, <3>1, <3>2
        <5>2. a + b <= c /\ j \in 1..b /\ Len(v) = c
          BY <2>1, <3>1, <5>1
        <5>3. a + j \in 1..c
          BY <5>2
        <5> QED BY <5>1, <5>2, <5>3
      <4>2. g[m + 1][f[l - 1] + j] = v[f[l - 1] + j]
        BY <2>2, <2>3, <4>1
      <4> QED BY <2>1, <3>1, <4>2
    <3>4. f[l] <= f[m + 1]
      <4>0. f[l] \in Nat
        <5>1. PICK a \in Nat, b \in Nat : a = f[l - 1] /\ b = Len(T[l])
          BY <3>1, <3>2
        <5>2. f[l] = a + b
          BY <3>1, <5>1
        <5>3. a + b \in Nat
          OBVIOUS
        <5> QED BY <5>2, <5>3
      <4>1. PICK b \in Nat, c \in Nat, e \in Nat : b = f[l] /\ c = f[m] /\ e = f[m + 1]
        BY <1>3, <4>0
      <4>2. b <= c /\ c <= e
        BY <1>3, <3>1, <4>1
      <4>3. b <= e
        BY <4>2
      <4> QED BY <4>1, <4>3
    <3> QED BY <3>1, <3>3, <3>4
  <2>6. \A j \in 1..Len(T[m + 1]) : g[m + 1][f[m] + j] = T[m + 1][j]
    BY <1>4, <2>1, <2>2, <2>3
  <2>7. ASSUME NEW l \in 1..m + 1
        PROVE  /\ f[l - 1] \in Nat /\ f[l] = f[l - 1] + Len(T[l]) /\ f[l] <= f[m + 1]
               /\ \A j \in 1..Len(T[l]) : g[m + 1][f[l - 1] + j] = T[l][j]
    <3>1. CASE l \in 1..m
      BY <2>5, <3>1
    <3>2. CASE l = m + 1
      <4>1. l - 1 = m
        BY <1>1, <3>2
      <4>2. f[m + 1] <= f[m + 1]
        BY <1>3
      <4> QED BY <1>3, <2>6, <3>2, <4>1, <4>2
    <3>3. l \in 1..m \/ l = m + 1
      BY <1>1
    <3> QED BY <3>1, <3>2, <3>3
  <2>8. Indexed(T, f, g, m + 1)
    <3>1. f[m + 1] \in Nat /\ (m + 1 # 0 => Len(g[m + 1]) = f[m + 1])
      BY <1>3, <2>4
    <3> QED BY <2>7, <3>1, Zenon DEF Indexed
  <2> QED BY <2>2, <2>3, <2>8
<1> QED BY <1>5, <1>6

LEMMA IndexHolds ==
  ASSUME NEW S, NEW R, NEW T \in Seq(Seq(S)), Len(R) = Len(T),
         \A k \in 1..Len(T) : R[k].table = T[k], NEW f, NEW g, PageSums(R, f), Flattened(T, g)
  PROVE  Indexed(T, f, g, Len(T))
<1> DEFINE N == Len(T)
           G == {m \in 0..N : Indexed(T, f, g, m) /\ (m # 0 => g[m] \in Seq(S))}
<1>1. N \in Nat
  OBVIOUS
<1>2. /\ f[0] = 0
      /\ \A k \in 1..N : f[k] = f[k - 1] + Len(T[k])
      /\ \A k \in 1..N : g[k] = IF k = 1 THEN T[k] ELSE g[k - 1] \o T[k]
  <2>1. f = [k \in 0..N |-> IF k = 0 THEN 0 ELSE f[k - 1] + Len(R[k].table)]
    BY DEF PageSums
  <2>2. g = [k \in 1..N |-> IF k = 1 THEN T[k] ELSE g[k - 1] \o T[k]]
    BY DEF Flattened
  <2>3. f[0] = 0
    BY <1>1, <2>1
  <2>4. ASSUME NEW k \in 1..N PROVE f[k] = f[k - 1] + Len(T[k])
    <3>1. k \in 0..N /\ k # 0
      BY <1>1
    <3>2. f[k] = f[k - 1] + Len(R[k].table)
      BY <2>1, <3>1
    <3> QED BY <3>2
  <2>5. \A k \in 1..N : g[k] = IF k = 1 THEN T[k] ELSE g[k - 1] \o T[k]
    BY <2>2
  <2> QED BY <2>3, <2>4, <2>5
<1>3. 0 \in G
  BY <1>1, <1>2 DEF Indexed
<1>4. ASSUME NEW m \in G, m < N PROVE m + 1 \in G
  <2>1. m \in 0..Len(T) - 1 /\ m + 1 \in 1..N /\ m + 1 \in 0..N /\ m + 1 - 1 = m
    BY <1>1, <1>4
  <2>2. Indexed(T, f, g, m) /\ (m # 0 => g[m] \in Seq(S))
    OBVIOUS
  <2>3. f[m + 1] = f[m] + Len(T[m + 1])
    BY <1>2, <2>1
  <2>4. g[m + 1] = IF m + 1 = 1 THEN T[m + 1] ELSE g[m] \o T[m + 1]
    BY <1>2, <2>1
  <2> HIDE DEF G, N
  <2>5. Indexed(T, f, g, m + 1) /\ g[m + 1] \in Seq(S)
    BY <1>2, <2>1, <2>2, <2>3, <2>4, IndexStep
  <2> QED BY <2>1, <2>5 DEF G
<1>5. N \in G
  <2>1. G \in SUBSET (0..N)
    OBVIOUS
  <2> HIDE DEF G, N
  <2> QED BY <1>1, <1>3, <1>4, <2>1, ReachesEnd
<1> QED BY <1>5

\* The two attention backends read the same slots: the pages that the CSR index
\* gives FlashInfer for a row, up to the length of its last one, are the slots
\* that the naive backend gathers from the row's table, in the same order, for
\* every batch of rows whose tables are just long enough (paged_kv_index).
RowsOK(R) ==
  /\ Len(R) \in Nat /\ DOMAIN R = 1..Len(R)
  /\ \A k \in DOMAIN R :
       /\ R[k].table \in Seq(Nat) /\ kv_len(R[k]) \in Nat \ {0}
       /\ Len(R[k].table) = pages(kv_len(R[k]))

THEOREM BackendsReadTheSameSlots ==
  ASSUME BlockSize \in Nat \ {0}, NEW R, RowsOK(R), NEW k \in DOMAIN R
  PROVE  paged_kv_slots(paged_kv_index(R), k) = kv_slots(R[k])
<1> DEFINE T == [l \in DOMAIN R |-> R[l].table]
           f == paged_kv_index(R).indptr
           g == CHOOSE g : Flattened(T, g)
           t == R[k].table
           n == kv_len(R[k])
<1>1. Len(R) \in Nat \ {0} /\ DOMAIN R = 1..Len(R)
  BY DEF RowsOK
<1>2. T \in Seq(Seq(Nat)) /\ Len(T) = Len(R) /\ \A l \in 1..Len(T) : R[l].table = T[l]
  BY <1>1 DEF RowsOK
<1>3. t = T[k] /\ t \in Seq(Nat) /\ n \in Nat \ {0} /\ Len(t) = pages(n) /\ k \in 1..Len(T)
  BY <1>1, <1>2 DEF RowsOK
<1>4. PageSums(R, f)
  <2>1. \A l \in 1..Len(R) : Len(R[l].table) \in Nat
    BY <1>1 DEF RowsOK
  <2>2. \E h : PageSums(R, h)
    BY <1>1, <2>1, PageSumsExist
  <2>3. f = CHOOSE h : PageSums(R, h)
    BY IndexUnfolds
  <2> HIDE DEF f
  <2> QED BY <2>2, <2>3
<1>5. Flattened(T, g)
  <2>1. \E h : Flattened(T, h)
    <3> HIDE DEF T
    <3> QED BY <1>2, FlattenedExists
  <2> HIDE DEF T
  <2> QED BY <2>1
<1>6. paged_kv_index(R).indices = g[Len(T)]
  BY <1>1, <1>2, IndexUnfolds
<1>7. paged_kv_index(R).last_page_len[k] = n - (Len(t) - 1) * BlockSize
  BY IndexUnfolds, ZenonT(30)
<1> HIDE DEF T, f, g, t, n
<1>8. Indexed(T, f, g, Len(T))
  BY <1>2, <1>4, <1>5, IndexHolds
<1>9. PICK P \in Nat \ {0} :
        /\ P = Len(t) /\ n - (P - 1) * BlockSize \in Int /\ (P - 1) * BlockSize \in Int
        /\ \A p \in 0..n - 1 : p \div BlockSize + 1 \in 1..P
  <2>1. /\ pages(n) \in Nat \ {0}
        /\ \A p \in 0..n - 1 : p \div BlockSize + 1 \in 1..pages(n)
    BY <1>3, PageCount
  <2>2. PICK P \in Nat \ {0} : P = pages(n)
    BY <2>1
  <2>3. P = Len(t)
    BY <1>3, <2>2
  <2>4. \A p \in 0..n - 1 : p \div BlockSize + 1 \in 1..P
    BY <2>1, <2>2
  <2>5. (P - 1) * BlockSize \in Int
    BY SMT
  <2>6. n - (P - 1) * BlockSize \in Int
    BY <1>3, <2>5
  <2> QED BY <2>3, <2>4, <2>5, <2>6
<1>10. /\ f[k - 1] \in Nat /\ f[k] = f[k - 1] + P
       /\ \A j \in 1..P : g[Len(T)][f[k - 1] + j] = t[j]
  BY <1>3, <1>8, <1>9 DEF Indexed
<1>11. (f[k] - f[k - 1] - 1) * BlockSize + (n - (P - 1) * BlockSize) = n
  <2>1. PICK a \in Nat : a = f[k - 1]
    BY <1>10
  <2>2. a + P - a - 1 = P - 1
    OBVIOUS
  <2>3. f[k] - f[k - 1] - 1 = P - 1
    BY <1>10, <2>1, <2>2
  <2>4. ASSUME NEW x \in Int PROVE x + (n - x) = n
    BY <1>3
  <2> QED BY <1>9, <2>3, <2>4
<1>12. ASSUME NEW j \in 1..n
       PROVE  g[Len(T)][f[k - 1] + (j - 1) \div BlockSize + 1] = t[(j - 1) \div BlockSize + 1]
  <2>1. j - 1 \in 0..n - 1 /\ j - 1 \in Nat
    BY <1>3
  <2>2. PICK q \in Nat : q = (j - 1) \div BlockSize
    BY <2>1, DivisionFacts
  <2>3. q + 1 \in 1..P
    BY <1>9, <2>1, <2>2
  <2>4. g[Len(T)][f[k - 1] + (q + 1)] = t[q + 1]
    BY <1>10, <2>3
  <2>5. f[k - 1] + (q + 1) = f[k - 1] + q + 1
    <3>1. PICK a \in Nat : a = f[k - 1]
      BY <1>10
    <3>2. a + (q + 1) = a + q + 1
      OBVIOUS
    <3> QED BY <3>1, <3>2
  <2> QED BY <2>2, <2>4, <2>5
<1>13. paged_kv_slots(paged_kv_index(R), k)
         = [j \in 1..n |-> g[Len(T)][f[k - 1] + (j - 1) \div BlockSize + 1] * BlockSize
                             + ((j - 1) % BlockSize)]
  BY <1>6, <1>7, <1>9, <1>11 DEF paged_kv_slots, f
<1>14. kv_slots(R[k]) = [j \in 1..n |-> t[(j - 1) \div BlockSize + 1] * BlockSize + ((j - 1) % BlockSize)]
  BY DEF kv_slots, Slot, n, t
<1> QED BY <1>12, <1>13, <1>14

-----------------------------------------------------------------------------
\* Blocks and offsets.

\* A slot names its block and its offset.
LEMMA SlotParts ==
  ASSUME NEW b \in Nat, NEW o \in 0..BlockSize - 1
  PROVE  /\ b * BlockSize + o \in Nat
         /\ (b * BlockSize + o) \div BlockSize = b /\ (b * BlockSize + o) % BlockSize = o
         /\ \A N \in Nat : b < N => b * BlockSize + o \in 0..N * BlockSize - 1
<1> DEFINE x == b * BlockSize + o
<1>1. BlockSize \in Nat \ {0} /\ b * BlockSize \in Nat
  BY PoolAssumption, SMT
<1>2. x \in Nat
  BY <1>1
<1>3. PICK q \in Nat, r \in 0..BlockSize - 1 :
        q = x \div BlockSize /\ r = x % BlockSize /\ x = q * BlockSize + r
  <2> HIDE DEF x
  <2> QED BY <1>1, <1>2, DivisionFacts
<1>4. q = b /\ r = o
  <2>1. q * BlockSize + r = b * BlockSize + o
    BY <1>3
  <2>2. q \in Int /\ b \in Int
    OBVIOUS
  <2> QED BY <1>1, <2>1, <2>2, DivisionUnique
<1>5. ASSUME NEW N \in Nat, b < N PROVE x \in 0..N * BlockSize - 1
  <2>1. (b + 1) * BlockSize <= N * BlockSize
    BY <1>1, <1>5, SMT
  <2>2. (b + 1) * BlockSize = b * BlockSize + BlockSize /\ N * BlockSize \in Nat
    BY <1>1, SMT
  <2> QED BY <1>1, <2>1, <2>2
<1> QED BY <1>2, <1>3, <1>4, <1>5

\* The slot of a position is an offset in a block of its table.
LEMMA SlotInTable ==
  ASSUME NEW S \in SUBSET Nat, NEW table \in Seq(S), NEW n \in Nat, blocks_for(n) <= Len(table), NEW p \in 0..n - 1
  PROVE  \E j \in DOMAIN table : \E o \in 0..BlockSize - 1 :
           /\ j = p \div BlockSize + 1 /\ o = p % BlockSize /\ p = (j - 1) * BlockSize + o
           /\ j \in Nat \ {0} /\ table[j] \in S /\ table[j] \in Nat
           /\ Slot(table, p) = table[j] * BlockSize + o
<1>1. BlockSize \in Nat \ {0}
  BY PoolAssumption
<1>2. PICK q \in Nat, o \in 0..BlockSize - 1 :
        q = p \div BlockSize /\ o = p % BlockSize /\ p = q * BlockSize + o
  <2>1. p \in Nat
    OBVIOUS
  <2> QED BY <1>1, <2>1, DivisionFacts
<1>3. q + 1 \in 1..pages(n)
  <2>1. n \in Nat \ {0}
    OBVIOUS
  <2> QED BY <1>1, <1>2, <2>1, PageCount
<1>4. pages(n) = blocks_for(n)
  BY DEF pages, blocks_for
<1>5. blocks_for(n) \in Nat
  BY <1>1, BlocksFor
<1>6. q + 1 \in DOMAIN table
  BY <1>3, <1>4, <1>5
<1>7. table[q + 1] \in S /\ table[q + 1] \in Nat
  <2>1. table[q + 1] \in S
    BY <1>6
  <2> QED BY <2>1
<1>8. PICK j \in DOMAIN table : j = q + 1 /\ j \in Nat \ {0} /\ j - 1 = q
  BY <1>6
<1>9. Slot(table, p) = table[j] * BlockSize + o
  BY <1>2, <1>8 DEF Slot
<1> QED BY <1>2, <1>7, <1>8, <1>9

\* A copy changes the blocks that the pairs lead to, and nothing else.
LEMMA CopiedElsewhere ==
  ASSUME NEW cache, NEW from, NEW pairs, NEW b \in Nat, NEW o \in 0..BlockSize - 1,
         b * BlockSize + o \in DOMAIN cache, \A q \in DOMAIN pairs : pairs[q][2] # b
  PROVE  Copied(cache, from, pairs)[b * BlockSize + o] = cache[b * BlockSize + o]
<1>1. (b * BlockSize + o) \div BlockSize = b
  BY SlotParts
<1>2. {p \in Range(pairs) : p[2] = b} = {}
  BY DEF Range
<1> QED BY <1>1, <1>2 DEF Copied

LEMMA CopiedThere ==
  ASSUME NEW cache, NEW from, NEW pairs, NEW b \in Nat, NEW o \in 0..BlockSize - 1,
         b * BlockSize + o \in DOMAIN cache, NEW q \in DOMAIN pairs, pairs[q][2] = b,
         \A r \in DOMAIN pairs : pairs[r][2] = b => r = q
  PROVE  Copied(cache, from, pairs)[b * BlockSize + o] = from[pairs[q][1] * BlockSize + o]
<1>1. (b * BlockSize + o) \div BlockSize = b /\ (b * BlockSize + o) % BlockSize = o
  BY SlotParts
<1>2. {p \in Range(pairs) : p[2] = b} = {pairs[q]}
  BY DEF Range
<1>3. (CHOOSE p \in {pairs[q]} : TRUE) = pairs[q]
  OBVIOUS
<1> QED BY <1>1, <1>2, <1>3 DEF Copied

LEMMA CopiedDomain ==
  ASSUME NEW cache, NEW from, NEW pairs
  PROVE  DOMAIN Copied(cache, from, pairs) = DOMAIN cache
BY DEF Copied

-----------------------------------------------------------------------------
\* While a batch is put together, its copies are still to come: `gpu` and `host`
\* are the caches as the forward pass will find them.
Preparing == pc \in {"running", "swap_in", "admit", "execute"}

gpu == IF Preparing THEN SwappedIn ELSE kv_cache
host == IF Preparing THEN SwappedOut ELSE cpu_cache

\* The computed tokens of s are where its table says.
InTable(kv, s) == block_table[s] # <<>> =>
  \A p \in 0 .. num_computed_tokens[s] - 1 : kv[Slot(block_table[s], p)] = Context(s, p)

InHostTable(cpu, s) == cpu_block_table[s] # <<>> =>
  \A p \in 0 .. num_computed_tokens[s] - 1 : cpu[Slot(cpu_block_table[s], p)] = Context(s, p)

\* So are those that the forward pass computed and update() has not counted yet.
ComputedNow == pc = "update" =>
  \A k \in Pending :
    LET s == batch.seqs[k].seq IN
    \A p \in 0 .. num_computed_tokens[s] + batch.seqs[k].n - 1 :
      kv_cache[Slot(block_table[s], p)] = Context(s, p)

\* The copies of a batch go to different blocks, which somebody holds; a step
\* has victims or brings one back, and not both.
Targets(pairs, table) ==
  /\ \A q, r \in DOMAIN pairs : pairs[q][2] = pairs[r][2] => q = r
  /\ \A q \in DOMAIN pairs : \E s \in Seqs : pairs[q][2] \in Range(table[s])

CopiesOK == Preparing =>
  /\ Targets(batch.swap_out, cpu_block_table) /\ Targets(batch.swap_in, block_table)
  /\ \A q \in DOMAIN batch.swap_in : block_hash[batch.swap_in[q][2]] = None
  /\ batch.swap_out # <<>> =>
       pc \in {"running", "execute"} /\ batch.num_preempted # 0 /\ batch.swap_in = <<>>
  /\ batch.swap_in # <<>> => pc # "running" /\ batch.seqs # <<>>

CachesOK ==
  /\ kv_cache = [x \in 0 .. (NumBlocks + 1) * BlockSize - 1 |-> kv_cache[x]]
  /\ cpu_cache = [x \in 0 .. NumCpuBlocks * BlockSize - 1 |-> cpu_cache[x]]

PagesInv ==
  /\ CachesOK /\ CopiesOK /\ PublishedIsContent
  /\ pc # "fail_all" =>
       /\ \A s \in Seqs : InTable(gpu, s) /\ InHostTable(host, s)
       /\ ComputedNow

-----------------------------------------------------------------------------
\* What the block manager promises about tables.
LEMMA TableFacts ==
  ASSUME C!IInv, NEW s \in Seqs
  PROVE  /\ block_table[s] \in Seq(Blocks) /\ cpu_block_table[s] \in Seq(CpuBlocks)
         /\ IsInjective(block_table[s])
         /\ num_computed_tokens[s] \in Nat /\ num_computed_tokens[s] <= num_tokens(s)
         /\ block_table[s] # <<>> => blocks_for(num_computed_tokens[s]) <= Len(block_table[s])
         /\ cpu_block_table[s] # <<>> => Len(cpu_block_table[s]) = blocks_for(num_computed_tokens[s])
<1>1. BlockManagerTypeOK /\ IsInjective(block_table[s])
  BY PoolServes
<1>2. C!SlotsOK
  BY DEF C!IInv, C!ListInv
<1>3. /\ num_computed_tokens[s] <= num_tokens(s)
      /\ block_table[s] # <<>> => blocks_for(num_computed_tokens[s]) <= Len(block_table[s])
      /\ cpu_block_table[s] # <<>> => Len(cpu_block_table[s]) = blocks_for(num_computed_tokens[s])
  BY <1>2, SameCounts DEF C!SlotsOK
<1> QED BY <1>1, <1>3 DEF BlockManagerTypeOK

\* A slot of a block of the pool is a slot of the cache.
LEMMA InCache ==
  ASSUME CachesOK, NEW o \in 0..BlockSize - 1
  PROVE  /\ \A b \in Blocks : b \in Nat /\ b * BlockSize + o \in DOMAIN kv_cache
         /\ \A c \in CpuBlocks : c \in Nat /\ c * BlockSize + o \in DOMAIN cpu_cache
<1>1. ASSUME NEW b \in Blocks PROVE b \in Nat /\ b * BlockSize + o \in DOMAIN kv_cache
  <2>1. b \in Nat /\ b < NumBlocks + 1 /\ NumBlocks + 1 \in Nat
    BY PoolAssumption DEF Blocks
  <2>2. b * BlockSize + o \in 0 .. (NumBlocks + 1) * BlockSize - 1
    BY <2>1, SlotParts
  <2> QED BY <2>1, <2>2 DEF CachesOK
<1>2. ASSUME NEW c \in CpuBlocks PROVE c \in Nat /\ c * BlockSize + o \in DOMAIN cpu_cache
  <2>1. c \in Nat /\ c < NumCpuBlocks /\ NumCpuBlocks \in Nat
    BY PoolAssumption DEF CpuBlocks
  <2>2. c * BlockSize + o \in 0 .. NumCpuBlocks * BlockSize - 1
    BY <2>1, SlotParts
  <2> QED BY <2>1, <2>2 DEF CachesOK
<1> QED BY <1>1, <1>2

\* A table that keeps its blocks, while the cache keeps their slots, holds what
\* it held.
Kept(s) ==
  /\ block_table[s] # <<>>
  /\ \A j \in DOMAIN block_table[s] : j \in DOMAIN block_table'[s] /\ block_table'[s][j] = block_table[s][j]
  /\ num_computed_tokens'[s] = num_computed_tokens[s] /\ token_ids'[s] = token_ids[s]

LEMMA TableKept ==
  ASSUME C!IInv, NEW s \in Seqs, NEW kv, NEW kw, InTable(kv, s),
         block_table'[s] # <<>> => Kept(s),
         \A j \in DOMAIN block_table[s] : \A o \in 0..BlockSize - 1 :
           kw[block_table[s][j] * BlockSize + o] = kv[block_table[s][j] * BlockSize + o]
  PROVE  InTable(kw, s)'
<1> SUFFICES ASSUME block_table'[s] # <<>>, NEW p \in 0 .. num_computed_tokens'[s] - 1
             PROVE  kw[Slot(block_table'[s], p)] = Context(s, p)'
  BY DEF InTable
<1>1. Kept(s)
  OBVIOUS
<1>2. p \in 0 .. num_computed_tokens[s] - 1
  BY <1>1 DEF Kept
<1>3. PICK j \in DOMAIN block_table[s], o \in 0..BlockSize - 1 :
        /\ j = p \div BlockSize + 1 /\ o = p % BlockSize
        /\ Slot(block_table[s], p) = block_table[s][j] * BlockSize + o
  <2>1. /\ block_table[s] \in Seq(Blocks) /\ blocks_for(num_computed_tokens[s]) <= Len(block_table[s])
        /\ num_computed_tokens[s] \in Nat
    BY <1>1, TableFacts DEF Kept
  <2>2. Blocks \in SUBSET Nat
    BY PoolAssumption DEF Blocks
  <2> QED BY <1>2, <2>1, <2>2, SlotInTable
<1>4. Slot(block_table'[s], p) = Slot(block_table[s], p)
  BY <1>1, <1>3 DEF Kept, Slot
<1>5. kw[Slot(block_table[s], p)] = kv[Slot(block_table[s], p)]
  BY <1>3
<1>6. kv[Slot(block_table[s], p)] = Context(s, p)
  BY <1>1, <1>2 DEF InTable, Kept
<1>7. Context(s, p)' = Context(s, p)
  BY <1>1 DEF Kept, Context
<1> QED BY <1>4, <1>5, <1>6, <1>7

\* The same of host tables, which never grow.
HostKept(s) ==
  /\ cpu_block_table'[s] = cpu_block_table[s]
  /\ num_computed_tokens'[s] = num_computed_tokens[s] /\ token_ids'[s] = token_ids[s]

LEMMA HostTableKept ==
  ASSUME C!IInv, NEW s \in Seqs, NEW cpu, NEW cpw, InHostTable(cpu, s),
         cpu_block_table'[s] # <<>> => HostKept(s),
         \A j \in DOMAIN cpu_block_table[s] : \A o \in 0..BlockSize - 1 :
           cpw[cpu_block_table[s][j] * BlockSize + o] = cpu[cpu_block_table[s][j] * BlockSize + o]
  PROVE  InHostTable(cpw, s)'
<1> SUFFICES ASSUME cpu_block_table'[s] # <<>>, NEW p \in 0 .. num_computed_tokens'[s] - 1
             PROVE  cpw[Slot(cpu_block_table'[s], p)] = Context(s, p)'
  BY DEF InHostTable
<1>1. HostKept(s) /\ cpu_block_table[s] # <<>>
  BY DEF HostKept
<1>2. p \in 0 .. num_computed_tokens[s] - 1
  BY <1>1 DEF HostKept
<1>3. PICK j \in DOMAIN cpu_block_table[s], o \in 0..BlockSize - 1 :
        Slot(cpu_block_table[s], p) = cpu_block_table[s][j] * BlockSize + o
  <2>1. /\ cpu_block_table[s] \in Seq(CpuBlocks) /\ num_computed_tokens[s] \in Nat
        /\ Len(cpu_block_table[s]) = blocks_for(num_computed_tokens[s])
    BY <1>1, TableFacts
  <2>2. blocks_for(num_computed_tokens[s]) <= Len(cpu_block_table[s])
    BY <2>1
  <2>3. CpuBlocks \in SUBSET Nat
    BY PoolAssumption DEF CpuBlocks
  <2> QED BY <1>2, <2>1, <2>2, <2>3, SlotInTable
<1>4. cpw[Slot(cpu_block_table[s], p)] = cpu[Slot(cpu_block_table[s], p)]
  BY <1>3
<1>5. cpu[Slot(cpu_block_table[s], p)] = Context(s, p)
  BY <1>1, <1>2 DEF InHostTable
<1>6. Context(s, p)' = Context(s, p) /\ cpu_block_table'[s] = cpu_block_table[s]
  BY <1>1 DEF HostKept, Context
<1> QED BY <1>4, <1>5, <1>6

-----------------------------------------------------------------------------
\* Steps that leave both caches and the copies alone.

LEMMA NoCopies ==
  ASSUME CachesOK, NEW from
  PROVE  Copied(kv_cache, from, <<>>) = kv_cache /\ Copied(cpu_cache, from, <<>>) = cpu_cache
<1>1. Range(<<>>) = {}
  BY DEF Range
<1>2. \A x : {p \in {} : p[2] = x \div BlockSize} = {}
  OBVIOUS
<1>3. Copied(kv_cache, from, <<>>) = [x \in DOMAIN kv_cache |-> kv_cache[x]]
  BY <1>1, <1>2 DEF Copied
<1>4. Copied(cpu_cache, from, <<>>) = [x \in DOMAIN cpu_cache |-> cpu_cache[x]]
  BY <1>1, <1>2 DEF Copied
<1> QED BY <1>3, <1>4 DEF CachesOK

LEMMA SameCopies ==
  ASSUME UNCHANGED <<kv_cache, cpu_cache>>,
         \/ Preparing /\ Preparing' /\ batch'.swap_out = batch.swap_out /\ batch'.swap_in = batch.swap_in
         \/ ~Preparing /\ ~Preparing'
  PROVE  gpu' = gpu /\ host' = host
<1>1. CASE Preparing /\ Preparing' /\ batch'.swap_out = batch.swap_out /\ batch'.swap_in = batch.swap_in
  <2>1. SwappedOut' = SwappedOut
    BY <1>1 DEF SwappedOut, Copied
  <2>2. SwappedIn' = SwappedIn
    BY <1>1, <2>1 DEF SwappedIn, Copied
  <2> QED BY <1>1, <2>1, <2>2 DEF gpu, host
<1>2. CASE ~Preparing /\ ~Preparing'
  BY <1>2 DEF gpu, host
<1> QED BY <1>1, <1>2

\* What is published stays where it is.
LEMMA PublishedKept ==
  ASSUME PublishedIsContent, UNCHANGED kv_cache,
         \A b \in Blocks : block_hash'[b] \in {block_hash[b], None}
  PROVE  PublishedIsContent'
BY DEF PublishedIsContent

LEMMA QuietStep ==
  ASSUME C!IInv, PagesInv, pc \notin {"update", "fail_all"}, pc' \notin {"update", "fail_all"},
         UNCHANGED <<kv_cache, cpu_cache>>, gpu' = gpu, host' = host, CopiesOK',
         \A b \in Blocks : block_hash'[b] \in {block_hash[b], None},
         \A s \in Seqs : (block_table'[s] # <<>> => Kept(s)) \/ InTable(gpu, s)',
         \A s \in Seqs : cpu_block_table'[s] # <<>> => HostKept(s)
  PROVE  PagesInv'
<1>1. CachesOK' /\ ComputedNow'
  BY DEF PagesInv, CachesOK, ComputedNow
<1>2. PublishedIsContent'
  BY PublishedKept DEF PagesInv
<1>3. PICK kv, cpu : kv = gpu /\ cpu = host
  OBVIOUS
<1>4. gpu' = kv /\ host' = cpu
  BY <1>3
<1>5. ASSUME NEW s \in Seqs PROVE InTable(gpu, s)' /\ InHostTable(host, s)'
  <2>1. InTable(kv, s) /\ InHostTable(cpu, s)
    BY <1>3 DEF PagesInv
  <2>2. InHostTable(cpu, s)'
    BY <2>1, HostTableKept
  <2>3. CASE block_table'[s] # <<>> => Kept(s)
    <3>1. InTable(kv, s)'
      BY <2>1, <2>3, TableKept
    <3> QED BY <1>4, <2>2, <3>1 DEF InTable, InHostTable
  <2>4. CASE InTable(gpu, s)'
    BY <1>4, <2>2, <2>4 DEF InHostTable
  <2> QED BY <2>3, <2>4
<1> QED BY <1>1, <1>2, <1>5 DEF PagesInv

LEMMA CopiesKept ==
  ASSUME CopiesOK, Preparing, Preparing',
         batch'.swap_out = batch.swap_out, batch'.swap_in = batch.swap_in,
         batch.swap_out # <<>> =>
           /\ UNCHANGED cpu_block_table
           /\ pc' \in {"running", "execute"} /\ batch'.num_preempted # 0,
         batch.swap_in # <<>> =>
           /\ \A s \in Seqs : Range(block_table[s]) \subseteq Range(block_table'[s])
           /\ \A b \in Blocks : block_hash'[b] \in {block_hash[b], None}
           /\ Range(batch.swap_in) \subseteq CpuBlocks \X Blocks
           /\ pc' # "running" /\ batch'.seqs # <<>>
  PROVE  CopiesOK'
<1>1. Targets(batch.swap_out, cpu_block_table)'
  BY DEF CopiesOK, Targets
<1>2. Targets(batch.swap_in, block_table)'
  BY DEF CopiesOK, Targets
<1>3. ASSUME NEW q \in DOMAIN batch.swap_in PROVE block_hash'[batch.swap_in[q][2]] = None
  <2>1. batch.swap_in # <<>> /\ batch.swap_in[q] \in Range(batch.swap_in)
    BY <1>3 DEF Range
  <2>2. batch.swap_in[q][2] \in Blocks
    BY <2>1
  <2>3. block_hash[batch.swap_in[q][2]] = None
    BY DEF CopiesOK
  <2> QED BY <2>1, <2>2, <2>3
<1> QED BY <1>1, <1>2, <1>3 DEF CopiesOK

\* A table only grows when its sequence acquires blocks, and no block is
\* published by that.
LEMMA AcquireKeeps ==
  ASSUME NEW s \in Seqs, block_table \in [Seqs -> Seq(Blocks)],
         NEW cached, IsList(cached), NEW k \in Nat, Acquire(s, cached, k)
  PROVE  /\ \A b \in Blocks : block_hash'[b] \in {block_hash[b], None}
         /\ \A t \in Seqs \ {s} : block_table'[t] = block_table[t]
         /\ \A j \in DOMAIN block_table[s] :
              j \in DOMAIN block_table'[s] /\ block_table'[s][j] = block_table[s][j]
         /\ block_table[s] = <<>> => \A j \in DOMAIN cached :
              j \in DOMAIN block_table'[s] /\ block_table'[s][j] = cached[j]
<1>1. \A b \in Blocks : block_hash'[b] \in {block_hash[b], None}
  BY DEF Acquire
<1>2. PICK new : /\ IsList(new) /\ block_table' = [block_table EXCEPT ![s] = @ \o cached \o new]
  <2> DEFINE new == SubSeq(free_blocks \o Filter(evictable, Blocks \ Range(cached)), 1, k)
  <2>1. block_table' = [block_table EXCEPT ![s] = @ \o cached \o new]
    BY DEF Acquire
  <2>2. ASSUME NEW l PROVE IsList(SubSeq(l, 1, k))
    <3>1. SubSeq(l, 1, k) \in Seq({l[j] : j \in 1..k})
      OBVIOUS
    <3> QED BY <3>1, ListIsList
  <2>3. IsList(new)
    BY <2>2
  <2> QED BY <2>1, <2>3
<1>3. ASSUME NEW p, NEW q, IsList(p), IsList(q)
      PROVE  \A j \in DOMAIN p : j \in DOMAIN (p \o q) /\ (p \o q)[j] = p[j]
  <2> DEFINE E == Range(p) \cup Range(q)
  <2>1. p \in Seq(E) /\ q \in Seq(E)
    BY <1>3 DEF IsList
  <2> HIDE DEF E
  <2>2. \A j \in DOMAIN p : j \in DOMAIN (p \o q) /\ (p \o q)[j] = p[j]
    BY <2>1
  <2> QED BY <2>2
<1>4. ASSUME NEW p, NEW q, IsList(p), IsList(q) PROVE IsList(p \o q)
  <2> DEFINE E == Range(p) \cup Range(q)
  <2>1. p \in Seq(E) /\ q \in Seq(E)
    BY <1>4 DEF IsList
  <2> HIDE DEF E
  <2>2. p \o q \in Seq(E)
    BY <2>1
  <2> QED BY <2>2, ListIsList
<1>5. IsList(block_table[s]) /\ IsList(block_table[s] \o cached)
  BY <1>4, ListIsList
<1>6. block_table'[s] = (block_table[s] \o cached) \o new
  BY <1>2
<1>7. ASSUME block_table[s] = <<>> PROVE block_table[s] \o cached = cached
  <2>1. cached \in Seq(Range(cached))
    BY DEF IsList
  <2> QED BY <1>7, <2>1
<1>8. \A j \in DOMAIN block_table[s] : j \in DOMAIN block_table'[s] /\ block_table'[s][j] = block_table[s][j]
  BY <1>2, <1>3, <1>5, <1>6
<1>9. block_table[s] = <<>> => \A j \in DOMAIN cached :
        j \in DOMAIN block_table'[s] /\ block_table'[s][j] = cached[j]
  BY <1>2, <1>3, <1>6, <1>7
<1> QED BY <1>1, <1>2, <1>8, <1>9

\* What a step that gives nobody another block may do to the tables.
TablesKept ==
  /\ \A b \in Blocks : block_hash'[b] \in {block_hash[b], None}
  /\ \A s \in Seqs : block_table'[s] # <<>> => Kept(s)
  /\ \A s \in Seqs : cpu_block_table'[s] # <<>> => HostKept(s)

LEMMA SameTables ==
  ASSUME UNCHANGED <<poolVars, token_ids, num_computed_tokens>>
  PROVE  TablesKept /\ UNCHANGED <<block_table, cpu_block_table, block_hash>>
BY DEF TablesKept, Kept, HostKept, poolVars, gpuVars, cpuVars

LEMMA EndedTables ==
  ASSUME NEW s \in Seqs, NEW final, Ends(s, final), UNCHANGED block_hash
  PROVE  TablesKept
<1>1. /\ block_table'[s] = <<>> /\ cpu_block_table'[s] = <<>>
      /\ \A t \in Seqs \ {s} : block_table'[t] = block_table[t] /\ cpu_block_table'[t] = cpu_block_table[t]
      /\ UNCHANGED <<token_ids, num_computed_tokens>>
  BY DEF Ends
<1> QED BY <1>1 DEF TablesKept, Kept, HostKept

LEMMA AbortTables ==
  ASSUME IInv, NEW s \in Seqs, abort(s)
  PROVE  TablesKept /\ UNCHANGED <<block_hash, stepVars>>
<1>1. Ends(s, "ABORTED")
  BY AbortEffect DEF IInv
<1>2. UNCHANGED <<block_hash, stepVars>>
  BY DEF abort, free, poolVars, gpuVars
<1> QED BY <1>1, <1>2, EndedTables

\* Requests that come and go between steps.
LEMMA RequestPages ==
  ASSUME IInv, C!IInv, PagesInv, Request, UNCHANGED <<kv_cache, cpu_cache>>
  PROVE  PagesInv'
<1>1. PICK s \in Seqs : add(s) \/ AbortRequest(s)
  BY DEF Request
<1>2. TablesKept /\ UNCHANGED stepVars /\ pc = "idle"
  <2>1. CASE add(s)
    BY <2>1, SameTables DEF add
  <2>2. CASE AbortRequest(s)
    BY <2>2, AbortTables DEF AbortRequest
  <2> QED BY <1>1, <2>1, <2>2
<1>3. pc' = "idle" /\ ~Preparing /\ ~Preparing'
  BY <1>2 DEF stepVars, Preparing
<1>4. CopiesOK'
  BY <1>3 DEF CopiesOK
<1> QED BY <1>2, <1>3, <1>4, SameCopies, QuietStep DEF TablesKept

\* The beginning of a step, and the steps between its loops.
LEMMA ControlPages ==
  ASSUME IInv, C!IInv, ReportOK, PagesInv,
         BeginStep \/ EndRunning \/ EndSwapIn \/ EndAdmit \/ EmptyStep,
         UNCHANGED <<kv_cache, cpu_cache>>
  PROVE  PagesInv'
<1>1. UNCHANGED <<poolVars, token_ids, num_computed_tokens>>
  BY DEF BeginStep, EndRunning, EndSwapIn, EndAdmit, EmptyStep, seqVars
<1>2. TablesKept /\ UNCHANGED <<block_table, cpu_block_table, block_hash>>
  BY <1>1, SameTables
<1>3. CachesOK /\ CopiesOK
  BY DEF PagesInv
<1>4. CASE BeginStep
  <2>1. pc = "idle" /\ pc' \in {"running", "admit"} /\ batch' = EmptyBatch
    BY <1>4 DEF BeginStep, BeginRunning
  <2>2. SwappedOut' = cpu_cache /\ SwappedIn' = kv_cache
    <3>1. SwappedOut' = Copied(cpu_cache, kv_cache, <<>>)
      BY <2>1 DEF SwappedOut, EmptyBatch, Copied
    <3>2. SwappedIn' = Copied(kv_cache, SwappedOut', <<>>)
      BY <2>1 DEF SwappedIn, EmptyBatch, Copied
    <3> QED BY <1>3, <3>1, <3>2, NoCopies
  <2>3. gpu' = gpu /\ host' = host
    BY <2>1, <2>2 DEF gpu, host, Preparing
  <2>4. CopiesOK'
    BY <2>1 DEF CopiesOK, Targets, EmptyBatch
  <2> QED BY <1>2, <2>1, <2>3, <2>4, QuietStep DEF TablesKept
<1>5. CASE EmptyStep
  <2>1. /\ pc = "execute" /\ pc' \in {"stuck", "idle"}
        /\ batch.swap_out = <<>> /\ batch.swap_in = <<>>
    BY <1>5 DEF EmptyStep, batch_is_empty
  <2>2. SwappedOut = cpu_cache /\ SwappedIn = kv_cache
    BY <1>3, <2>1, NoCopies DEF SwappedOut, SwappedIn
  <2>3. gpu' = gpu /\ host' = host
    BY <2>1, <2>2 DEF gpu, host, Preparing
  <2>4. CopiesOK'
    BY <2>1 DEF CopiesOK, Preparing
  <2> QED BY <1>2, <2>1, <2>3, <2>4, QuietStep DEF TablesKept
<1>6. CASE EndRunning \/ EndSwapIn \/ EndAdmit
  <2>1. pc \in {"running", "swap_in", "admit"} /\ Preparing /\ batch' = batch
    BY <1>6 DEF EndRunning, EndSwapIn, EndAdmit, Preparing
  <2>2. pc' \in {"running", "swap_in", "admit", "execute"} /\ Preparing'
    BY <1>6 DEF EndRunning, EndSwapIn, EndAdmit, BeginRunning, Preparing
  <2>3. batch.swap_out # <<>> => pc' = "execute" /\ batch.num_preempted # 0
    BY <1>3, <1>6, <2>1 DEF CopiesOK, EndRunning, EndSwapIn, EndAdmit
  <2>4. batch.swap_in # <<>> => pc' # "running" /\ batch.seqs # <<>>
    BY <1>3, <1>6, <2>1 DEF CopiesOK, EndRunning, EndSwapIn, EndAdmit
  <2>5. Range(batch.swap_in) \subseteq CpuBlocks \X Blocks
    BY DEF ReportOK, BatchRecord, Range
  <2>6. CopiesOK'
    BY <1>2, <1>3, <2>1, <2>2, <2>3, <2>4, <2>5, CopiesKept
  <2>7. gpu' = gpu /\ host' = host
    BY <2>1, <2>2, SameCopies
  <2> QED BY <1>2, <2>1, <2>2, <2>6, <2>7, QuietStep DEF TablesKept
<1> QED BY <1>4, <1>5, <1>6

\* A failed request leaves its tables, and the others keep theirs.
LEMMA FailTables ==
  ASSUME IInv, NEW s \in Seqs, Fail(s)
  PROVE  /\ TablesKept /\ UNCHANGED block_hash
         /\ block_table[s] = <<>> => UNCHANGED block_table
         /\ cpu_block_table[s] = <<>> => UNCHANGED cpu_block_table
<1>1. DOMAIN block_table = Seqs /\ DOMAIN cpu_block_table = Seqs
  BY DEF IInv, QInv, Types
<1>2. UNCHANGED <<block_hash, token_ids, num_computed_tokens>>
  BY DEF Fail, free, gpuVars
<1>3. /\ block_table[s] = <<>> => UNCHANGED block_table
      /\ block_table[s] # <<>> => block_table' = [block_table EXCEPT ![s] = <<>>]
  BY DEF Fail, free, Release, gpuVars
<1>4. /\ cpu_block_table[s] = <<>> => UNCHANGED cpu_block_table
      /\ cpu_block_table[s] # <<>> => cpu_block_table' = [cpu_block_table EXCEPT ![s] = <<>>]
  BY DEF Fail, free_cpu, cpuVars
<1>5. /\ \A t \in Seqs : block_table'[t] # <<>> => block_table'[t] = block_table[t]
      /\ \A t \in Seqs : cpu_block_table'[t] # <<>> => cpu_block_table'[t] = cpu_block_table[t]
  BY <1>1, <1>3, <1>4
<1> QED BY <1>2, <1>3, <1>4, <1>5 DEF TablesKept, Kept, HostKept

\* A request that fails takes no block that a copy goes to.
LEMMA FailPages ==
  ASSUME IInv, C!IInv, ReportOK, PagesInv, FailAlone \/ FailSwapIn \/ FailAdmit,
         UNCHANGED <<kv_cache, cpu_cache>>
  PROVE  PagesInv'
<1>1. CopiesOK
  BY DEF PagesInv
<1>2. PICK s \in Seqs :
        /\ Fail(s) /\ UNCHANGED stepVars /\ pc \in {"running", "swap_in", "admit"}
        /\ pc = "running" => cpu_block_table[s] = <<>>
        /\ pc # "running" => block_table[s] = <<>>
  <2>1. CASE FailAlone
    <3>1. Scheduling /\ Fail(current) /\ UNCHANGED stepVars /\ pc = "running"
      BY <2>1 DEF FailAlone, OutOfBlocks, Scheduling
    <3>2. current \in Range(running)
      BY <3>1, CurrentIsQueued DEF IInv
    <3>3. current \in Seqs /\ Placed(current)
      BY <3>2, QueuedArrived DEF IInv, QInv
    <3>4. cpu_block_table[current] = <<>>
      BY <3>1, <3>2, <3>3 DEF Placed
    <3> QED BY <3>1, <3>3, <3>4
  <2>2. CASE FailSwapIn
    <3>1. swapped # <<>> /\ Fail(Head(swapped)) /\ UNCHANGED stepVars /\ pc = "swap_in"
      BY <2>2 DEF FailSwapIn, SwappingIn
    <3>2. Head(swapped) \in Range(swapped)
      BY <3>1, CurrentIsQueued DEF IInv
    <3>3. Head(swapped) \in Seqs /\ Placed(Head(swapped))
      BY <3>2, QueuedArrived DEF IInv, QInv
    <3>4. block_table[Head(swapped)] = <<>>
      BY <3>2, <3>3 DEF Placed
    <3> QED BY <3>1, <3>3, <3>4
  <2>3. CASE FailAdmit
    <3>1. Admitting /\ Fail(candidate) /\ UNCHANGED stepVars /\ pc = "admit"
      BY <2>3 DEF FailAdmit, Admitting
    <3>2. candidate \in Seqs /\ block_table[candidate] = <<>>
      BY <3>1, CandidatePopped DEF IInv, Admitting
    <3> QED BY <3>1, <3>2
  <2> QED BY <2>1, <2>2, <2>3
<1>3. /\ TablesKept /\ UNCHANGED block_hash
      /\ pc # "running" => UNCHANGED block_table
      /\ pc = "running" => UNCHANGED cpu_block_table
  BY <1>2, FailTables
<1>4. Preparing /\ Preparing' /\ batch' = batch /\ pc' = pc
  BY <1>2 DEF stepVars, Preparing
<1>5. batch.swap_out # <<>> => pc = "running" /\ batch.num_preempted # 0
  BY <1>1, <1>2, <1>4 DEF CopiesOK
<1>6. batch.swap_in # <<>> => pc # "running" /\ batch.seqs # <<>>
  BY <1>1, <1>4 DEF CopiesOK
<1>7. Range(batch.swap_in) \subseteq CpuBlocks \X Blocks
  BY DEF ReportOK, BatchRecord, Range
<1>8. CopiesOK'
  BY <1>1, <1>3, <1>4, <1>5, <1>6, <1>7, CopiesKept
<1>9. gpu' = gpu /\ host' = host
  BY <1>4, SameCopies
<1> QED BY <1>2, <1>3, <1>4, <1>8, <1>9, QuietStep DEF TablesKept

\* A running sequence gets blocks behind the ones it has.
LEMMA ScheduleRunningPages ==
  ASSUME IInv, C!IInv, ReportOK, PagesInv, ScheduleRunning, UNCHANGED <<kv_cache, cpu_cache>>
  PROVE  PagesInv'
<1>1. CopiesOK
  BY DEF PagesInv
<1>2. /\ pc = "running" /\ pc' = "running" /\ i <= Len(running)
      /\ UNCHANGED <<cpu_block_table, token_ids, num_computed_tokens>>
      /\ batch'.swap_out = batch.swap_out /\ batch'.swap_in = batch.swap_in
      /\ batch'.num_preempted = batch.num_preempted
  <2>1. batch \in BatchRecord
    BY DEF ReportOK
  <2>2. batch' = batch \/ \E entries : batch' = [batch EXCEPT !.seqs = entries]
    BY DEF ScheduleRunning
  <2>3. /\ batch'.swap_out = batch.swap_out /\ batch'.swap_in = batch.swap_in
        /\ batch'.num_preempted = batch.num_preempted
    BY <2>1, <2>2 DEF BatchRecord
  <2> QED BY <2>3 DEF ScheduleRunning, Scheduling, cpuVars, seqVars
<1>3. Types /\ WalkOK /\ \A t \in Seqs : Placed(t) /\ Counted(t)
  BY DEF IInv, QInv
<1>4. /\ i \in Nat \ {0} /\ running \in Seq(Seqs) /\ Len(running) \in Nat
      /\ plan \in [Seqs -> Nat] /\ num_computed_tokens \in [Seqs -> Nat]
  BY <1>3 DEF Types
<1>5. PICK s \in Seqs : s = current /\ s \notin Awaiting /\ status[s] = "RUNNING"
  BY <1>2, <1>4, AheadHaveNone DEF current, IInv
<1>6. PICK n \in Nat : n = plan[s]
  BY <1>4
<1>7. block_table[s] # <<>> /\ Len(block_table[s]) = blocks_for(num_computed_tokens[s])
  BY <1>2, <1>3, <1>5 DEF Placed, Counted
<1>8. /\ \A b \in Blocks : block_hash'[b] \in {block_hash[b], None}
      /\ \A t \in Seqs \ {s} : block_table'[t] = block_table[t]
      /\ \A j \in DOMAIN block_table[s] :
           j \in DOMAIN block_table'[s] /\ block_table'[s][j] = block_table[s][j]
  <2>1. CASE n = 0
    BY <1>5, <1>6, <2>1 DEF ScheduleRunning, gpuVars
  <2>2. CASE n # 0
    <3>1. Acquire(s, <<>>, blocks_needed(s, n))
      BY <1>5, <1>6, <2>2 DEF ScheduleRunning, append_slots
    <3>2. blocks_needed(s, n) \in Nat
      <4>1. num_computed_tokens[s] \in Nat /\ Len(block_table[s]) \in Nat
        BY <1>3, <1>4 DEF Types, IsList
      <4>2. Len(block_table[s]) <= blocks_for(num_computed_tokens[s])
        BY <1>7, <4>1
      <4>3. blocks_for(num_computed_tokens[s] + n) - Len(block_table[s]) \in Nat
        BY <4>1, <4>2, RoomFor
      <4> QED BY <4>3 DEF blocks_needed
    <3>3. block_table \in [Seqs -> Seq(Blocks)]
      BY PoolServes DEF BlockManagerTypeOK
    <3> QED BY <3>1, <3>2, <3>3, AcquireKeeps, EmptyIsList
  <2> QED BY <2>1, <2>2
<1>9. \A t \in Seqs : block_table'[t] # <<>> => Kept(t)
  <2>1. ASSUME NEW t \in Seqs, block_table'[t] # <<>> PROVE Kept(t)
    <3>1. CASE t = s
      BY <1>2, <1>7, <1>8, <3>1 DEF Kept
    <3>2. CASE t # s
      <4>1. block_table'[t] = block_table[t]
        BY <1>8, <3>2
      <4> QED BY <1>2, <2>1, <4>1 DEF Kept
    <3> QED BY <3>1, <3>2
  <2> QED BY <2>1
<1>10. \A t \in Seqs : cpu_block_table'[t] # <<>> => HostKept(t)
  BY <1>2 DEF HostKept
<1>11. Preparing /\ Preparing'
  BY <1>2 DEF Preparing
<1>12. batch.swap_out # <<>> => UNCHANGED cpu_block_table /\ pc' \in {"running", "execute"} /\ batch'.num_preempted # 0
  BY <1>1, <1>2, <1>11 DEF CopiesOK
<1>13. batch.swap_in = <<>>
  BY <1>1, <1>2, <1>11 DEF CopiesOK
<1>14. CopiesOK'
  BY <1>1, <1>2, <1>11, <1>12, <1>13, CopiesKept
<1>15. gpu' = gpu /\ host' = host
  BY <1>2, <1>11, SameCopies
<1> QED BY <1>2, <1>8, <1>9, <1>10, <1>14, <1>15, QuietStep

-----------------------------------------------------------------------------
\* Victims that take their blocks along.

LEMMA Joined ==
  ASSUME NEW E, NEW p \in Seq(E), NEW q \in Seq(E)
  PROVE  /\ p \o q \in Seq(E)
         /\ \A j \in DOMAIN p : j \in DOMAIN (p \o q) /\ (p \o q)[j] = p[j]
         /\ \A j \in DOMAIN q : Len(p) + j \in DOMAIN (p \o q) /\ (p \o q)[Len(p) + j] = q[j]
         /\ \A k \in DOMAIN (p \o q) : k \in DOMAIN p \/ \E j \in DOMAIN q : k = Len(p) + j
<1>1. p \o q \in Seq(E) /\ Len(p) \in Nat /\ Len(q) \in Nat /\ Len(p \o q) = Len(p) + Len(q)
  OBVIOUS
<1>2. DOMAIN p = 1..Len(p) /\ DOMAIN q = 1..Len(q) /\ DOMAIN (p \o q) = 1 .. Len(p) + Len(q)
  BY <1>1
<1>3. \A j \in DOMAIN p : j \in DOMAIN (p \o q) /\ (p \o q)[j] = p[j]
  BY <1>1, <1>2
<1>4. \A j \in DOMAIN q : Len(p) + j \in DOMAIN (p \o q) /\ (p \o q)[Len(p) + j] = q[j]
  BY <1>1, <1>2
<1>5. ASSUME NEW k \in DOMAIN (p \o q) PROVE k \in DOMAIN p \/ \E j \in DOMAIN q : k = Len(p) + j
  <2>1. CASE k <= Len(p)
    BY <1>1, <1>2, <2>1
  <2>2. CASE ~(k <= Len(p))
    <3>1. k - Len(p) \in DOMAIN q /\ k = Len(p) + (k - Len(p))
      BY <1>1, <1>2, <2>2
    <3> QED BY <3>1
  <2> QED BY <2>1, <2>2
<1> QED BY <1>1, <1>3, <1>4, <1>5

\* The same, of a sequence x that is p \o q.
IsJoin(x, p, q) == x = p \o q
JoinHas(x, p, q) ==
  /\ \A j \in DOMAIN p : j \in DOMAIN x /\ x[j] = p[j]
  /\ \A j \in DOMAIN q : Len(p) + j \in DOMAIN x /\ x[Len(p) + j] = q[j]
  /\ \A k \in DOMAIN x : k \in DOMAIN p \/ \E j \in DOMAIN q : k = Len(p) + j

LEMMA JoinedAs ==
  ASSUME NEW E, NEW p \in Seq(E), NEW q \in Seq(E), NEW x, IsJoin(x, p, q)
  PROVE  JoinHas(x, p, q)
<1>1. x = p \o q
  BY DEF IsJoin
<1>2. \A j \in DOMAIN p : j \in DOMAIN (p \o q) /\ (p \o q)[j] = p[j]
  BY Joined
<1>3. \A j \in DOMAIN q : /\ Len(p) + j \in DOMAIN (p \o q)
                          /\ (p \o q)[Len(p) + j] = q[j]
  BY Joined
<1>4. \A k \in DOMAIN (p \o q) : k \in DOMAIN p \/ \E j \in DOMAIN q : k = Len(p) + j
  BY Joined
<1>5. JoinHas(p \o q, p, q)
  BY <1>2, <1>3, <1>4, Zenon DEF JoinHas
<1> QED BY <1>1, <1>5

\* More copies, to other blocks, add to what the earlier ones did.
Distinct(pairs) == \A q, r \in DOMAIN pairs : pairs[q][2] = pairs[r][2] => q = r

Apart(p, q) == \A j \in DOMAIN p : \A k \in DOMAIN q : p[j][2] # q[k][2]

Adds(cache, from, p, q) ==
  \A b \in Nat : \A o \in 0..BlockSize - 1 : b * BlockSize + o \in DOMAIN cache =>
    /\ (\A k \in DOMAIN q : q[k][2] # b) =>
         Copied(cache, from, p \o q)[b * BlockSize + o] = Copied(cache, from, p)[b * BlockSize + o]
    /\ \A k \in DOMAIN q : q[k][2] = b =>
         Copied(cache, from, p \o q)[b * BlockSize + o] = from[q[k][1] * BlockSize + o]

LEMMA CopyMore ==
  ASSUME NEW E, NEW p \in Seq(E), NEW q \in Seq(E), Distinct(p), Distinct(q), Apart(p, q)
  PROVE  Distinct(p \o q) /\ \A cache, from : Adds(cache, from, p, q)
<1> SUFFICES ASSUME NEW cache, NEW from
             PROVE  Distinct(p \o q) /\ Adds(cache, from, p, q)
  OBVIOUS
<1> DEFINE all == p \o q
<1>1. /\ \A j \in DOMAIN p : j \in DOMAIN all /\ all[j] = p[j]
      /\ \A j \in DOMAIN q : Len(p) + j \in DOMAIN all /\ all[Len(p) + j] = q[j]
      /\ \A k \in DOMAIN all : k \in DOMAIN p \/ \E j \in DOMAIN q : k = Len(p) + j
  BY Joined
<1> HIDE DEF all
<1>2. ASSUME NEW j \in DOMAIN all, NEW k \in DOMAIN all, all[j][2] = all[k][2] PROVE j = k
  <2>1. CASE j \in DOMAIN p /\ k \in DOMAIN p
    BY <1>1, <1>2, <2>1 DEF Distinct
  <2>2. CASE j \in DOMAIN p /\ k \notin DOMAIN p
    <3>1. PICK m \in DOMAIN q : k = Len(p) + m
      BY <1>1, <2>2
    <3> QED BY <1>1, <1>2, <2>2, <3>1 DEF Apart
  <2>3. CASE j \notin DOMAIN p /\ k \in DOMAIN p
    <3>1. PICK m \in DOMAIN q : j = Len(p) + m
      BY <1>1, <2>3
    <3> QED BY <1>1, <1>2, <2>3, <3>1 DEF Apart
  <2>4. CASE j \notin DOMAIN p /\ k \notin DOMAIN p
    <3>1. PICK m \in DOMAIN q, n \in DOMAIN q : j = Len(p) + m /\ k = Len(p) + n
      BY <1>1, <2>4
    <3> QED BY <1>1, <1>2, <3>1 DEF Distinct
  <2> QED BY <2>1, <2>2, <2>3, <2>4
<1>3. ASSUME NEW b \in Nat, NEW o \in 0..BlockSize - 1, b * BlockSize + o \in DOMAIN cache,
             \A k \in DOMAIN q : q[k][2] # b
      PROVE  Copied(cache, from, all)[b * BlockSize + o] = Copied(cache, from, p)[b * BlockSize + o]
  <2>1. CASE \A j \in DOMAIN p : p[j][2] # b
    <3>1. \A j \in DOMAIN all : all[j][2] # b
      BY <1>1, <1>3, <2>1
    <3>2. Copied(cache, from, all)[b * BlockSize + o] = cache[b * BlockSize + o]
      BY <1>3, <3>1, CopiedElsewhere
    <3>3. Copied(cache, from, p)[b * BlockSize + o] = cache[b * BlockSize + o]
      BY <1>3, <2>1, CopiedElsewhere
    <3> QED BY <3>2, <3>3
  <2>2. CASE \E j \in DOMAIN p : p[j][2] = b
    <3>1. PICK j \in DOMAIN p : p[j][2] = b
      BY <2>2
    <3>2. j \in DOMAIN all /\ all[j] = p[j] /\ all[j][2] = b
      BY <1>1, <3>1
    <3>3. \A r \in DOMAIN all : all[r][2] = b => r = j
      BY <1>2, <3>2
    <3>4. \A r \in DOMAIN p : p[r][2] = b => r = j
      BY <3>1 DEF Distinct
    <3>5. Copied(cache, from, all)[b * BlockSize + o] = from[all[j][1] * BlockSize + o]
      BY <1>3, <3>2, <3>3, CopiedThere
    <3>6. Copied(cache, from, p)[b * BlockSize + o] = from[p[j][1] * BlockSize + o]
      BY <1>3, <3>1, <3>4, CopiedThere
    <3> QED BY <3>2, <3>5, <3>6
  <2> QED BY <2>1, <2>2
<1>4. ASSUME NEW b \in Nat, NEW o \in 0..BlockSize - 1, b * BlockSize + o \in DOMAIN cache,
             NEW k \in DOMAIN q, q[k][2] = b
      PROVE  Copied(cache, from, all)[b * BlockSize + o] = from[q[k][1] * BlockSize + o]
  <2>1. Len(p) + k \in DOMAIN all /\ all[Len(p) + k] = q[k]
    BY <1>1
  <2>2. PICK j \in DOMAIN all : j = Len(p) + k /\ all[j] = q[k] /\ all[j][2] = b
    BY <1>4, <2>1
  <2>3. \A r \in DOMAIN all : all[r][2] = b => r = j
    BY <1>2, <2>2
  <2>4. Copied(cache, from, all)[b * BlockSize + o] = from[all[j][1] * BlockSize + o]
    BY <1>4, <2>2, <2>3, CopiedThere
  <2> QED BY <2>2, <2>4
<1> QED BY <1>2, <1>3, <1>4 DEF all, Distinct, Adds

\* What Evict does to the victim's tables and to the batch.
LEMMA EvictEffect ==
  ASSUME IInv, C!IInv, ReportOK, Evict
  PROVE  \E s \in Seqs, pairs \in Seq(Blocks \X CpuBlocks) :
           /\ pc = "running" /\ pc' = "running" /\ Preempt(s)
           /\ cpu_block_table[s] = <<>> /\ block_table[s] # <<>>
           /\ block_table' = [block_table EXCEPT ![s] = <<>>]
           /\ UNCHANGED <<block_hash, token_ids>>
           /\ batch'.swap_in = batch.swap_in /\ batch'.num_preempted # 0
           /\ batch'.swap_out = batch.swap_out \o pairs
           /\ \/ /\ pairs = <<>> /\ UNCHANGED cpu_block_table
                 /\ num_computed_tokens' = [num_computed_tokens EXCEPT ![s] = 0]
              \/ /\ UNCHANGED num_computed_tokens /\ DOMAIN pairs = DOMAIN block_table[s]
                 /\ DOMAIN block_table[s] \subseteq DOMAIN cpu_free
                 /\ \A k \in DOMAIN pairs : pairs[k] = <<block_table[s][k], cpu_free[k]>>
                 /\ \A t \in Seqs \ {s} : cpu_block_table'[t] = cpu_block_table[t]
                 /\ DOMAIN cpu_block_table'[s] = DOMAIN pairs
                 /\ \A k \in DOMAIN pairs : cpu_block_table'[s][k] = cpu_free[k]
<1>1. pc = "running" /\ pc' = "running" /\ Preempt(victim) /\ i <= Len(running)
  BY DEF Evict, OutOfBlocks, Scheduling
<1>2. i \in Nat \ {0} /\ running \in Seq(Seqs) /\ Len(running) \in Nat
  BY DEF IInv, QInv, Types
<1>3. PICK s \in Seqs : s = victim /\ status[s] = "RUNNING"
  <2>1. Len(running) \in i..Len(running) /\ victim = running[Len(running)]
    BY <1>1, <1>2 DEF victim, Last
  <2> QED BY <1>1, <2>1, AheadHaveNone DEF IInv
<1>4. cpu_block_table[s] = <<>> /\ block_table[s] # <<>>
  BY <1>3 DEF IInv, QInv, Placed
<1>5. /\ block_table \in [Seqs -> Seq(Blocks)] /\ cpu_block_table \in [Seqs -> Seq(CpuBlocks)]
      /\ cpu_free \in Seq(CpuBlocks)
  BY PoolServes DEF BlockManagerTypeOK
<1>6. /\ block_table' = [block_table EXCEPT ![s] = <<>>]
      /\ UNCHANGED <<block_hash, token_ids>>
  BY <1>1, <1>3 DEF Preempt, swap_out, free, Release
<1>7. PICK pairs : /\ batch' = [batch EXCEPT !.num_preempted = @ + 1, !.swap_out = @ \o pairs]
                   /\ \/ /\ pairs = <<>> /\ UNCHANGED cpu_block_table
                         /\ num_computed_tokens' = [num_computed_tokens EXCEPT ![s] = 0]
                      \/ /\ can_swap_out(s) /\ pairs = SwapOutPairs(s) /\ swap_out(s)
                         /\ UNCHANGED num_computed_tokens
  BY <1>1, <1>3 DEF Preempt, cpuVars
<1>8. /\ batch'.swap_in = batch.swap_in /\ batch'.num_preempted # 0
      /\ batch'.swap_out = batch.swap_out \o pairs
  <2>1. batch.num_preempted \in Nat /\ DOMAIN batch = {"seqs", "swap_out", "swap_in", "num_preempted"}
    BY DEF ReportOK, BatchRecord
  <2>2. PICK count \in Nat : count = batch.num_preempted + 1 /\ count # 0
    BY <2>1
  <2>3. batch' = [batch EXCEPT !.num_preempted = count, !.swap_out = @ \o pairs]
    BY <1>7, <2>2
  <2> QED BY <2>1, <2>2, <2>3
<1>9. CASE pairs = <<>> /\ UNCHANGED cpu_block_table
           /\ num_computed_tokens' = [num_computed_tokens EXCEPT ![s] = 0]
  <2>1. pairs \in Seq(Blocks \X CpuBlocks)
    BY <1>9
  <2> QED BY <1>1, <1>3, <1>4, <1>6, <1>8, <1>9, <2>1
<1>10. CASE can_swap_out(s) /\ pairs = SwapOutPairs(s) /\ swap_out(s) /\ UNCHANGED num_computed_tokens
  <2>1. PICK n \in Nat : n = Len(block_table[s]) /\ n <= Len(cpu_free) /\ DOMAIN block_table[s] = 1..n
    BY <1>5, <1>10 DEF can_swap_out
  <2>2. Len(cpu_free) \in Nat /\ DOMAIN cpu_free = 1..Len(cpu_free)
    BY <1>5
  <2>3. 1..n \subseteq DOMAIN cpu_free
    BY <2>1, <2>2
  <2>4. pairs = [k \in 1..n |-> <<block_table[s][k], cpu_free[k]>>]
    BY <1>10, <2>1 DEF SwapOutPairs
  <2>5. \A k \in 1..n : block_table[s][k] \in Blocks /\ cpu_free[k] \in CpuBlocks
    BY <1>5, <2>1, <2>3
  <2>6. pairs \in Seq(Blocks \X CpuBlocks)
    BY <2>4, <2>5
  <2>7. cpu_block_table' = [cpu_block_table EXCEPT ![s] = @ \o SubSeq(cpu_free, 1, n)]
    BY <1>10, <2>1 DEF swap_out
  <2>8. /\ SubSeq(cpu_free, 1, n) \in Seq(CpuBlocks) /\ Len(SubSeq(cpu_free, 1, n)) = n
        /\ \A k \in 1..n : SubSeq(cpu_free, 1, n)[k] = cpu_free[k]
    BY <1>5, <2>1, <2>2, <2>3
  <2>9. cpu_block_table'[s] = SubSeq(cpu_free, 1, n)
    <3>1. cpu_block_table'[s] = <<>> \o SubSeq(cpu_free, 1, n)
      BY <1>4, <1>5, <2>7
    <3> QED BY <2>8, <3>1
  <2>10. \A t \in Seqs \ {s} : cpu_block_table'[t] = cpu_block_table[t]
    BY <1>5, <2>7
  <2>11. DOMAIN cpu_block_table'[s] = 1..n /\ DOMAIN pairs = 1..n
    BY <2>4, <2>8, <2>9
  <2>12. \A k \in DOMAIN pairs : /\ pairs[k] = <<block_table[s][k], cpu_free[k]>>
                                 /\ cpu_block_table'[s][k] = cpu_free[k]
    BY <2>4, <2>8, <2>9, <2>11
  <2> QED BY <1>1, <1>3, <1>4, <1>6, <1>8, <1>10, <2>1, <2>3, <2>6, <2>10, <2>11, <2>12
<1> QED BY <1>7, <1>9, <1>10

\* A victim's copies go to host blocks that nobody had, so its context is in
\* host memory when its blocks are others'.
LEMMA EvictPages ==
  ASSUME IInv, C!IInv, ReportOK, PagesInv, Evict, UNCHANGED <<kv_cache, cpu_cache>>
  PROVE  PagesInv'
<1> DEFINE E == Blocks \X CpuBlocks
           out == batch.swap_out
<1>1. PICK s \in Seqs, pairs \in Seq(E) :
        /\ pc = "running" /\ pc' = "running" /\ Preempt(s)
        /\ cpu_block_table[s] = <<>> /\ block_table[s] # <<>>
        /\ block_table' = [block_table EXCEPT ![s] = <<>>]
        /\ UNCHANGED <<block_hash, token_ids>>
        /\ batch'.swap_in = batch.swap_in /\ batch'.num_preempted # 0
        /\ batch'.swap_out = out \o pairs
        /\ \/ /\ pairs = <<>> /\ UNCHANGED cpu_block_table
              /\ num_computed_tokens' = [num_computed_tokens EXCEPT ![s] = 0]
           \/ /\ UNCHANGED num_computed_tokens /\ DOMAIN pairs = DOMAIN block_table[s]
              /\ DOMAIN block_table[s] \subseteq DOMAIN cpu_free
              /\ \A k \in DOMAIN pairs : pairs[k] = <<block_table[s][k], cpu_free[k]>>
              /\ \A t \in Seqs \ {s} : cpu_block_table'[t] = cpu_block_table[t]
              /\ DOMAIN cpu_block_table'[s] = DOMAIN pairs
              /\ \A k \in DOMAIN pairs : cpu_block_table'[s][k] = cpu_free[k]
  BY EvictEffect
<1>2. CachesOK /\ CopiesOK /\ Preparing /\ Preparing'
  BY <1>1 DEF PagesInv, Preparing
<1>3. batch.swap_in = <<>> /\ batch'.swap_in = <<>>
  BY <1>1, <1>2 DEF CopiesOK
<1>4. gpu = kv_cache /\ gpu' = kv_cache
  <2>1. SwappedIn = kv_cache
    BY <1>2, <1>3, NoCopies DEF SwappedIn
  <2>2. SwappedIn' = Copied(kv_cache, SwappedOut', <<>>)
    BY <1>3 DEF SwappedIn, Copied
  <2>3. SwappedIn' = kv_cache
    BY <1>2, <2>2, NoCopies
  <2> QED BY <1>2, <2>1, <2>3 DEF gpu
<1>5. block_table \in [Seqs -> Seq(Blocks)] /\ num_computed_tokens \in [Seqs -> Nat]
  BY PoolServes DEF BlockManagerTypeOK
<1>6. block_table'[s] = <<>> /\ \A t \in Seqs \ {s} : block_table'[t] = block_table[t]
  BY <1>1, <1>5
<1>7. \A t \in Seqs \ {s} : num_computed_tokens'[t] = num_computed_tokens[t]
  BY <1>1, <1>5
<1>8. \A t \in Seqs : block_table'[t] # <<>> => Kept(t)
  BY <1>1, <1>6, <1>7 DEF Kept
<1>9. out \in Seq(E)
  BY DEF ReportOK, BatchRecord
<1>10. CASE pairs = <<>> /\ UNCHANGED cpu_block_table
  <2>1. batch'.swap_out = batch.swap_out
    BY <1>1, <1>9, <1>10
  <2>2. \A t \in Seqs : cpu_block_table'[t] # <<>> => HostKept(t)
    BY <1>1, <1>7, <1>10 DEF HostKept
  <2>3. CopiesOK'
    <3>1. batch.swap_out # <<>> => pc' \in {"running", "execute"} /\ batch'.num_preempted # 0
      BY <1>1
    <3> QED BY <1>1, <1>2, <1>3, <1>10, <2>1, <3>1, CopiesKept
  <2>4. gpu' = gpu /\ host' = host
    BY <1>2, <1>3, <2>1, SameCopies
  <2> QED BY <1>1, <1>8, <2>2, <2>3, <2>4, QuietStep
<1>11. CASE /\ UNCHANGED num_computed_tokens /\ DOMAIN pairs = DOMAIN block_table[s]
            /\ DOMAIN block_table[s] \subseteq DOMAIN cpu_free
            /\ \A k \in DOMAIN pairs : pairs[k] = <<block_table[s][k], cpu_free[k]>>
            /\ \A t \in Seqs \ {s} : cpu_block_table'[t] = cpu_block_table[t]
            /\ DOMAIN cpu_block_table'[s] = DOMAIN pairs
            /\ \A k \in DOMAIN pairs : cpu_block_table'[s][k] = cpu_free[k]
  <2>1. /\ IsInjective(cpu_free) /\ cpu_free \in Seq(CpuBlocks)
        /\ \A t \in Seqs : \A k \in DOMAIN cpu_free : cpu_free[k] \notin Range(cpu_block_table[t])
    <3>1. /\ IsInjective(cpu_free) /\ cpu_free \in Seq(CpuBlocks)
          /\ \A c \in CpuBlocks : c \in Range(cpu_free) => \A t \in Seqs : c \notin Range(cpu_block_table[t])
      BY PoolServes DEF BlockManagerTypeOK
    <3>2. \A k \in DOMAIN cpu_free : cpu_free[k] \in CpuBlocks /\ cpu_free[k] \in Range(cpu_free)
      BY <3>1 DEF Range
    <3> QED BY <3>1, <3>2
  <2>2. /\ \A j, k \in DOMAIN out : out[j][2] = out[k][2] => j = k
        /\ \A k \in DOMAIN out : \E t \in Seqs : out[k][2] \in Range(cpu_block_table[t])
    BY <1>2 DEF CopiesOK, Targets
  <2>3. \A k \in DOMAIN pairs : pairs[k][2] = cpu_free[k] /\ k \in DOMAIN cpu_free
    BY <1>11
  <2>4. \A j, k \in DOMAIN pairs : pairs[j][2] = pairs[k][2] => j = k
    BY <2>1, <2>3 DEF IsInjective
  <2>5. \A j \in DOMAIN out : \A k \in DOMAIN pairs : out[j][2] # pairs[k][2]
    BY <2>1, <2>2, <2>3
  <2> DEFINE new == out \o pairs
  <2>6. Distinct(new) /\ Adds(cpu_cache, kv_cache, out, pairs)
    <3> HIDE DEF E
    <3>1. out \in Seq(E) /\ Distinct(out) /\ Distinct(pairs) /\ Apart(out, pairs)
      BY <1>9, <2>2, <2>4, <2>5 DEF Distinct, Apart
    <3> HIDE DEF out
    <3> QED BY <3>1, CopyMore
  <2>7. host = Copied(cpu_cache, kv_cache, out) /\ host' = Copied(cpu_cache, kv_cache, new)
    <3>1. SwappedOut' = Copied(cpu_cache, kv_cache, new)
      BY <1>1 DEF SwappedOut, Copied
    <3> QED BY <1>2, <3>1 DEF host, SwappedOut
  <2>8. PICK before, after : before = host /\ after = host'
    OBVIOUS
  <2>9. PICK kv : kv = kv_cache
    OBVIOUS
  <2>10. /\ \A b \in CpuBlocks : \A o \in 0..BlockSize - 1 :
              (\A k \in DOMAIN pairs : pairs[k][2] # b) =>
                after[b * BlockSize + o] = before[b * BlockSize + o]
         /\ \A b \in CpuBlocks : \A o \in 0..BlockSize - 1 : \A k \in DOMAIN pairs :
              pairs[k][2] = b => after[b * BlockSize + o] = kv[pairs[k][1] * BlockSize + o]
    <3>1. ASSUME NEW b \in CpuBlocks, NEW o \in 0..BlockSize - 1
          PROVE  b \in Nat /\ b * BlockSize + o \in DOMAIN cpu_cache
      BY <1>2, InCache
    <3> QED BY <2>6, <2>7, <2>8, <2>9, <3>1 DEF Adds
  <2> HIDE DEF new
  <2>11. ASSUME NEW t \in Seqs PROVE InTable(kv, t)' /\ InHostTable(after, t)'
    <3>1. InTable(kv, t) /\ InHostTable(before, t)
      BY <1>1, <1>4, <2>8, <2>9 DEF PagesInv, InTable, InHostTable
    <3>2. InTable(kv, t)'
      BY <1>8, <3>1, TableKept
    <3>3. CASE t # s
      <4>1. cpu_block_table'[t] # <<>> => HostKept(t)
        BY <1>1, <1>11, <3>3 DEF HostKept
      <4>2. ASSUME NEW j \in DOMAIN cpu_block_table[t], NEW o \in 0..BlockSize - 1
            PROVE  after[cpu_block_table[t][j] * BlockSize + o] = before[cpu_block_table[t][j] * BlockSize + o]
        <5>1. cpu_block_table[t] \in Seq(CpuBlocks)
          BY TableFacts
        <5>2. cpu_block_table[t][j] \in CpuBlocks /\ cpu_block_table[t][j] \in Range(cpu_block_table[t])
          BY <5>1 DEF Range
        <5>3. \A k \in DOMAIN pairs : pairs[k][2] # cpu_block_table[t][j]
          BY <2>1, <2>3, <5>2
        <5> QED BY <2>10, <5>2, <5>3
      <4>3. InHostTable(after, t)'
        BY <3>1, <4>1, <4>2, HostTableKept
      <4> QED BY <3>2, <4>3
    <3>4. CASE t = s
      <4>1. ASSUME NEW p \in 0 .. num_computed_tokens[s] - 1
            PROVE  after[Slot(cpu_block_table'[s], p)] = Context(s, p)
        <5>1. block_table[s] \in Seq(Blocks)
          BY <1>1, TableFacts
        <5>2. blocks_for(num_computed_tokens[s]) <= Len(block_table[s]) /\ num_computed_tokens[s] \in Nat
          BY <1>1, TableFacts
        <5>3. PICK j \in DOMAIN block_table[s], o \in 0..BlockSize - 1 :
                /\ j = p \div BlockSize + 1 /\ o = p % BlockSize
                /\ Slot(block_table[s], p) = block_table[s][j] * BlockSize + o
          <6>1. Blocks \in SUBSET Nat
            BY PoolAssumption DEF Blocks
          <6>2. PICK m \in Nat, u \in Seq(Blocks) : m = num_computed_tokens[s] /\ u = block_table[s]
            BY <5>1, <5>2
          <6>3. blocks_for(m) <= Len(u) /\ p \in 0..m - 1
            BY <5>2, <6>2
          <6>4. \E j \in DOMAIN u, o \in 0..BlockSize - 1 :
                  /\ j = p \div BlockSize + 1 /\ o = p % BlockSize
                  /\ Slot(u, p) = u[j] * BlockSize + o
            BY <6>1, <6>3, SlotInTable
          <6> QED BY <6>2, <6>4
        <5>4. j \in DOMAIN pairs /\ pairs[j] = <<block_table[s][j], cpu_free[j]>> /\ cpu_block_table'[s][j] = cpu_free[j]
              /\ cpu_free[j] \in CpuBlocks
          BY <1>11, <2>1, <2>3
        <5>5. Slot(cpu_block_table'[s], p) = cpu_free[j] * BlockSize + o
          BY <5>3, <5>4 DEF Slot
        <5>6. after[cpu_free[j] * BlockSize + o] = kv[block_table[s][j] * BlockSize + o]
          <6>1. pairs[j][2] = cpu_free[j] /\ pairs[j][1] = block_table[s][j]
            BY <5>4
          <6>2. after[cpu_free[j] * BlockSize + o] = kv[pairs[j][1] * BlockSize + o]
            BY <2>10, <5>4, <6>1
          <6> QED BY <6>1, <6>2
        <5>7. kv[Slot(block_table[s], p)] = Context(s, p)
          BY <1>1, <3>1, <3>4 DEF InTable
        <5> QED BY <5>3, <5>5, <5>6, <5>7
      <4>2. InHostTable(after, s)'
        BY <1>1, <1>11, <4>1 DEF InHostTable, Context
      <4> QED BY <3>2, <3>4, <4>2
    <3> QED BY <3>3, <3>4
  <2>12. CopiesOK'
    <3>1. \A j, k \in DOMAIN new : new[j][2] = new[k][2] => j = k
      BY <2>6 DEF Distinct
    <3>2. ASSUME NEW k \in DOMAIN new PROVE \E t \in Seqs : new[k][2] \in Range(cpu_block_table'[t])
      <4>1. /\ \A j \in DOMAIN out : j \in DOMAIN new /\ new[j] = out[j]
            /\ \A j \in DOMAIN pairs : Len(out) + j \in DOMAIN new /\ new[Len(out) + j] = pairs[j]
            /\ k \in DOMAIN out \/ \E j \in DOMAIN pairs : k = Len(out) + j
        <5>1. IsJoin(new, out, pairs)
          BY DEF new, IsJoin
        <5>2. out \in Seq(E) /\ pairs \in Seq(E)
          BY <1>9
        <5> HIDE DEF new, out, E
        <5>3. JoinHas(new, out, pairs)
          BY <5>1, <5>2, JoinedAs
        <5> QED BY <5>3 DEF JoinHas
      <4>2. CASE k \in DOMAIN out
        <5>1. PICK t \in Seqs : out[k][2] \in Range(cpu_block_table[t])
          BY <2>2, <4>2
        <5>2. t # s
          BY <1>1, <5>1 DEF Range
        <5> QED BY <1>11, <4>1, <4>2, <5>1, <5>2
      <4>3. CASE \E j \in DOMAIN pairs : k = Len(out) + j
        <5>1. PICK j \in DOMAIN pairs : k = Len(out) + j
          BY <4>3
        <5>2. new[k][2] = cpu_free[j] /\ cpu_block_table'[s][j] = cpu_free[j] /\ j \in DOMAIN cpu_block_table'[s]
          BY <1>11, <2>3, <4>1, <5>1
        <5>3. new[k][2] \in Range(cpu_block_table'[s])
          BY <5>2 DEF Range
        <5> QED BY <5>3
      <4> QED BY <4>1, <4>2, <4>3
    <3>3. batch'.swap_out = new
      BY <1>1 DEF new
    <3>4. Targets(batch.swap_out, cpu_block_table)'
      BY <3>1, <3>2, <3>3 DEF Targets
    <3>5. Targets(batch.swap_in, block_table)'
      BY <1>3 DEF Targets
    <3> QED BY <1>1, <1>2, <1>3, <3>4, <3>5 DEF CopiesOK
  <2>13. CachesOK' /\ PublishedIsContent' /\ ComputedNow'
    <3>1. PublishedIsContent'
      BY <1>1, PublishedKept DEF PagesInv
    <3> QED BY <1>1, <1>2, <3>1 DEF CachesOK, ComputedNow
  <2>14. \A t \in Seqs : InTable(gpu, t)' /\ InHostTable(host, t)'
    BY <1>4, <2>8, <2>9, <2>11 DEF InTable, InHostTable
  <2> QED BY <2>12, <2>13, <2>14 DEF PagesInv
<1> QED BY <1>1, <1>10, <1>11

-----------------------------------------------------------------------------
\* Victims that come back.

\* What the block manager promises of the tables, as the steps below need it of
\* the state they lead to.
TablesServe ==
  /\ \A s \in Seqs :
       /\ block_table[s] \in Seq(Blocks) /\ IsInjective(block_table[s])
       /\ block_table[s] # <<>> => blocks_for(num_computed_tokens[s]) <= Len(block_table[s])
  /\ \A s, t \in Seqs : \A b \in Range(block_table[s]) \cap Range(block_table[t]) :
       s # t => block_hash[b] # None

LEMMA PoolServesTables == C!IInv => TablesServe
<1> SUFFICES ASSUME C!IInv PROVE TablesServe
  OBVIOUS
<1> QED BY TableFacts, PoolServes DEF TablesServe

LEMMA SwapInEffect ==
  ASSUME IInv, IInv', C!IInv, TablesServe', ReportOK, SwapIn
  PROVE  \E s \in Seqs, pairs \in Seq(CpuBlocks \X Blocks) :
           /\ pc = "swap_in" /\ pc' = "swap_in"
           /\ block_table[s] = <<>> /\ cpu_block_table[s] # <<>>
           /\ cpu_block_table' = [cpu_block_table EXCEPT ![s] = <<>>]
           /\ \A t \in Seqs \ {s} : block_table'[t] = block_table[t]
           /\ \A b \in Blocks : block_hash'[b] \in {block_hash[b], None}
           /\ UNCHANGED <<token_ids, num_computed_tokens>>
           /\ batch'.swap_out = batch.swap_out /\ batch'.swap_in = batch.swap_in \o pairs
           /\ batch'.seqs # <<>>
           /\ DOMAIN pairs = DOMAIN cpu_block_table[s] /\ DOMAIN pairs \subseteq DOMAIN (block_table'[s])
           /\ \A k \in DOMAIN pairs : pairs[k] = <<cpu_block_table[s][k], block_table'[s][k]>>
           /\ \A j \in DOMAIN (block_table'[s]) : block_hash'[block_table'[s][j]] = None
<1>1. /\ pc = "swap_in" /\ pc' = "swap_in" /\ swapped # <<>>
      /\ UNCHANGED <<token_ids, num_computed_tokens>>
      /\ status' = [status EXCEPT ![Head(swapped)] = "RUNNING"]
  BY DEF SwapIn, SwappingIn, SetStatus
<1>2. PICK s \in Seqs : s = Head(swapped) /\ s \in Range(swapped) /\ C!SwapIn(s)
  <2>1. Head(swapped) \in Seqs /\ C!SwapIn(Head(swapped))
    BY SwapInIsClient DEF IInv
  <2>2. Head(swapped) \in Range(swapped)
    BY <1>1, CurrentIsQueued DEF IInv
  <2> QED BY <2>1, <2>2
<1>3. /\ block_table[s] = <<>> /\ cpu_block_table[s] # <<>>
      /\ Len(cpu_block_table[s]) = blocks_for(num_computed_tokens[s])
  BY <1>2 DEF IInv, QInv, Placed, Counted
<1>4. \A j \in DOMAIN (block_table'[s]) : block_hash'[block_table'[s][j]] = None
  BY <1>2, ClientAssumptionsHold, PoolAssumption, C!SwapInStep
<1>5. swap_in(s, swap_in_tokens)
  BY <1>2 DEF SwapIn
<1>6. /\ block_table \in [Seqs -> Seq(Blocks)] /\ cpu_block_table \in [Seqs -> Seq(CpuBlocks)]
      /\ num_computed_tokens \in [Seqs -> Nat]
  BY PoolServes DEF BlockManagerTypeOK
<1>7. /\ cpu_block_table' = [cpu_block_table EXCEPT ![s] = <<>>]
      /\ \A t \in Seqs \ {s} : block_table'[t] = block_table[t]
      /\ \A b \in Blocks : block_hash'[b] \in {block_hash[b], None}
  BY <1>5, <1>6 DEF swap_in, free_cpu, Acquire
<1>8. PICK pairs : /\ pairs = SwapInPairs(s)
                   /\ batch' = [batch EXCEPT !.seqs = BatchAdd(s, swap_in_tokens, num_computed_tokens[s]),
                                             !.swap_in = @ \o pairs]
  BY <1>2 DEF SwapIn
<1>9. /\ batch'.swap_out = batch.swap_out /\ batch'.swap_in = batch.swap_in \o pairs
      /\ batch'.seqs # <<>>
  <2>1. batch \in BatchRecord /\ batch.seqs \in Seq(EntryRecord)
    BY DEF ReportOK, BatchRecord
  <2>2. DOMAIN batch = {"seqs", "swap_out", "swap_in", "num_preempted"}
    BY <2>1 DEF BatchRecord
  <2>3. batch'.seqs = BatchAdd(s, swap_in_tokens, num_computed_tokens[s])
    BY <1>8, <2>2
  <2>4. \A e : Append(batch.seqs, e) # <<>>
    BY <2>1
  <2> QED BY <1>8, <2>2, <2>3, <2>4 DEF BatchAdd
<1>10. DOMAIN cpu_block_table[s] \subseteq DOMAIN (block_table'[s])
  <2>1. status[s] = "PREEMPTED" /\ status'[s] = "RUNNING"
    BY <1>1, <1>2 DEF IInv, QInv, Types, Placed
  <2>2. block_table'[s] # <<>>
    BY <2>1 DEF IInv, QInv, Placed
  <2>3. block_table'[s] \in Seq(Blocks) /\ blocks_for(num_computed_tokens[s]) <= Len(block_table'[s])
    BY <1>1, <2>2 DEF TablesServe, blocks_for
  <2>4. /\ DOMAIN cpu_block_table[s] = 1..Len(cpu_block_table[s]) /\ Len(cpu_block_table[s]) \in Nat
        /\ DOMAIN (block_table'[s]) = 1..Len(block_table'[s]) /\ Len(block_table'[s]) \in Nat
    BY <1>6, <2>3
  <2>5. Len(cpu_block_table[s]) <= Len(block_table'[s])
    BY <1>3, <2>3
  <2> QED BY <2>4, <2>5
<1>11. /\ DOMAIN pairs = DOMAIN cpu_block_table[s]
       /\ \A k \in DOMAIN pairs : pairs[k] = <<cpu_block_table[s][k], block_table'[s][k]>>
  BY <1>8 DEF SwapInPairs
<1>12. pairs \in Seq(CpuBlocks \X Blocks)
  <2>1. PICK n \in Nat : DOMAIN pairs = 1..n
    <3>1. cpu_block_table[s] \in Seq(CpuBlocks)
      BY <1>6
    <3>2. DOMAIN cpu_block_table[s] = 1..Len(cpu_block_table[s]) /\ Len(cpu_block_table[s]) \in Nat
      BY <3>1
    <3> QED BY <1>11, <3>2
  <2>2. \A k \in 1..n : cpu_block_table[s][k] \in CpuBlocks /\ block_table'[s][k] \in Blocks
    <3>1. cpu_block_table[s] \in Seq(CpuBlocks) /\ block_table'[s] \in Seq(Blocks)
      BY <1>6 DEF TablesServe
    <3>2. \A k \in DOMAIN cpu_block_table[s] : cpu_block_table[s][k] \in CpuBlocks
      BY <3>1
    <3>3. \A k \in DOMAIN (block_table'[s]) : block_table'[s][k] \in Blocks
      BY <3>1
    <3> QED BY <1>10, <1>11, <2>1, <3>2, <3>3
  <2>3. pairs = [k \in 1..n |-> <<cpu_block_table[s][k], block_table'[s][k]>>]
    BY <1>8, <1>11, <2>1 DEF SwapInPairs
  <2> QED BY <2>2, <2>3
<1> QED BY <1>1, <1>3, <1>4, <1>7, <1>9, <1>10, <1>11, <1>12

\* A victim finds in its new blocks what its host blocks kept: nobody shares
\* the new ones, and the forward pass runs after the copies.
LEMMA SwapInPages ==
  ASSUME IInv, IInv', C!IInv, TablesServe', ReportOK, PagesInv, SwapIn,
         UNCHANGED <<kv_cache, cpu_cache>>
  PROVE  PagesInv'
<1> DEFINE E == CpuBlocks \X Blocks
           in == batch.swap_in
<1>1. PICK s \in Seqs, pairs \in Seq(E) :
        /\ pc = "swap_in" /\ pc' = "swap_in"
        /\ block_table[s] = <<>> /\ cpu_block_table[s] # <<>>
        /\ cpu_block_table' = [cpu_block_table EXCEPT ![s] = <<>>]
        /\ \A t \in Seqs \ {s} : block_table'[t] = block_table[t]
        /\ \A b \in Blocks : block_hash'[b] \in {block_hash[b], None}
        /\ UNCHANGED <<token_ids, num_computed_tokens>>
        /\ batch'.swap_out = batch.swap_out /\ batch'.swap_in = in \o pairs
        /\ batch'.seqs # <<>>
        /\ DOMAIN pairs = DOMAIN cpu_block_table[s] /\ DOMAIN pairs \subseteq DOMAIN (block_table'[s])
        /\ \A k \in DOMAIN pairs : pairs[k] = <<cpu_block_table[s][k], block_table'[s][k]>>
        /\ \A j \in DOMAIN (block_table'[s]) : block_hash'[block_table'[s][j]] = None
  BY SwapInEffect
<1>2. CachesOK /\ CopiesOK /\ Preparing /\ Preparing'
  BY <1>1 DEF PagesInv, Preparing
<1>3. batch.swap_out = <<>> /\ batch'.swap_out = <<>>
  BY <1>1, <1>2 DEF CopiesOK
<1>4. host = cpu_cache /\ host' = cpu_cache
  <2>1. SwappedOut = cpu_cache
    BY <1>2, <1>3, NoCopies DEF SwappedOut
  <2>2. SwappedOut' = Copied(cpu_cache, kv_cache, <<>>)
    BY <1>3 DEF SwappedOut, Copied
  <2> QED BY <1>2, <2>1, <2>2, NoCopies DEF host
<1>5. cpu_block_table \in [Seqs -> Seq(CpuBlocks)] /\ num_computed_tokens \in [Seqs -> Nat]
  BY PoolServes DEF BlockManagerTypeOK
<1>6. in \in Seq(E)
  BY DEF ReportOK, BatchRecord
<1>7. /\ Distinct(in)
      /\ \A k \in DOMAIN in : \E t \in Seqs : in[k][2] \in Range(block_table[t])
      /\ \A k \in DOMAIN in : block_hash[in[k][2]] = None
  BY <1>2 DEF CopiesOK, Targets, Distinct
<1>8. \A k \in DOMAIN pairs : pairs[k][1] = cpu_block_table[s][k] /\ pairs[k][2] = block_table'[s][k]
  BY <1>1
<1>9. ASSUME NEW t \in Seqs, NEW b \in Range(block_table[t])
      PROVE  t # s /\ b \in Range(block_table'[t]) /\ \A k \in DOMAIN pairs : pairs[k][2] # b
  <2>1. t # s
    BY <1>1, <1>9 DEF Range
  <2>2. b \in Range(block_table'[t])
    BY <1>1, <1>9, <2>1
  <2>3. ASSUME NEW k \in DOMAIN pairs, pairs[k][2] = b PROVE FALSE
    <3>1. k \in DOMAIN (block_table'[s]) /\ block_table'[s][k] = b /\ block_hash'[b] = None
      BY <1>1, <1>8, <2>3
    <3>2. b \in Range(block_table'[s])
      BY <3>1 DEF Range
    <3> QED BY <2>1, <2>2, <3>1, <3>2 DEF TablesServe
  <2> QED BY <2>1, <2>2, <2>3
<1>10. Distinct(pairs) /\ Apart(in, pairs)
  <2>1. ASSUME NEW j \in DOMAIN pairs, NEW k \in DOMAIN pairs, pairs[j][2] = pairs[k][2] PROVE j = k
    <3>1. IsInjective(block_table'[s])
      BY DEF TablesServe
    <3>2. j \in DOMAIN (block_table'[s]) /\ k \in DOMAIN (block_table'[s]) /\ block_table'[s][j] = block_table'[s][k]
      BY <1>1, <1>8, <2>1
    <3> QED BY <3>1, <3>2 DEF IsInjective
  <2> QED BY <1>7, <1>9, <2>1 DEF Distinct, Apart
<1> DEFINE new == in \o pairs
<1>11. Distinct(new) /\ Adds(kv_cache, cpu_cache, in, pairs)
  <2> HIDE DEF E, in
  <2> QED BY <1>6, <1>7, <1>10, CopyMore
<1>12. gpu = Copied(kv_cache, cpu_cache, in) /\ gpu' = Copied(kv_cache, cpu_cache, new)
  <2>1. SwappedIn = Copied(kv_cache, cpu_cache, in)
    BY <1>2, <1>4 DEF host, SwappedIn
  <2>2. SwappedIn' = Copied(kv_cache, SwappedOut', new)
    BY <1>1 DEF SwappedIn, Copied
  <2>3. SwappedOut' = cpu_cache
    BY <1>2, <1>4 DEF host
  <2> QED BY <1>2, <2>1, <2>2, <2>3 DEF gpu
<1>13. PICK before, after, cpu : before = gpu /\ after = gpu' /\ cpu = cpu_cache
  OBVIOUS
<1>14. /\ \A b \in Blocks : \A o \in 0..BlockSize - 1 :
            (\A k \in DOMAIN pairs : pairs[k][2] # b) =>
              after[b * BlockSize + o] = before[b * BlockSize + o]
       /\ \A b \in Blocks : \A o \in 0..BlockSize - 1 : \A k \in DOMAIN pairs :
            pairs[k][2] = b => after[b * BlockSize + o] = cpu[pairs[k][1] * BlockSize + o]
  <2>1. ASSUME NEW b \in Blocks, NEW o \in 0..BlockSize - 1
        PROVE  b \in Nat /\ b * BlockSize + o \in DOMAIN kv_cache
    BY <1>2, InCache
  <2> QED BY <1>11, <1>12, <1>13, <2>1 DEF Adds
<1> HIDE DEF new
<1>15. ASSUME NEW t \in Seqs PROVE InTable(after, t)' /\ InHostTable(cpu, t)'
  <2>1. InTable(before, t) /\ InHostTable(cpu, t)
    BY <1>1, <1>4, <1>13 DEF PagesInv, InTable, InHostTable
  <2>2. InHostTable(cpu, t)'
    <3>1. cpu_block_table'[t] # <<>> => HostKept(t)
      BY <1>1, <1>5 DEF HostKept
    <3> QED BY <2>1, <3>1, HostTableKept
  <2>3. CASE t # s
    <3>1. block_table'[t] # <<>> => Kept(t)
      BY <1>1, <2>3 DEF Kept
    <3>2. ASSUME NEW j \in DOMAIN block_table[t], NEW o \in 0..BlockSize - 1
          PROVE  after[block_table[t][j] * BlockSize + o] = before[block_table[t][j] * BlockSize + o]
      <4>1. block_table[t] \in Seq(Blocks)
        BY TableFacts
      <4>2. block_table[t][j] \in Blocks /\ block_table[t][j] \in Range(block_table[t])
        BY <4>1 DEF Range
      <4> QED BY <1>9, <1>14, <4>2
    <3>3. InTable(after, t)'
      BY <2>1, <3>1, <3>2, TableKept
    <3> QED BY <2>2, <3>3
  <2>4. CASE t = s
    <3>1. ASSUME NEW p \in 0 .. num_computed_tokens[s] - 1
          PROVE  after[Slot(block_table'[s], p)] = Context(s, p)
      <4>1. /\ cpu_block_table[s] \in Seq(CpuBlocks) /\ num_computed_tokens[s] \in Nat
            /\ Len(cpu_block_table[s]) = blocks_for(num_computed_tokens[s])
        BY <1>1, TableFacts
      <4>2. CpuBlocks \in SUBSET Nat /\ blocks_for(num_computed_tokens[s]) <= Len(cpu_block_table[s])
        BY <4>1, PoolAssumption DEF CpuBlocks
      <4>3. PICK j \in DOMAIN cpu_block_table[s], o \in 0..BlockSize - 1 :
              /\ j = p \div BlockSize + 1 /\ o = p % BlockSize
              /\ Slot(cpu_block_table[s], p) = cpu_block_table[s][j] * BlockSize + o
        <5>1. PICK table \in Seq(CpuBlocks), c \in Nat :
                table = cpu_block_table[s] /\ c = num_computed_tokens[s]
          BY <4>1
        <5>2. blocks_for(c) <= Len(table) /\ p \in 0..c - 1
          BY <4>2, <5>1
        <5>3. \E j \in DOMAIN table : \E o \in 0..BlockSize - 1 :
                /\ j = p \div BlockSize + 1 /\ o = p % BlockSize
                /\ Slot(table, p) = table[j] * BlockSize + o
          BY <4>2, <5>2, SlotInTable
        <5> QED BY <5>1, <5>3
      <4>4. /\ j \in DOMAIN pairs /\ pairs[j][1] = cpu_block_table[s][j] /\ pairs[j][2] = block_table'[s][j]
            /\ block_table'[s][j] \in Blocks
        <5>1. j \in DOMAIN pairs /\ j \in DOMAIN (block_table'[s])
          BY <1>1
        <5>2. block_table'[s] \in Seq(Blocks)
          BY DEF TablesServe
        <5> QED BY <1>8, <5>1, <5>2
      <4>5. Slot(block_table'[s], p) = block_table'[s][j] * BlockSize + o
        BY <4>3 DEF Slot
      <4>6. after[block_table'[s][j] * BlockSize + o] = cpu[cpu_block_table[s][j] * BlockSize + o]
        <5>1. after[block_table'[s][j] * BlockSize + o] = cpu[pairs[j][1] * BlockSize + o]
          BY <1>14, <4>4
        <5> QED BY <4>4, <5>1
      <4>7. cpu[Slot(cpu_block_table[s], p)] = Context(s, p)
        BY <1>1, <2>1, <2>4 DEF InHostTable
      <4> QED BY <4>3, <4>5, <4>6, <4>7
    <3>2. InTable(after, s)'
      BY <1>1, <3>1 DEF InTable, Context
    <3> QED BY <2>2, <2>4, <3>2
  <2> QED BY <2>3, <2>4
<1>16. CopiesOK'
  <2>1. Distinct(new) /\ batch'.swap_in = new
    BY <1>1, <1>11 DEF new
  <2>2. ASSUME NEW k \in DOMAIN new
        PROVE  block_hash'[new[k][2]] = None /\ \E t \in Seqs : new[k][2] \in Range(block_table'[t])
    <3>1. /\ \A j \in DOMAIN in : j \in DOMAIN new /\ new[j] = in[j]
          /\ \A j \in DOMAIN pairs : Len(in) + j \in DOMAIN new /\ new[Len(in) + j] = pairs[j]
          /\ k \in DOMAIN in \/ \E j \in DOMAIN pairs : k = Len(in) + j
      <4>1. IsJoin(new, in, pairs)
        BY DEF new, IsJoin
      <4>2. in \in Seq(E) /\ pairs \in Seq(E)
        BY <1>6
      <4> HIDE DEF new, in, E
      <4>3. JoinHas(new, in, pairs)
        BY <4>1, <4>2, JoinedAs
      <4> QED BY <4>3 DEF JoinHas
    <3>2. CASE k \in DOMAIN in
      <4>1. PICK t \in Seqs : in[k][2] \in Range(block_table[t])
        BY <1>7, <3>2
      <4>2. in[k][2] \in Blocks /\ block_hash[in[k][2]] = None
        BY <1>6, <1>7, <3>2
      <4> QED BY <1>1, <1>9, <3>1, <3>2, <4>1, <4>2
    <3>3. CASE \E j \in DOMAIN pairs : k = Len(in) + j
      <4>1. PICK j \in DOMAIN pairs : k = Len(in) + j
        BY <3>3
      <4>2. new[k][2] = block_table'[s][j] /\ j \in DOMAIN (block_table'[s])
        BY <1>1, <1>8, <3>1, <4>1
      <4>3. new[k][2] \in Range(block_table'[s])
        BY <4>2 DEF Range
      <4> QED BY <1>1, <4>2, <4>3
    <3> QED BY <3>1, <3>2, <3>3
  <2>3. Targets(batch.swap_in, block_table)'
    BY <2>1, <2>2 DEF Targets, Distinct
  <2>4. Targets(batch.swap_out, cpu_block_table)'
    BY <1>3 DEF Targets
  <2> QED BY <1>1, <1>3, <2>1, <2>2, <2>3, <2>4 DEF CopiesOK
<1>17. CachesOK' /\ PublishedIsContent' /\ ComputedNow'
  <2>1. PublishedIsContent'
    BY <1>1, PublishedKept DEF PagesInv
  <2> QED BY <1>1, <1>2, <2>1 DEF CachesOK, ComputedNow
<1>18. \A t \in Seqs : InTable(gpu, t)' /\ InHostTable(host, t)'
  BY <1>4, <1>13, <1>15 DEF InTable, InHostTable
<1> QED BY <1>16, <1>17, <1>18 DEF PagesInv

-----------------------------------------------------------------------------
\* Cache hits.

LEMMA PrefixOfPrefix ==
  ASSUME NEW S, NEW t \in Seq(S), NEW m \in 0..Len(t), NEW k \in 0..m
  PROVE  SubSeq(SubSeq(t, 1, m), 1, k) = SubSeq(t, 1, k) /\ Len(SubSeq(t, 1, m)) = m
<1>1. Len(t) \in Nat /\ m \in Nat /\ k \in Nat
  OBVIOUS
<1> DEFINE u == SubSeq(t, 1, m)
<1>2. u \in Seq(S) /\ Len(u) = m /\ \A j \in 1..m : u[j] = t[j]
  BY <1>1
<1> HIDE DEF u
<1>3. SubSeq(u, 1, k) = [j \in 1..k |-> u[j]]
  BY <1>1, <1>2
<1>4. SubSeq(t, 1, k) = [j \in 1..k |-> t[j]]
  BY <1>1
<1>5. \A j \in 1..k : u[j] = t[j]
  BY <1>1, <1>2
<1> QED BY <1>2, <1>3, <1>4, <1>5 DEF u

\* The hash of a block says what its slots hold.
LEMMA HashIsContext ==
  ASSUME NEW s \in Seqs, token_ids[s] \in Seq(Tokens), NEW j \in Nat \ {0},
         j * BlockSize <= num_tokens(s), NEW o \in 0..BlockSize - 1
  PROVE  /\ SubSeq(Hash(s, j), 1, Len(Hash(s, j)) - BlockSize + o + 1) = Context(s, (j - 1) * BlockSize + o)
         /\ (j - 1) * BlockSize + o \in Nat
<1>1. BlockSize \in Nat \ {0} /\ num_tokens(s) \in Nat
  BY PoolAssumption DEF num_tokens
<1>2. PICK m \in Nat : m = j * BlockSize /\ m - BlockSize = (j - 1) * BlockSize
  <2>1. j * BlockSize \in Nat /\ (j - 1) * BlockSize = j * BlockSize - BlockSize
    BY <1>1, SMT
  <2> QED BY <1>1, <2>1
<1>3. m - BlockSize \in Nat
  <2>1. (j - 1) * BlockSize \in Nat
    BY <1>1, SMT
  <2> QED BY <1>2, <2>1
<1>4. m \in 0..Len(token_ids[s]) /\ m - BlockSize + o + 1 \in 0..m
  BY <1>1, <1>2, <1>3 DEF num_tokens
<1>5. Len(SubSeq(token_ids[s], 1, m)) = m
  BY <1>4, PrefixOfPrefix
<1>6. SubSeq(SubSeq(token_ids[s], 1, m), 1, m - BlockSize + o + 1) = SubSeq(token_ids[s], 1, m - BlockSize + o + 1)
  BY <1>4, PrefixOfPrefix
<1>7. Hash(s, j) = SubSeq(token_ids[s], 1, m)
  BY <1>2 DEF Hash
<1>8. Context(s, (j - 1) * BlockSize + o) = SubSeq(token_ids[s], 1, m - BlockSize + o + 1)
  BY <1>2 DEF Context
<1>9. (j - 1) * BlockSize + o \in Nat
  BY <1>2, <1>3
<1> QED BY <1>5, <1>6, <1>7, <1>8, <1>9

\* Nothing is copied into a published block.
LEMMA PublishedStays ==
  ASSUME CachesOK, CopiesOK, NEW b \in Blocks, block_hash[b] # None, NEW o \in 0..BlockSize - 1
  PROVE  gpu[b * BlockSize + o] = kv_cache[b * BlockSize + o]
<1>1. CASE Preparing
  <2>1. \A q \in DOMAIN batch.swap_in : batch.swap_in[q][2] # b
    BY <1>1 DEF CopiesOK
  <2>2. b \in Nat /\ b * BlockSize + o \in DOMAIN kv_cache
    BY InCache
  <2>3. SwappedIn[b * BlockSize + o] = kv_cache[b * BlockSize + o]
    BY <2>1, <2>2, CopiedElsewhere DEF SwappedIn
  <2> QED BY <1>1, <2>3 DEF gpu
<1>2. CASE ~Preparing
  BY <1>2 DEF gpu
<1> QED BY <1>1, <1>2

LEMMA AdmitEffect ==
  ASSUME IInv, C!IInv, ReportOK, Admit
  PROVE  \E s \in Seqs, m \in Nat :
           /\ pc = "admit" /\ pc' = "admit"
           /\ block_table[s] = <<>> /\ cpu_block_table[s] = <<>>
           /\ UNCHANGED <<cpu_block_table, token_ids>>
           /\ num_computed_tokens' = [num_computed_tokens EXCEPT ![s] = m * BlockSize]
           /\ \A t \in Seqs \ {s} : block_table'[t] = block_table[t]
           /\ \A b \in Blocks : block_hash'[b] \in {block_hash[b], None}
           /\ batch'.swap_out = batch.swap_out /\ batch'.swap_in = batch.swap_in
           /\ batch'.seqs # <<>>
           /\ m * BlockSize <= num_tokens(s)
           /\ \A j \in 1..m :
                /\ Hash(s, j) \in DOMAIN hash_to_block /\ j \in DOMAIN (block_table'[s])
                /\ block_table'[s][j] = hash_to_block[Hash(s, j)]
<1>1. /\ pc = "admit" /\ pc' = "admit" /\ (preempted # <<>> \/ waiting # {})
      /\ UNCHANGED <<cpu_block_table, token_ids>>
  BY DEF Admit, Admitting, cpuVars
<1>2. Types /\ \A t \in Seqs : Placed(t) /\ Counted(t)
  BY DEF IInv, QInv
<1>3. PICK s \in Seqs :
        /\ s = candidate /\ status[s] \in {"WAITING", "PREEMPTED"}
        /\ block_table[s] = <<>> /\ cpu_block_table[s] = <<>>
  BY <1>1, CandidatePopped DEF IInv
<1>4. num_tokens(s) \in Nat \ {0}
  <2>1. num_computed_tokens[s] < num_tokens(s) /\ num_tokens(s) \in Nat
    BY <1>2, <1>3 DEF Counted, Live, Types, num_tokens
  <2>2. num_computed_tokens[s] \in Nat
    BY <1>2 DEF Types
  <2> QED BY <2>1, <2>2
<1>5. PICK m \in Nat :
        /\ cached_prefix(s) = [j \in 1..m |-> hash_to_block[Hash(s, j)]]
        /\ m * BlockSize < num_tokens(s)
        /\ \A j \in 1..m : Hash(s, j) \in DOMAIN hash_to_block
  BY <1>4, CachedPrefix
<1>6. PICK cached : cached = cached_prefix(s)
  OBVIOUS
<1>7. /\ cached = [j \in 1..m |-> hash_to_block[Hash(s, j)]]
      /\ DOMAIN cached = 1..m /\ Len(cached) = m /\ IsList(cached)
  <2>1. cached = [j \in 1..m |-> hash_to_block[Hash(s, j)]]
    BY <1>5, <1>6
  <2>2. Len(cached) = m /\ DOMAIN cached = 1..m
    BY <2>1
  <2>3. \A j \in 1..m : cached[j] \in Range(cached)
    BY <2>2 DEF Range
  <2>4. cached = [j \in 1..m |-> cached[j]]
    BY <2>1
  <2>5. cached \in Seq(Range(cached))
    BY <2>3, <2>4
  <2> QED BY <2>1, <2>2, <2>5 DEF IsList
<1>8. PICK n : /\ allocate(s, n, cached)
               /\ n = admit_tokens(cached) /\ AdmitFits
               /\ batch' = [batch EXCEPT !.seqs = BatchAdd(s, n, Len(cached) * BlockSize)]
  BY <1>3, <1>6 DEF Admit
<1>9. n \in Nat
  <2> DEFINE u == num_tokens(s) - m * BlockSize
  <2>1. u \in Nat /\ budget \in Int /\ budget > 0
    <3>1. budget \in Int
      BY <1>2 DEF Types
    <3>2. budget > 0
      BY DEF Admit, Admitting
    <3>3. PICK total \in Nat, held \in Nat : total = num_tokens(s) /\ held = m * BlockSize
      <4>1. m * BlockSize \in Nat
        BY PoolAssumption, SMT
      <4> QED BY <1>4, <4>1
    <3>4. held < total
      BY <1>5, <3>3
    <3>5. total - held \in Nat
      BY <3>4
    <3> QED BY <3>1, <3>2, <3>3, <3>5
  <2>2. n = IF Chunked THEN Min({u, budget}) ELSE u
    BY <1>3, <1>7, <1>8 DEF admit_tokens
  <2> HIDE DEF u
  <2>3. Min({u, budget}) = IF u <= budget THEN u ELSE budget
    <3>1. u \in Int /\ budget \in Int
      BY <2>1
    <3> QED BY <3>1, MinOfTwo
  <2> QED BY <2>1, <2>2, <2>3
<1>10. /\ \A t \in Seqs \ {s} : block_table'[t] = block_table[t]
       /\ \A b \in Blocks : block_hash'[b] \in {block_hash[b], None}
       /\ \A j \in 1..m : j \in DOMAIN (block_table'[s]) /\ block_table'[s][j] = cached[j]
  <2>1. block_table \in [Seqs -> Seq(Blocks)]
    BY PoolServes DEF BlockManagerTypeOK
  <2>2. PICK k : k = blocks_for(m * BlockSize + n) - m /\ Acquire(s, cached, k)
    BY <1>7, <1>8 DEF allocate
  <2>3. k \in Nat
    <3>1. BlockSize \in Nat \ {0}
      BY PoolAssumption
    <3>2. C!blocks_for(m * BlockSize + n) - m \in Nat
      BY <1>9, <3>1, ClientAssumptionsHold, PoolAssumption, C!NeededBlocks
    <3> QED BY <2>2, <3>2, SameCounts
  <2> QED BY <1>3, <1>7, <2>1, <2>2, <2>3, AcquireKeeps
<1>11. num_computed_tokens' = [num_computed_tokens EXCEPT ![s] = m * BlockSize]
  BY <1>7, <1>8 DEF allocate
<1>12. /\ batch'.swap_out = batch.swap_out /\ batch'.swap_in = batch.swap_in
       /\ batch'.seqs # <<>>
  <2>1. batch.seqs \in Seq(EntryRecord) /\ DOMAIN batch = {"seqs", "swap_out", "swap_in", "num_preempted"}
    BY DEF ReportOK, BatchRecord
  <2>2. \A e : Append(batch.seqs, e) # <<>>
    BY <2>1
  <2> QED BY <1>8, <2>1, <2>2 DEF BatchAdd
<1>13. m * BlockSize <= num_tokens(s)
  <2>1. m * BlockSize \in Nat
    BY PoolAssumption, SMT
  <2> QED BY <1>4, <1>5, <2>1
<1>14. \A j \in 1..m : block_table'[s][j] = hash_to_block[Hash(s, j)]
  BY <1>7, <1>10
<1> QED BY <1>1, <1>3, <1>5, <1>10, <1>11, <1>12, <1>13, <1>14

\* A request that starts on cache hits finds its own prefix in them.
LEMMA AdmitPages ==
  ASSUME IInv, C!IInv, ReportOK, PagesInv, Admit, UNCHANGED <<kv_cache, cpu_cache>>
  PROVE  PagesInv'
<1>1. PICK s \in Seqs, m \in Nat :
        /\ pc = "admit" /\ pc' = "admit"
        /\ block_table[s] = <<>> /\ cpu_block_table[s] = <<>>
        /\ UNCHANGED <<cpu_block_table, token_ids>>
        /\ num_computed_tokens' = [num_computed_tokens EXCEPT ![s] = m * BlockSize]
        /\ \A t \in Seqs \ {s} : block_table'[t] = block_table[t]
        /\ \A b \in Blocks : block_hash'[b] \in {block_hash[b], None}
        /\ batch'.swap_out = batch.swap_out /\ batch'.swap_in = batch.swap_in
        /\ batch'.seqs # <<>>
        /\ m * BlockSize <= num_tokens(s)
        /\ \A j \in 1..m :
             /\ Hash(s, j) \in DOMAIN hash_to_block /\ j \in DOMAIN (block_table'[s])
             /\ block_table'[s][j] = hash_to_block[Hash(s, j)]
  BY AdmitEffect
<1>2. CachesOK /\ CopiesOK /\ PublishedIsContent /\ Preparing /\ Preparing'
  BY <1>1 DEF PagesInv, Preparing
<1>3. block_table \in [Seqs -> Seq(Blocks)] /\ num_computed_tokens \in [Seqs -> Nat]
  BY PoolServes DEF BlockManagerTypeOK
<1>4. \A t \in Seqs \ {s} : num_computed_tokens'[t] = num_computed_tokens[t]
  BY <1>1, <1>3
<1>5. gpu' = gpu /\ host' = host
  BY <1>1, <1>2, SameCopies
<1>6. CopiesOK'
  <2>1. batch.swap_out = <<>>
    BY <1>1, <1>2 DEF CopiesOK
  <2>2. \A t \in Seqs : Range(block_table[t]) \subseteq Range(block_table'[t])
    <3>1. Range(block_table[s]) = {}
      BY <1>1 DEF Range
    <3> QED BY <1>1, <3>1
  <2>3. Range(batch.swap_in) \subseteq CpuBlocks \X Blocks
    BY DEF ReportOK, BatchRecord, Range
  <2> QED BY <1>1, <1>2, <2>1, <2>2, <2>3, CopiesKept
<1>7. \A t \in Seqs \ {s} : block_table'[t] # <<>> => Kept(t)
  BY <1>1, <1>4 DEF Kept
<1>8. \A t \in Seqs : cpu_block_table'[t] # <<>> => HostKept(t)
  BY <1>1, <1>4 DEF HostKept
<1>9. PICK kv : kv = gpu
  OBVIOUS
<1>10. ASSUME NEW p \in 0 .. m * BlockSize - 1
       PROVE  kv[Slot(block_table'[s], p)] = Context(s, p)
  <2>1. BlockSize \in Nat \ {0} /\ m * BlockSize \in Nat
    BY PoolAssumption, SMT
  <2>2. PICK q \in Nat, o \in 0..BlockSize - 1 :
          q = p \div BlockSize /\ o = p % BlockSize /\ p = q * BlockSize + o
    <3>1. p \in Nat
      BY <1>10, <2>1
    <3> QED BY <2>1, <3>1, DivisionFacts
  <2>3. PICK j \in Nat \ {0} : j = q + 1 /\ j - 1 = q
    BY <2>2
  <2>4. j \in 1..m
    <3>1. q * BlockSize < m * BlockSize
      <4>1. q * BlockSize \in Nat
        BY <2>1, SMT
      <4> QED BY <1>10, <2>1, <2>2, <4>1
    <3>2. q < m
      <4>1. ASSUME m <= q PROVE FALSE
        <5>1. m * BlockSize <= q * BlockSize
          BY <2>1, <4>1, SMT
        <5>2. q * BlockSize \in Nat
          BY <2>1, SMT
        <5> QED BY <2>1, <3>1, <5>1, <5>2
      <4> QED BY <4>1
    <3> QED BY <2>3, <3>2
  <2>5. PICK b \in Blocks : b = block_table'[s][j] /\ block_hash[b] = Hash(s, j) /\ block_hash[b] # None
    <3>1. Hash(s, j) \in DOMAIN hash_to_block /\ block_table'[s][j] = hash_to_block[Hash(s, j)]
      BY <1>1, <2>4
    <3>2. \A h \in DOMAIN hash_to_block :
            h \in C!Digests /\ hash_to_block[h] \in C!Blocks /\ block_hash[hash_to_block[h]] = h
      BY ClientAssumptionsHold, PoolAssumption, C!PoolFacts
    <3>3. None \notin C!Digests /\ C!Blocks = Blocks
      BY ClientAssumptionsHold, SameCounts
    <3> QED BY <3>1, <3>2, <3>3
  <2>6. kv[b * BlockSize + o] = kv_cache[b * BlockSize + o]
    BY <1>2, <1>9, <2>5, PublishedStays
  <2>7. kv_cache[b * BlockSize + o] = SubSeq(Hash(s, j), 1, Len(Hash(s, j)) - BlockSize + o + 1)
    BY <1>2, <2>5 DEF PublishedIsContent
  <2>8. SubSeq(Hash(s, j), 1, Len(Hash(s, j)) - BlockSize + o + 1) = Context(s, (j - 1) * BlockSize + o)
    <3>1. token_ids[s] \in Seq(Tokens) /\ num_tokens(s) \in Nat
      BY DEF IInv, QInv, Types, num_tokens
    <3>2. j * BlockSize <= num_tokens(s)
      <4>1. j * BlockSize <= m * BlockSize /\ j * BlockSize \in Nat
        BY <2>1, <2>4, SMT
      <4> QED BY <1>1, <2>1, <3>1, <4>1
    <3> QED BY <3>1, <3>2, HashIsContext
  <2>9. Slot(block_table'[s], p) = b * BlockSize + o
    BY <2>2, <2>3, <2>5 DEF Slot
  <2>10. (j - 1) * BlockSize + o = p
    BY <2>2, <2>3
  <2> QED BY <2>6, <2>7, <2>8, <2>9, <2>10
<1>11. InTable(gpu, s)'
  <2>1. num_computed_tokens'[s] = m * BlockSize
    BY <1>1, <1>3
  <2>2. gpu' = kv
    BY <1>5, <1>9
  <2>3. \A p : Context(s, p)' = Context(s, p)
    BY <1>1 DEF Context
  <2> QED BY <1>10, <2>1, <2>2, <2>3 DEF InTable
<1>12. \A t \in Seqs : (block_table'[t] # <<>> => Kept(t)) \/ InTable(gpu, t)'
  BY <1>7, <1>11
<1> QED BY <1>1, <1>5, <1>6, <1>8, <1>12, QuietStep

-----------------------------------------------------------------------------
\* The forward pass.

\* A batch that a graph can run has a bucket.
LEMMA BucketFits ==
  ASSUME NEW m \in Nat, m <= Max(buckets)
  PROVE  LET size == Min({b \in buckets : b >= m}) IN size \in Nat /\ m <= size
<1>1. MaxNumSeqs \in Nat \ {0}
  BY ConfigAssumption
<1>2. buckets \in SUBSET (0..MaxNumSeqs) /\ MaxNumSeqs \in buckets
  BY <1>1 DEF buckets, AllBuckets
<1> DEFINE fit == {b \in buckets : b >= m}
           rest == {MaxNumSeqs - b : b \in fit}
<1>3. fit # {}
  <2>1. Max(buckets) \in buckets
    BY <1>1, <1>2, MaxExists
  <2> QED BY <2>1
<1>4. rest \in SUBSET (0..MaxNumSeqs) /\ rest # {}
  <2>1. \A c \in fit : c \in 0..MaxNumSeqs
    BY <1>2
  <2>2. \A c \in 0..MaxNumSeqs : MaxNumSeqs - c \in 0..MaxNumSeqs
    BY <1>1
  <2> HIDE DEF fit
  <2> QED BY <1>3, <2>1, <2>2
<1>5. Max(rest) \in rest /\ \A x \in rest : x <= Max(rest)
  <2> HIDE DEF rest
  <2> QED BY <1>1, <1>4, MaxExists
<1>6. PICK b \in fit : Max(rest) = MaxNumSeqs - b
  BY <1>5
<1>7. \A c \in fit : b <= c
  <2> SUFFICES ASSUME NEW c \in fit PROVE b <= c
    OBVIOUS
  <2>1. MaxNumSeqs - c <= MaxNumSeqs - b
    BY <1>5, <1>6
  <2>2. b \in Int /\ c \in Int
    BY <1>2
  <2> QED BY <1>1, <2>1, <2>2
<1>8. Min(fit) \in fit
  BY <1>7 DEF Min
<1>9. \A c \in fit : c \in Nat /\ m <= c
  BY <1>2
<1> HIDE DEF fit
<1>10. Min(fit) \in Nat /\ m <= Min(fit)
  BY <1>8, <1>9
<1> QED BY <1>10 DEF fit

\* The rows are those of the batch, and padding behind them.
LEMMA LaidOut ==
  ASSUME NEW E, batch.seqs \in Seq(E)
  PROVE  /\ rows = [k \in 1..Len(rows) |-> rows[k]]
         /\ Len(rows) \in Nat /\ Len(batch.seqs) <= Len(rows) /\ DOMAIN rows = 1..Len(rows)
         /\ \A k \in DOMAIN batch.seqs :
              /\ k \in DOMAIN rows
              /\ rows[k] = Row(block_table[batch.seqs[k].seq],
                               num_computed_tokens[batch.seqs[k].seq], batch.seqs[k].n)
         /\ \A k \in DOMAIN rows : k \in DOMAIN batch.seqs \/ rows[k] = padding
<1> DEFINE N == Len(batch.seqs)
           entry(k) == Row(block_table[batch.seqs[k].seq], num_computed_tokens[batch.seqs[k].seq], batch.seqs[k].n)
<1>1. N \in Nat /\ DOMAIN batch.seqs = 1..N
  OBVIOUS
<1>2. PICK r : r = [k \in 1..N |-> entry(k)]
  OBVIOUS
<1>3. prepare = r
  BY <1>1, <1>2 DEF prepare
<1>4. Len(r) = N /\ DOMAIN r = 1..N /\ \A k \in 1..N : r[k] = entry(k)
  BY <1>1, <1>2
<1> HIDE DEF N, entry
<1>5. CASE rows = r
  BY <1>1, <1>2, <1>4, <1>5 DEF N, entry
<1>6. CASE rows # r
  <2>1. rows = Padded(r) /\ N <= Max(buckets)
    BY <1>3, <1>4, <1>6 DEF rows, can_run
  <2>2. PICK size \in Nat : size = Min({b \in buckets : b >= N}) /\ N <= size
    BY <1>1, <2>1, BucketFits
  <2>3. PICK p : p = [k \in 1..size - N |-> padding]
    OBVIOUS
  <2>4. rows = r \o p
    BY <1>4, <2>1, <2>2, <2>3 DEF Padded
  <2>5. size - N \in Nat /\ Len(p) = size - N /\ DOMAIN p = 1..size - N
    BY <1>1, <2>2, <2>3
  <2> DEFINE F == {entry(k) : k \in 1..N} \cup {padding}
  <2>6. r \in Seq(F) /\ p \in Seq(F)
    BY <1>1, <1>2, <2>3, <2>5
  <2> HIDE DEF F
  <2>7. rows \in Seq(F) /\ Len(rows) = N + (size - N)
    <3>1. r \o p \in Seq(F) /\ Len(r \o p) = Len(r) + Len(p)
      BY <2>6
    <3> QED BY <1>4, <2>4, <2>5, <3>1
  <2>8. \A k \in 1..N : rows[k] = entry(k)
    BY <1>1, <1>4, <2>4, <2>5, <2>6
  <2>9. ASSUME NEW k \in DOMAIN rows, k \notin 1..N PROVE rows[k] = padding
    <3>1. k - N \in 1..size - N /\ k \in Nat
      BY <1>1, <2>2, <2>5, <2>7, <2>9
    <3>2. rows[k] = p[k - N]
      BY <1>1, <1>4, <2>2, <2>4, <2>5, <2>6, <2>7, <2>9, <3>1
    <3> QED BY <2>3, <3>1, <3>2
  <2>10. Len(rows) = size /\ DOMAIN rows = 1..Len(rows) /\ rows = [k \in 1..Len(rows) |-> rows[k]]
    BY <1>1, <2>2, <2>7
  <2>11. Len(rows) \in Nat /\ N <= Len(rows) /\ DOMAIN batch.seqs \subseteq DOMAIN rows
    <3>1. Len(rows) = size /\ DOMAIN rows = 1..size
      BY <2>10
    <3>2. N \in Nat /\ size \in Nat /\ N <= size
      BY <1>1, <2>2
    <3>3. 1..N \subseteq 1..size
      BY <3>2
    <3> QED BY <1>1, <3>1, <3>2, <3>3
  <2>12. \A k \in DOMAIN batch.seqs : k \in DOMAIN rows /\ rows[k] = entry(k)
    BY <1>1, <2>8, <2>11
  <2>13. \A k \in DOMAIN rows : k \in DOMAIN batch.seqs \/ rows[k] = padding
    BY <1>1, <2>9
  <2> QED BY <2>10, <2>11, <2>12, <2>13 DEF N, entry
<1> QED BY <1>5, <1>6

\* What the scheduler and the block manager promise of an entry.
Fits(k, s, n, t, c) ==
  /\ s = batch.seqs[k].seq /\ n = batch.seqs[k].n
  /\ t = block_table[s] /\ c = num_computed_tokens[s]
  /\ t \in Seq(Blocks) /\ IsInjective(t)
  /\ c \in Nat /\ Len(t) = blocks_for(c + n) /\ t # <<>> /\ c + n <= num_tokens(s)

LEMMA EntryFits ==
  ASSUME IInv, C!IInv, NEW k \in Pending
  PROVE  \E s \in Seqs, n \in Nat \ {0}, t \in Seq(Blocks), c \in Nat : Fits(k, s, n, t, c)
<1>1. Types /\ BatchOK /\ \A s \in Seqs : Placed(s)
  BY DEF IInv, QInv
<1>2. k \in DOMAIN batch.seqs /\ Schedulable(batch.seqs[k])
  BY <1>1 DEF BatchOK, Pending
<1>3. PICK s \in Seqs, n \in Nat \ {0} : s = batch.seqs[k].seq /\ n = batch.seqs[k].n
  BY <1>1, <1>2, EntryType
<1>4. status[s] = "RUNNING" /\ block_table[s] # <<>>
  BY <1>1, <1>2, <1>3 DEF Schedulable, Placed
<1>5. block_table[s] \in Seq(Blocks) /\ IsInjective(block_table[s]) /\ num_computed_tokens[s] \in Nat
  BY TableFacts
<1>6. /\ Len(block_table[s]) = blocks_for(num_computed_tokens[s] + n)
      /\ num_computed_tokens[s] + n <= num_tokens(s)
  BY <1>2, <1>3 DEF Schedulable
<1> QED BY <1>3, <1>4, <1>5, <1>6 DEF Fits

\* The slot of a position is in a block of the table.
InPage(t, p) ==
  \E j \in DOMAIN t : \E o \in 0..BlockSize - 1 :
    /\ j = p \div BlockSize + 1 /\ o = p % BlockSize
    /\ t[j] \in Range(t) /\ t[j] \in Blocks /\ t[j] \in Nat
    /\ Slot(t, p) = t[j] * BlockSize + o

LEMMA SlotInPage ==
  ASSUME NEW t \in Seq(Blocks), NEW m \in Nat, blocks_for(m) <= Len(t)
  PROVE  \A p \in 0..m - 1 : InPage(t, p)
<1> SUFFICES ASSUME NEW p \in 0..m - 1 PROVE InPage(t, p)
  OBVIOUS
<1>1. Blocks \in SUBSET Nat
  BY PoolAssumption DEF Blocks
<1>2. PICK j \in DOMAIN t, o \in 0..BlockSize - 1 :
        /\ j = p \div BlockSize + 1 /\ o = p % BlockSize
        /\ Slot(t, p) = t[j] * BlockSize + o
  BY <1>1, SlotInTable
<1>3. t[j] \in Blocks /\ t[j] \in Range(t)
  BY <1>2 DEF Range
<1> QED BY <1>1, <1>2, <1>3 DEF InPage

LEMMA EntrySlots ==
  ASSUME NEW k, NEW s, NEW n \in Nat \ {0}, NEW t \in Seq(Blocks), NEW c \in Nat, Fits(k, s, n, t, c)
  PROVE  \A p \in 0..c + n - 1 : InPage(t, p)
<1>1. PICK m \in Nat : m = c + n
  OBVIOUS
<1>2. blocks_for(m) <= Len(t)
  <2>1. Len(t) = blocks_for(m) /\ Len(t) \in Nat
    BY <1>1 DEF Fits
  <2> QED BY <2>1
<1> QED BY <1>1, <1>2, SlotInPage

\* New slots are in blocks that only their sequence holds and nobody offers.
LEMMA NewIsPrivate ==
  ASSUME IInv, C!IInv, pc = "execute", NEW k \in DOMAIN batch.seqs, NEW s, NEW n \in Nat \ {0},
         NEW t \in Seq(Blocks), NEW c \in Nat, Fits(k, s, n, t, c), NEW p \in c..c + n - 1
  PROVE  block_hash[t[p \div BlockSize + 1]] = None
BY WritesArePrivateInv DEF WritesArePrivate, Fits

\* Two positions with one slot, in the tables of the pool.
LEMMA MeetInOne ==
  ASSUME NEW t \in Seq(Blocks), NEW u \in Seq(Blocks), NEW p \in Nat, NEW q \in Nat, Meet(t, p, u, q)
  PROVE  Agree(t, p, u, q)
<1>1. \A b \in Blocks : b \in Int
  BY PoolAssumption DEF Blocks
<1>2. ASSUME NEW l \in Seq(Blocks) PROVE l \in Seq(Int)
  <2>1. l = [m \in 1..Len(l) |-> l[m]] /\ Len(l) \in Nat /\ \A m \in 1..Len(l) : l[m] \in Blocks
    OBVIOUS
  <2>2. \A m \in 1..Len(l) : l[m] \in Int
    BY <1>1, <2>1
  <2> QED BY <2>1, <2>2
<1>3. t \in Seq(Int) /\ u \in Seq(Int)
  BY <1>2
<1>4. BlockSize \in Nat \ {0}
  BY PoolAssumption
<1> QED BY <1>3, <1>4, MeetInOnePage

\* So no other position has the slot of a new one.
LEMMA SameSlot ==
  ASSUME IInv, C!IInv, pc = "execute", NEW k \in DOMAIN batch.seqs, NEW s \in Seqs, NEW n \in Nat \ {0},
         NEW t \in Seq(Blocks), NEW c \in Nat, Fits(k, s, n, t, c), NEW p \in c..c + n - 1,
         NEW u \in Seqs, NEW q \in Nat, q \div BlockSize + 1 \in DOMAIN block_table[u],
         Slot(t, p) = Slot(block_table[u], q)
  PROVE  u = s /\ q = p
<1>1. t = block_table[s] /\ IsInjective(t)
  BY DEF Fits
<1>2. p \in Nat /\ p \in 0..c + n - 1
  OBVIOUS
<1>3. PICK j \in DOMAIN t : j = p \div BlockSize + 1 /\ t[j] \in Blocks /\ t[j] \in Range(t)
  <2>1. InPage(t, p)
    BY <1>2, EntrySlots
  <2> QED BY <2>1 DEF InPage
<1>4. PICK v \in Seq(Blocks) : v = block_table[u]
  BY TableFacts
<1>5. Meet(t, p, v, q)
  BY <1>3, <1>4 DEF Meet
<1>6. Agree(t, p, v, q)
  BY <1>2, <1>4, <1>5, MeetInOne
<1>7. block_hash[t[j]] = None
  BY <1>3, NewIsPrivate
<1>8. u = s
  <2>1. t[j] \in Range(v)
    BY <1>3, <1>5, <1>6 DEF Range, Meet, Agree
  <2> QED BY <1>1, <1>3, <1>4, <1>7, <2>1, PoolServes
<1> QED BY <1>1, <1>4, <1>6, <1>8 DEF Agree

\* The row of an entry.
RowIs(k, n, t, c) ==
  /\ k \in DOMAIN rows /\ rows[k].n = n /\ rows[k].start = c
  /\ DOMAIN slot_mapping(rows[k]) = 1..n
  /\ \A j \in 1..n : slot_mapping(rows[k])[j] = Slot(t, c + j - 1)

LEMMA RowWrites ==
  ASSUME ReportOK, NEW k \in DOMAIN batch.seqs, NEW s, NEW n \in Nat \ {0}, NEW t \in Seq(Blocks), NEW c \in Nat,
         Fits(k, s, n, t, c)
  PROVE  RowIs(k, n, t, c)
<1>1. batch.seqs \in Seq(EntryRecord)
  BY DEF ReportOK, BatchRecord
<1>2. k \in DOMAIN rows /\ rows[k] = Row(t, c, n)
  BY <1>1, LaidOut DEF Fits
<1>3. rows[k].n = n /\ rows[k].start = c
  BY <1>2 DEF Row
<1>4. pages(c + n) <= Len(t)
  <2>1. Len(t) \in Nat /\ Len(t) = pages(c + n)
    BY DEF Fits, pages, blocks_for
  <2> QED BY <2>1
<1>5. BlockSize \in Nat \ {0}
  BY PoolAssumption
<1>6. \A p \in 0..c + n - 1 : Slot(rows[k].table, p) = Slot(t, p)
  <2>1. \A p \in 0..c + n - 1 : Slot(Row(t, c, n).table, p) = Slot(t, p)
    BY <1>4, <1>5, RowKeepsSlots
  <2> QED BY <1>2, <2>1
<1>7. \A j \in 1..n : c + j - 1 \in 0..c + n - 1
  OBVIOUS
<1> QED BY <1>2, <1>3, <1>6, <1>7 DEF slot_mapping, RowIs

LEMMA PaddingWrites ==
  /\ NumBlocks * BlockSize \in Nat
  /\ \A x : x \in Range(slot_mapping(padding)) => x = NumBlocks * BlockSize
<1>1. BlockSize \in Nat \ {0} /\ NumBlocks \in Nat
  BY PoolAssumption
<1>2. NumBlocks * BlockSize \in Nat /\ 0 \div BlockSize = 0 /\ 0 % BlockSize = 0
  BY <1>1, SMT
<1>3. ASSUME NEW x \in Range(slot_mapping(padding)) PROVE x = NumBlocks * BlockSize
  <2>1. slot_mapping(padding) = [j \in 1..1 |-> Slot(<<NumBlocks>>, 0 + j - 1)]
    BY DEF slot_mapping, padding, scratch_block
  <2>2. x = Slot(<<NumBlocks>>, 0)
    BY <2>1 DEF Range
  <2> QED BY <1>2, <2>2 DEF Slot
<1> QED BY <1>2, <1>3

\* A slot of the pool that a row writes is a new slot of its entry.
LEMMA RowsWriteNew ==
  ASSUME IInv, C!IInv, ReportOK, pc = "execute", NEW k \in DOMAIN rows,
         NEW x \in 0..NumBlocks * BlockSize - 1, x \in Range(slot_mapping(rows[k]))
  PROVE  /\ k \in DOMAIN batch.seqs
         /\ \E s \in Seqs, n \in Nat \ {0}, t \in Seq(Blocks), c \in Nat :
              Fits(k, s, n, t, c) /\ \E p \in c..c + n - 1 : x = Slot(t, p)
<1>1. batch.seqs \in Seq(EntryRecord)
  BY DEF ReportOK, BatchRecord
<1>2. k \in DOMAIN batch.seqs
  <2> SUFFICES ASSUME k \notin DOMAIN batch.seqs PROVE FALSE
    OBVIOUS
  <2>1. rows[k] = padding
    BY <1>1, LaidOut
  <2>2. NumBlocks * BlockSize \in Nat /\ x = NumBlocks * BlockSize
    BY <2>1, PaddingWrites
  <2> QED BY <2>2
<1>3. PICK s \in Seqs, n \in Nat \ {0}, t \in Seq(Blocks), c \in Nat : Fits(k, s, n, t, c)
  <2>1. k \in Pending
    BY <1>2 DEF Pending
  <2> QED BY <2>1, EntryFits
<1>4. RowIs(k, n, t, c)
  BY <1>2, <1>3, RowWrites
<1>5. PICK j \in DOMAIN slot_mapping(rows[k]) : x = slot_mapping(rows[k])[j]
  BY DEF Range
<1>6. j \in 1..n /\ x = Slot(t, c + j - 1)
  BY <1>4, <1>5 DEF RowIs
<1>7. c + j - 1 \in c..c + n - 1
  BY <1>6
<1> QED BY <1>2, <1>3, <1>6, <1>7

\* What the forward pass writes in the pool: the slots of the new positions.
New(x) == \E k \in DOMAIN batch.seqs :
  \E s \in Seqs, n \in Nat \ {0}, t \in Seq(Blocks), c \in Nat :
    Fits(k, s, n, t, c) /\ \E p \in c..c + n - 1 : x = Slot(t, p)

NewAt(k, s, n, t, c, p) == k \in DOMAIN batch.seqs /\ Fits(k, s, n, t, c) /\ p \in c..c + n - 1
HasSlot(cache, x) == x \in DOMAIN cache /\ x \in 0..NumBlocks * BlockSize - 1
HoldsAt(cache, t, s, p) == Written(cache, TRUE)[Slot(t, p)] = Context(s, p)

LEMMA WrittenNew ==
  ASSUME IInv, C!IInv, ReportOK, pc = "execute", NEW k, NEW s \in Seqs, NEW n \in Nat \ {0},
         NEW t \in Seq(Blocks), NEW c \in Nat, NEW p, NewAt(k, s, n, t, c, p),
         NEW cache, HasSlot(cache, Slot(t, p))
  PROVE  HoldsAt(cache, t, s, p)
<1> /\ k \in DOMAIN batch.seqs /\ Fits(k, s, n, t, c) /\ p \in c..c + n - 1
    /\ Slot(t, p) \in DOMAIN cache /\ Slot(t, p) \in 0..NumBlocks * BlockSize - 1
  BY DEF NewAt, HasSlot
<1>1. PICK x : x = Slot(t, p)
  OBVIOUS
<1>2. PICK j \in 1..n : j = p - c + 1 /\ c + j - 1 = p
  <2>1. p - c + 1 \in 1..n /\ c + (p - c + 1) - 1 = p
    OBVIOUS
  <2> QED BY <2>1
<1>3. RowIs(k, n, t, c)
  BY RowWrites
<1>4. /\ k \in DOMAIN rows /\ rows[k].n = n /\ rows[k].start = c
      /\ j \in DOMAIN slot_mapping(rows[k]) /\ slot_mapping(rows[k])[j] = x
      /\ \A l \in 1..n : slot_mapping(rows[k])[l] = Slot(t, c + l - 1)
  BY <1>1, <1>2, <1>3 DEF RowIs
<1>5. t = block_table[s] /\ s = batch.seqs[k].seq /\ BatchOK
  BY DEF Fits, IInv, QInv
<1>6. ASSUME NEW l \in DOMAIN rows, x \in Range(slot_mapping(rows[l])) PROVE l = k
  <2>1. PICK u \in Seqs, m \in Nat \ {0}, v \in Seq(Blocks), d \in Nat :
          Fits(l, u, m, v, d) /\ \E q \in d..d + m - 1 : x = Slot(v, q)
    BY <1>1, <1>6, RowsWriteNew
  <2>2. PICK q \in d..d + m - 1 : x = Slot(v, q)
    BY <2>1
  <2>3. l \in DOMAIN batch.seqs
    BY <1>1, <1>6, RowsWriteNew
  <2>4. q \in Nat /\ q \in 0..d + m - 1
    BY <2>1, <2>2
  <2>5. v = block_table[u] /\ u = batch.seqs[l].seq
    BY <2>1 DEF Fits
  <2>6. q \div BlockSize + 1 \in DOMAIN block_table[u]
    <3>1. InPage(v, q)
      BY <2>1, <2>4, EntrySlots
    <3> QED BY <2>5, <3>1 DEF InPage
  <2>7. u = s
    <3>1. Slot(t, p) = Slot(block_table[u], q)
      BY <1>1, <2>2, <2>5
    <3> QED BY <2>1, <2>4, <2>6, <3>1, SameSlot
  <2> QED BY <1>5, <2>3, <2>5, <2>7 DEF BatchOK
<1>7. ASSUME NEW l \in 1..n, slot_mapping(rows[k])[l] = x PROVE l = j
  <2>1. PICK q \in Nat : q = c + l - 1
    OBVIOUS
  <2>2. q \in 0..c + n - 1
    BY <2>1
  <2>3. q \div BlockSize + 1 \in DOMAIN block_table[s]
    <3>1. InPage(t, q)
      BY <2>2, EntrySlots
    <3> QED BY <1>5, <3>1 DEF InPage
  <2>4. Slot(t, p) = Slot(block_table[s], q)
    BY <1>1, <1>4, <1>5, <1>7, <2>1
  <2>5. q = p
    BY <2>1, <2>3, <2>4, SameSlot
  <2> QED BY <1>2, <2>1, <2>5
<1>8. {l \in DOMAIN rows : x \in Range(slot_mapping(rows[l]))} = {k}
  <2>1. x \in Range(slot_mapping(rows[k]))
    BY <1>4 DEF Range
  <2> QED BY <1>4, <1>6, <2>1
<1>9. (CHOOSE l \in {k} : TRUE) = k
  OBVIOUS
<1>10. (CHOOSE l \in 1..rows[k].n : slot_mapping(rows[k])[l] = x) = j
  BY <1>2, <1>4, <1>7
<1>11. Written(cache, TRUE)[x] = Context(batch.seqs[k].seq, rows[k].start + j - 1)
  BY <1>1, <1>8, <1>9, <1>10 DEF Written
<1> QED BY <1>1, <1>2, <1>4, <1>5, <1>11 DEF HoldsAt

LEMMA WrittenOld ==
  ASSUME IInv, C!IInv, ReportOK, pc = "execute", NEW x \in 0..NumBlocks * BlockSize - 1, ~New(x),
         NEW cache, NEW complete, x \in DOMAIN cache
  PROVE  Written(cache, complete)[x] = cache[x]
<1>1. ASSUME NEW k \in DOMAIN rows, x \in Range(slot_mapping(rows[k])) PROVE FALSE
  BY <1>1, RowsWriteNew DEF New
<1>2. {k \in DOMAIN rows : x \in Range(slot_mapping(rows[k]))} = {}
  BY <1>1
<1> QED BY <1>2 DEF Written

LEMMA ComputedIsNotNew ==
  ASSUME IInv, C!IInv, pc = "execute", NEW u \in Seqs, block_table[u] # <<>>,
         NEW q \in 0..num_computed_tokens[u] - 1
  PROVE  ~New(Slot(block_table[u], q))
<1> SUFFICES ASSUME New(Slot(block_table[u], q)) PROVE FALSE
  OBVIOUS
<1>1. PICK k \in DOMAIN batch.seqs, s \in Seqs, n \in Nat \ {0}, t \in Seq(Blocks), c \in Nat :
        Fits(k, s, n, t, c) /\ \E p \in c..c + n - 1 : Slot(block_table[u], q) = Slot(t, p)
  BY DEF New
<1>2. PICK p \in c..c + n - 1 : Slot(t, p) = Slot(block_table[u], q)
  BY <1>1
<1>3. PICK m \in Nat : m = num_computed_tokens[u] /\ blocks_for(m) <= Len(block_table[u])
  BY TableFacts
<1>4. q \in Nat /\ q \in 0..m - 1 /\ block_table[u] \in Seq(Blocks)
  BY <1>3, TableFacts
<1>5. q \div BlockSize + 1 \in DOMAIN block_table[u]
  <2>1. InPage(block_table[u], q)
    BY <1>3, <1>4, SlotInPage
  <2> QED BY <2>1 DEF InPage
<1>6. u = s /\ q = p
  BY <1>1, <1>2, <1>4, <1>5, SameSlot
<1>7. c = num_computed_tokens[s]
  BY <1>1 DEF Fits
<1> QED BY <1>2, <1>6, <1>7

LEMMA PublishedIsNotNew ==
  ASSUME IInv, C!IInv, pc = "execute", NEW b \in Blocks, block_hash[b] # None, NEW o \in 0..BlockSize - 1
  PROVE  ~New(b * BlockSize + o)
<1> SUFFICES ASSUME New(b * BlockSize + o) PROVE FALSE
  OBVIOUS
<1>1. PICK k \in DOMAIN batch.seqs, s \in Seqs, n \in Nat \ {0}, t \in Seq(Blocks), c \in Nat :
        Fits(k, s, n, t, c) /\ \E p \in c..c + n - 1 : b * BlockSize + o = Slot(t, p)
  BY DEF New
<1>2. PICK p \in c..c + n - 1 : Slot(t, p) = b * BlockSize + o
  BY <1>1
<1>3. InPage(t, p)
  <2>1. p \in 0..c + n - 1
    BY <1>1, <1>2
  <2> QED BY <1>1, <2>1, EntrySlots
<1>4. PICK d \in Nat, r \in 0..BlockSize - 1 : d = t[p \div BlockSize + 1] /\ Slot(t, p) = d * BlockSize + r
  BY <1>3 DEF InPage
<1>5. d = b
  <2>1. b \in Nat
    BY PoolAssumption DEF Blocks
  <2>2. (b * BlockSize + o) \div BlockSize = b
    BY <2>1, SlotParts
  <2>3. (d * BlockSize + r) \div BlockSize = d
    BY <1>4, SlotParts
  <2> QED BY <1>2, <1>4, <2>2, <2>3
<1>6. block_hash[t[p \div BlockSize + 1]] = None
  BY <1>1, <1>2, NewIsPrivate
<1> QED BY <1>4, <1>5, <1>6

\* The step that runs the batch: everybody keeps what is computed, and the new
\* positions hold their own contexts.
LEMMA ExecuteFrame ==
  ASSUME IInv, ReportOK, Execute \/ ExecuteFails
  PROVE  /\ pc = "execute" /\ pc' \in {"idle", "update", "fail_all"}
         /\ UNCHANGED <<block_table, cpu_block_table, block_hash, token_ids, num_computed_tokens>>
         /\ pc' = "update" => batch' = batch /\ Pending' \subseteq DOMAIN batch.seqs
<1>1. /\ pc = "execute" /\ pc' \in {"idle", "update", "fail_all"}
      /\ UNCHANGED <<block_table, cpu_block_table, block_hash, token_ids, num_computed_tokens>>
      /\ pc' = "update" => batch' = batch
  BY DEF Execute, ExecuteFails, poolVars, gpuVars, cpuVars, seqVars
<1> QED BY <1>1 DEF Pending

LEMMA PoolSlot ==
  ASSUME NEW b \in Blocks, NEW o \in 0..BlockSize - 1
  PROVE  b * BlockSize + o \in 0..NumBlocks * BlockSize - 1
<1>1. b \in Nat /\ b < NumBlocks /\ NumBlocks \in Nat
  BY PoolAssumption DEF Blocks
<1> QED BY <1>1, SlotParts

LEMMA SwappedDomain ==
  ASSUME CachesOK
  PROVE  /\ DOMAIN SwappedIn = DOMAIN kv_cache /\ DOMAIN SwappedOut = DOMAIN cpu_cache
         /\ \A c : DOMAIN Written(SwappedIn, c) = DOMAIN kv_cache
         /\ SwappedIn = [x \in DOMAIN kv_cache |-> SwappedIn[x]]
         /\ SwappedOut = [x \in DOMAIN cpu_cache |-> SwappedOut[x]]
         /\ \A c : Written(SwappedIn, c) = [x \in DOMAIN kv_cache |-> Written(SwappedIn, c)[x]]
<1>1. SwappedIn = [x \in DOMAIN kv_cache |-> SwappedIn[x]] /\ DOMAIN SwappedIn = DOMAIN kv_cache
  BY DEF SwappedIn, Copied
<1>2. SwappedOut = [x \in DOMAIN cpu_cache |-> SwappedOut[x]] /\ DOMAIN SwappedOut = DOMAIN cpu_cache
  BY DEF SwappedOut, Copied
<1>3. ASSUME NEW c
      PROVE  /\ Written(SwappedIn, c) = [x \in DOMAIN SwappedIn |-> Written(SwappedIn, c)[x]]
             /\ DOMAIN Written(SwappedIn, c) = DOMAIN SwappedIn
  BY DEF Written
<1> QED BY <1>1, <1>2, <1>3

LEMMA DomainsKept ==
  ASSUME CachesOK, kv_cache' = [x \in DOMAIN kv_cache |-> kv_cache'[x]],
         cpu_cache' = [x \in DOMAIN cpu_cache |-> cpu_cache'[x]]
  PROVE  CachesOK'
BY DEF CachesOK

\* What is published is not written over, however far the step comes.
LEMMA ExecuteKeepsPublished ==
  ASSUME IInv, C!IInv, ReportOK, PagesInv, Execute \/ ExecuteFails,
         \/ UNCHANGED kv_cache
         \/ kv_cache' = SwappedIn
         \/ \E c \in BOOLEAN : kv_cache' = Written(SwappedIn, c)
  PROVE  PublishedIsContent'
<1>1. /\ pc = "execute" /\ UNCHANGED block_hash
      /\ CachesOK /\ CopiesOK /\ PublishedIsContent
  BY ExecuteFrame DEF PagesInv
<1>2. ASSUME NEW b \in Blocks, block_hash[b] # None, NEW o \in 0..BlockSize - 1
      PROVE  kv_cache'[b * BlockSize + o] = kv_cache[b * BlockSize + o]
  <2>1. gpu = SwappedIn
    BY <1>1 DEF gpu, Preparing
  <2>2. SwappedIn[b * BlockSize + o] = kv_cache[b * BlockSize + o]
    BY <1>1, <1>2, <2>1, PublishedStays
  <2>3. PICK x \in 0..NumBlocks * BlockSize - 1 : x = b * BlockSize + o
    BY PoolSlot
  <2>4. ~New(x)
    BY <1>1, <1>2, <2>3, PublishedIsNotNew
  <2>5. x \in DOMAIN SwappedIn
    BY <1>1, <2>3, InCache, SwappedDomain
  <2>6. \A c : Written(SwappedIn, c)[x] = SwappedIn[x]
    BY <1>1, <2>3, <2>4, <2>5, WrittenOld
  <2> QED BY <2>2, <2>3, <2>6
<1> QED BY <1>1, <1>2 DEF PublishedIsContent

LEMMA RunFailsPages ==
  ASSUME IInv, C!IInv, ReportOK, PagesInv, RunFails
  PROVE  PagesInv'
<1>1. ExecuteFails /\ pc' = "fail_all" /\ CachesOK
  BY DEF RunFails, ExecuteFails, PagesInv
<1>2. PublishedIsContent'
  BY <1>1, ExecuteKeepsPublished DEF RunFails
<1>3. /\ kv_cache' = [x \in DOMAIN kv_cache |-> kv_cache'[x]]
      /\ cpu_cache' = [x \in DOMAIN cpu_cache |-> cpu_cache'[x]]
  <2>1. UNCHANGED kv_cache => kv_cache' = [x \in DOMAIN kv_cache |-> kv_cache'[x]]
    BY <1>1 DEF CachesOK
  <2>2. UNCHANGED cpu_cache => cpu_cache' = [x \in DOMAIN cpu_cache |-> cpu_cache'[x]]
    BY <1>1 DEF CachesOK
  <2> QED BY <1>1, <2>1, <2>2, SwappedDomain DEF RunFails
<1>4. CachesOK' /\ CopiesOK'
  BY <1>1, <1>3, DomainsKept DEF CopiesOK, Preparing
<1> QED BY <1>1, <1>2, <1>4 DEF PagesInv

LEMMA RunBatchPages ==
  ASSUME IInv, C!IInv, ReportOK, PagesInv, RunBatch
  PROVE  PagesInv'
<1>1. /\ Execute /\ pc = "execute" /\ pc' \in {"idle", "update"}
      /\ UNCHANGED <<block_table, cpu_block_table, block_hash, token_ids, num_computed_tokens>>
      /\ pc' = "update" => batch' = batch /\ Pending' \subseteq DOMAIN batch.seqs
      /\ CachesOK /\ CopiesOK /\ PublishedIsContent
  BY ExecuteFrame DEF RunBatch, Execute, PagesInv
<1>2. PICK kv, cpu, kw : kv = SwappedIn /\ cpu = SwappedOut /\ kw = Written(SwappedIn, TRUE)
  OBVIOUS
<1>3. kv_cache' = kw /\ cpu_cache' = cpu
  BY <1>2 DEF RunBatch
<1>4. gpu = kv /\ host = cpu /\ gpu' = kw /\ host' = cpu
  BY <1>1, <1>2, <1>3 DEF gpu, host, Preparing
<1>5. \A s \in Seqs : InTable(kv, s) /\ InHostTable(cpu, s)
  BY <1>1, <1>4 DEF PagesInv
<1>6. CachesOK' /\ CopiesOK' /\ PublishedIsContent'
  <2>1. PublishedIsContent'
    BY <1>1, ExecuteKeepsPublished DEF RunBatch
  <2>2. /\ kv_cache' = [x \in DOMAIN kv_cache |-> kv_cache'[x]]
        /\ cpu_cache' = [x \in DOMAIN cpu_cache |-> cpu_cache'[x]]
    BY <1>1, <1>2, <1>3, SwappedDomain
  <2> QED BY <1>1, <2>1, <2>2, DomainsKept DEF CopiesOK, Preparing
<1>7. ASSUME NEW s \in Seqs, block_table[s] # <<>>, NEW p \in 0 .. num_computed_tokens[s] - 1
      PROVE  kw[Slot(block_table[s], p)] = Context(s, p)
  <2>1. ~New(Slot(block_table[s], p))
    BY <1>1, <1>7, ComputedIsNotNew
  <2>2. PICK x \in 0..NumBlocks * BlockSize - 1 : x = Slot(block_table[s], p) /\ x \in DOMAIN kv_cache
    <3>1. PICK m \in Nat : m = num_computed_tokens[s] /\ blocks_for(m) <= Len(block_table[s])
      BY <1>7, TableFacts
    <3>2. block_table[s] \in Seq(Blocks)
      BY TableFacts
    <3>3. InPage(block_table[s], p)
      BY <1>7, <3>1, <3>2, SlotInPage
    <3>4. PICK b \in Blocks, o \in 0..BlockSize - 1 : Slot(block_table[s], p) = b * BlockSize + o
      BY <3>3 DEF InPage
    <3> QED BY <1>1, <3>4, PoolSlot, InCache
  <2>3. x \in DOMAIN kv
    BY <1>1, <1>2, <2>2, SwappedDomain
  <2>4. kw[x] = kv[x]
    BY <1>1, <1>2, <2>1, <2>2, <2>3, WrittenOld
  <2>5. kv[x] = Context(s, p)
    BY <1>5, <1>7, <2>2 DEF InTable
  <2> QED BY <2>2, <2>4, <2>5
<1>8. ASSUME NEW s \in Seqs PROVE InTable(kw, s)' /\ InHostTable(cpu, s)'
  BY <1>1, <1>5, <1>7 DEF InTable, InHostTable, Context
<1>9. ASSUME pc' = "update", NEW k \in Pending' PROVE
        \E s \in Seqs, n \in Nat : /\ s = batch.seqs[k].seq /\ n = batch.seqs[k].n
          /\ \A p \in 0 .. num_computed_tokens[s] + n - 1 : kw[Slot(block_table[s], p)] = Context(s, p)
  <2>1. k \in DOMAIN batch.seqs /\ k \in Pending
    BY <1>1, <1>9 DEF Pending
  <2>2. PICK s \in Seqs, n \in Nat \ {0}, t \in Seq(Blocks), c \in Nat : Fits(k, s, n, t, c)
    BY <2>1, EntryFits
  <2>3. /\ s = batch.seqs[k].seq /\ n = batch.seqs[k].n /\ t = block_table[s]
        /\ c = num_computed_tokens[s] /\ t # <<>>
    BY <2>2 DEF Fits
  <2>4. ASSUME NEW p \in 0 .. c + n - 1 PROVE kw[Slot(t, p)] = Context(s, p)
    <3>1. CASE p < c
      <4>1. p \in 0..c - 1
        BY <2>2, <2>4, <3>1
      <4> QED BY <1>7, <2>3, <4>1
    <3>2. CASE ~(p < c)
      <4>1. p \in c..c + n - 1
        BY <2>2, <2>4, <3>2
      <4>2. InPage(t, p)
        BY <2>2, <2>4, EntrySlots
      <4>3. PICK b \in Blocks, o \in 0..BlockSize - 1 : Slot(t, p) = b * BlockSize + o
        BY <4>2 DEF InPage
      <4>4. Slot(t, p) \in 0..NumBlocks * BlockSize - 1 /\ Slot(t, p) \in DOMAIN kv
        BY <1>1, <1>2, <4>3, PoolSlot, InCache, SwappedDomain
      <4>5. pc = "execute" /\ k \in DOMAIN batch.seqs
        BY <1>1, <2>1
      <4>6. Written(kv, TRUE)[Slot(t, p)] = Context(s, p)
        <5>1. NewAt(k, s, n, t, c, p) /\ HasSlot(kv, Slot(t, p))
          BY <2>2, <4>1, <4>4, <4>5 DEF NewAt, HasSlot
        <5>2. HoldsAt(kv, t, s, p)
          BY <4>5, <5>1, WrittenNew
        <5> QED BY <5>2 DEF HoldsAt
      <4> QED BY <1>2, <4>6
    <3> QED BY <3>1, <3>2
  <2> QED BY <2>2, <2>3, <2>4
<1>10. ComputedNow'
  <2> SUFFICES ASSUME pc' = "update", NEW k \in Pending',
                      NEW p \in 0 .. num_computed_tokens[batch.seqs[k].seq] + batch.seqs[k].n - 1
               PROVE  kw[Slot(block_table[batch.seqs[k].seq], p)] = Context(batch.seqs[k].seq, p)
    BY <1>1, <1>3 DEF ComputedNow, Context
  <2> QED BY <1>9
<1>11. \A s \in Seqs : InTable(gpu, s)' /\ InHostTable(host, s)'
  BY <1>4, <1>8 DEF InTable, InHostTable
<1> QED BY <1>6, <1>10, <1>11 DEF PagesInv

-----------------------------------------------------------------------------
\* update()

LEMMA PrefixOfMore ==
  ASSUME NEW S, NEW l \in Seq(S), NEW x \in S, NEW k \in 0..Len(l)
  PROVE  SubSeq(Append(l, x), 1, k) = SubSeq(l, 1, k)
<1>1. Len(l) \in Nat
  OBVIOUS
<1>2. PICK m : m = Append(l, x)
  OBVIOUS
<1>3. \A j \in 1..Len(l) : m[j] = l[j]
  BY <1>2
<1>4. SubSeq(m, 1, k) = [j \in 1..k |-> m[j]]
  BY <1>1
<1>5. SubSeq(l, 1, k) = [j \in 1..k |-> l[j]]
  BY <1>1
<1>6. \A j \in 1..k : m[j] = l[j]
  BY <1>1, <1>3
<1> QED BY <1>2, <1>4, <1>5, <1>6

\* What becomes full and computed is published as what it holds.
LEMMA PublishesContent ==
  ASSUME IInv, C!IInv, PublishedIsContent, NEW s \in Seqs, NEW m \in Nat, m <= num_tokens(s),
         \A p \in 0..m - 1 : kv_cache[Slot(block_table[s], p)] = Context(s, p),
         cache_full_blocks(s, m), UNCHANGED kv_cache
  PROVE  PublishedIsContent'
<1> SUFFICES ASSUME NEW b \in Blocks, block_hash'[b] # None, NEW o \in 0..BlockSize - 1
             PROVE  kv_cache[b * BlockSize + o]
                      = SubSeq(block_hash'[b], 1, Len(block_hash'[b]) - BlockSize + o + 1)
  BY DEF PublishedIsContent
<1>1. CASE block_hash'[b] = block_hash[b]
  BY <1>1 DEF PublishedIsContent
<1>2. CASE block_hash'[b] # block_hash[b]
  <2>1. PICK j \in NewlyFull(s, m) : block_table[s][j] = b /\ block_hash'[b] = Hash(s, j)
    BY <1>2 DEF cache_full_blocks
  <2>2. j \in Nat \ {0} /\ j <= m \div BlockSize
    <3>1. num_registered_blocks[s] \in Nat
      BY PoolServes DEF BlockManagerTypeOK
    <3>2. m \div BlockSize \in Nat
      BY PoolAssumption, DivisionFacts
    <3> QED BY <2>1, <3>1, <3>2 DEF NewlyFull
  <2>3. BlockSize \in Nat \ {0} /\ j * BlockSize \in Nat /\ (j - 1) * BlockSize \in Nat
        /\ j * BlockSize = (j - 1) * BlockSize + BlockSize
    BY <2>2, PoolAssumption, SMT
  <2>4. j * BlockSize <= m
    BY <2>2, <2>3, Quotient
  <2>5. token_ids[s] \in Seq(Tokens) /\ num_tokens(s) \in Nat
    BY DEF IInv, QInv, Types, num_tokens
  <2>6. PICK p \in Nat : /\ p = (j - 1) * BlockSize + o
                         /\ SubSeq(Hash(s, j), 1, Len(Hash(s, j)) - BlockSize + o + 1) = Context(s, p)
    <3>1. j * BlockSize <= num_tokens(s)
      BY <2>3, <2>4, <2>5
    <3> QED BY <2>2, <2>5, <3>1, HashIsContext
  <2>7. p \in 0..m - 1
    BY <2>3, <2>4, <2>6
  <2>8. Slot(block_table[s], p) = b * BlockSize + o
    <3>1. PICK q \in Nat : q = j - 1 /\ q + 1 = j
      BY <2>2
    <3>2. (q * BlockSize + o) \div BlockSize = q /\ (q * BlockSize + o) % BlockSize = o
      BY SlotParts
    <3>3. p \div BlockSize = q /\ p % BlockSize = o
      BY <2>6, <3>1, <3>2
    <3> QED BY <2>1, <3>1, <3>3 DEF Slot
  <2> QED BY <2>1, <2>6, <2>7, <2>8
<1> QED BY <1>1, <1>2

LEMMA UpdatePages ==
  ASSUME IInv, C!IInv, ReportOK, PagesInv, Update, UNCHANGED <<kv_cache, cpu_cache>>
  PROVE  PagesInv'
<1>1. QInv /\ Types /\ BatchOK /\ \A t \in Seqs : Placed(t)
  BY DEF IInv, QInv
<1>2. pc = "update" /\ pc' \in {"idle", "update"} /\ i \in Pending /\ i \in Nat
  <2>1. pc = "update" /\ i \in Pending /\ i \in Nat
    BY <1>1, UpdateEntry
  <2>2. pc' \in {"idle", "update"}
    BY <2>1, UpdateEnds
  <2> QED BY <2>1, <2>2
<1>3. PICK s \in Seqs, n \in Nat \ {0}, t \in Seq(Blocks), c \in Nat : Fits(i, s, n, t, c)
  BY <1>2, EntryFits
<1>4. /\ s = batch.seqs[i].seq /\ n = batch.seqs[i].n /\ t = block_table[s]
      /\ c = num_computed_tokens[s] /\ t # <<>> /\ c + n <= num_tokens(s)
  BY <1>3 DEF Fits
<1>5. PICK m \in Nat : m = c + n /\ m <= num_tokens(s)
  BY <1>3, <1>4
<1>6. /\ status[s] = "RUNNING" /\ num_computed_tokens' = [num_computed_tokens EXCEPT ![s] = m]
      /\ \A u \in Seqs \ {s} : token_ids'[u] = token_ids[u] /\ block_table'[u] = block_table[u]
      /\ block_table'[s] = block_table[s] \/ block_table'[s] = <<>>
      /\ UNCHANGED cpu_block_table
  BY <1>1, <1>4, <1>5, UpdateEffect DEF Update
<1>7. num_computed_tokens \in [Seqs -> Nat] /\ token_ids \in [Seqs -> Seq(Tokens)]
  BY <1>1 DEF Types
<1>8. PICK kv, cpu : kv = kv_cache /\ cpu = cpu_cache
  OBVIOUS
<1>9. gpu = kv /\ gpu' = kv /\ host = cpu /\ host' = cpu
  BY <1>2, <1>8 DEF gpu, host, Preparing
<1>10. CachesOK /\ PublishedIsContent /\ ComputedNow /\ \A u \in Seqs : InTable(kv, u) /\ InHostTable(cpu, u)
  BY <1>2, <1>9 DEF PagesInv
<1>11. \A p \in 0..m - 1 : kv[Slot(block_table[s], p)] = Context(s, p)
  <2>1. \A k \in Pending :
          \A p \in 0 .. num_computed_tokens[batch.seqs[k].seq] + batch.seqs[k].n - 1 :
            kv_cache[Slot(block_table[batch.seqs[k].seq], p)] = Context(batch.seqs[k].seq, p)
    BY <1>2, <1>10 DEF ComputedNow
  <2>2. \A p \in 0 .. c + n - 1 : kv[Slot(block_table[s], p)] = Context(s, p)
    BY <1>2, <1>4, <1>8, <2>1
  <2> QED BY <1>5, <2>2
<1>12. \A p \in 0..m - 1 : Context(s, p)' = Context(s, p)
  <2>1. ASSUME NEW p \in 0..m - 1 PROVE SubSeq(token_ids'[s], 1, p + 1) = SubSeq(token_ids[s], 1, p + 1)
    <3>1. CASE token_ids' = token_ids
      BY <3>1
    <3>2. CASE token_ids' # token_ids
      <4>1. PICK x \in Tokens : token_ids' = [token_ids EXCEPT ![s] = Append(@, x)]
        BY <1>4, <3>2 DEF Update
      <4>2. token_ids'[s] = Append(token_ids[s], x) /\ token_ids[s] \in Seq(Tokens)
        BY <1>7, <4>1
      <4>3. p + 1 \in 0..Len(token_ids[s])
        <5>1. Len(token_ids[s]) \in Nat /\ m <= Len(token_ids[s])
          BY <1>5, <4>2 DEF num_tokens
        <5> QED BY <1>5, <2>1, <5>1
      <4> QED BY <4>1, <4>2, <4>3, PrefixOfMore
    <3> QED BY <3>1, <3>2
  <2> QED BY <2>1 DEF Context
<1>13. ASSUME NEW u \in Seqs \ {s}
       PROVE  /\ num_computed_tokens'[u] = num_computed_tokens[u] /\ block_table'[u] = block_table[u]
              /\ \A p : Context(u, p)' = Context(u, p)
  BY <1>6, <1>7 DEF Context
<1>14. ASSUME NEW u \in Seqs PROVE InTable(kv, u)' /\ InHostTable(cpu, u)'
  <2>1. CASE u = s
    <3>1. num_computed_tokens'[s] = m
      BY <1>6, <1>7
    <3>2. cpu_block_table'[s] = <<>>
      BY <1>1, <1>6 DEF Placed
    <3> QED BY <1>6, <1>11, <1>12, <2>1, <3>1, <3>2 DEF InTable, InHostTable
  <2>2. CASE u # s
    BY <1>6, <1>10, <1>13, <2>2 DEF InTable, InHostTable
  <2> QED BY <2>1, <2>2
<1>15. ComputedNow'
  <2> SUFFICES ASSUME pc' = "update", NEW k \in Pending'
               PROVE  LET u == batch'.seqs[k].seq IN
                      \A p \in 0 .. num_computed_tokens'[u] + batch'.seqs[k].n - 1 :
                        kv_cache'[Slot(block_table'[u], p)] = SubSeq(token_ids'[u], 1, p + 1)
    BY DEF ComputedNow, Context
  <2>1. batch' = batch /\ i' = i + 1
    BY DEF Update
  <2>2. k \in DOMAIN batch.seqs /\ k >= i + 1
    BY <2>1 DEF Pending
  <2>3. k \in Pending /\ k # i
    <3>1. k \in Nat
      <4>1. batch.seqs \in Seq(EntryRecord)
        BY DEF ReportOK, BatchRecord
      <4> QED BY <2>2, <4>1
    <3> QED BY <1>2, <2>2, <3>1 DEF Pending
  <2>4. PICK u \in Seqs : u = batch.seqs[k].seq
    BY <1>1, <2>2, EntryType
  <2>5. u # s
    BY <1>1, <1>2, <1>4, <2>3, <2>4 DEF BatchOK, Pending
  <2>6. \A p \in 0 .. num_computed_tokens[u] + batch.seqs[k].n - 1 : kv_cache[Slot(block_table[u], p)] = Context(u, p)
    BY <1>2, <1>10, <2>3, <2>4 DEF ComputedNow
  <2>7. /\ num_computed_tokens'[u] = num_computed_tokens[u] /\ block_table'[u] = block_table[u]
        /\ token_ids'[u] = token_ids[u]
    BY <1>6, <1>13, <2>5
  <2> QED BY <2>1, <2>4, <2>6, <2>7 DEF Context
<1>16. PublishedIsContent'
  <2>1. cache_full_blocks(s, m)
    BY <1>4, <1>5 DEF Update
  <2> QED BY <1>5, <1>8, <1>10, <1>11, <2>1, PublishesContent
<1>17. CachesOK' /\ CopiesOK'
  BY <1>2, <1>10 DEF CachesOK, CopiesOK, Preparing
<1>18. \A u \in Seqs : InTable(gpu, u)' /\ InHostTable(host, u)'
  BY <1>9, <1>14 DEF InTable, InHostTable
<1> QED BY <1>15, <1>16, <1>17, <1>18 DEF PagesInv

-----------------------------------------------------------------------------
\* Failed steps.

LEMMA FailOnePages ==
  ASSUME IInv, C!IInv, PagesInv, NEW s \in Seqs, FailOne(s), UNCHANGED <<kv_cache, cpu_cache>>
  PROVE  PagesInv'
<1>1. pc = "fail_all" /\ abort(s) /\ UNCHANGED <<block_hash, stepVars>>
  BY AbortTables DEF FailOne
<1>2. pc' = "fail_all"
  BY <1>1 DEF stepVars
<1>3. PublishedIsContent'
  BY <1>1, PublishedKept DEF PagesInv
<1> QED BY <1>2, <1>3 DEF PagesInv, CachesOK, CopiesOK, Preparing

LEMMA EndFailAllPages ==
  ASSUME IInv, C!IInv, PagesInv, EndFailAll, UNCHANGED <<kv_cache, cpu_cache>>
  PROVE  PagesInv'
<1>1. pc' = "idle" /\ seqs = {} /\ UNCHANGED <<block_table, cpu_block_table, block_hash>>
  BY DEF EndFailAll, poolVars, gpuVars, cpuVars
<1>2. ASSUME NEW s \in Seqs PROVE block_table'[s] = <<>> /\ cpu_block_table'[s] = <<>>
  BY <1>1 DEF IInv, QInv, Placed, Live
<1>3. PublishedIsContent'
  BY <1>1, PublishedKept DEF PagesInv
<1>4. \A s \in Seqs : InTable(gpu, s)' /\ InHostTable(host, s)'
  BY <1>2 DEF InTable, InHostTable
<1> QED BY <1>1, <1>3, <1>4 DEF PagesInv, CachesOK, CopiesOK, Preparing, ComputedNow

-----------------------------------------------------------------------------
\* The engine.

LEMMA InitPages == EngineInit => PagesInv
<1> SUFFICES ASSUME EngineInit PROVE PagesInv
  OBVIOUS
<1>1. /\ pc = "idle" /\ block_table = [s \in Seqs |-> <<>>] /\ cpu_block_table = [s \in Seqs |-> <<>>]
      /\ block_hash = [b \in Blocks |-> None]
  BY DEF EngineInit, Init, BlockManagerInit
<1>2. CachesOK
  BY DEF EngineInit, CachesOK
<1> QED BY <1>1, <1>2 DEF PagesInv, CopiesOK, Preparing, PublishedIsContent, ComputedNow, InTable, InHostTable

LEMMA EngineIsScheduler ==
  /\ EngineInit => Init
  /\ [EngineNext]_engineVars => [Next]_vars
BY DEF EngineInit, EngineNext, RunBatch, RunFails, Next, Step, engineVars

\* Whatever the engine does, the pages that its tables point at hold what they
\* should.
LEMMA NextPages ==
  ASSUME "update" \notin FailPoints, IInv, IInv', C!IInv, TablesServe', ReportOK, PagesInv,
         [EngineNext]_engineVars
  PROVE  PagesInv'
<1>1. CASE RunBatch
  BY <1>1, RunBatchPages
<1>2. CASE RunFails
  BY <1>2, RunFailsPages
<1>3. CASE Request /\ UNCHANGED <<kv_cache, cpu_cache>>
  BY <1>3, RequestPages
<1>4. CASE Bookkeep /\ UNCHANGED <<kv_cache, cpu_cache>>
  <2>1. CASE BeginStep \/ EndRunning \/ EndSwapIn \/ EndAdmit \/ EmptyStep
    BY <1>4, <2>1, ControlPages
  <2>2. CASE FailAlone \/ FailSwapIn \/ FailAdmit
    BY <1>4, <2>2, FailPages
  <2>3. CASE ScheduleRunning
    BY <1>4, <2>3, ScheduleRunningPages
  <2>4. CASE Evict
    BY <1>4, <2>4, EvictPages
  <2>5. CASE SwapIn
    BY <1>4, <2>5, SwapInPages
  <2>6. CASE Admit
    BY <1>4, <2>6, AdmitPages
  <2>7. CASE Update
    BY <1>4, <2>7, UpdatePages
  <2>8. CASE UpdateFails
    BY <2>8 DEF UpdateFails
  <2>9. CASE \E s \in Seqs : FailOne(s)
    BY <1>4, <2>9, FailOnePages
  <2>10. CASE EndFailAll
    BY <1>4, <2>10, EndFailAllPages
  <2> QED BY <1>4, <2>1, <2>2, <2>3, <2>4, <2>5, <2>6, <2>7, <2>8, <2>9, <2>10 DEF Bookkeep
<1>5. CASE UNCHANGED engineVars
  <2>1. UNCHANGED <<pc, batch, i, block_hash, block_table, cpu_block_table, token_ids,
                    num_computed_tokens, kv_cache, cpu_cache>>
    BY <1>5 DEF engineVars, vars, poolVars, gpuVars, cpuVars, seqVars, stepVars
  <2>2. gpu' = gpu /\ host' = host
    BY <2>1 DEF gpu, host, Preparing, SwappedIn, SwappedOut, Copied
  <2>3. PICK kv, cpu : kv = gpu /\ cpu = host
    OBVIOUS
  <2>4. gpu' = kv /\ host' = cpu
    BY <2>2, <2>3
  <2>5. ASSUME NEW s \in Seqs, InTable(kv, s), InHostTable(cpu, s)
        PROVE  InTable(gpu, s)' /\ InHostTable(host, s)'
    BY <2>1, <2>4, <2>5 DEF InTable, InHostTable, Context
  <2>6. CachesOK' = CachesOK /\ CopiesOK' = CopiesOK /\ PublishedIsContent' = PublishedIsContent
    BY <2>1 DEF CachesOK, CopiesOK, Preparing, Targets, PublishedIsContent
  <2>7. ComputedNow' = ComputedNow
    BY <2>1 DEF ComputedNow, Pending, Context
  <2> QED BY <2>1, <2>3, <2>5, <2>6, <2>7 DEF PagesInv
<1> QED BY <1>1, <1>2, <1>3, <1>4, <1>5 DEF EngineNext

-----------------------------------------------------------------------------
\* The theorems.

LEMMA ReportsAlwaysHold ==
  ASSUME "update" \notin FailPoints
  PROVE  Spec => []ReportOK
<1>1. Init => ReportOK
  BY EmptyBatchType DEF Init, ReportOK
<1>2. IInv /\ C!IInv /\ (IInv /\ C!IInv)' /\ ReportOK /\ [Next]_vars => ReportOK'
  BY ReportsStep
<1> QED BY <1>1, <1>2, ContractIsKept, PTL DEF Spec

\* The engine is a scheduler whose steps touch the caches besides.
LEMMA EngineRunsScheduler == EngineSpec => Spec
BY EngineIsScheduler, PTL DEF EngineSpec, Spec

\* Between any two steps of the engine, every page holds what the tables, the
\* queued copies and the published hashes that point at it say: the computed
\* tokens of a sequence are in its pages, or in the host's, or a copy that is
\* still queued brings them there before the next forward pass.
THEOREM PagesAlwaysHold ==
  ASSUME "update" \notin FailPoints
  PROVE  EngineSpec => [](IInv /\ C!IInv /\ ReportOK /\ PagesInv)
<1> DEFINE Scheduled == IInv /\ C!IInv /\ TablesServe /\ ReportOK
<1>1. EngineSpec => []Scheduled
  <2>1. IInv /\ C!IInv /\ ReportOK => Scheduled
    BY PoolServesTables
  <2> HIDE DEF Scheduled
  <2> QED BY <2>1, EngineRunsScheduler, ContractIsKept, ReportsAlwaysHold, PTL
<1>2. EngineInit => PagesInv
  BY InitPages
<1>3. Scheduled /\ Scheduled' /\ PagesInv /\ [EngineNext]_engineVars => PagesInv'
  BY NextPages
<1>4. Scheduled /\ PagesInv => IInv /\ C!IInv /\ ReportOK /\ PagesInv
  OBVIOUS
<1> HIDE DEF Scheduled
<1>5. EngineSpec => [](Scheduled /\ PagesInv)
  BY <1>1, <1>2, <1>3, PTL DEF EngineSpec
<1> QED BY <1>4, <1>5, PTL

\* What the prefix cache publishes under a hash is the K/V of exactly that
\* prefix: no batch that shares, evicts, copies or fails half way ever leaves
\* anything else in a published block (_update_hash, _evict, execute).
THEOREM PublishedBlocksHoldTheirPrefix ==
  ASSUME "update" \notin FailPoints
  PROVE  EngineSpec => []PublishedIsContent
<1>1. IInv /\ C!IInv /\ ReportOK /\ PagesInv => PublishedIsContent
  BY DEF PagesInv
<1> QED BY <1>1, PagesAlwaysHold, PTL

\* A sequence that was swapped out finds all it had computed in the host pool,
\* whatever was swapped out, in, finished or failed in between (swap_out,
\* swap_in, _swap_out, _swap_in).
THEOREM HostPoolKeepsContexts ==
  ASSUME "update" \notin FailPoints
  PROVE  EngineSpec => []HostKeepsContext
<1>1. IInv /\ C!IInv /\ ReportOK /\ PagesInv => HostKeepsContext
  <2> SUFFICES ASSUME IInv, C!IInv, PagesInv, pc = "idle", NEW s \in Range(swapped),
                      NEW p \in 0 .. num_computed_tokens[s] - 1
               PROVE  cpu_cache[Slot(cpu_block_table[s], p)] = Context(s, p)
    BY DEF HostKeepsContext
  <2>1. s \in Seqs
    BY DEF IInv, QInv, Types, Range
  <2>2. cpu_block_table[s] # <<>>
    BY <2>1 DEF IInv, QInv, Placed
  <2>3. host = cpu_cache
    BY DEF host, Preparing
  <2>4. InHostTable(host, s)
    BY <2>1 DEF PagesInv
  <2> QED BY <2>2, <2>3, <2>4 DEF InHostTable
<1> QED BY <1>1, PagesAlwaysHold, PTL

LEMMA PaddingIsARow == padding.table \in Seq(Nat) /\ kv_len(padding) = 1 /\ Len(padding.table) = pages(1)
<1>1. BlockSize \in Nat \ {0} /\ NumBlocks \in Nat
  BY PoolAssumption
<1>2. pages(1) = 1
  <2>1. 1 + BlockSize - 1 = BlockSize /\ BlockSize \div BlockSize = 1
    BY <1>1, SMT
  <2> QED BY <2>1 DEF pages
<1>3. padding.table = <<NumBlocks>> /\ kv_len(padding) = 0 + 1
  BY DEF padding, kv_len, scratch_block
<1> QED BY <1>1, <1>2, <1>3

LEMMA EntryIsARow ==
  ASSUME ReportOK, NEW k \in DOMAIN batch.seqs, NEW s, NEW n \in Nat \ {0}, NEW t \in Seq(Blocks), NEW c \in Nat,
         Fits(k, s, n, t, c)
  PROVE  /\ k \in DOMAIN rows /\ kv_len(rows[k]) = c + n
         /\ rows[k].table \in Seq(Nat) /\ Len(rows[k].table) = pages(c + n)
         /\ \A p \in 0..c + n - 1 : Slot(rows[k].table, p) = Slot(t, p)
<1>1. batch.seqs \in Seq(EntryRecord)
  BY DEF ReportOK, BatchRecord
<1>2. k \in DOMAIN rows /\ rows[k] = Row(t, c, n)
  BY <1>1, LaidOut DEF Fits
<1>3. PICK m \in Nat \ {0} : m = c + n
  OBVIOUS
<1>4. Len(t) \in Nat /\ Len(t) = pages(m)
  BY <1>3 DEF Fits, pages, blocks_for
<1>5. BlockSize \in Nat \ {0}
  BY PoolAssumption
<1>6. \A p \in 0..c + n - 1 : Slot(Row(t, c, n).table, p) = Slot(t, p)
  <2>1. pages(c + n) <= Len(t)
    BY <1>3, <1>4
  <2> QED BY <1>5, <2>1, RowKeepsSlots
<1>7. rows[k].table = SubSeq(t, 1, Len(t)) /\ kv_len(rows[k]) = c + n
  BY <1>2, <1>3, <1>4 DEF Row, kv_len
<1>8. rows[k].table \in Seq(Nat) /\ Len(rows[k].table) = Len(t)
  <2>1. t = SubSeq(t, 1, Len(t))
    OBVIOUS
  <2>2. \A b \in Blocks : b \in Nat
    BY PoolAssumption DEF Blocks
  <2>3. \A j \in 1..Len(t) : t[j] \in Nat
    BY <2>2
  <2>4. t = [j \in 1..Len(t) |-> t[j]] /\ Len(t) \in Nat
    OBVIOUS
  <2>5. t \in Seq(Nat)
    BY <2>3, <2>4
  <2> QED BY <1>7, <2>1, <2>5
<1> QED BY <1>2, <1>3, <1>4, <1>6, <1>7, <1>8

LEMMA BatchRowsOK ==
  ASSUME IInv, C!IInv, ReportOK, DOMAIN batch.seqs = Pending
  PROVE  RowsOK(rows)
<1>1. batch.seqs \in Seq(EntryRecord)
  BY DEF ReportOK, BatchRecord
<1>2. /\ Len(rows) \in Nat /\ DOMAIN rows = 1..Len(rows)
      /\ \A k \in DOMAIN rows : k \in DOMAIN batch.seqs \/ rows[k] = padding
  BY <1>1, LaidOut
<1>3. ASSUME NEW k \in DOMAIN rows
      PROVE  /\ rows[k].table \in Seq(Nat) /\ kv_len(rows[k]) \in Nat \ {0}
             /\ Len(rows[k].table) = pages(kv_len(rows[k]))
  <2>1. CASE k \in DOMAIN batch.seqs
    <3>1. PICK s \in Seqs, n \in Nat \ {0}, t \in Seq(Blocks), c \in Nat : Fits(k, s, n, t, c)
      BY <2>1, EntryFits
    <3>2. /\ kv_len(rows[k]) = c + n /\ rows[k].table \in Seq(Nat)
          /\ Len(rows[k].table) = pages(c + n)
      BY <2>1, <3>1, EntryIsARow
    <3>3. c + n \in Nat \ {0}
      OBVIOUS
    <3> QED BY <3>2, <3>3
  <2>2. CASE rows[k] = padding
    BY <2>2, PaddingIsARow
  <2> QED BY <1>2, <2>1, <2>2
<1> QED BY <1>2, <1>3 DEF RowsOK

LEMMA ReadsOwn == IInv /\ C!IInv /\ ReportOK /\ PagesInv => ReadsOwnContext
<1> SUFFICES ASSUME IInv, C!IInv, ReportOK, PagesInv, pc = "update", i = 1, NEW k \in DOMAIN batch.seqs,
                    NEW slots \in {kv_slots(rows[k]), paged_kv_slots(paged_kv_index(rows), k)}
             PROVE  [j \in DOMAIN slots |-> kv_cache[slots[j]]]
                      = [j \in 1..kv_len(rows[k]) |-> Context(batch.seqs[k].seq, j - 1)]
  BY DEF ReadsOwnContext
<1>1. DOMAIN batch.seqs = Pending
  <2>1. batch.seqs \in Seq(EntryRecord)
    BY DEF ReportOK, BatchRecord
  <2>2. \A l \in DOMAIN batch.seqs : l >= 1
    BY <2>1
  <2> QED BY <2>2 DEF Pending
<1>2. PICK s \in Seqs, n \in Nat \ {0}, t \in Seq(Blocks), c \in Nat : Fits(k, s, n, t, c)
  BY <1>1, EntryFits
<1>3. /\ k \in DOMAIN rows /\ kv_len(rows[k]) = c + n
      /\ \A p \in 0..c + n - 1 : Slot(rows[k].table, p) = Slot(t, p)
  BY <1>2, EntryIsARow
<1>4. slots = kv_slots(rows[k])
  <2>1. RowsOK(rows) /\ BlockSize \in Nat \ {0}
    BY <1>1, BatchRowsOK, PoolAssumption
  <2>2. paged_kv_slots(paged_kv_index(rows), k) = kv_slots(rows[k])
    BY <1>3, <2>1, BackendsReadTheSameSlots
  <2> QED BY <2>2
<1>5. PICK m \in Nat : m = c + n
  OBVIOUS
<1>6. slots = [j \in 1..m |-> Slot(rows[k].table, j - 1)]
  BY <1>3, <1>4, <1>5 DEF kv_slots
<1>7. \A p \in 0..m - 1 : kv_cache[Slot(t, p)] = Context(s, p)
  <2>1. ComputedNow
    BY DEF PagesInv
  <2>2. s = batch.seqs[k].seq /\ n = batch.seqs[k].n /\ t = block_table[s] /\ c = num_computed_tokens[s]
    BY <1>2 DEF Fits
  <2>3. \A p \in 0..c + n - 1 : kv_cache[Slot(t, p)] = Context(s, p)
    BY <1>1, <2>1, <2>2 DEF ComputedNow
  <2> QED BY <1>5, <2>3
<1>8. ASSUME NEW j \in 1..m PROVE kv_cache[slots[j]] = Context(s, j - 1)
  <2>1. j - 1 \in 0..m - 1
    OBVIOUS
  <2>2. slots[j] = Slot(t, j - 1)
    BY <1>3, <1>5, <1>6, <2>1
  <2> QED BY <1>7, <2>1, <2>2
<1>9. DOMAIN slots = 1..m /\ s = batch.seqs[k].seq
  BY <1>2, <1>6 DEF Fits
<1> QED BY <1>3, <1>5, <1>8, <1>9

\* While a batch runs, every sequence in it reads its own context and nothing
\* else, with either attention backend and padded for a CUDA graph or not:
\* through sharing, eviction, chunking, preemption, swaps and failed steps of
\* any order (execute, prepare, gather, paged_kv_index, the graph runner).
THEOREM SequencesReadTheirOwnContext ==
  ASSUME "update" \notin FailPoints
  PROVE  EngineSpec => []ReadsOwnContext
BY ReadsOwn, PagesAlwaysHold, PTL
=============================================================================
