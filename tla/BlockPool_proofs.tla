-------------------------- MODULE BlockPool_proofs --------------------------
(***************************************************************************)
(* Proofs, for any number of sequences, blocks, host blocks and hashes, of *)
(* the invariants that MCBlockPool checks on a small instance.             *)
(***************************************************************************)
EXTENDS BlockPool, FiniteSetTheorems, TLAPS

\* A chain names no prefix twice.
DistinctHashes == \A s \in Seqs : IsInjective(chain[s])

\* The inductive invariant: the parts need one another.  RefCountsAreHolders
\* tells Release when the last holder leaves, OnePool that a taken block had no
\* holder, CacheConsistent that a hit is what its hash says.
IInv ==
  /\ TypeOK
  /\ RefCountsAreHolders
  /\ OnePool
  /\ CacheConsistent
  /\ SharedIsPublished
  /\ RightContent
  /\ DistinctHashes
  /\ HostPool

-----------------------------------------------------------------------------
\* Concatenation appends the range of its second argument.
LEMMA ConcatRange ==
  ASSUME NEW S, NEW p \in Seq(S), NEW q \in Seq(S)
  PROVE  /\ p \o q \in Seq(S)
         /\ Range(p \o q) = Range(p) \cup Range(q)
<1>1. /\ p \o q \in Seq(S)
      /\ Len(p \o q) = Len(p) + Len(q)
      /\ \A i \in 1..Len(p) : (p \o q)[i] = p[i]
      /\ \A i \in 1..Len(q) : (p \o q)[Len(p) + i] = q[i]
  OBVIOUS
<1>2. DOMAIN (p \o q) = 1..(Len(p) + Len(q)) /\ DOMAIN p = 1..Len(p) /\ DOMAIN q = 1..Len(q)
  BY <1>1
<1>3. ASSUME NEW i \in 1..(Len(p) + Len(q)), i \notin 1..Len(p)
      PROVE  \E j \in 1..Len(q) : i = Len(p) + j
  <2>1. i - Len(p) \in 1..Len(q) /\ i = Len(p) + (i - Len(p))
    BY <1>3
  <2> QED BY <2>1
<1>4. ASSUME NEW x \in Range(p \o q)
      PROVE  x \in Range(p) \cup Range(q)
  <2>1. PICK i \in 1..(Len(p) + Len(q)) : x = (p \o q)[i]
    BY <1>2, <1>4 DEF Range
  <2>2. CASE i \in 1..Len(p)
    BY <1>1, <1>2, <2>1, <2>2 DEF Range
  <2>3. CASE i \notin 1..Len(p)
    <3>1. PICK j \in 1..Len(q) : i = Len(p) + j
      BY <1>3, <2>3
    <3> QED BY <1>1, <1>2, <2>1, <3>1 DEF Range
  <2> QED BY <2>2, <2>3
<1>5. ASSUME NEW x \in Range(p) \cup Range(q)
      PROVE  x \in Range(p \o q)
  <2>1. CASE x \in Range(p)
    BY <1>1, <1>2, <2>1 DEF Range
  <2>2. CASE x \in Range(q)
    <3>1. PICK j \in 1..Len(q) : x = q[j]
      BY <1>2, <2>2 DEF Range
    <3>2. Len(p) + j \in DOMAIN (p \o q) /\ (p \o q)[Len(p) + j] = x
      BY <1>1, <1>2, <3>1
    <3> QED BY <3>2 DEF Range
  <2> QED BY <1>5, <2>1, <2>2
<1> QED BY <1>1, <1>4, <1>5

\* Lists of distinct members with no member in common concatenate to one.
LEMMA ConcatInjective ==
  ASSUME NEW S, NEW p \in Seq(S), NEW q \in Seq(S),
         IsInjective(p), IsInjective(q), Range(p) \cap Range(q) = {}
  PROVE  IsInjective(p \o q)
<1>1. /\ DOMAIN (p \o q) = 1..(Len(p) + Len(q))
      /\ DOMAIN p = 1..Len(p) /\ DOMAIN q = 1..Len(q)
      /\ \A i \in 1..Len(p) : (p \o q)[i] = p[i]
      /\ \A i \in 1..Len(q) : (p \o q)[Len(p) + i] = q[i]
  OBVIOUS
<1>2. SUFFICES ASSUME NEW i \in 1..(Len(p) + Len(q)), NEW j \in 1..(Len(p) + Len(q)),
                      (p \o q)[i] = (p \o q)[j]
               PROVE  i = j
  BY <1>1 DEF IsInjective
<1>3. \A k \in 1..(Len(p) + Len(q)) : k \notin 1..Len(p) =>
        /\ k - Len(p) \in 1..Len(q)
        /\ (p \o q)[k] = q[k - Len(p)]
  <2>1. SUFFICES ASSUME NEW k \in 1..(Len(p) + Len(q)), k \notin 1..Len(p)
                 PROVE  k - Len(p) \in 1..Len(q) /\ (p \o q)[k] = q[k - Len(p)]
    OBVIOUS
  <2>2. k - Len(p) \in 1..Len(q) /\ k = Len(p) + (k - Len(p))
    BY <2>1
  <2> QED BY <1>1, <2>2
<1>4. CASE i \in 1..Len(p) /\ j \in 1..Len(p)
  BY <1>1, <1>2, <1>4 DEF IsInjective
<1>5. CASE i \notin 1..Len(p) /\ j \notin 1..Len(p)
  <2>1. i - Len(p) = j - Len(p)
    <3>1. i - Len(p) \in 1..Len(q) /\ (p \o q)[i] = q[i - Len(p)]
      BY <1>3, <1>5
    <3>2. j - Len(p) \in 1..Len(q) /\ (p \o q)[j] = q[j - Len(p)]
      BY <1>3, <1>5
    <3>3. q[i - Len(p)] = q[j - Len(p)]
      BY <1>2, <3>1, <3>2
    <3> QED BY <1>1, <3>1, <3>2, <3>3 DEF IsInjective
  <2> QED BY <2>1
<1>6. CASE i \in 1..Len(p) /\ j \notin 1..Len(p)
  <2>1. p[i] \in Range(p) /\ (p \o q)[i] = p[i]
    BY <1>1, <1>6 DEF Range
  <2>2. PICK k \in 1..Len(q) : (p \o q)[j] = q[k]
    BY <1>3, <1>6
  <2>3. q[k] \in Range(q)
    BY <1>1 DEF Range
  <2> QED BY <1>2, <2>1, <2>2, <2>3
<1>7. CASE i \notin 1..Len(p) /\ j \in 1..Len(p)
  <2>1. p[j] \in Range(p) /\ (p \o q)[j] = p[j]
    BY <1>1, <1>7 DEF Range
  <2>2. PICK k \in 1..Len(q) : (p \o q)[i] = q[k]
    BY <1>3, <1>7
  <2>3. q[k] \in Range(q)
    BY <1>1 DEF Range
  <2> QED BY <1>2, <2>1, <2>2, <2>3
<1> QED BY <1>4, <1>5, <1>6, <1>7

\* What a series of pops returns.
LEMMA PicksType ==
  ASSUME NEW S, NEW p \in Picks(S)
  PROVE  p \in Seq(S) /\ IsInjective(p) /\ Range(p) \subseteq S
<1>1. PICK n \in 0..Cardinality(S) : p \in [1..n -> S]
  BY DEF Picks
<1>2. n \in Nat
  BY <1>1
<1> QED BY <1>1, <1>2 DEF Picks, Range

\* Counting holders with the reference count.
LEMMA HolderFacts ==
  ASSUME IInv, NEW b \in Blocks
  PROVE  /\ IsFiniteSet(Holders(b))
         /\ ref_counts[b] = Cardinality(Holders(b))
         /\ (ref_counts[b] = 0) <=> (Holders(b) = {})
         /\ \A s \in Seqs : b \in Held(s) =>
              /\ ref_counts[b] - 1 \in Nat
              /\ (ref_counts[b] = 1) <=> (Holders(b) = {s})
<1>1. IsFiniteSet(Holders(b))
  <2>1. Holders(b) \in SUBSET Seqs
    BY DEF Holders
  <2> QED BY <2>1, SeqsAssumption, FS_Subset
<1>2. ref_counts[b] = Cardinality(Holders(b)) /\ ref_counts[b] \in Nat
  BY DEF IInv, RefCountsAreHolders, TypeOK
<1>3. (ref_counts[b] = 0) <=> (Holders(b) = {})
  BY <1>1, <1>2, FS_EmptySet
<1>4. ASSUME NEW s \in Seqs, b \in Held(s)
      PROVE  ref_counts[b] - 1 \in Nat /\ ((ref_counts[b] = 1) <=> (Holders(b) = {s}))
  <2>1. s \in Holders(b)
    BY <1>4 DEF Holders
  <2>2. (Cardinality(Holders(b)) = 1) <=> (\E t : Holders(b) = {t})
    BY <1>1, FS_Singleton
  <2> QED BY <1>2, <1>3, <2>1, <2>2
<1> QED BY <1>1, <1>2, <1>3, <1>4

-----------------------------------------------------------------------------
\* Acquire keeps the invariant when its client passes it what cached_prefix and
\* _take_free_block return: distinct hits that are published under the hashes of
\* s, and distinct blocks that nobody holds.
LEMMA AcquireInv ==
  ASSUME IInv,
         NEW s \in Seqs,
         NEW cached \in Seq(Blocks), NEW new \in Seq(Blocks),
         block_table[s] = <<>> \/ cached = <<>>,
         IsInjective(cached), IsInjective(new),
         \A i \in 1..Len(cached) : /\ i <= Len(chain[s])
                                   /\ block_hash[cached[i]] = chain[s][i],
         Range(new) \subseteq (free_blocks \cup evictable) \ Range(cached),
         Acquire(s, cached, new),
         UNCHANGED chain
  PROVE  /\ free_blocks' \subseteq Blocks /\ evictable' \subseteq Blocks
         /\ ref_counts' \in [Blocks -> Nat]
         /\ block_hash' \in [Blocks -> Hashes \cup {None}]
         /\ hash_to_block' \in [Hashes -> Blocks \cup {None}]
         /\ block_table' \in [Seqs -> Seq(Blocks)]
         /\ RefCountsAreHolders' /\ OnePool' /\ CacheConsistent'
         /\ SharedIsPublished' /\ RightContent'
<1> DEFINE hits == Range(cached)
           taken == Range(new)
           evicted == taken \cap evictable
           table == block_table[s] \o cached \o new
<1>1. /\ free_blocks \subseteq Blocks /\ evictable \subseteq Blocks
      /\ ref_counts \in [Blocks -> Nat]
      /\ block_hash \in [Blocks -> Hashes \cup {None}]
      /\ hash_to_block \in [Hashes -> Blocks \cup {None}]
      /\ block_table \in [Seqs -> Seq(Blocks)]
      /\ chain \in [Seqs -> Seq(Hashes)]
  BY DEF IInv, TypeOK
<1>2. /\ evicted # {} => free_blocks \subseteq taken
      /\ free_blocks' = free_blocks \ taken
      /\ evictable' = evictable \ (hits \cup taken)
      /\ ref_counts' = [b \in Blocks |-> IF b \in taken THEN 1
                                         ELSE IF b \in hits THEN ref_counts[b] + 1
                                         ELSE ref_counts[b]]
      /\ block_hash' = [b \in Blocks |-> IF b \in evicted THEN None ELSE block_hash[b]]
      /\ hash_to_block' = [h \in Hashes |-> IF hash_to_block[h] \in evicted
                                            THEN None ELSE hash_to_block[h]]
      /\ block_table' = [block_table EXCEPT ![s] = table]
  BY DEF Acquire, counted
<1>3. /\ hits \subseteq Blocks
      /\ taken \subseteq free_blocks \cup evictable
      /\ taken \cap hits = {}
  <2>1. \A i \in DOMAIN cached : cached[i] \in Blocks
    OBVIOUS
  <2> QED BY <2>1 DEF Range
<1>4. \A b \in taken : \A t \in Seqs : b \notin Held(t)
  BY <1>1, <1>3 DEF IInv, OnePool
<1>5. \A b \in hits : b \notin Held(s) /\ block_hash[b] # None /\ b \notin free_blocks
  <2>1. SUFFICES ASSUME NEW b \in hits
                 PROVE  b \notin Held(s) /\ block_hash[b] # None /\ b \notin free_blocks
    OBVIOUS
  <2>2. PICK i \in 1..Len(cached) : b = cached[i]
    BY <2>1 DEF Range
  <2>3. block_hash[b] \in Hashes
    <3>1. i \in 1..Len(chain[s]) /\ block_hash[b] = chain[s][i]
      BY <1>1, <2>2
    <3> QED BY <1>1, <3>1
  <2>4. block_hash[b] # None
    BY <2>3, NoneAssumption
  <2>5. block_table[s] = <<>>
    BY <2>2
  <2>6. b \notin Held(s)
    BY <2>5 DEF Held, Range
  <2> QED BY <2>4, <2>6 DEF IInv, CacheConsistent
<1>6. /\ block_table[s] \o cached \in Seq(Blocks)
      /\ table \in Seq(Blocks)
      /\ Range(table) = Held(s) \cup hits \cup taken
  <2>1. /\ block_table[s] \o cached \in Seq(Blocks)
        /\ Range(block_table[s] \o cached) = Held(s) \cup hits
    BY <1>1, ConcatRange DEF Held
  <2>2. /\ table \in Seq(Blocks)
        /\ Range(table) = Range(block_table[s] \o cached) \cup taken
    <3>1. \A p \in Seq(Blocks) : /\ p \o new \in Seq(Blocks)
                                 /\ Range(p \o new) = Range(p) \cup taken
      BY ConcatRange
    <3> QED BY <2>1, <3>1
  <2> QED BY <2>1, <2>2
<1>7. /\ block_table' \in [Seqs -> Seq(Blocks)]
      /\ block_table'[s] = table
      /\ \A t \in Seqs \ {s} : block_table'[t] = block_table[t]
  BY <1>1, <1>2, <1>6
<1>8. /\ Held(s)' = Held(s) \cup hits \cup taken
      /\ \A t \in Seqs \ {s} : Held(t)' = Held(t)
  BY <1>6, <1>7 DEF Held
<1>9. \A b \in Blocks : Holders(b)' = IF b \in hits \cup taken THEN Holders(b) \cup {s}
                                                               ELSE Holders(b)
  BY <1>8 DEF Holders
<1>10. RefCountsAreHolders'
  <2>1. SUFFICES ASSUME NEW b \in Blocks
                 PROVE  ref_counts'[b] = Cardinality(Holders(b)')
    BY DEF RefCountsAreHolders
  <2>2. IsFiniteSet(Holders(b)) /\ ref_counts[b] = Cardinality(Holders(b))
    BY HolderFacts
  <2>3. CASE b \in taken
    <3>1. Holders(b) = {}
      BY <1>4, <2>3 DEF Holders
    <3>2. Holders(b)' = {s}
      BY <1>9, <2>3, <3>1
    <3> QED BY <1>2, <2>3, <3>2, FS_Singleton
  <2>4. CASE b \in hits
    <3>1. s \notin Holders(b)
      BY <1>5, <2>4 DEF Holders
    <3>2. Cardinality(Holders(b) \cup {s}) = Cardinality(Holders(b)) + 1
      BY <2>2, <3>1, FS_AddElement
    <3> QED BY <1>2, <1>3, <1>9, <2>2, <2>4, <3>2
  <2>5. CASE b \notin hits \cup taken
    BY <1>2, <1>9, <2>2, <2>5
  <2> QED BY <2>3, <2>4, <2>5
<1>11. OnePool'
  <2>1. free_blocks' \cap evictable' = {}
    BY <1>2 DEF IInv, OnePool
  <2>2. ASSUME NEW b \in Blocks
        PROVE  (\E t \in Seqs : b \in Held(t)') <=> b \notin free_blocks' \cup evictable'
    <3>1. (\E t \in Seqs : b \in Held(t)) <=> b \notin free_blocks \cup evictable
      BY DEF IInv, OnePool
    <3>2. (\E t \in Seqs : b \in Held(t)') <=> (\E t \in Seqs : b \in Held(t)) \/ b \in hits \cup taken
      BY <1>8
    <3>3. b \notin free_blocks' \cup evictable' <=> b \notin free_blocks \cup evictable \/ b \in hits \cup taken
      BY <1>2, <1>5
    <3> QED BY <3>1, <3>2, <3>3
  <2> QED BY <2>1, <2>2 DEF OnePool
<1>12. CacheConsistent'
  BY <1>1, <1>2, NoneAssumption DEF IInv, CacheConsistent, OnePool
<1>13. \A b \in Blocks : (\E t \in Seqs : b \in Held(t)) => block_hash'[b] = block_hash[b]
  BY <1>2, <1>3 DEF IInv, OnePool
<1>14. \A b \in taken : b \in Blocks /\ block_hash'[b] = None
  BY <1>1, <1>2, <1>3 DEF IInv, CacheConsistent
<1>15. \A b \in hits : block_hash'[b] = block_hash[b]
  BY <1>2, <1>3
<1>16. SharedIsPublished'
  <2>1. SUFFICES ASSUME NEW t \in Seqs, NEW u \in Seqs, t # u,
                        NEW b \in Held(t)' \cap Held(u)'
                 PROVE  block_hash'[b] # None
    BY DEF SharedIsPublished
  <2>2. b \notin taken
    BY <1>4, <1>8, <2>1
  <2>3. CASE b \in hits
    BY <1>5, <1>15, <2>3
  <2>4. CASE b \notin hits
    <3>1. b \in Held(t) /\ b \in Held(u)
      BY <1>8, <2>1, <2>2, <2>4
    <3>2. b \in Blocks
      BY <1>1, <3>1 DEF Held, Range
    <3> QED BY <1>13, <2>1, <3>1, <3>2 DEF IInv, SharedIsPublished
  <2> QED BY <2>3, <2>4
<1>17. RightContent'
  <2>1. SUFFICES ASSUME NEW t \in Seqs
                 PROVE  /\ IsInjective(block_table'[t])
                        /\ \A i \in DOMAIN block_table'[t] :
                             block_hash'[block_table'[t][i]] # None =>
                               /\ i <= Len(chain[t])
                               /\ chain[t][i] = block_hash'[block_table'[t][i]]
    BY DEF RightContent
  <2>2. /\ IsInjective(block_table[t])
        /\ \A i \in DOMAIN block_table[t] :
             /\ block_table[t][i] \in Blocks
             /\ block_hash'[block_table[t][i]] = block_hash[block_table[t][i]]
             /\ block_hash[block_table[t][i]] # None =>
                  /\ i <= Len(chain[t])
                  /\ chain[t][i] = block_hash[block_table[t][i]]
    <3>1. \A i \in DOMAIN block_table[t] :
            block_table[t][i] \in Blocks /\ block_table[t][i] \in Held(t)
      BY <1>1 DEF Held, Range
    <3> QED BY <1>13, <3>1 DEF IInv, RightContent
  <2>3. CASE t # s
    <3>1. block_table'[t] = block_table[t]
      BY <1>7, <2>3
    <3> QED BY <2>2, <3>1
  <2>4. CASE t = s
    <3>1. IsInjective(table)
      <4>1. IsInjective(block_table[s] \o cached)
        BY <1>1, <1>5, <2>2, <2>4, ConcatInjective DEF Held
      <4>2. Range(block_table[s] \o cached) = Held(s) \cup hits
        BY <1>1, ConcatRange DEF Held
      <4> QED BY <1>3, <1>4, <1>6, <4>1, <4>2, ConcatInjective
    <3>2. ASSUME NEW i \in DOMAIN table, block_hash'[table[i]] # None
          PROVE  i <= Len(chain[s]) /\ chain[s][i] = block_hash'[table[i]]
      <4>1. i \in 1..(Len(block_table[s] \o cached) + Len(new))
        BY <1>1, <1>6, <3>2
      <4>2. CASE i \in 1..Len(block_table[s] \o cached)
        <5>1. table[i] = (block_table[s] \o cached)[i]
          BY <1>1, <1>6, <4>2
        <5>2. CASE cached = <<>>
          <6>1. block_table[s] \o cached = block_table[s]
            BY <1>1, <5>2
          <6>2. i \in DOMAIN block_table[t] /\ table[i] = block_table[t][i]
            BY <1>1, <2>4, <4>2, <5>1, <6>1
          <6>3. block_hash[block_table[t][i]] # None /\ block_hash'[table[i]] = block_hash[block_table[t][i]]
            BY <2>2, <3>2, <6>2
          <6> QED BY <2>2, <2>4, <6>2, <6>3
        <5>3. CASE block_table[s] = <<>>
          <6>1. block_table[s] \o cached = cached
            BY <5>3
          <6>2. cached[i] \in hits
            BY <4>2, <6>1 DEF Range
          <6> QED BY <1>15, <4>2, <5>1, <6>1, <6>2
        <5> QED BY <5>2, <5>3
      <4>3. CASE i \notin 1..Len(block_table[s] \o cached)
        <5>1. i - Len(block_table[s] \o cached) \in 1..Len(new)
          BY <1>6, <4>1, <4>3
        <5>2. table[i] = new[i - Len(block_table[s] \o cached)]
          BY <1>6, <4>1, <4>3, <5>1
        <5>3. table[i] \in taken
          BY <5>1, <5>2 DEF Range
        <5> QED BY <1>14, <3>2, <5>3
      <4> QED BY <4>2, <4>3
    <3> QED BY <1>7, <2>4, <3>1, <3>2
  <2> QED BY <2>3, <2>4
<1>18. /\ free_blocks' \subseteq Blocks /\ evictable' \subseteq Blocks
       /\ ref_counts' \in [Blocks -> Nat]
       /\ block_hash' \in [Blocks -> Hashes \cup {None}]
       /\ hash_to_block' \in [Hashes -> Blocks \cup {None}]
  <2> HIDE DEF hits, taken, evicted, table
  <2>1. free_blocks' \subseteq Blocks /\ evictable' \subseteq Blocks
    BY <1>1, <1>2
  <2>2. ref_counts' \in [Blocks -> Nat]
    BY <1>1, <1>2
  <2>3. block_hash' \in [Blocks -> Hashes \cup {None}]
    BY <1>1, <1>2
  <2>4. hash_to_block' \in [Hashes -> Blocks \cup {None}]
    BY <1>1, <1>2
  <2> QED BY <2>1, <2>2, <2>3, <2>4
<1> QED BY <1>7, <1>10, <1>11, <1>12, <1>16, <1>17, <1>18

-----------------------------------------------------------------------------
\* A table that is given up: the last holder is the one whose reference count
\* is 1, so a block returns to a pool exactly when no table holds it.
LEMMA ReturnFacts ==
  ASSUME IInv, NEW s \in Seqs, Return(s)
  PROVE  /\ free_blocks' \subseteq Blocks /\ evictable' \subseteq Blocks
         /\ \A b \in free_blocks' : b \in free_blocks \/ block_hash'[b] = None
         /\ \A b \in evictable' : b \in evictable \/ block_hash'[b] # None
         /\ ref_counts' \in [Blocks -> Nat]
         /\ block_table' \in [Seqs -> Seq(Blocks)] /\ block_table'[s] = <<>>
         /\ \A t \in Seqs \ {s} : block_table'[t] = block_table[t]
         /\ RefCountsAreHolders' /\ OnePool'
<1> DEFINE last == {b \in Held(s) : ref_counts[b] = 1}
<1>1. /\ free_blocks \subseteq Blocks /\ evictable \subseteq Blocks
      /\ ref_counts \in [Blocks -> Nat]
      /\ block_table \in [Seqs -> Seq(Blocks)]
  BY DEF IInv, TypeOK
<1>2. /\ ref_counts' = [b \in Blocks |-> IF b \in Held(s) THEN ref_counts[b] - 1
                                                          ELSE ref_counts[b]]
      /\ free_blocks' = free_blocks \cup {b \in last : block_hash'[b] = None}
      /\ evictable' = evictable \cup {b \in last : block_hash'[b] # None}
      /\ block_table' = [block_table EXCEPT ![s] = <<>>]
  BY DEF Return, last_held
<1>3. \A t \in Seqs : Held(t) \subseteq Blocks
  <2>1. ASSUME NEW t \in Seqs, NEW i \in DOMAIN block_table[t]
        PROVE  block_table[t][i] \in Blocks
    BY <1>1
  <2> QED BY <2>1 DEF Held, Range
<1>4. /\ block_table' \in [Seqs -> Seq(Blocks)]
      /\ block_table'[s] = <<>>
      /\ \A t \in Seqs \ {s} : block_table'[t] = block_table[t]
  BY <1>1, <1>2
<1>5. /\ Held(s)' = {}
      /\ \A t \in Seqs \ {s} : Held(t)' = Held(t)
  BY <1>4 DEF Held, Range
<1>6. \A b \in Blocks : Holders(b)' = Holders(b) \ {s}
  BY <1>5 DEF Holders
<1>7. ref_counts' \in [Blocks -> Nat]
  BY <1>1, <1>2, HolderFacts
<1>8. RefCountsAreHolders'
  <2>1. SUFFICES ASSUME NEW b \in Blocks
                 PROVE  ref_counts'[b] = Cardinality(Holders(b)')
    BY DEF RefCountsAreHolders
  <2>2. /\ IsFiniteSet(Holders(b))
        /\ ref_counts[b] = Cardinality(Holders(b))
    BY HolderFacts
  <2>3. s \in Holders(b) <=> b \in Held(s)
    BY DEF Holders
  <2> QED BY <1>2, <1>6, <2>2, <2>3, FS_RemoveElement
<1>9. \A b \in Blocks : b \in last <=> Holders(b) = {s}
  <2>1. SUFFICES ASSUME NEW b \in Blocks
                 PROVE  b \in last <=> Holders(b) = {s}
    OBVIOUS
  <2>2. s \in Holders(b) <=> b \in Held(s)
    BY DEF Holders
  <2> QED BY <2>2, HolderFacts
<1>10. OnePool'
  <2>1. \A b \in last : b \notin free_blocks \cup evictable
    BY <1>3 DEF IInv, OnePool
  <2>2. free_blocks' \cap evictable' = {}
    BY <1>2, <2>1 DEF IInv, OnePool
  <2>3. ASSUME NEW b \in Blocks
        PROVE  (\E t \in Seqs : b \in Held(t)') <=> b \notin free_blocks' \cup evictable'
    <3>1. (\E t \in Seqs : b \in Held(t)) <=> b \notin free_blocks \cup evictable
      BY DEF IInv, OnePool
    <3>2. (\E t \in Seqs : b \in Held(t)') <=> Holders(b) \ {s} # {}
      BY <1>6 DEF Holders
    <3>3. (\E t \in Seqs : b \in Held(t)) <=> Holders(b) # {}
      BY DEF Holders
    <3>4. b \in free_blocks' \cup evictable' <=> b \in free_blocks \cup evictable \/ b \in last
      BY <1>2
    <3> QED BY <1>9, <3>1, <3>2, <3>3, <3>4
  <2> QED BY <2>2, <2>3 DEF OnePool
<1>11. free_blocks' \subseteq Blocks /\ evictable' \subseteq Blocks
  BY <1>1, <1>2, <1>3
<1>12. /\ \A b \in free_blocks' : b \in free_blocks \/ block_hash'[b] = None
       /\ \A b \in evictable' : b \in evictable \/ block_hash'[b] # None
  BY <1>2
<1> QED BY <1>4, <1>7, <1>8, <1>10, <1>11, <1>12

\* Publishing: a block that was private is published under the hash of its own
\* position, under which nothing was published yet.
LEMMA PublishFacts ==
  ASSUME IInv, NEW s \in Seqs, Publish(s)
  PROVE  /\ block_hash' \in [Blocks -> Hashes \cup {None}]
         /\ hash_to_block' \in [Hashes -> Blocks \cup {None}]
         /\ \A h \in Hashes : hash_to_block'[h] # None => block_hash'[hash_to_block'[h]] = h
         /\ \A b \in Blocks : block_hash'[b] # None => hash_to_block'[block_hash'[b]] = b
         /\ \A b \in free_blocks \cup evictable : block_hash'[b] = block_hash[b]
         /\ \A b \in Blocks : block_hash[b] # None => block_hash'[b] = block_hash[b]
         /\ \A t \in Seqs : \A i \in DOMAIN block_table[t] :
              block_hash'[block_table[t][i]] # None =>
                i <= Len(chain[t]) /\ chain[t][i] = block_hash'[block_table[t][i]]
<1>1. /\ block_hash \in [Blocks -> Hashes \cup {None}]
      /\ hash_to_block \in [Hashes -> Blocks \cup {None}]
      /\ block_table \in [Seqs -> Seq(Blocks)]
      /\ chain \in [Seqs -> Seq(Hashes)]
  BY DEF IInv, TypeOK
<1>2. PICK lo \in 1..Len(block_table[s]), hi \in 1..Len(block_table[s]) :
        LET news == {i \in lo..hi : Publishable(s, i)} IN
        /\ hi <= Len(chain[s])
        /\ block_hash' =
             [b \in Blocks |-> IF \E i \in news : block_table[s][i] = b
                               THEN chain[s][CHOOSE i \in news : block_table[s][i] = b]
                               ELSE block_hash[b]]
        /\ hash_to_block' =
             [h \in Hashes |-> IF \E i \in news : chain[s][i] = h
                               THEN block_table[s][CHOOSE i \in news : chain[s][i] = h]
                               ELSE hash_to_block[h]]
  BY DEF Publish
<1> DEFINE news == {i \in lo..hi : Publishable(s, i)}
           B(i) == block_table[s][i]
           H(i) == chain[s][i]
<1>4. ASSUME NEW i \in news
      PROVE  /\ i \in 1..Len(block_table[s]) /\ i \in 1..Len(chain[s])
             /\ B(i) \in Blocks /\ B(i) \in Held(s) /\ H(i) \in Hashes
             /\ block_hash[B(i)] = None /\ hash_to_block[H(i)] = None
  <2>1. i \in lo..hi /\ Publishable(s, i)
    OBVIOUS
  <2>2. Len(block_table[s]) \in Nat /\ Len(chain[s]) \in Nat
    BY <1>1
  <2>3. i \in 1..Len(block_table[s]) /\ i \in 1..Len(chain[s])
    BY <1>2, <2>1, <2>2
  <2>4. B(i) \in Blocks /\ H(i) \in Hashes
    BY <1>1, <2>3
  <2>5. B(i) \in Held(s)
    BY <1>1, <2>3 DEF Held, Range
  <2> QED BY <2>1, <2>3, <2>4, <2>5 DEF Publishable
<1>5. \A i, j \in news : (B(i) = B(j) \/ H(i) = H(j)) => i = j
  <2>1. IsInjective(block_table[s]) /\ IsInjective(chain[s])
    BY DEF IInv, RightContent, DistinctHashes
  <2>2. \A i \in news : i \in DOMAIN block_table[s] /\ i \in DOMAIN chain[s]
    BY <1>1, <1>4
  <2> QED BY <2>1, <2>2 DEF IsInjective
<1>6. ASSUME NEW i \in news
      PROVE  block_hash'[B(i)] = H(i) /\ hash_to_block'[H(i)] = B(i)
  <2>1. (CHOOSE j \in news : B(j) = B(i)) = i
    BY <1>5
  <2>2. (CHOOSE j \in news : H(j) = H(i)) = i
    BY <1>5
  <2>3. block_hash'[B(i)] = H(CHOOSE j \in news : B(j) = B(i))
    BY <1>2, <1>4
  <2>4. hash_to_block'[H(i)] = B(CHOOSE j \in news : H(j) = H(i))
    BY <1>2, <1>4
  <2> QED BY <2>1, <2>2, <2>3, <2>4
<1>7. ASSUME NEW b \in Blocks, \A i \in news : B(i) # b
      PROVE  block_hash'[b] = block_hash[b]
  BY <1>2, <1>7
<1>8. ASSUME NEW h \in Hashes, \A i \in news : H(i) # h
      PROVE  hash_to_block'[h] = hash_to_block[h]
  BY <1>2, <1>8
<1>9. /\ DOMAIN block_hash' = Blocks /\ DOMAIN hash_to_block' = Hashes
      /\ block_hash' = [b \in Blocks |-> block_hash'[b]]
      /\ hash_to_block' = [h \in Hashes |-> hash_to_block'[h]]
  BY <1>2
<1>10. /\ \A b \in Blocks : block_hash'[b] \in Hashes \cup {None}
       /\ \A h \in Hashes : hash_to_block'[h] \in Blocks \cup {None}
  <2>1. ASSUME NEW b \in Blocks
        PROVE  block_hash'[b] \in Hashes \cup {None}
    <3>1. CASE \E i \in news : B(i) = b
      BY <1>4, <1>6, <3>1
    <3>2. CASE \A i \in news : B(i) # b
      BY <1>1, <1>7, <3>2
    <3> QED BY <3>1, <3>2
  <2>2. ASSUME NEW h \in Hashes
        PROVE  hash_to_block'[h] \in Blocks \cup {None}
    <3>1. CASE \E i \in news : H(i) = h
      BY <1>4, <1>6, <3>1
    <3>2. CASE \A i \in news : H(i) # h
      BY <1>1, <1>8, <3>2
    <3> QED BY <3>1, <3>2
  <2> QED BY <2>1, <2>2
<1>11. /\ block_hash' \in [Blocks -> Hashes \cup {None}]
       /\ hash_to_block' \in [Hashes -> Blocks \cup {None}]
  BY <1>9, <1>10
<1>14. \A i \in news : B(i) \notin free_blocks /\ B(i) \notin evictable
  BY <1>4 DEF IInv, OnePool
<1>15. /\ \A h \in Hashes : hash_to_block'[h] # None => block_hash'[hash_to_block'[h]] = h
       /\ \A b \in Blocks : block_hash'[b] # None => hash_to_block'[block_hash'[b]] = b
       /\ \A b \in free_blocks \cup evictable : block_hash'[b] = block_hash[b]
  <2>1. ASSUME NEW h \in Hashes, hash_to_block'[h] # None
        PROVE  block_hash'[hash_to_block'[h]] = h
    <3>1. CASE \E i \in news : H(i) = h
      BY <1>6, <3>1
    <3>2. CASE \A i \in news : H(i) # h
      <4>1. hash_to_block'[h] = hash_to_block[h] /\ hash_to_block[h] \in Blocks
        BY <1>1, <1>8, <2>1, <3>2
      <4>2. block_hash[hash_to_block[h]] = h
        BY <2>1, <4>1 DEF IInv, CacheConsistent
      <4>3. \A i \in news : B(i) # hash_to_block[h]
        BY <1>4, <4>2, NoneAssumption
      <4> QED BY <1>7, <4>1, <4>2, <4>3
    <3> QED BY <3>1, <3>2
  <2>2. ASSUME NEW b \in Blocks, block_hash'[b] # None
        PROVE  hash_to_block'[block_hash'[b]] = b
    <3>1. CASE \E i \in news : B(i) = b
      BY <1>6, <3>1
    <3>2. CASE \A i \in news : B(i) # b
      <4>1. block_hash'[b] = block_hash[b] /\ block_hash[b] \in Hashes
        BY <1>1, <1>7, <2>2, <3>2
      <4>2. hash_to_block[block_hash[b]] = b
        BY <2>2, <4>1 DEF IInv, CacheConsistent
      <4>3. \A i \in news : H(i) # block_hash[b]
        BY <1>4, <4>2, NoneAssumption
      <4> QED BY <1>8, <4>1, <4>2, <4>3
    <3> QED BY <3>1, <3>2
  <2>3. \A b \in free_blocks \cup evictable : b \in Blocks /\ block_hash'[b] = block_hash[b]
    BY <1>7, <1>14 DEF IInv, TypeOK
  <2> QED BY <2>1, <2>2, <2>3
<1>16. ASSUME NEW b \in Blocks, block_hash[b] # None
       PROVE  block_hash'[b] = block_hash[b]
  BY <1>4, <1>7, <1>16
<1>17. \A t \in Seqs : Held(t) \subseteq Blocks
  <2>1. ASSUME NEW t \in Seqs, NEW i \in DOMAIN block_table[t]
        PROVE  block_table[t][i] \in Blocks
    BY <1>1
  <2> QED BY <2>1 DEF Held, Range
<1>18. ASSUME NEW t \in Seqs, NEW i \in DOMAIN block_table[t],
              block_hash'[block_table[t][i]] # None
       PROVE  i <= Len(chain[t]) /\ chain[t][i] = block_hash'[block_table[t][i]]
  <2>2. block_table[t][i] \in Held(t) /\ block_table[t][i] \in Blocks
    BY <1>17 DEF Held, Range
  <2>3. CASE \E j \in news : B(j) = block_table[t][i]
    <3>1. PICK j \in news : B(j) = block_table[t][i]
      BY <2>3
    <3>2. t = s
      BY <1>4, <2>2, <3>1 DEF IInv, SharedIsPublished
    <3>3. i = j
      <4>1. IsInjective(block_table[s]) /\ j \in DOMAIN block_table[s]
        BY <1>1, <1>4 DEF IInv, RightContent
      <4> QED BY <3>1, <3>2, <4>1 DEF IsInjective
    <3>4. j \in 1..Len(chain[s]) /\ block_hash'[B(j)] = chain[s][j]
      BY <1>4, <1>6
    <3>5. Len(chain[s]) \in Nat
      BY <1>1
    <3>6. block_hash'[block_table[t][i]] = chain[t][i]
      BY <3>1, <3>2, <3>3, <3>4
    <3>7. i <= Len(chain[t])
      BY <3>2, <3>3, <3>4, <3>5
    <3> QED BY <3>6, <3>7
  <2>4. CASE \A j \in news : B(j) # block_table[t][i]
    <3>1. block_hash'[block_table[t][i]] = block_hash[block_table[t][i]]
      BY <1>7, <2>2, <2>4
    <3> QED BY <1>18, <3>1 DEF IInv, RightContent
  <2> QED BY <2>3, <2>4
<1> QED BY <1>11, <1>15, <1>16, <1>18

\* What update() does to the pool for one sequence, all of it or a part: its full
\* blocks are published, its chain grows, its table is given up.
LEMMA UpdateInv ==
  ASSUME IInv, NEW s \in Seqs,
         Publish(s) \/ UNCHANGED <<block_hash, hash_to_block>>,
         Return(s) \/ UNCHANGED <<free_blocks, evictable, ref_counts, block_table>>,
         chain' \in [Seqs -> Seq(Hashes)],
         \A t \in Seqs : Len(chain[t]) <= Len(chain'[t]) /\ \A i \in 1..Len(chain[t]) : chain'[t][i] = chain[t][i]
  PROVE  /\ free_blocks' \subseteq Blocks /\ evictable' \subseteq Blocks
         /\ ref_counts' \in [Blocks -> Nat]
         /\ block_hash' \in [Blocks -> Hashes \cup {None}]
         /\ hash_to_block' \in [Hashes -> Blocks \cup {None}]
         /\ block_table' \in [Seqs -> Seq(Blocks)]
         /\ RefCountsAreHolders' /\ OnePool' /\ CacheConsistent'
         /\ SharedIsPublished' /\ RightContent'
<1>1. /\ free_blocks \subseteq Blocks /\ evictable \subseteq Blocks
      /\ ref_counts \in [Blocks -> Nat]
      /\ block_hash \in [Blocks -> Hashes \cup {None}]
      /\ hash_to_block \in [Hashes -> Blocks \cup {None}]
      /\ block_table \in [Seqs -> Seq(Blocks)]
      /\ chain \in [Seqs -> Seq(Hashes)]
  BY DEF IInv, TypeOK
<1>2. /\ block_hash' \in [Blocks -> Hashes \cup {None}]
      /\ hash_to_block' \in [Hashes -> Blocks \cup {None}]
      /\ \A h \in Hashes : hash_to_block'[h] # None => block_hash'[hash_to_block'[h]] = h
      /\ \A b \in Blocks : block_hash'[b] # None => hash_to_block'[block_hash'[b]] = b
      /\ \A b \in free_blocks \cup evictable : block_hash'[b] = block_hash[b]
      /\ \A b \in Blocks : block_hash[b] # None => block_hash'[b] = block_hash[b]
      /\ \A t \in Seqs : \A i \in DOMAIN block_table[t] :
           block_hash'[block_table[t][i]] # None =>
             i <= Len(chain[t]) /\ chain[t][i] = block_hash'[block_table[t][i]]
  <2>1. CASE Publish(s)
    BY <2>1, PublishFacts
  <2>2. CASE UNCHANGED <<block_hash, hash_to_block>>
    BY <1>1, <2>2 DEF IInv, CacheConsistent, RightContent
  <2> QED BY <2>1, <2>2
<1>3. /\ free_blocks' \subseteq Blocks /\ evictable' \subseteq Blocks
      /\ \A b \in free_blocks' : b \in free_blocks \/ block_hash'[b] = None
      /\ \A b \in evictable' : b \in evictable \/ block_hash'[b] # None
      /\ ref_counts' \in [Blocks -> Nat]
      /\ block_table' \in [Seqs -> Seq(Blocks)]
      /\ \A t \in Seqs : block_table'[t] \in {<<>>, block_table[t]}
      /\ RefCountsAreHolders' /\ OnePool'
  <2>1. CASE Return(s)
    BY <2>1, ReturnFacts
  <2>2. CASE UNCHANGED <<free_blocks, evictable, ref_counts, block_table>>
    <3>1. \A t \in Seqs : Held(t)' = Held(t)
      BY <2>2 DEF Held
    <3>2. \A b \in Blocks : Holders(b)' = Holders(b)
      BY <3>1 DEF Holders
    <3> QED BY <1>1, <2>2, <3>1, <3>2 DEF IInv, RefCountsAreHolders, OnePool
  <2> QED BY <2>1, <2>2
<1>4. CacheConsistent'
  <2>1. \A b \in evictable' : block_hash'[b] # None
    BY <1>2, <1>3 DEF IInv, CacheConsistent
  <2>2. \A b \in free_blocks' : block_hash'[b] = None
    BY <1>2, <1>3 DEF IInv, CacheConsistent
  <2> QED BY <1>2, <2>1, <2>2 DEF CacheConsistent
<1>5. \A t \in Seqs : Held(t)' \subseteq Held(t) /\ Held(t) \subseteq Blocks
  <2> SUFFICES ASSUME NEW t \in Seqs PROVE Held(t)' \subseteq Held(t) /\ Held(t) \subseteq Blocks
    OBVIOUS
  <2>1. Range(<<>>) = {}
    BY DEF Range
  <2>2. Held(t)' \subseteq Held(t)
    BY <1>3, <2>1 DEF Held
  <2>3. \A i \in DOMAIN block_table[t] : block_table[t][i] \in Blocks
    BY <1>1
  <2> QED BY <2>2, <2>3 DEF Held, Range
<1>6. SharedIsPublished'
  <2>1. \A t, u \in Seqs : \A b \in Held(t)' \cap Held(u)' : t # u => block_hash[b] # None /\ b \in Blocks
    BY <1>5 DEF IInv, SharedIsPublished
  <2>2. \A t, u \in Seqs : \A b \in Held(t)' \cap Held(u)' : t # u => block_hash'[b] # None
    BY <1>2, <2>1
  <2> QED BY <2>2 DEF SharedIsPublished
<1>7. RightContent'
  <2>1. \A t \in Seqs : IsInjective(block_table'[t])
    <3>1. IsInjective(<<>>)
      BY DEF IsInjective
    <3> QED BY <1>3, <3>1 DEF IInv, RightContent
  <2>2. ASSUME NEW t \in Seqs, NEW i \in DOMAIN block_table'[t], block_hash'[block_table'[t][i]] # None
        PROVE  i <= Len(chain'[t]) /\ chain'[t][i] = block_hash'[block_table'[t][i]]
    <3>1. block_table'[t] = block_table[t]
      BY <1>3, <2>2
    <3>2. i <= Len(chain[t]) /\ chain[t][i] = block_hash'[block_table'[t][i]]
      BY <1>2, <2>2, <3>1
    <3>3. i \in Nat \ {0} /\ Len(chain[t]) \in Nat /\ Len(chain'[t]) \in Nat
      <4>1. block_table[t] \in Seq(Blocks) /\ chain[t] \in Seq(Hashes) /\ chain'[t] \in Seq(Hashes)
        BY <1>1
      <4>2. i \in DOMAIN block_table[t]
        BY <3>1
      <4> QED BY <4>1, <4>2
    <3>4. i \in 1..Len(chain[t])
      BY <3>2, <3>3
    <3> QED BY <3>2, <3>3, <3>4
  <2> QED BY <2>1, <2>2 DEF RightContent
<1> QED BY <1>2, <1>3, <1>4, <1>6, <1>7

\* A chain that grows keeps its links distinct and in place.
LEMMA ChainGrows ==
  ASSUME IInv, NEW s \in Seqs,
         \E h \in Hashes \ Range(chain[s]) : chain' = [chain EXCEPT ![s] = Append(@, h)]
  PROVE  /\ chain' \in [Seqs -> Seq(Hashes)] /\ DistinctHashes'
         /\ \A t \in Seqs : Len(chain[t]) <= Len(chain'[t]) /\ \A i \in 1..Len(chain[t]) : chain'[t][i] = chain[t][i]
<1>0. chain \in [Seqs -> Seq(Hashes)]
  BY DEF IInv, TypeOK
<1>1. PICK h \in Hashes \ Range(chain[s]) : chain' = [chain EXCEPT ![s] = Append(@, h)]
  OBVIOUS
<1>2. /\ chain' \in [Seqs -> Seq(Hashes)]
      /\ \A t \in Seqs \ {s} : chain'[t] = chain[t]
      /\ DOMAIN chain'[s] = 1..(Len(chain[s]) + 1) /\ Len(chain'[s]) = Len(chain[s]) + 1
      /\ \A i \in 1..Len(chain[s]) : chain'[s][i] = chain[s][i]
      /\ chain'[s][Len(chain[s]) + 1] = h
      /\ DOMAIN chain[s] = 1..Len(chain[s]) /\ Len(chain[s]) \in Nat
  BY <1>0, <1>1
<1>3. DistinctHashes'
  <2>1. \A i \in 1..Len(chain[s]) : chain[s][i] # h
    BY <1>1, <1>2 DEF Range
  <2>2. IsInjective(chain'[s])
    <3>1. SUFFICES ASSUME NEW i \in 1..(Len(chain[s]) + 1), NEW j \in 1..(Len(chain[s]) + 1),
                          chain'[s][i] = chain'[s][j]
                   PROVE  i = j
      BY <1>2 DEF IsInjective
    <3>2. /\ i \in 1..Len(chain[s]) \/ i = Len(chain[s]) + 1
          /\ j \in 1..Len(chain[s]) \/ j = Len(chain[s]) + 1
      BY <1>2
    <3>3. IsInjective(chain[s])
      BY DEF IInv, DistinctHashes
    <3> QED BY <1>2, <2>1, <3>1, <3>2, <3>3 DEF IsInjective
  <2> QED BY <1>2, <2>2 DEF IInv, DistinctHashes
<1>4. ASSUME NEW t \in Seqs
      PROVE  Len(chain[t]) <= Len(chain'[t]) /\ \A i \in 1..Len(chain[t]) : chain'[t][i] = chain[t][i]
  <2>1. Len(chain[t]) \in Nat
    BY <1>0
  <2>2. CASE t = s
    BY <1>2, <2>1, <2>2
  <2>3. CASE t # s
    BY <1>2, <2>1, <2>3
  <2> QED BY <2>2, <2>3
<1> QED BY <1>2, <1>3, <1>4

\* The host blocks of a sequence go back to the free list and nowhere else.
LEMMA ReleaseCpuInv ==
  ASSUME IInv, NEW s \in Seqs, ReleaseCpu(s)
  PROVE  /\ cpu_free' \subseteq CpuBlocks
         /\ cpu_block_table' \in [Seqs -> Seq(CpuBlocks)]
         /\ HostPool'
<1>1. cpu_free \subseteq CpuBlocks /\ cpu_block_table \in [Seqs -> Seq(CpuBlocks)]
  BY DEF IInv, TypeOK
<1>2. /\ cpu_free' = cpu_free \cup Range(cpu_block_table[s])
      /\ cpu_block_table' \in [Seqs -> Seq(CpuBlocks)]
      /\ cpu_block_table'[s] = <<>>
      /\ \A t \in Seqs \ {s} : cpu_block_table'[t] = cpu_block_table[t]
  BY <1>1 DEF ReleaseCpu
<1>3. Range(cpu_block_table[s]) \subseteq CpuBlocks
  <2>1. \A i \in DOMAIN cpu_block_table[s] : cpu_block_table[s][i] \in CpuBlocks
    BY <1>1
  <2> QED BY <2>1 DEF Range
<1>4. Range(cpu_block_table'[s]) = {} /\ IsInjective(cpu_block_table'[s])
  BY <1>2 DEF Range, IsInjective
<1>5. HostPool'
  <2>1. \A t \in Seqs : IsInjective(cpu_block_table'[t])
    BY <1>2, <1>4 DEF IInv, HostPool
  <2>2. ASSUME NEW c \in CpuBlocks
        PROVE  \/ c \in cpu_free' /\ \A t \in Seqs : c \notin Range(cpu_block_table'[t])
               \/ c \notin cpu_free' /\ \E t \in Seqs :
                    /\ c \in Range(cpu_block_table'[t])
                    /\ \A u \in Seqs \ {t} : c \notin Range(cpu_block_table'[u])
    <3>1. CASE c \in Range(cpu_block_table[s])
      BY <1>2, <1>4, <3>1 DEF IInv, HostPool
    <3>2. CASE c \notin Range(cpu_block_table[s])
      BY <1>2, <1>4, <3>2 DEF IInv, HostPool
    <3> QED BY <3>1, <3>2
  <2> QED BY <2>1, <2>2 DEF HostPool
<1> QED BY <1>1, <1>2, <1>3, <1>5

\* swap_out lends free host blocks to a sequence that had none.
LEMMA SwapOutHostInv ==
  ASSUME IInv, NEW s \in Seqs, SwapOut(s)
  PROVE  /\ cpu_free' \subseteq CpuBlocks
         /\ cpu_block_table' \in [Seqs -> Seq(CpuBlocks)]
         /\ HostPool'
<1>1. cpu_free \subseteq CpuBlocks /\ cpu_block_table \in [Seqs -> Seq(CpuBlocks)]
  BY DEF IInv, TypeOK
<1>2. PICK cpu \in Picks(cpu_free) :
        /\ cpu_free' = cpu_free \ Range(cpu)
        /\ cpu_block_table' = [cpu_block_table EXCEPT ![s] = cpu]
  BY DEF SwapOut
<1>3. cpu \in Seq(CpuBlocks) /\ IsInjective(cpu) /\ Range(cpu) \subseteq cpu_free
  <2>1. cpu \in Seq(cpu_free) /\ IsInjective(cpu) /\ Range(cpu) \subseteq cpu_free
    BY PicksType
  <2>2. \A i \in 1..Len(cpu) : cpu[i] \in CpuBlocks
    BY <1>1, <2>1
  <2> QED BY <2>1, <2>2
<1>4. /\ cpu_block_table' \in [Seqs -> Seq(CpuBlocks)]
      /\ cpu_block_table'[s] = cpu
      /\ \A t \in Seqs \ {s} : cpu_block_table'[t] = cpu_block_table[t]
  BY <1>1, <1>2, <1>3
<1>5. Range(cpu_block_table[s]) = {}
  BY DEF SwapOut, Range
<1>6. HostPool'
  <2>1. \A t \in Seqs : IsInjective(cpu_block_table'[t])
    BY <1>3, <1>4 DEF IInv, HostPool
  <2>2. ASSUME NEW c \in CpuBlocks
        PROVE  \/ c \in cpu_free' /\ \A t \in Seqs : c \notin Range(cpu_block_table'[t])
               \/ c \notin cpu_free' /\ \E t \in Seqs :
                    /\ c \in Range(cpu_block_table'[t])
                    /\ \A u \in Seqs \ {t} : c \notin Range(cpu_block_table'[u])
    <3>1. CASE c \in Range(cpu)
      BY <1>2, <1>3, <1>4, <3>1 DEF IInv, HostPool
    <3>2. CASE c \notin Range(cpu) /\ c \in cpu_free
      BY <1>2, <1>4, <3>2 DEF IInv, HostPool
    <3>3. CASE c \notin cpu_free
      <4>1. PICK t \in Seqs : /\ c \in Range(cpu_block_table[t])
                              /\ \A u \in Seqs \ {t} : c \notin Range(cpu_block_table[u])
        BY <3>3 DEF IInv, HostPool
      <4>2. t # s
        BY <1>5, <4>1
      <4> QED BY <1>2, <1>3, <1>4, <3>3, <4>1, <4>2
    <3> QED BY <3>1, <3>2, <3>3
  <2> QED BY <2>1, <2>2 DEF HostPool
<1> QED BY <1>1, <1>2, <1>4, <1>6

-----------------------------------------------------------------------------
\* The pools start consistent: everything free, nothing held, an empty cache.
LEMMA InitInv == Init => IInv
<1> SUFFICES ASSUME Init PROVE IInv
  OBVIOUS
<1> USE DEF Init
<1>1. TypeOK /\ DistinctHashes
  <2>1. \A s \in Seqs : chain[s] \in Chains
    OBVIOUS
  <2>2. chain \in [Seqs -> Seq(Hashes)]
    BY ChainsAssumption
  <2> QED BY <2>1, <2>2, ChainsAssumption DEF TypeOK, DistinctHashes
<1>2. \A s \in Seqs : /\ Held(s) = {} /\ Range(cpu_block_table[s]) = {}
                      /\ DOMAIN block_table[s] = {} /\ DOMAIN cpu_block_table[s] = {}
  BY DEF Held, Range
<1>3. RefCountsAreHolders
  <2>1. \A b \in Blocks : Holders(b) = {}
    BY <1>2 DEF Holders
  <2> QED BY <2>1, FS_EmptySet DEF RefCountsAreHolders
<1>4. OnePool /\ CacheConsistent /\ SharedIsPublished
  BY <1>2, NoneAssumption DEF OnePool, CacheConsistent, SharedIsPublished
<1>5. RightContent /\ HostPool
  BY <1>2 DEF RightContent, HostPool, IsInjective
<1> QED BY <1>1, <1>3, <1>4, <1>5 DEF IInv

\* The hits of a cached prefix are distinct published blocks, each under the
\* hash of its own position in s.
LEMMA HitsFacts ==
  ASSUME IInv, NEW s \in Seqs, NEW k \in 0..Len(chain[s]),
         \A i \in 1..k : hash_to_block[chain[s][i]] # None
  PROVE  /\ Hits(s, k) \in Seq(Blocks) /\ Len(Hits(s, k)) = k
         /\ IsInjective(Hits(s, k))
         /\ \A i \in 1..k : block_hash[Hits(s, k)[i]] = chain[s][i]
<1>1. /\ hash_to_block \in [Hashes -> Blocks \cup {None}]
      /\ chain[s] \in Seq(Hashes) /\ k \in Nat
  BY DEF IInv, TypeOK
<1>2. \A i \in 1..k : /\ i \in DOMAIN chain[s] /\ chain[s][i] \in Hashes
                      /\ hash_to_block[chain[s][i]] \in Blocks
                      /\ block_hash[hash_to_block[chain[s][i]]] = chain[s][i]
  BY <1>1 DEF IInv, CacheConsistent
<1>3. /\ Hits(s, k) \in Seq(Blocks) /\ Len(Hits(s, k)) = k
      /\ DOMAIN Hits(s, k) = 1..k
      /\ \A i \in 1..k : Hits(s, k)[i] = hash_to_block[chain[s][i]]
  BY <1>1, <1>2 DEF Hits
<1>4. IsInjective(chain[s])
  BY DEF IInv, DistinctHashes
<1>5. IsInjective(Hits(s, k))
  BY <1>2, <1>3, <1>4 DEF IsInjective
<1> QED BY <1>2, <1>3, <1>5

\* Every method keeps the invariant.
LEMMA NextInv == IInv /\ [Next]_vars => IInv'
<1> SUFFICES ASSUME IInv, [Next]_vars PROVE IInv'
  OBVIOUS
<1> USE DEF IInv
<1>0. /\ free_blocks \subseteq Blocks /\ evictable \subseteq Blocks
      /\ cpu_free \subseteq CpuBlocks /\ cpu_block_table \in [Seqs -> Seq(CpuBlocks)]
      /\ chain \in [Seqs -> Seq(Hashes)]
  BY DEF TypeOK
<1>1. ASSUME NEW s \in Seqs, Allocate(s)
      PROVE  IInv'
  <2>1. PICK k \in 0..Len(chain[s]) :
          /\ \A i \in 1..k : hash_to_block[chain[s][i]] # None
          /\ \E new \in Picks((free_blocks \cup evictable) \ Range(Hits(s, k))) :
               Acquire(s, Hits(s, k), new)
    BY <1>1 DEF Allocate
  <2>2. PICK new \in Picks((free_blocks \cup evictable) \ Range(Hits(s, k))) :
          Acquire(s, Hits(s, k), new)
    BY <2>1
  <2>3. /\ Hits(s, k) \in Seq(Blocks) /\ Len(Hits(s, k)) = k
        /\ IsInjective(Hits(s, k))
        /\ \A i \in 1..k : block_hash[Hits(s, k)[i]] = chain[s][i]
    BY <2>1, HitsFacts
  <2>4. /\ new \in Seq(Blocks) /\ IsInjective(new)
        /\ Range(new) \subseteq (free_blocks \cup evictable) \ Range(Hits(s, k))
    <3>1. /\ new \in Seq((free_blocks \cup evictable) \ Range(Hits(s, k))) /\ IsInjective(new)
          /\ Range(new) \subseteq (free_blocks \cup evictable) \ Range(Hits(s, k))
      BY PicksType
    <3>2. \A i \in 1..Len(new) : new[i] \in Blocks
      BY <1>0, <3>1
    <3> QED BY <3>1, <3>2
  <2>5. \A i \in 1..Len(Hits(s, k)) : /\ i <= Len(chain[s])
                                      /\ block_hash[Hits(s, k)[i]] = chain[s][i]
    <3>1. Len(chain[s]) \in Nat
      BY <1>0
    <3> QED BY <2>3, <3>1
  <2>6. block_table[s] = <<>> /\ UNCHANGED <<chain, cpu_free, cpu_block_table>>
    BY <1>1 DEF Allocate
  <2>7. /\ free_blocks' \subseteq Blocks /\ evictable' \subseteq Blocks
        /\ ref_counts' \in [Blocks -> Nat]
        /\ block_hash' \in [Blocks -> Hashes \cup {None}]
        /\ hash_to_block' \in [Hashes -> Blocks \cup {None}]
        /\ block_table' \in [Seqs -> Seq(Blocks)]
        /\ RefCountsAreHolders' /\ OnePool' /\ CacheConsistent'
        /\ SharedIsPublished' /\ RightContent'
    <3> HIDE DEF IInv
    <3> QED BY <2>2, <2>3, <2>4, <2>5, <2>6, AcquireInv
  <2> QED BY <1>0, <2>6, <2>7 DEF TypeOK, DistinctHashes, HostPool
<1>2. ASSUME NEW s \in Seqs, NEW new \in Picks(free_blocks \cup evictable),
             Acquire(s, <<>>, new), UNCHANGED chain
      PROVE  /\ free_blocks' \subseteq Blocks /\ evictable' \subseteq Blocks
             /\ ref_counts' \in [Blocks -> Nat]
             /\ block_hash' \in [Blocks -> Hashes \cup {None}]
             /\ hash_to_block' \in [Hashes -> Blocks \cup {None}]
             /\ block_table' \in [Seqs -> Seq(Blocks)]
             /\ RefCountsAreHolders' /\ OnePool' /\ CacheConsistent'
             /\ SharedIsPublished' /\ RightContent'
  <2>1. /\ new \in Seq(free_blocks \cup evictable) /\ IsInjective(new)
        /\ Range(new) \subseteq free_blocks \cup evictable
    BY PicksType
  <2>2. \A i \in 1..Len(new) : new[i] \in Blocks
    BY <1>0, <2>1
  <2>3. new \in Seq(Blocks)
    BY <2>1, <2>2
  <2>4. /\ <<>> \in Seq(Blocks) /\ IsInjective(<<>>) /\ Range(<<>>) = {} /\ Len(<<>>) = 0
    BY DEF IsInjective, Range
  <2> DEFINE empty == <<>>
  <2>5. /\ empty \in Seq(Blocks) /\ IsInjective(empty)
        /\ Range(new) \subseteq (free_blocks \cup evictable) \ Range(empty)
        /\ \A i \in 1..Len(empty) : i <= Len(chain[s]) /\ block_hash[empty[i]] = chain[s][i]
        /\ Acquire(s, empty, new)
    BY <1>2, <2>1, <2>4
  <2> HIDE DEF IInv
  <2> QED BY <1>2, <2>1, <2>3, <2>5, AcquireInv
<1>3. ASSUME NEW s \in Seqs, AppendSlots(s)
      PROVE  IInv'
  <2>1. PICK new \in Picks(free_blocks \cup evictable) : Acquire(s, <<>>, new)
    BY <1>3 DEF AppendSlots
  <2>2. UNCHANGED <<chain, cpu_free, cpu_block_table>>
    BY <1>3 DEF AppendSlots
  <2> QED BY <1>0, <1>2, <2>1, <2>2 DEF TypeOK, DistinctHashes, HostPool
<1>4. \A t \in Seqs : Len(chain[t]) <= Len(chain[t])
  <2>1. \A t \in Seqs : Len(chain[t]) \in Nat
    BY <1>0
  <2> QED BY <2>1
<1>5. ASSUME NEW s \in Seqs, Update(s)
      PROVE  IInv'
  <2> HIDE DEF IInv
  <2>1. /\ Publish(s) \/ UNCHANGED <<block_hash, hash_to_block>>
        /\ Return(s) \/ UNCHANGED <<free_blocks, evictable, ref_counts, block_table>>
        /\ UNCHANGED <<cpu_free, cpu_block_table>>
    BY <1>5 DEF Update
  <2>2. /\ chain' \in [Seqs -> Seq(Hashes)] /\ DistinctHashes'
        /\ \A t \in Seqs : Len(chain[t]) <= Len(chain'[t]) /\ \A i \in 1..Len(chain[t]) : chain'[t][i] = chain[t][i]
    <3>1. CASE UNCHANGED chain
      BY <1>0, <1>4, <3>1 DEF IInv, DistinctHashes
    <3>2. CASE \E h \in Hashes \ Range(chain[s]) : chain' = [chain EXCEPT ![s] = Append(@, h)]
      BY <3>2, ChainGrows
    <3> QED BY <1>5, <3>1, <3>2 DEF Update
  <2>3. /\ free_blocks' \subseteq Blocks /\ evictable' \subseteq Blocks
        /\ ref_counts' \in [Blocks -> Nat]
        /\ block_hash' \in [Blocks -> Hashes \cup {None}]
        /\ hash_to_block' \in [Hashes -> Blocks \cup {None}]
        /\ block_table' \in [Seqs -> Seq(Blocks)]
        /\ RefCountsAreHolders' /\ OnePool' /\ CacheConsistent'
        /\ SharedIsPublished' /\ RightContent'
    BY <2>1, <2>2, UpdateInv
  <2> QED BY <1>0, <2>1, <2>2, <2>3 DEF IInv, TypeOK, HostPool
<1>6. ASSUME NEW s \in Seqs, Release(s)
      PROVE  /\ free_blocks' \subseteq Blocks /\ evictable' \subseteq Blocks
             /\ ref_counts' \in [Blocks -> Nat]
             /\ block_hash' \in [Blocks -> Hashes \cup {None}]
             /\ hash_to_block' \in [Hashes -> Blocks \cup {None}]
             /\ block_table' \in [Seqs -> Seq(Blocks)]
             /\ RefCountsAreHolders' /\ OnePool' /\ CacheConsistent'
             /\ SharedIsPublished' /\ RightContent' /\ DistinctHashes'
             /\ chain' \in [Seqs -> Seq(Hashes)]
  <2> HIDE DEF IInv
  <2>1. Return(s) /\ UNCHANGED <<block_hash, hash_to_block, chain>>
    BY <1>6 DEF Release
  <2>2. DistinctHashes' /\ chain' \in [Seqs -> Seq(Hashes)]
    BY <1>0, <2>1 DEF IInv, DistinctHashes
  <2> QED BY <1>0, <1>4, <2>1, <2>2, UpdateInv
<1>7. ASSUME NEW s \in Seqs, Free(s) \/ SwapOut(s)
      PROVE  IInv'
  <2>1. CASE Free(s)
    <3>1. Release(s) /\ UNCHANGED <<cpu_free, cpu_block_table>>
      BY <2>1 DEF Free
    <3> QED BY <1>0, <1>6, <3>1 DEF TypeOK, HostPool
  <2>2. CASE SwapOut(s)
    <3>1. Release(s)
      BY <2>2 DEF SwapOut
    <3> QED BY <1>6, <2>2, <3>1, SwapOutHostInv DEF TypeOK
  <2> QED BY <1>7, <2>1, <2>2
<1>8. ASSUME NEW s \in Seqs, SwapIn(s)
      PROVE  IInv'
  <2>1. PICK new \in Picks(free_blocks \cup evictable) : Acquire(s, <<>>, new)
    BY <1>8 DEF SwapIn
  <2>2. ReleaseCpu(s) /\ UNCHANGED chain
    BY <1>8 DEF SwapIn
  <2> QED BY <1>0, <1>2, <2>1, <2>2, ReleaseCpuInv DEF TypeOK, DistinctHashes
<1>9. ASSUME NEW s \in Seqs, FreeCpu(s)
      PROVE  IInv'
  <2>1. /\ ReleaseCpu(s)
        /\ UNCHANGED <<free_blocks, evictable, ref_counts, block_hash, hash_to_block,
                       block_table, chain>>
    BY <1>9 DEF FreeCpu
  <2>2. \A t \in Seqs : Held(t)' = Held(t)
    BY <2>1 DEF Held
  <2>3. \A b \in Blocks : Holders(b)' = Holders(b)
    BY <2>2 DEF Holders
  <2> QED BY <2>1, <2>2, <2>3, ReleaseCpuInv
          DEF TypeOK, RefCountsAreHolders, OnePool, CacheConsistent, SharedIsPublished,
              RightContent, DistinctHashes
<1>10. CASE UNCHANGED vars
  <2>1. \A t \in Seqs : Held(t)' = Held(t)
    BY <1>10 DEF vars, Held
  <2>2. \A b \in Blocks : Holders(b)' = Holders(b)
    BY <2>1 DEF Holders
  <2> QED BY <1>10, <2>1, <2>2
          DEF vars, TypeOK, RefCountsAreHolders, OnePool, CacheConsistent, SharedIsPublished,
              RightContent, DistinctHashes, HostPool
<1> QED
  BY <1>1, <1>3, <1>5, <1>7, <1>8, <1>9, <1>10 DEF Next

\* The inductive invariant holds throughout every execution.
THEOREM Invariance == Spec => []IInv
  BY InitInv, NextInv, PTL DEF Spec

\* Every variable of the allocator keeps its type; in particular no reference
\* count of block_manager.py goes below zero.
THEOREM TypeCorrect == Spec => []TypeOK
<1>1. IInv => TypeOK
  BY DEF IInv
<1> QED BY <1>1, Invariance, PTL

\* The accounting of check_invariants: a reference count is the number of
\* tables that hold the block, so the last release is the one that returns it.
THEOREM PoolAccounting == Spec => []RefCountsAreHolders
<1>1. IInv => RefCountsAreHolders
  BY DEF IInv
<1> QED BY <1>1, Invariance, PTL

\* No GPU block leaks and none is handed out while a table holds it: each is
\* free, evictable or held, over any series of calls.
THEOREM NoBlockLostOrLentTwice == Spec => []OnePool
<1>1. IInv => OnePool
  BY DEF IInv
<1> QED BY <1>1, Invariance, PTL

\* Swapping loses no host block and lends none to two sequences.
THEOREM HostBlocksAccounted == Spec => []HostPool
<1>1. IInv => HostPool
  BY DEF IInv
<1> QED BY <1>1, Invariance, PTL

\* Eviction and publication keep the two maps of the prefix cache inverse: a
\* lookup never finds a block that has been reused.
THEOREM CacheMapsAgree == Spec => []CacheConsistent
<1>1. IInv => CacheConsistent
  BY DEF IInv
<1> QED BY <1>1, Invariance, PTL

\* A block that is still being written is in one table only: no cache hit, and
\* no reuse of a released block, shares it.
THEOREM SharingIsReadOnly == Spec => []SharedIsPublished
<1>1. IInv => SharedIsPublished
  BY DEF IInv
<1> QED BY <1>1, Invariance, PTL

\* The prefix cache serves nobody the K/V of another prefix.
THEOREM PrefixCacheSound == Spec => []RightContent
<1>1. IInv => RightContent
  BY DEF IInv
<1> QED BY <1>1, Invariance, PTL

\* Eviction never takes a block that a table holds, and a published block is
\* not republished under another hash.
THEOREM HeldBlocksStayPublished == Spec => HeldStaysPublished
<1> DEFINE Stays == \A b \in Blocks : ref_counts[b] > 0 /\ block_hash[b] # None
                                        => block_hash'[b] = block_hash[b]
<1>1. IInv /\ [Next]_vars => Stays
  <2> SUFFICES ASSUME IInv, [Next]_vars, NEW b \in Blocks,
                      ref_counts[b] > 0, block_hash[b] # None
               PROVE  block_hash'[b] = block_hash[b]
    OBVIOUS
  <2>1. b \notin evictable
    <3>1. Holders(b) # {}
      <4>1. ref_counts[b] = 0 <=> Holders(b) = {}
        BY HolderFacts
      <4>2. ref_counts[b] # 0
        OBVIOUS
      <4> QED BY <4>1, <4>2
    <3> QED BY <3>1 DEF IInv, OnePool, Holders
  <2>2. ASSUME NEW s \in Seqs, NEW cached, NEW new, Acquire(s, cached, new)
        PROVE  block_hash'[b] = block_hash[b]
    BY <2>1, <2>2 DEF Acquire, counted
  <2>3. ASSUME NEW s \in Seqs, Publish(s)
        PROVE  block_hash'[b] = block_hash[b]
    <3>1. PICK lo \in 1..Len(block_table[s]), hi \in 1..Len(block_table[s]) :
            block_hash' =
              [c \in Blocks |->
                 IF \E i \in {i \in lo..hi : Publishable(s, i)} : block_table[s][i] = c
                 THEN chain[s][CHOOSE i \in {i \in lo..hi : Publishable(s, i)} :
                                 block_table[s][i] = c]
                 ELSE block_hash[c]]
      BY <2>3 DEF Publish
    <3>2. ~ \E i \in {i \in lo..hi : Publishable(s, i)} : block_table[s][i] = b
      BY DEF Publishable
    <3> QED BY <3>1, <3>2
  <2>4. ASSUME NEW s \in Seqs, Release(s)
        PROVE  block_hash'[b] = block_hash[b]
    BY <2>4 DEF Release
  <2>5. CASE UNCHANGED vars
    BY <2>5 DEF vars
  <2>6. CASE Next
    BY <2>2, <2>3, <2>4, <2>6
       DEF Next, Allocate, AppendSlots, Update, Free, SwapOut, SwapIn, FreeCpu
  <2> QED BY <2>5, <2>6
<1>2. IInv /\ [Next]_vars => [\A b \in Blocks : ref_counts[b] > 0 /\ block_hash[b] # None
                                                 => block_hash'[b] = block_hash[b]]_vars
  BY <1>1
<1> QED BY <1>2, Invariance, PTL DEF Spec, HeldStaysPublished
=============================================================================
