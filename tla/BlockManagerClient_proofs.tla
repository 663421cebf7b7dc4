----------------------- MODULE BlockManagerClient_proofs -----------------------
(***************************************************************************)
(* BlockManager with any client that keeps its contract implements         *)
(* BlockPool, for any number of sequences, blocks and tokens, and so has   *)
(* the invariants proved of BlockPool.                                     *)
(***************************************************************************)
EXTENDS BlockManagerClient, BlockManager_proofs

\* BlockPool with its theorems, under the refinement mapping of Pool.
P == INSTANCE BlockPool_proofs WITH
  Blocks <- Blocks, CpuBlocks <- CpuBlocks, Hashes <- Digests,
  Chains <- {Chain(p) : p \in Prompts},
  free_blocks <- Range(free_blocks), evictable <- Range(evictable), cpu_free <- Range(cpu_free),
  hash_to_block <- [h \in Digests |-> IF h \in DOMAIN hash_to_block THEN hash_to_block[h] ELSE None],
  chain <- [s \in Seqs |-> Chain(token_ids[s])]

TypeOK ==
  /\ BlockManagerTypeOK
  /\ block_hash \in [Blocks -> Digests \cup {None}]
  /\ DOMAIN hash_to_block \subseteq Digests
  /\ token_ids \in [Seqs -> Seq(Tokens)] /\ \A s \in Seqs : num_tokens(s) \in 1..MaxTokens

\* A table on the GPU has a slot for every token that is computed, and the host
\* blocks of a sequence are those of its computed tokens.
SlotsOK == \A s \in Seqs :
  /\ num_computed_tokens[s] <= num_tokens(s)
  /\ block_table[s] # <<>> =>
       /\ cpu_block_table[s] = <<>>
       /\ blocks_for(num_computed_tokens[s]) <= Len(block_table[s])
  /\ cpu_block_table[s] # <<>> => Len(cpu_block_table[s]) = blocks_for(num_computed_tokens[s])

\* What the lists and counts of the code add to the sets of BlockPool.
ListInv ==
  /\ TypeOK
  /\ ListsOK /\ IsInjective(cpu_free)
  /\ SlotsOK
  /\ PublishedIsComputed

\* The inductive invariant: that, and the one of BlockPool for the sets behind
\* the lists.
IInv == ListInv /\ P!IInv

-----------------------------------------------------------------------------
\* BlockPool's copies of library operators are those operators.
LEMMA SameOperators ==
  /\ \A S : (P!IsFiniteSet(S) <=> IsFiniteSet(S)) /\ P!Cardinality(S) = Cardinality(S)
  /\ \A f : (P!IsInjective(f) <=> IsInjective(f)) /\ P!Range(f) = Range(f)
<1>1. \A S : P!IsFiniteSet(S) <=> IsFiniteSet(S)
  BY DEF P!IsFiniteSet, IsFiniteSet
<1>2. \A S : P!Cardinality(S) = Cardinality(S)
  BY DEF P!Cardinality, Cardinality
<1>3. \A f : (P!IsInjective(f) <=> IsInjective(f)) /\ P!Range(f) = Range(f)
  BY DEF P!IsInjective, IsInjective, P!Range, Range
<1> QED BY <1>1, <1>2, <1>3

\* The chain of a token list: one distinct digest per full block.
LEMMA ChainFacts ==
  ASSUME NEW t \in Seq(Tokens), Len(t) <= MaxTokens
  PROVE  /\ Chain(t) \in Seq(Digests) /\ IsInjective(Chain(t))
         /\ Len(Chain(t)) = Len(t) \div BlockSize /\ Len(t) \div BlockSize \in Nat
         /\ \A i \in 1 .. Len(t) \div BlockSize :
              i * BlockSize \in 1..Len(t) /\ Chain(t)[i] = SubSeq(t, 1, i * BlockSize)
<1> DEFINE n == Len(t) \div BlockSize
           m == MaxTokens \div BlockSize
<1>1. BlockSize \in Nat \ {0} /\ MaxTokens \in Nat /\ Len(t) \in Nat
  BY PoolAssumption, ClientAssumption
<1>2. n \in Nat /\ m \in Nat
  BY <1>1, Division
<1>3. ASSUME NEW i \in 1..n
      PROVE  i * BlockSize \in 1..Len(t) /\ i \in 1..m
  <2>1. i * BlockSize <= Len(t)
    <3>0. i \in Nat /\ i <= Len(t) \div BlockSize
      BY <1>2
    <3>1. PICK B \in Nat \ {0}, a \in Nat, q \in Nat : B = BlockSize /\ a = Len(t) /\ q = i
      BY <1>1, <3>0
    <3>2. q <= a \div B
      BY <3>0, <3>1
    <3>3. q * B <= a
      BY <3>2, Quotient
    <3> QED BY <3>1, <3>3
  <2>2. i * BlockSize \in Nat /\ i * BlockSize # 0
    BY <1>1, <1>3, SMT
  <2>3. i * BlockSize <= MaxTokens
    BY <1>1, <2>1, <2>2
  <2>4. i \in Nat /\ i >= 1
    BY <1>2, <1>3
  <2>5. i <= m
    BY <1>1, <2>3, <2>4, Quotient
  <2> QED BY <1>1, <1>2, <2>1, <2>2, <2>4, <2>5
<1>4. Chain(t) = [i \in 1..n |-> SubSeq(t, 1, i * BlockSize)]
  BY DEF Chain
<1> HIDE DEF n
<1>5. ASSUME NEW i \in 1..n
      PROVE  SubSeq(t, 1, i * BlockSize) \in Digests /\ Len(SubSeq(t, 1, i * BlockSize)) = i * BlockSize
  <2>1. PICK k \in 1..Len(t) : k = i * BlockSize
    BY <1>3
  <2>2. SubSeq(t, 1, k) \in Seq(Tokens) /\ Len(SubSeq(t, 1, k)) = k
    BY <1>1, <2>1
  <2>3. SubSeq(t, 1, k) \in [1..k -> Tokens]
    <3>1. \A u \in Seq(Tokens) : u \in [1..Len(u) -> Tokens]
      OBVIOUS
    <3> QED BY <2>2, <3>1
  <2> QED BY <1>3, <2>1, <2>2, <2>3 DEF Digests
<1>6. Chain(t) \in Seq(Digests) /\ Len(Chain(t)) = n /\ DOMAIN Chain(t) = 1..n
  BY <1>2, <1>4, <1>5
<1>7. IsInjective(Chain(t))
  <2> SUFFICES ASSUME NEW i \in 1..n, NEW j \in 1..n, Chain(t)[i] = Chain(t)[j] PROVE i = j
    BY <1>6 DEF IsInjective
  <2>1. i * BlockSize = j * BlockSize
    BY <1>4, <1>5
  <2> QED BY <1>1, <2>1, SMT
<1> QED
  BY <1>2, <1>3, <1>4, <1>6, <1>7 DEF n

\* The assumptions of BlockPool hold of the mapped constants.
LEMMA PoolAssumptionsHold ==
  /\ P!IsFiniteSet(Seqs)
  /\ \A c \in {Chain(p) : p \in Prompts} : c \in Seq(Digests) /\ P!IsInjective(c)
  /\ None \notin Digests /\ None \notin Blocks
<1>1. \A p \in Prompts : p \in Seq(Tokens) /\ Len(p) <= MaxTokens
  BY ClientAssumption
<1>2. \A c \in {Chain(p) : p \in Prompts} : c \in Seq(Digests) /\ IsInjective(c)
  BY <1>1, ChainFacts
<1> QED
  BY <1>2, SameOperators, ClientAssumption, NoneAssumption

\* BlockPool keeps its invariant.
LEMMA PoolSteps ==
  /\ P!Init => P!IInv
  /\ P!IInv /\ [P!Next]_(P!vars) => P!IInv'
<1>1. P!Init => P!IInv
  BY PoolAssumptionsHold, P!InitInv
<1>2. P!IInv /\ [P!Next]_(P!vars) => P!IInv'
  BY PoolAssumptionsHold, P!NextInv
<1> QED
  BY <1>1, <1>2

LEMMA BlocksFinite == IsFiniteSet(Blocks) /\ Cardinality(Blocks) = NumBlocks
BY PoolAssumption, FS_Interval DEF Blocks

\* A list of distinct members of a set is what pops of it may return.
LEMMA ListIsPick ==
  ASSUME NEW S, IsFiniteSet(S), NEW l \in Seq(S), IsInjective(l)
  PROVE  l \in P!Picks(S)
<1>1. Len(l) = Cardinality(Range(l)) /\ Range(l) \in SUBSET S
  BY ListLength
<1>2. Cardinality(Range(l)) <= Cardinality(S) /\ Cardinality(S) \in Nat
  BY <1>1, FS_Subset, FS_CardinalityType
<1>3. Len(l) \in 0..Cardinality(S) /\ l \in [1..Len(l) -> S]
  BY <1>1, <1>2
<1> QED
  BY <1>2, <1>3, SameOperators DEF P!Picks

\* What the invariant of BlockPool says of the lists and maps of the code.
LEMMA PoolFacts ==
  ASSUME IInv
  PROVE  /\ ref_counts \in [Blocks -> Nat] /\ block_hash \in [Blocks -> Digests \cup {None}]
         /\ \A b \in Blocks : ref_counts[b] = 0 <=> b \in Range(free_blocks) \cup Range(evictable)
         /\ \A b \in Range(free_blocks) : block_hash[b] = None
         /\ \A h \in DOMAIN hash_to_block :
              h \in Digests /\ hash_to_block[h] \in Blocks /\ block_hash[hash_to_block[h]] = h
         /\ \A s \in Seqs :
              /\ block_table[s] \in Seq(Blocks) /\ IsInjective(block_table[s])
              /\ Range(block_table[s]) \cap (Range(free_blocks) \cup Range(evictable)) = {}
              /\ \A t \in Seqs \ {s} : \A b \in Range(block_table[s]) \cap Range(block_table[t]) :
                   block_hash[b] # None
              /\ cpu_block_table[s] \in Seq(CpuBlocks) /\ IsInjective(cpu_block_table[s])
              /\ Range(cpu_block_table[s]) \cap Range(cpu_free) = {}
<1>1. /\ P!TypeOK /\ P!RefCountsAreHolders /\ P!OnePool /\ P!CacheConsistent
      /\ P!SharedIsPublished /\ P!RightContent /\ P!HostPool
  BY DEF IInv, P!IInv
<1>2. ref_counts \in [Blocks -> Nat] /\ block_hash \in [Blocks -> Digests \cup {None}]
  BY <1>1 DEF P!TypeOK
<1>3. \A s \in Seqs : P!Held(s) = Range(block_table[s])
  BY SameOperators DEF P!Held
<1>4. ASSUME NEW b \in Blocks
      PROVE  ref_counts[b] = 0 <=> b \in Range(free_blocks) \cup Range(evictable)
  <2>1. ref_counts[b] = Cardinality(P!Holders(b))
    BY <1>1, SameOperators DEF P!RefCountsAreHolders
  <2>2. P!Holders(b) \in SUBSET Seqs /\ IsFiniteSet(Seqs)
    BY ClientAssumption DEF P!Holders
  <2>3. ref_counts[b] = 0 <=> P!Holders(b) = {}
    BY <2>1, <2>2, FS_Subset, FS_EmptySet
  <2>4. P!Holders(b) = {} <=> ~\E s \in Seqs : b \in P!Held(s)
    BY DEF P!Holders
  <2> QED BY <1>1, <2>3, <2>4 DEF P!OnePool
<1>5. \A b \in Range(free_blocks) : block_hash[b] = None
  BY <1>1 DEF P!CacheConsistent
<1>6. ASSUME NEW h \in DOMAIN hash_to_block
      PROVE  h \in Digests /\ hash_to_block[h] \in Blocks /\ block_hash[hash_to_block[h]] = h
  <2>1. h \in Digests /\ hash_to_block[h] \in Blocks
    BY DEF IInv, ListInv, TypeOK, BlockManagerTypeOK, Range
  <2>2. hash_to_block[h] # None
    BY <2>1, NoneAssumption
  <2> QED BY <1>1, <2>1, <2>2 DEF P!CacheConsistent
<1>7. ASSUME NEW s \in Seqs
      PROVE  /\ block_table[s] \in Seq(Blocks) /\ IsInjective(block_table[s])
             /\ Range(block_table[s]) \cap (Range(free_blocks) \cup Range(evictable)) = {}
             /\ \A t \in Seqs \ {s} : \A b \in Range(block_table[s]) \cap Range(block_table[t]) :
                  block_hash[b] # None
  <2>1. block_table[s] \in Seq(Blocks) /\ IsInjective(block_table[s])
    BY <1>1, SameOperators DEF P!TypeOK, P!RightContent
  <2>2. Range(block_table[s]) \subseteq Blocks
    BY <2>1 DEF Range
  <2> QED BY <1>1, <1>3, <2>1, <2>2 DEF P!OnePool, P!SharedIsPublished
<1>8. ASSUME NEW s \in Seqs
      PROVE  /\ cpu_block_table[s] \in Seq(CpuBlocks) /\ IsInjective(cpu_block_table[s])
             /\ Range(cpu_block_table[s]) \cap Range(cpu_free) = {}
  <2>1. cpu_block_table[s] \in Seq(CpuBlocks) /\ IsInjective(cpu_block_table[s])
    BY <1>1, SameOperators DEF P!TypeOK, P!HostPool
  <2>2. Range(cpu_block_table[s]) \subseteq CpuBlocks /\ P!Range(cpu_block_table[s]) = Range(cpu_block_table[s])
    BY <2>1, SameOperators DEF Range
  <2>3. ASSUME NEW c \in CpuBlocks, c \in Range(cpu_block_table[s]) PROVE c \notin Range(cpu_free)
    BY <1>1, <2>2, <2>3 DEF P!HostPool
  <2> QED BY <2>1, <2>2, <2>3
<1> QED
  BY <1>2, <1>4, <1>5, <1>6, <1>7, <1>8

\* The pops of an Acquire are an Acquire of BlockPool.
LEMMA AcquireSim ==
  ASSUME IInv, NEW s \in Seqs, NEW cached \in Seq(Blocks), NEW new \in Seq(Blocks),
         Taken(cached, new), block_table' = [block_table EXCEPT ![s] = @ \o cached \o new]
  PROVE  P!Acquire(s, cached, new)
<1> DEFINE evicted == Range(new) \cap Range(evictable)
           mapped == [h \in Digests |-> IF h \in DOMAIN hash_to_block THEN hash_to_block[h] ELSE None]
<1>1. evicted \subseteq Blocks /\ None \notin evicted
  BY NoneAssumption DEF Range
<1>2. DOMAIN hash_to_block \subseteq Digests
  BY DEF IInv, ListInv, TypeOK
<1>3. [h \in Digests |-> IF h \in DOMAIN (hash_to_block') THEN hash_to_block'[h] ELSE None]
        = [h \in Digests |-> IF mapped[h] \in evicted THEN None ELSE mapped[h]]
  <2>1. hash_to_block' = [h \in {h \in DOMAIN hash_to_block : hash_to_block[h] \notin evicted}
                            |-> hash_to_block[h]]
    BY DEF Taken
  <2> QED BY <1>1, <1>2, <2>1
<1> QED
  BY <1>3, SameOperators DEF P!Acquire, P!counted, Taken

\* What is published in a table after an Acquire for s was published there
\* before, or is one of the hits.
StillPublished(s, cached) == \A t \in Seqs : \A i \in DOMAIN (block_table'[t]) :
  block_hash'[block_table'[t][i]] # None =>
    /\ t # s => block_table'[t] = block_table[t]
    /\ t = s => i <= Len(block_table[s]) + Len(cached)
    /\ t = s /\ i <= Len(block_table[s]) =>
         i \in DOMAIN block_table[s] /\ block_table'[t][i] = block_table[s][i]
    /\ block_table'[t][i] \in Blocks /\ block_hash[block_table'[t][i]] # None

\* No block that an Acquire popped is published, and the rest of each table is as
\* published as before.
LEMMA AcquirePublished ==
  ASSUME IInv, NEW s \in Seqs, NEW cached \in Seq(Blocks), NEW new \in Seq(Blocks),
         Range(new) \subseteq Range(free_blocks) \cup Range(evictable),
         Taken(cached, new), block_table' = [block_table EXCEPT ![s] = @ \o cached \o new]
  PROVE  StillPublished(s, cached)
<1> SUFFICES ASSUME NEW t \in Seqs, NEW i \in DOMAIN (block_table'[t]), block_hash'[block_table'[t][i]] # None
             PROVE  /\ t # s => block_table'[t] = block_table[t]
                    /\ t = s => i <= Len(block_table[s]) + Len(cached)
                    /\ t = s /\ i <= Len(block_table[s]) => i \in DOMAIN block_table[s] /\ block_table'[t][i] = block_table[s][i]
                    /\ block_table'[t][i] \in Blocks /\ block_hash[block_table'[t][i]] # None
  BY DEF StillPublished
<1>1. block_table \in [Seqs -> Seq(Blocks)]
  BY DEF IInv, ListInv, TypeOK, BlockManagerTypeOK
<1>2. t # s => block_table'[t] = block_table[t]
  BY <1>1
<1>3. t = s => block_table'[t] = block_table[s] \o cached \o new
  BY <1>1
<1>4. block_table'[t] \in Seq(Blocks) /\ block_table[s] \in Seq(Blocks)
  BY <1>1, <1>2, <1>3
<1>5. block_table'[t][i] \in Blocks
  BY <1>4
<1>6. block_hash[block_table'[t][i]] # None
  BY <1>5 DEF Taken
<1>7. \A j \in 1..Len(new) : block_hash'[new[j]] = None
  <2>1. SUFFICES ASSUME NEW j \in 1..Len(new) PROVE block_hash'[new[j]] = None
    OBVIOUS
  <2>2. new[j] \in Range(new) /\ new[j] \in Blocks
    BY DEF Range
  <2>3. CASE new[j] \in Range(evictable)
    BY <2>2, <2>3 DEF Taken
  <2>4. CASE new[j] \in Range(free_blocks)
    BY <2>2, <2>4, PoolFacts DEF Taken
  <2> QED BY <2>2, <2>3, <2>4
<1>8. ASSUME t = s PROVE i <= Len(block_table[s]) + Len(cached)
  <2>0. PICK old \in Seq(Blocks) : old = block_table[s]
    BY <1>4
  <2>1. PICK both \in Seq(Blocks) :
          /\ both = old \o cached /\ Len(both) = Len(old) + Len(cached)
          /\ block_table'[t] = both \o new
    <3>1. old \o cached \in Seq(Blocks) /\ Len(old \o cached) = Len(old) + Len(cached)
      OBVIOUS
    <3>2. block_table'[t] = (old \o cached) \o new
      BY <1>3, <1>8, <2>0
    <3> QED BY <3>1, <3>2
  <2>2. PICK k \in Nat, d \in Nat : k = Len(both) /\ d = Len(new)
    OBVIOUS
  <2>3. i \in 1..k + d
    <3>1. Len(both \o new) = k + d /\ DOMAIN (both \o new) = 1..Len(both \o new)
      BY <2>2
    <3> QED BY <2>1, <3>1
  <2>4. SUFFICES ASSUME i > k PROVE FALSE
    BY <2>0, <2>1, <2>2, <2>3
  <2>5. PICK j \in 1..d : i = k + j
    <3>1. i - k \in 1..d /\ i = k + (i - k)
      BY <2>3, <2>4
    <3> QED BY <3>1
  <2>6. (both \o new)[k + j] = new[j]
    BY <2>2, <2>5
  <2> QED BY <1>7, <2>1, <2>2, <2>5, <2>6
<1>9. ASSUME t = s, i <= Len(block_table[s])
      PROVE  i \in DOMAIN block_table[s] /\ block_table'[t][i] = block_table[s][i]
  BY <1>3, <1>4, <1>9
<1> QED
  BY <1>2, <1>5, <1>6, <1>8, <1>9

\* An Acquire keeps the types and the lists.
LEMMA AcquireTypes ==
  ASSUME IInv, NEW s \in Seqs, NEW cached \in Seq(Blocks), NEW new \in Seq(Blocks),
         Taken(cached, new), block_table' = [block_table EXCEPT ![s] = @ \o cached \o new]
  PROVE  /\ ListsOK'
         /\ ref_counts' \in [Blocks -> Nat] /\ block_hash' \in [Blocks -> Digests \cup {None}]
         /\ DOMAIN (hash_to_block') \subseteq Digests /\ Range(hash_to_block') \subseteq Blocks
         /\ block_table' \in [Seqs -> Seq(Blocks)]
         /\ block_table'[s] = block_table[s] \o cached \o new
         /\ Len(block_table'[s]) = Len(block_table[s]) + Len(cached) + Len(new)
         /\ \A t \in Seqs \ {s} : block_table'[t] = block_table[t]
<1>1. block_table \in [Seqs -> Seq(Blocks)] /\ DOMAIN hash_to_block \subseteq Digests
  BY DEF IInv, ListInv, TypeOK, BlockManagerTypeOK
<1>2. ref_counts \in [Blocks -> Nat] /\ block_hash \in [Blocks -> Digests \cup {None}]
      /\ \A h \in DOMAIN hash_to_block : hash_to_block[h] \in Blocks
  BY PoolFacts
<1>3. ListsOK'
  BY DEF IInv, ListInv, ListsOK, Taken
<1>4. ref_counts' \in [Blocks -> Nat] /\ block_hash' \in [Blocks -> Digests \cup {None}]
  BY <1>2 DEF Taken
<1>5. DOMAIN (hash_to_block') \subseteq Digests /\ Range(hash_to_block') \subseteq Blocks
  <2>1. /\ DOMAIN (hash_to_block') \subseteq DOMAIN hash_to_block
        /\ \A h \in DOMAIN (hash_to_block') : hash_to_block'[h] = hash_to_block[h]
    BY DEF Taken
  <2> QED BY <1>1, <1>2, <2>1 DEF Range
<1>6. block_table' \in [Seqs -> Seq(Blocks)] /\ \A t \in Seqs \ {s} : block_table'[t] = block_table[t]
  BY <1>1
<1>7. block_table'[s] = block_table[s] \o cached \o new
      /\ Len(block_table'[s]) = Len(block_table[s]) + Len(cached) + Len(new)
  BY <1>1
<1> QED
  BY <1>3, <1>4, <1>5, <1>6, <1>7

\* A step starts where the lists have room for what it takes.
LEMMA Room ==
  ASSUME IInv, NEW cached \in Seq(Blocks),
         NEW k \in Nat,
         k <= num_free_blocks - Cardinality({b \in Range(cached) : ref_counts[b] = 0}),
         Range(cached) \cap Range(free_blocks) = {}
  PROVE  k <= Len(free_blocks) + Cardinality(Range(evictable) \ Range(cached))
<1> DEFINE pinned == {b \in Range(cached) : ref_counts[b] = 0}
<1>1. pinned = Range(evictable) \cap Range(cached)
  <2>1. Range(cached) \subseteq Blocks
    BY DEF Range
  <2> QED BY <2>1, PoolFacts
<1>2. IsFiniteSet(Range(evictable)) /\ Len(evictable) = Cardinality(Range(evictable))
  BY ListLength DEF IInv, ListInv, ListsOK
<1>3. Cardinality(Range(evictable) \ Range(cached))
        = Cardinality(Range(evictable)) - Cardinality(Range(evictable) \cap Range(cached))
  BY <1>2, FS_Difference
<1>4. /\ Cardinality(Range(evictable) \cap Range(cached)) \in Nat
      /\ Cardinality(Range(evictable) \ Range(cached)) \in Nat
  BY <1>2, FS_Intersection, FS_Difference, FS_CardinalityType
<1>5. Len(free_blocks) \in Nat /\ Len(evictable) \in Nat
  BY DEF IInv, ListInv, ListsOK
<1>6. k <= num_free_blocks - Cardinality(pinned)
  OBVIOUS
<1>7. Cardinality(pinned) = Cardinality(Range(evictable) \cap Range(cached))
  BY <1>1
<1> HIDE DEF pinned
<1> QED
  BY <1>2, <1>3, <1>4, <1>5, <1>6, <1>7 DEF num_free_blocks

\* What an Acquire popped is what BlockPool may pop.
LEMMA TakenIsPick ==
  ASSUME IInv, NEW new \in Seq(Blocks), IsInjective(new), NEW S,
         S \subseteq Range(free_blocks) \cup Range(evictable), Range(new) \subseteq S
  PROVE  new \in P!Picks(S)
<1>1. new \in Seq(S)
  BY DEF Range
<1>2. S \in SUBSET Blocks
  BY DEF IInv, ListInv, ListsOK, Range
<1>3. IsFiniteSet(S)
  BY <1>2, BlocksFinite, FS_Subset
<1> QED
  BY <1>1, <1>3, ListIsPick

\* A step that disturbs the slots of s alone keeps SlotsOK if it does for s.
LEMMA OneSlotStep ==
  ASSUME IInv, NEW s \in Seqs,
         \A t \in Seqs \ {s} :
           /\ block_table'[t] = block_table[t] /\ cpu_block_table'[t] = cpu_block_table[t]
           /\ num_computed_tokens'[t] = num_computed_tokens[t]
           /\ Len(token_ids'[t]) = Len(token_ids[t]),
         num_computed_tokens'[s] <= Len(token_ids'[s]),
         block_table'[s] # <<>> =>
           /\ cpu_block_table'[s] = <<>>
           /\ blocks_for(num_computed_tokens'[s]) <= Len(block_table'[s]),
         cpu_block_table'[s] # <<>> => Len(cpu_block_table'[s]) = blocks_for(num_computed_tokens'[s])
  PROVE  SlotsOK'
<1> DEFINE Slots(t) ==
      /\ num_computed_tokens[t] <= num_tokens(t)
      /\ block_table[t] # <<>> =>
           /\ cpu_block_table[t] = <<>>
           /\ blocks_for(num_computed_tokens[t]) <= Len(block_table[t])
      /\ cpu_block_table[t] # <<>> => Len(cpu_block_table[t]) = blocks_for(num_computed_tokens[t])
<1>1. \A t \in Seqs : Slots(t)
  BY DEF IInv, ListInv, SlotsOK
<1>2. \A t \in Seqs \ {s} : Slots(t)'
  BY <1>1 DEF num_tokens, blocks_for
<1>3. Slots(s)'
  BY DEF num_tokens, blocks_for
<1>4. (\A t \in Seqs : Slots(t))' => SlotsOK'
  BY DEF SlotsOK
<1> QED BY <1>2, <1>3, <1>4

\* cached_prefix finds what Hits of BlockPool names: distinct published blocks.
LEMMA CachedPrefixSim ==
  ASSUME IInv, NEW s \in Seqs
  PROVE  \E k \in 0..Len(Chain(token_ids[s])) :
           LET cached == cached_prefix(s)
               mapped == [h \in Digests |-> IF h \in DOMAIN hash_to_block THEN hash_to_block[h] ELSE None]
           IN
           /\ cached = P!Hits(s, k) /\ cached \in Seq(Blocks) /\ Len(cached) = k
           /\ k \in Nat /\ k * BlockSize \in Nat /\ k * BlockSize < num_tokens(s)
           /\ \A i \in 1..k : mapped[Chain(token_ids[s])[i]] # None
           /\ Range(cached) \cap Range(free_blocks) = {}
<1> DEFINE mapped == [h \in Digests |-> IF h \in DOMAIN hash_to_block THEN hash_to_block[h] ELSE None]
           c == Chain(token_ids[s])
<1>1. /\ token_ids[s] \in Seq(Tokens) /\ num_tokens(s) \in Nat \ {0} /\ num_tokens(s) = Len(token_ids[s])
      /\ num_tokens(s) <= MaxTokens /\ BlockSize \in Nat \ {0}
  BY PoolAssumption, ClientAssumption DEF IInv, ListInv, TypeOK, num_tokens
<1>2. PICK k \in Nat :
        /\ cached_prefix(s) = [j \in 1..k |-> hash_to_block[Hash(s, j)]]
        /\ k * BlockSize < num_tokens(s)
        /\ \A j \in 1..k : Hash(s, j) \in DOMAIN hash_to_block
  BY <1>1, CachedPrefix
<1>3. k * BlockSize \in Nat
  BY <1>1, SMT
<1>4. /\ Len(c) = num_tokens(s) \div BlockSize /\ Len(c) \in Nat
      /\ \A i \in 1..Len(c) : c[i] = Hash(s, i)
  BY <1>1, ChainFacts DEF Hash
<1>5. k <= Len(c)
  <2>1. k * BlockSize <= num_tokens(s)
    BY <1>1, <1>2, <1>3
  <2>2. k <= num_tokens(s) \div BlockSize
    BY <1>1, <2>1, Quotient
  <2> QED BY <1>4, <2>2
<1>6. ASSUME NEW i \in 1..k
      PROVE  /\ c[i] = Hash(s, i) /\ Hash(s, i) \in DOMAIN hash_to_block
             /\ hash_to_block[Hash(s, i)] \in Blocks /\ block_hash[hash_to_block[Hash(s, i)]] # None
             /\ mapped[c[i]] = hash_to_block[Hash(s, i)]
  <2>1. i \in 1..Len(c)
    BY <1>4, <1>5
  <2>2. /\ Hash(s, i) \in DOMAIN hash_to_block /\ Hash(s, i) \in Digests
        /\ hash_to_block[Hash(s, i)] \in Blocks
        /\ block_hash[hash_to_block[Hash(s, i)]] = Hash(s, i)
    BY <1>2, PoolFacts
  <2> QED BY <1>4, <2>1, <2>2, NoneAssumption
<1>7. P!Hits(s, k) = [i \in 1..k |-> mapped[c[i]]]
  BY DEF P!Hits
<1> HIDE DEF mapped, c
<1>8. cached_prefix(s) = P!Hits(s, k)
  BY <1>2, <1>6, <1>7
<1>9. cached_prefix(s) \in Seq(Blocks) /\ Len(cached_prefix(s)) = k
  BY <1>2, <1>6
<1>10. Range(cached_prefix(s)) \cap Range(free_blocks) = {}
  <2>1. \A b \in Range(cached_prefix(s)) : block_hash[b] # None
    BY <1>2, <1>6 DEF Range
  <2> QED BY <2>1, PoolFacts
<1>11. \A i \in 1..k : mapped[c[i]] # None
  BY <1>6, NoneAssumption
<1> QED
  BY <1>2, <1>3, <1>4, <1>5, <1>8, <1>9, <1>10, <1>11 DEF mapped, c

\* The blocks that an Acquire is to take.
LEMMA NeededBlocks ==
  ASSUME BlockSize \in Nat \ {0}, NEW k \in Nat, NEW n \in Nat
  PROVE  k * BlockSize + n \in Nat /\ blocks_for(k * BlockSize + n) - k \in Nat
<1>1. k * BlockSize \in Nat
  BY SMT
<1>2. k * BlockSize + n \in Nat /\ k * BlockSize <= k * BlockSize + n
  BY <1>1
<1>3. blocks_for(k * BlockSize + n) \in Nat /\ k <= blocks_for(k * BlockSize + n)
  BY <1>2, BlocksFor, BlocksForMore
<1> QED
  BY <1>2, <1>3

\* An Acquire with room for what it takes: BlockPool may take the same blocks, and
\* types and lists stay right.
LEMMA AcquireStep ==
  ASSUME IInv, NEW s \in Seqs, NEW cached \in Seq(Blocks), NEW k \in Nat,
         Range(cached) \cap Range(free_blocks) = {},
         k <= num_free_blocks - Cardinality({b \in Range(cached) : ref_counts[b] = 0}),
         Acquire(s, cached, k)
  PROVE  /\ \E new \in P!Picks((Range(free_blocks) \cup Range(evictable)) \ Range(cached)) :
              /\ Len(new) = k /\ P!Acquire(s, cached, new)
              /\ block_table'[s] = block_table[s] \o cached \o new
         /\ ListsOK'
         /\ ref_counts' \in [Blocks -> Nat] /\ block_hash' \in [Blocks -> Digests \cup {None}]
         /\ DOMAIN (hash_to_block') \subseteq Digests /\ Range(hash_to_block') \subseteq Blocks
         /\ block_table' \in [Seqs -> Seq(Blocks)]
         /\ Len(block_table'[s]) = Len(block_table[s]) + Len(cached) + k
         /\ \A t \in Seqs \ {s} : block_table'[t] = block_table[t]
         /\ StillPublished(s, cached)
<1>1. k <= Len(free_blocks) + Cardinality(Range(evictable) \ Range(cached))
  BY Room
<1>2. ListsOK
  BY DEF IInv, ListInv
<1>3. PICK new \in Seq(Blocks) :
        /\ IsInjective(new) /\ Len(new) = k
        /\ Range(new) \subseteq (Range(free_blocks) \cup Range(evictable)) \ Range(cached)
        /\ Taken(cached, new)
        /\ block_table' = [block_table EXCEPT ![s] = @ \o cached \o new]
  BY <1>1, <1>2, AcquireTakes
<1>4. new \in P!Picks((Range(free_blocks) \cup Range(evictable)) \ Range(cached))
  BY <1>3, TakenIsPick
<1>5. P!Acquire(s, cached, new)
  BY <1>3, AcquireSim
<1>6. /\ ListsOK'
      /\ ref_counts' \in [Blocks -> Nat] /\ block_hash' \in [Blocks -> Digests \cup {None}]
      /\ DOMAIN (hash_to_block') \subseteq Digests /\ Range(hash_to_block') \subseteq Blocks
      /\ block_table' \in [Seqs -> Seq(Blocks)]
      /\ block_table'[s] = block_table[s] \o cached \o new
      /\ Len(block_table'[s]) = Len(block_table[s]) + Len(cached) + Len(new)
      /\ \A t \in Seqs \ {s} : block_table'[t] = block_table[t]
  BY <1>3, AcquireTypes
<1>7. StillPublished(s, cached)
  <2>1. Range(new) \subseteq Range(free_blocks) \cup Range(evictable)
    BY <1>3
  <2> QED BY <1>3, <2>1, AcquirePublished
<1> QED
  BY <1>3, <1>4, <1>5, <1>6, <1>7

\* The same for an Acquire without cache hits.
LEMMA PlainAcquire ==
  ASSUME IInv, NEW s \in Seqs, NEW k \in Nat, k <= num_free_blocks, Acquire(s, <<>>, k)
  PROVE  /\ \E new \in P!Picks(Range(free_blocks) \cup Range(evictable)) :
              /\ Len(new) = k /\ P!Acquire(s, <<>>, new)
         /\ ListsOK'
         /\ ref_counts' \in [Blocks -> Nat] /\ block_hash' \in [Blocks -> Digests \cup {None}]
         /\ DOMAIN (hash_to_block') \subseteq Digests /\ Range(hash_to_block') \subseteq Blocks
         /\ block_table' \in [Seqs -> Seq(Blocks)]
         /\ Len(block_table'[s]) = Len(block_table[s]) + k
         /\ \A t \in Seqs \ {s} : block_table'[t] = block_table[t]
         /\ \A t \in Seqs : \A i \in DOMAIN (block_table'[t]) :
              block_hash'[block_table'[t][i]] # None =>
                /\ i \in DOMAIN block_table[t] /\ block_table'[t][i] = block_table[t][i]
                /\ block_hash[block_table[t][i]] # None
<1>1. <<>> \in Seq(Blocks) /\ Len(<<>>) = 0 /\ Range(<<>>) = {}
  BY DEF Range
<1>2. k <= num_free_blocks - Cardinality({b \in Range(<<>>) : ref_counts[b] = 0})
  <2>1. {b \in Range(<<>>) : ref_counts[b] = 0} = {}
    BY <1>1
  <2>2. Cardinality({b \in Range(<<>>) : ref_counts[b] = 0}) = 0
    BY <2>1, FS_EmptySet
  <2>3. num_free_blocks \in Nat
    BY DEF num_free_blocks, IInv, ListInv, ListsOK
  <2> QED BY <2>2, <2>3
<1>3. Range(<<>>) \cap Range(free_blocks) = {}
  BY <1>1
<1>4. /\ \E new \in P!Picks((Range(free_blocks) \cup Range(evictable)) \ Range(<<>>)) :
           /\ Len(new) = k /\ P!Acquire(s, <<>>, new)
           /\ block_table'[s] = block_table[s] \o <<>> \o new
      /\ ListsOK'
      /\ ref_counts' \in [Blocks -> Nat] /\ block_hash' \in [Blocks -> Digests \cup {None}]
      /\ DOMAIN (hash_to_block') \subseteq Digests /\ Range(hash_to_block') \subseteq Blocks
      /\ block_table' \in [Seqs -> Seq(Blocks)]
      /\ Len(block_table'[s]) = Len(block_table[s]) + Len(<<>>) + k
      /\ \A t \in Seqs \ {s} : block_table'[t] = block_table[t]
      /\ StillPublished(s, <<>>)
  BY <1>1, <1>2, <1>3, AcquireStep
<1>5. block_table[s] \in Seq(Blocks) /\ Len(block_table[s]) \in Nat
  BY DEF IInv, ListInv, TypeOK, BlockManagerTypeOK
<1>6. Len(block_table'[s]) = Len(block_table[s]) + k
  BY <1>1, <1>4, <1>5
<1>7. ASSUME NEW t \in Seqs, NEW i \in DOMAIN (block_table'[t]), block_hash'[block_table'[t][i]] # None
      PROVE  /\ i \in DOMAIN block_table[t] /\ block_table'[t][i] = block_table[t][i]
             /\ block_hash[block_table[t][i]] # None
  <2>1. StillPublished(s, <<>>)
    BY <1>4
  <2>2. CASE t # s
    <3>1. block_table'[t] = block_table[t]
      BY <2>2, <1>4
    <3>2. block_hash[block_table'[t][i]] # None
      BY <2>1, <1>7 DEF StillPublished
    <3> QED BY <1>7, <3>1, <3>2
  <2>3. CASE t = s
    <3>1. i <= Len(block_table[s]) + Len(<<>>)
      BY <2>1, <1>7, <2>3 DEF StillPublished
    <3>2. i \in Nat /\ i <= Len(block_table[s])
      <4>1. DOMAIN (block_table'[t]) = 1..Len(block_table'[t])
        BY <1>4
      <4>2. i \in Nat
        BY <1>4, <1>7, <4>1
      <4> QED BY <3>1, <4>2, <1>1, <1>5
    <3> QED BY <2>1, <1>7, <2>3, <3>2 DEF StillPublished
  <2> QED BY <2>2, <2>3
<1>8. (Range(free_blocks) \cup Range(evictable)) \ Range(<<>>) = Range(free_blocks) \cup Range(evictable)
  BY <1>1
<1> QED
  BY <1>4, <1>6, <1>7, <1>8

\* Starting a sequence is BlockPool's Allocate.
LEMMA StartStep ==
  ASSUME IInv, NEW s \in Seqs, Start(s)
  PROVE  P!Allocate(s) /\ ListInv'
<1> DEFINE mapped == [h \in Digests |-> IF h \in DOMAIN hash_to_block THEN hash_to_block[h] ELSE None]
           cached == cached_prefix(s)
<1>1. PICK k \in 0..Len(Chain(token_ids[s])) :
        /\ cached = P!Hits(s, k) /\ cached \in Seq(Blocks) /\ Len(cached) = k
        /\ k \in Nat /\ k * BlockSize \in Nat /\ k * BlockSize < num_tokens(s)
        /\ \A i \in 1..k : mapped[Chain(token_ids[s])[i]] # None
        /\ Range(cached) \cap Range(free_blocks) = {}
  BY CachedPrefixSim
<1> HIDE DEF cached, mapped
<1>2. PICK n \in 1 .. num_tokens(s) - k * BlockSize :
        /\ can_allocate(s, n, cached, FALSE)
        /\ allocate(s, n, cached)
  BY <1>1 DEF Start, cached
<1>3. /\ block_table[s] = <<>> /\ cpu_block_table[s] = <<>>
      /\ UNCHANGED <<cpu_free, cpu_block_table, token_ids>>
  BY DEF Start, cpuVars
<1> DEFINE total == k * BlockSize + n
           need == blocks_for(total) - k
<1>4. n \in Nat /\ num_tokens(s) \in Nat /\ BlockSize \in Nat \ {0}
  BY <1>1, <1>2, PoolAssumption, ClientAssumption DEF IInv, ListInv, TypeOK
<1>5. total \in Nat /\ need \in Nat /\ total # 0 /\ total <= num_tokens(s)
  <2>1. total \in Nat /\ need \in Nat
    BY <1>1, <1>4, NeededBlocks
  <2>2. 1 <= n /\ n <= num_tokens(s) - k * BlockSize
    BY <1>1, <1>2, <1>4
  <2> QED BY <1>1, <1>4, <2>1, <2>2
<1>6. /\ Acquire(s, cached, need)
      /\ num_computed_tokens' = [num_computed_tokens EXCEPT ![s] = k * BlockSize]
      /\ num_registered_blocks' = [num_registered_blocks EXCEPT ![s] = k]
  BY <1>1, <1>2 DEF allocate
<1>7. need <= num_free_blocks - Cardinality({b \in Range(cached) : ref_counts[b] = 0})
  <2>1. num_free_blocks \in Nat
    BY DEF num_free_blocks, IInv, ListInv, ListsOK
  <2>2. need <= Available(FALSE) - Cardinality({b \in Range(cached) : ref_counts[b] = 0})
    BY <1>1, <1>2 DEF can_allocate
  <2> QED BY <2>1, <2>2 DEF Available
<1> HIDE DEF need
<1>8. /\ \E new \in P!Picks((Range(free_blocks) \cup Range(evictable)) \ Range(cached)) :
           /\ Len(new) = need /\ P!Acquire(s, cached, new)
           /\ block_table'[s] = block_table[s] \o cached \o new
      /\ ListsOK'
      /\ ref_counts' \in [Blocks -> Nat] /\ block_hash' \in [Blocks -> Digests \cup {None}]
      /\ DOMAIN (hash_to_block') \subseteq Digests /\ Range(hash_to_block') \subseteq Blocks
      /\ block_table' \in [Seqs -> Seq(Blocks)]
      /\ Len(block_table'[s]) = Len(block_table[s]) + Len(cached) + need
      /\ \A t \in Seqs \ {s} : block_table'[t] = block_table[t]
      /\ StillPublished(s, cached)
  <2>1. cached \in Seq(Blocks) /\ need \in Nat /\ Range(cached) \cap Range(free_blocks) = {}
    BY <1>1, <1>5
  <2>2. Acquire(s, cached, need)
    BY <1>6
  <2> QED BY <1>7, <2>1, <2>2, AcquireStep
<1>9. P!Allocate(s)
  <2>1. [t \in Seqs |-> Chain(token_ids[t])]' = [t \in Seqs |-> Chain(token_ids[t])]
    BY <1>3
  <2>2. [t \in Seqs |-> Chain(token_ids[t])][s] = Chain(token_ids[s])
    OBVIOUS
  <2>3. P!Range(P!Hits(s, k)) = Range(cached)
    BY <1>1, SameOperators
  <2> QED BY <1>1, <1>3, <1>8, <2>1, <2>2, <2>3 DEF P!Allocate, mapped
<1>11. TypeOK'
  BY <1>1, <1>2, <1>3, <1>4, <1>6, <1>8 DEF IInv, ListInv, TypeOK, BlockManagerTypeOK, ListsOK, num_tokens
<1>12. Len(block_table'[s]) = blocks_for(total) /\ block_table'[s] # <<>>
  <2>1. blocks_for(total) \in Nat /\ blocks_for(total) # 0
    BY <1>4, <1>5, BlocksFor, BlocksForMore
  <2>2. Len(block_table[s]) = 0
    BY <1>3
  <2>3. Len(block_table'[s]) = k + need
    BY <1>1, <1>5, <1>8, <2>2
  <2> HIDE DEF total
  <2>4. Len(block_table'[s]) = blocks_for(total)
    BY <1>1, <1>5, <2>1, <2>3 DEF need
  <2> QED BY <2>1, <2>4
<1>13. SlotsOK'
  <2>1. num_computed_tokens \in [Seqs -> Nat]
    BY DEF IInv, ListInv, TypeOK, BlockManagerTypeOK
  <2>2. /\ num_computed_tokens'[s] = k * BlockSize /\ cpu_block_table'[s] = <<>>
        /\ k * BlockSize <= Len(token_ids'[s])
    BY <1>1, <1>3, <1>4, <1>6, <2>1 DEF num_tokens
  <2>3. blocks_for(k * BlockSize) <= Len(block_table'[s])
    <3>1. k * BlockSize <= total /\ k * BlockSize \in Nat
      BY <1>1, <1>4
    <3> HIDE DEF total
    <3>2. blocks_for(k * BlockSize) <= blocks_for(total)
      BY <1>4, <1>5, <3>1, BlocksForMore
    <3> QED BY <1>12, <3>2
  <2>4. \A t \in Seqs \ {s} :
          /\ block_table'[t] = block_table[t] /\ cpu_block_table'[t] = cpu_block_table[t]
          /\ num_computed_tokens'[t] = num_computed_tokens[t]
          /\ Len(token_ids'[t]) = Len(token_ids[t])
    BY <1>3, <1>6, <1>8, <2>1
  <2> QED BY <2>2, <2>3, <2>4, OneSlotStep
<1>14. PublishedIsComputed'
  <2> SUFFICES ASSUME NEW t \in Seqs, NEW i \in DOMAIN (block_table'[t]),
                      block_hash'[block_table'[t][i]] # None
               PROVE  i * BlockSize <= num_computed_tokens'[t]
    BY DEF PublishedIsComputed
  <2>1. /\ t # s => block_table'[t] = block_table[t]
        /\ t = s => i <= Len(block_table[s]) + Len(cached)
        /\ block_hash[block_table'[t][i]] # None
    BY <1>8 DEF StillPublished
  <2>2. num_computed_tokens \in [Seqs -> Nat] /\ i \in Nat
    <3>1. block_table'[t] \in Seq(Blocks)
      BY <1>8
    <3>2. i \in Nat
      BY <3>1
    <3> QED BY <3>2 DEF IInv, ListInv, TypeOK, BlockManagerTypeOK
  <2>3. CASE t = s
    <3>1. i <= k
      BY <1>1, <1>3, <2>1, <2>2, <2>3
    <3>2. i * BlockSize <= k * BlockSize
      BY <1>1, <1>4, <2>2, <3>1, SMT
    <3> QED BY <1>6, <2>2, <2>3, <3>2
  <2>4. CASE t # s
    BY <1>6, <2>1, <2>2, <2>4 DEF IInv, ListInv, PublishedIsComputed
  <2> QED BY <2>3, <2>4
<1> QED
  BY <1>3, <1>8, <1>9, <1>11, <1>13, <1>14 DEF IInv, ListInv

\* Slots for more tokens are BlockPool's AppendSlots.
LEMMA ExtendStep ==
  ASSUME IInv, NEW s \in Seqs, Extend(s)
  PROVE  P!AppendSlots(s) /\ ListInv'
<1>1. /\ block_table[s] # <<>>
      /\ UNCHANGED <<cpu_free, cpu_block_table, num_registered_blocks, token_ids, num_computed_tokens>>
  BY DEF Extend, cpuVars
<1>2. PICK n \in 1..num_uncomputed_tokens(s) :
        /\ blocks_needed(s, n) >= 0 /\ can_append(s, n)
        /\ append_slots(s, n)
  BY DEF Extend
<1>3. /\ num_computed_tokens \in [Seqs -> Nat]
      /\ num_tokens(s) \in Nat /\ BlockSize \in Nat \ {0}
      /\ block_table \in [Seqs -> Seq(Blocks)]
  BY PoolAssumption, ClientAssumption DEF IInv, ListInv, TypeOK, BlockManagerTypeOK
<1> DEFINE total == num_computed_tokens[s] + n
           need == blocks_for(total) - Len(block_table[s])
<1>4. n \in Nat /\ n # 0 /\ total \in Nat /\ num_computed_tokens[s] <= num_tokens(s)
  <2>1. n \in Nat /\ n # 0
    BY <1>2, <1>3 DEF num_uncomputed_tokens
  <2> QED BY <1>3, <2>1 DEF IInv, ListInv, SlotsOK
<1>5. blocks_for(num_computed_tokens[s]) <= Len(block_table[s]) /\ cpu_block_table[s] = <<>>
  BY <1>1 DEF IInv, ListInv, SlotsOK
<1>6. /\ blocks_for(total) \in Nat /\ Len(block_table[s]) \in Nat /\ Len(block_table[s]) # 0
      /\ Len(block_table[s]) <= blocks_for(total)
      /\ blocks_for(num_computed_tokens[s]) \in Nat
  <2>1. blocks_for(total) \in Nat /\ blocks_for(num_computed_tokens[s]) \in Nat
    BY <1>3, <1>4, BlocksFor
  <2>2. blocks_for(total) - Len(block_table[s]) >= 0
    BY <1>2 DEF blocks_needed
  <2>3. Len(block_table[s]) \in Nat /\ Len(block_table[s]) # 0
    BY <1>1, <1>3
  <2> HIDE DEF total
  <2> QED BY <2>1, <2>2, <2>3
<1>7. /\ Acquire(s, <<>>, need) /\ need <= num_free_blocks /\ need \in Nat
  <2>1. Acquire(s, <<>>, need) /\ need <= num_free_blocks
    BY <1>2 DEF append_slots, can_append, blocks_needed
  <2> HIDE DEF total
  <2> QED BY <1>6, <2>1
<1> HIDE DEF need
<1>8. /\ \E new \in P!Picks(Range(free_blocks) \cup Range(evictable)) :
           /\ Len(new) = need /\ P!Acquire(s, <<>>, new)
      /\ ListsOK'
      /\ ref_counts' \in [Blocks -> Nat] /\ block_hash' \in [Blocks -> Digests \cup {None}]
      /\ DOMAIN (hash_to_block') \subseteq Digests /\ Range(hash_to_block') \subseteq Blocks
      /\ block_table' \in [Seqs -> Seq(Blocks)]
      /\ Len(block_table'[s]) = Len(block_table[s]) + need
      /\ \A t \in Seqs \ {s} : block_table'[t] = block_table[t]
      /\ \A t \in Seqs : \A i \in DOMAIN (block_table'[t]) :
           block_hash'[block_table'[t][i]] # None =>
             /\ i \in DOMAIN block_table[t] /\ block_table'[t][i] = block_table[t][i]
             /\ block_hash[block_table[t][i]] # None
  BY <1>7, PlainAcquire
<1>9. P!AppendSlots(s)
  <2>1. [t \in Seqs |-> Chain(token_ids[t])]' = [t \in Seqs |-> Chain(token_ids[t])]
    BY <1>1
  <2> QED BY <1>1, <1>8, <2>1 DEF P!AppendSlots
<1>10. TypeOK'
  BY <1>1, <1>2, <1>3, <1>4, <1>8 DEF IInv, ListInv, TypeOK, BlockManagerTypeOK, ListsOK, num_tokens
<1>11. Len(block_table[s]) <= Len(block_table'[s])
  BY <1>6, <1>7, <1>8
<1>12. SlotsOK'
  <2>1. /\ num_computed_tokens'[s] = num_computed_tokens[s] /\ cpu_block_table'[s] = <<>>
        /\ num_computed_tokens[s] <= Len(token_ids'[s])
    BY <1>1, <1>3, <1>4, <1>5 DEF num_tokens
  <2>2. \A t \in Seqs \ {s} :
          /\ block_table'[t] = block_table[t] /\ cpu_block_table'[t] = cpu_block_table[t]
          /\ num_computed_tokens'[t] = num_computed_tokens[t]
          /\ Len(token_ids'[t]) = Len(token_ids[t])
    BY <1>1, <1>3, <1>8
  <2>3. blocks_for(num_computed_tokens'[s]) <= Len(block_table'[s])
    <3>1. Len(block_table'[s]) \in Nat
      BY <1>8
    <3> QED BY <1>5, <1>6, <1>11, <2>1, <3>1
  <2> QED BY <2>1, <2>2, <2>3, OneSlotStep
<1>13. PublishedIsComputed'
  BY <1>1, <1>8 DEF IInv, ListInv, PublishedIsComputed
<1> QED
  BY <1>1, <1>8, <1>9, <1>10, <1>12, <1>13 DEF IInv, ListInv

\* Giving a table up is BlockPool's Return, and its Release if nothing is
\* published or sampled with it.
LEMMA ReleaseStep ==
  ASSUME IInv, NEW s \in Seqs, Release(s)
  PROVE  /\ P!Return(s)
         /\ UNCHANGED <<block_hash, hash_to_block, token_ids>> => P!Release(s)
         /\ ListsOK' /\ ref_counts' \in [Blocks -> Nat]
         /\ block_table' \in [Seqs -> Seq(Blocks)] /\ block_table'[s] = <<>>
         /\ \A t \in Seqs \ {s} : block_table'[t] = block_table[t]
<1> DEFINE table == block_table[s]
<1>1. /\ block_table \in [Seqs -> Seq(Blocks)]
      /\ ListsOK
  BY DEF IInv, ListInv, TypeOK, BlockManagerTypeOK
<1>2. /\ table \in Seq(Blocks) /\ IsInjective(table)
      /\ Range(table) \cap (Range(free_blocks) \cup Range(evictable)) = {}
      /\ Range(table) \subseteq Blocks
      /\ ref_counts \in [Blocks -> Nat]
      /\ \A b \in Range(table) : ref_counts[b] # 0
  <2>1. /\ table \in Seq(Blocks) /\ IsInjective(table)
        /\ Range(table) \cap (Range(free_blocks) \cup Range(evictable)) = {}
        /\ ref_counts \in [Blocks -> Nat]
    BY PoolFacts
  <2>2. Range(table) \subseteq Blocks
    BY <2>1 DEF Range
  <2> QED BY <2>1, <2>2, PoolFacts
<1>3. /\ ref_counts' = [b \in Blocks |-> IF b \in Range(table) THEN ref_counts[b] - 1 ELSE ref_counts[b]]
      /\ block_table' = [block_table EXCEPT ![s] = <<>>]
  BY DEF Release
<1> HIDE DEF table
<1>4. /\ free_blocks' \in Seq(Blocks) /\ IsInjective(free_blocks')
      /\ evictable' \in Seq(Blocks) /\ IsInjective(evictable')
      /\ Range(free_blocks') = Range(free_blocks)
           \cup {b \in Range(table) : ref_counts[b] = 1 /\ block_hash'[b] = None}
      /\ Range(evictable') = Range(evictable)
           \cup {b \in Range(table) : ref_counts[b] = 1 /\ block_hash'[b] # None}
  BY <1>1, <1>2, ReleaseReturns DEF table
<1>5. ListsOK'
  <2>1. Range(free_blocks') \cap Range(evictable') = {}
    BY <1>1, <1>2, <1>4 DEF ListsOK
  <2> QED BY <1>4, <2>1 DEF ListsOK
<1>6. P!Return(s)
  <2>1. P!Held(s) = Range(table)
    BY SameOperators DEF P!Held, table
  <2>2. P!last_held(s) = {b \in Range(table) : ref_counts[b] = 1}
    BY <2>1 DEF P!last_held
  <2>3. Range(free_blocks') = Range(free_blocks) \cup {b \in P!last_held(s) : block_hash'[b] = None}
    BY <1>4, <2>2
  <2>4. Range(evictable') = Range(evictable) \cup {b \in P!last_held(s) : block_hash'[b] # None}
    BY <1>4, <2>2
  <2> QED BY <1>3, <2>1, <2>3, <2>4 DEF P!Return
<1>7. ASSUME UNCHANGED <<block_hash, hash_to_block, token_ids>> PROVE P!Release(s)
  <2>1. /\ [t \in Seqs |-> Chain(token_ids[t])]' = [t \in Seqs |-> Chain(token_ids[t])]
        /\ [h \in Digests |-> IF h \in DOMAIN hash_to_block THEN hash_to_block[h] ELSE None]'
             = [h \in Digests |-> IF h \in DOMAIN hash_to_block THEN hash_to_block[h] ELSE None]
    BY <1>7
  <2> QED BY <1>6, <1>7, <2>1 DEF P!Release
<1> QED
  BY <1>1, <1>2, <1>3, <1>5, <1>6, <1>7

\* A sequence that gives its blocks up is BlockPool's Free.
LEMMA DropTableStep ==
  ASSUME IInv, NEW s \in Seqs, DropTable(s)
  PROVE  P!Free(s) /\ ListInv'
<1>1. /\ Release(s) /\ UNCHANGED <<block_hash, hash_to_block, token_ids, cpu_free, cpu_block_table>>
      /\ num_registered_blocks' = [num_registered_blocks EXCEPT ![s] = 0]
      /\ \/ UNCHANGED num_computed_tokens
         \/ num_computed_tokens' = [num_computed_tokens EXCEPT ![s] = 0]
      /\ block_table[s] # <<>>
  BY DEF DropTable, free, Unregister, cpuVars
<1>2. /\ P!Release(s)
      /\ ListsOK' /\ ref_counts' \in [Blocks -> Nat]
      /\ block_table' \in [Seqs -> Seq(Blocks)] /\ block_table'[s] = <<>>
      /\ \A t \in Seqs \ {s} : block_table'[t] = block_table[t]
  BY <1>1, ReleaseStep
<1>3. P!Free(s)
  BY <1>1, <1>2 DEF P!Free
<1>4. /\ num_computed_tokens \in [Seqs -> Nat]
      /\ num_tokens(s) \in Nat /\ cpu_block_table[s] = <<>> /\ num_computed_tokens[s] <= num_tokens(s)
  <2>1. num_computed_tokens \in [Seqs -> Nat] /\ token_ids[s] \in Seq(Tokens)
    BY DEF IInv, ListInv, TypeOK, BlockManagerTypeOK
  <2>2. cpu_block_table[s] = <<>> /\ num_computed_tokens[s] <= num_tokens(s)
    BY <1>1 DEF IInv, ListInv, SlotsOK
  <2>3. num_tokens(s) \in Nat
    BY <2>1 DEF num_tokens
  <2> QED BY <2>1, <2>2, <2>3
<1>5. /\ num_computed_tokens' \in [Seqs -> Nat] /\ num_computed_tokens'[s] <= num_tokens(s)
      /\ \A t \in Seqs \ {s} : num_computed_tokens'[t] = num_computed_tokens[t]
  BY <1>1, <1>4
<1>6. SlotsOK'
  <2>1. /\ num_computed_tokens'[s] <= Len(token_ids'[s])
        /\ block_table'[s] = <<>> /\ cpu_block_table'[s] = <<>>
    BY <1>1, <1>2, <1>4, <1>5 DEF num_tokens
  <2>2. \A t \in Seqs \ {s} :
          /\ block_table'[t] = block_table[t] /\ cpu_block_table'[t] = cpu_block_table[t]
          /\ num_computed_tokens'[t] = num_computed_tokens[t]
          /\ Len(token_ids'[t]) = Len(token_ids[t])
    BY <1>1, <1>2, <1>5
  <2> QED BY <2>1, <2>2, OneSlotStep
<1>7. PublishedIsComputed'
  <2>1. block_hash' = block_hash /\ DOMAIN <<>> = {}
    BY <1>1
  <2> SUFFICES ASSUME NEW t \in Seqs, NEW i \in DOMAIN (block_table'[t]),
                      block_hash'[block_table'[t][i]] # None
               PROVE  i * BlockSize <= num_computed_tokens'[t]
    BY DEF PublishedIsComputed
  <2>2. t # s
    BY <1>2, <2>1
  <2> QED BY <1>2, <1>5, <2>1, <2>2 DEF IInv, ListInv, PublishedIsComputed
<1>8. TypeOK'
  BY <1>1, <1>2, <1>4, <1>5 DEF IInv, ListInv, TypeOK, BlockManagerTypeOK, ListsOK, num_tokens
<1> QED
  BY <1>1, <1>2, <1>3, <1>6, <1>7, <1>8 DEF IInv, ListInv

\* Swapping a sequence out is BlockPool's SwapOut.
LEMMA SwapOutStep ==
  ASSUME IInv, NEW s \in Seqs, SwapOut(s)
  PROVE  P!SwapOut(s) /\ ListInv'
<1> DEFINE n == Len(block_table[s])
           cpu == SubSeq(cpu_free, 1, n)
<1>1. /\ Release(s) /\ UNCHANGED <<block_hash, hash_to_block, token_ids, num_computed_tokens>>
      /\ num_registered_blocks' = [num_registered_blocks EXCEPT ![s] = 0]
      /\ block_table[s] # <<>> /\ blocks_needed(s, 0) = 0 /\ n <= Len(cpu_free)
      /\ cpu_free' = Drop(cpu_free, n)
      /\ cpu_block_table' = [cpu_block_table EXCEPT ![s] = @ \o cpu]
  BY DEF SwapOut, swap_out, free, Unregister, can_swap_out
<1>2. /\ P!Release(s)
      /\ ListsOK' /\ ref_counts' \in [Blocks -> Nat]
      /\ block_table' \in [Seqs -> Seq(Blocks)] /\ block_table'[s] = <<>>
      /\ \A t \in Seqs \ {s} : block_table'[t] = block_table[t]
  BY <1>1, ReleaseStep
<1>3. /\ num_computed_tokens \in [Seqs -> Nat]
      /\ cpu_free \in Seq(CpuBlocks) /\ IsInjective(cpu_free) /\ cpu_block_table[s] = <<>>
      /\ cpu_block_table \in [Seqs -> Seq(CpuBlocks)]
      /\ n \in Nat /\ num_computed_tokens[s] <= num_tokens(s)
  <2>1. /\ num_computed_tokens \in [Seqs -> Nat]
        /\ cpu_free \in Seq(CpuBlocks) /\ IsInjective(cpu_free)
        /\ cpu_block_table \in [Seqs -> Seq(CpuBlocks)] /\ block_table \in [Seqs -> Seq(Blocks)]
    BY DEF IInv, ListInv, TypeOK, BlockManagerTypeOK
  <2>2. n \in Nat
    BY <2>1
  <2>3. cpu_block_table[s] = <<>> /\ num_computed_tokens[s] <= num_tokens(s)
    BY <1>1 DEF IInv, ListInv, SlotsOK
  <2> QED BY <2>1, <2>2, <2>3
<1>4. n = blocks_for(num_computed_tokens[s])
  <2>1. num_computed_tokens[s] + 0 = num_computed_tokens[s]
    BY <1>3
  <2>2. blocks_for(num_computed_tokens[s]) - n = 0
    BY <1>1, <2>1 DEF blocks_needed
  <2>3. blocks_for(num_computed_tokens[s]) \in Nat
    <3>1. BlockSize \in Nat \ {0}
      BY PoolAssumption
    <3> QED BY <1>3, <3>1, BlocksFor
  <2> QED BY <1>3, <2>2, <2>3
<1> HIDE DEF n
<1>5. /\ cpu \in Seq(CpuBlocks) /\ Len(cpu) = n /\ IsInjective(cpu)
      /\ cpu_free' \in Seq(CpuBlocks) /\ IsInjective(cpu_free')
      /\ Range(cpu) \subseteq Range(cpu_free)
      /\ Range(cpu_free') = Range(cpu_free) \ Range(cpu)
  BY <1>1, <1>3, CutList
<1> HIDE DEF cpu
<1>6. cpu_block_table' = [cpu_block_table EXCEPT ![s] = cpu]
  <2>1. cpu_block_table[s] \o cpu = cpu
    BY <1>3, <1>5
  <2> QED BY <1>1, <2>1
<1>7. P!SwapOut(s)
  <2>1. cpu \in Seq(Range(cpu_free))
    <3>1. \A i \in 1..Len(cpu) : cpu[i] \in Range(cpu)
      BY <1>5 DEF Range
    <3> QED BY <1>5, <3>1
  <2>2. IsFiniteSet(Range(cpu_free))
    BY <1>3, ListLength
  <2>3. cpu \in P!Picks(Range(cpu_free))
    BY <1>5, <2>1, <2>2, ListIsPick
  <2>4. Range(cpu_free') = Range(cpu_free) \ P!Range(cpu) /\ Len(cpu) = Len(block_table[s])
    BY <1>5, SameOperators DEF n
  <2> QED BY <1>2, <1>3, <1>6, <2>3, <2>4 DEF P!SwapOut
<1>8. TypeOK'
  BY <1>1, <1>2, <1>3, <1>5, <1>6, ZenonT(30) DEF IInv, ListInv, TypeOK, BlockManagerTypeOK, ListsOK, num_tokens
<1>9. SlotsOK'
  <2>1. /\ num_computed_tokens'[s] <= Len(token_ids'[s])
        /\ block_table'[s] = <<>>
        /\ Len(cpu_block_table'[s]) = blocks_for(num_computed_tokens'[s])
    BY <1>1, <1>2, <1>3, <1>4, <1>5, <1>6 DEF num_tokens
  <2>2. \A t \in Seqs \ {s} :
          /\ block_table'[t] = block_table[t] /\ cpu_block_table'[t] = cpu_block_table[t]
          /\ num_computed_tokens'[t] = num_computed_tokens[t]
          /\ Len(token_ids'[t]) = Len(token_ids[t])
    BY <1>1, <1>2, <1>3, <1>6
  <2> QED BY <2>1, <2>2, OneSlotStep
<1>10. PublishedIsComputed'
  <2>1. block_hash' = block_hash /\ DOMAIN <<>> = {}
    BY <1>1
  <2> SUFFICES ASSUME NEW t \in Seqs, NEW i \in DOMAIN (block_table'[t]),
                      block_hash'[block_table'[t][i]] # None
               PROVE  i * BlockSize <= num_computed_tokens'[t]
    BY DEF PublishedIsComputed
  <2>2. t # s
    BY <1>2, <2>1
  <2> QED BY <1>1, <1>2, <2>1, <2>2 DEF IInv, ListInv, PublishedIsComputed
<1> QED
  BY <1>2, <1>5, <1>7, <1>8, <1>9, <1>10 DEF IInv, ListInv

\* The host blocks of s go back: BlockPool's ReleaseCpu.
LEMMA FreeCpuStep ==
  ASSUME IInv, NEW s \in Seqs, free_cpu(s)
  PROVE  /\ P!ReleaseCpu(s)
         /\ cpu_free' \in Seq(CpuBlocks) /\ IsInjective(cpu_free')
         /\ cpu_block_table' \in [Seqs -> Seq(CpuBlocks)] /\ cpu_block_table'[s] = <<>>
         /\ \A t \in Seqs \ {s} : cpu_block_table'[t] = cpu_block_table[t]
<1>1. /\ cpu_free \in Seq(CpuBlocks) /\ IsInjective(cpu_free)
      /\ cpu_block_table \in [Seqs -> Seq(CpuBlocks)]
  BY DEF IInv, ListInv, TypeOK, BlockManagerTypeOK
<1>2. /\ cpu_block_table[s] \in Seq(CpuBlocks) /\ IsInjective(cpu_block_table[s])
      /\ Range(cpu_block_table[s]) \cap Range(cpu_free) = {}
  BY PoolFacts
<1>3. /\ cpu_free' = cpu_free \o cpu_block_table[s]
      /\ cpu_block_table' = [cpu_block_table EXCEPT ![s] = <<>>]
  BY DEF free_cpu
<1>4. /\ cpu_free' \in Seq(CpuBlocks) /\ IsInjective(cpu_free')
      /\ Range(cpu_free') = Range(cpu_free) \cup Range(cpu_block_table[s])
  BY <1>1, <1>2, <1>3, JoinLists
<1>5. P!ReleaseCpu(s)
  BY <1>3, <1>4, SameOperators DEF P!ReleaseCpu
<1> QED
  BY <1>1, <1>3, <1>4, <1>5

\* Swapping a sequence in is BlockPool's SwapIn.
LEMMA SwapInStep ==
  ASSUME IInv, NEW s \in Seqs, SwapIn(s)
  PROVE  /\ P!SwapIn(s) /\ ListInv'
         /\ \A j \in DOMAIN (block_table'[s]) : block_hash'[block_table'[s][j]] = None
<1>1. /\ block_table[s] = <<>> /\ cpu_block_table[s] # <<>>
      /\ UNCHANGED <<token_ids, num_computed_tokens>>
  BY DEF SwapIn
<1>2. PICK m \in 1..num_uncomputed_tokens(s) : can_swap_in(s, m, FALSE) /\ swap_in(s, m)
  BY DEF SwapIn
<1>3. /\ num_computed_tokens \in [Seqs -> Nat] /\ num_free_blocks \in Nat /\ BlockSize \in Nat \ {0}
      /\ block_table \in [Seqs -> Seq(Blocks)] /\ cpu_block_table \in [Seqs -> Seq(CpuBlocks)]
      /\ Len(cpu_block_table[s]) = blocks_for(num_computed_tokens[s])
      /\ num_tokens(s) \in Nat /\ num_computed_tokens[s] <= num_tokens(s)
  BY <1>1, PoolAssumption, ClientAssumption
     DEF num_free_blocks, IInv, ListInv, ListsOK, TypeOK, BlockManagerTypeOK, SlotsOK
<1>4. PICK n \in Nat : /\ n = blocks_for(num_computed_tokens[s] + m)
                       /\ Len(cpu_block_table[s]) <= n /\ Len(cpu_block_table[s]) \in Nat
                       /\ n <= num_free_blocks /\ Acquire(s, <<>>, n)
  <2>1. PICK c \in Nat : c = num_computed_tokens[s] /\ c + m \in Nat /\ c <= c + m
    BY <1>2, <1>3 DEF num_uncomputed_tokens
  <2>2. blocks_for(c) \in Nat /\ blocks_for(c + m) \in Nat /\ blocks_for(c) <= blocks_for(c + m)
    BY <1>3, <2>1, BlocksFor, BlocksForMore
  <2>3. Max({blocks_for(c), blocks_for(c + m)})
          = IF blocks_for(c) >= blocks_for(c + m) THEN blocks_for(c) ELSE blocks_for(c + m)
    BY <2>2, MaxOfTwo
  <2>4. Max({blocks_for(c), blocks_for(c + m)}) = blocks_for(c + m)
    BY <2>2, <2>3
  <2>5. Acquire(s, <<>>, blocks_for(c + m))
    BY <1>2, <1>3, <2>1, <2>4 DEF swap_in
  <2>6. blocks_for(c + m) <= num_free_blocks
    BY <1>2, <1>3, <2>1, <2>2 DEF can_swap_in, Available
  <2> QED BY <1>3, <2>1, <2>2, <2>5, <2>6
<1>5. /\ \E new \in P!Picks(Range(free_blocks) \cup Range(evictable)) :
           /\ Len(new) = n /\ P!Acquire(s, <<>>, new)
      /\ ListsOK'
      /\ ref_counts' \in [Blocks -> Nat] /\ block_hash' \in [Blocks -> Digests \cup {None}]
      /\ DOMAIN (hash_to_block') \subseteq Digests /\ Range(hash_to_block') \subseteq Blocks
      /\ block_table' \in [Seqs -> Seq(Blocks)]
      /\ Len(block_table'[s]) = Len(block_table[s]) + n
      /\ \A t \in Seqs \ {s} : block_table'[t] = block_table[t]
      /\ \A t \in Seqs : \A i \in DOMAIN (block_table'[t]) :
           block_hash'[block_table'[t][i]] # None =>
             /\ i \in DOMAIN block_table[t] /\ block_table'[t][i] = block_table[t][i]
             /\ block_hash[block_table[t][i]] # None
  BY <1>4, PlainAcquire
<1>6. /\ P!ReleaseCpu(s) /\ num_registered_blocks' = [num_registered_blocks EXCEPT ![s] = 0]
      /\ cpu_free' \in Seq(CpuBlocks) /\ IsInjective(cpu_free')
      /\ cpu_block_table' \in [Seqs -> Seq(CpuBlocks)] /\ cpu_block_table'[s] = <<>>
      /\ \A t \in Seqs \ {s} : cpu_block_table'[t] = cpu_block_table[t]
  BY <1>2, FreeCpuStep DEF swap_in, Unregister
<1>7. P!SwapIn(s)
  <2>1. [t \in Seqs |-> Chain(token_ids[t])]' = [t \in Seqs |-> Chain(token_ids[t])]
    BY <1>1
  <2>2. n >= Len(cpu_block_table[s])
    BY <1>4
  <2> QED BY <1>1, <1>5, <1>6, <2>1, <2>2 DEF P!SwapIn
<1>8. TypeOK'
  BY <1>1, <1>3, <1>5, <1>6 DEF IInv, ListInv, TypeOK, BlockManagerTypeOK, ListsOK, num_tokens
<1>9. SlotsOK'
  <2>1. Len(block_table'[s]) = n
    <3>1. Len(block_table[s]) = 0
      BY <1>1
    <3> QED BY <1>5, <3>1
  <2>2. num_computed_tokens'[s] <= Len(token_ids'[s])
    BY <1>1, <1>3 DEF num_tokens
  <2>3. \A t \in Seqs \ {s} :
          /\ block_table'[t] = block_table[t] /\ cpu_block_table'[t] = cpu_block_table[t]
          /\ num_computed_tokens'[t] = num_computed_tokens[t]
          /\ Len(token_ids'[t]) = Len(token_ids[t])
    BY <1>1, <1>5, <1>6
  <2>4. blocks_for(num_computed_tokens'[s]) <= Len(block_table'[s])
    BY <1>1, <1>3, <1>4, <2>1
  <2> QED BY <1>6, <2>2, <2>3, <2>4, OneSlotStep
<1>10. PublishedIsComputed'
  BY <1>1, <1>5 DEF IInv, ListInv, PublishedIsComputed
<1>11. ListInv'
  BY <1>5, <1>6, <1>7, <1>8, <1>9, <1>10 DEF IInv, ListInv
<1>12. \A j \in DOMAIN (block_table'[s]) : block_hash'[block_table'[s][j]] = None
  <2>1. DOMAIN block_table[s] = {}
    BY <1>1
  <2> QED BY <1>5, <2>1
<1> QED
  BY <1>7, <1>11, <1>12

\* Dropping a swapped-out sequence is BlockPool's FreeCpu.
LEMMA DropSwappedStep ==
  ASSUME IInv, NEW s \in Seqs, DropSwapped(s)
  PROVE  P!FreeCpu(s) /\ ListInv'
<1>1. /\ cpu_block_table[s] # <<>> /\ free_cpu(s)
      /\ UNCHANGED <<free_blocks, evictable, ref_counts, block_hash, hash_to_block, block_table,
                     num_registered_blocks, token_ids, num_computed_tokens>>
  BY DEF DropSwapped, gpuVars
<1>2. /\ P!ReleaseCpu(s)
      /\ cpu_free' \in Seq(CpuBlocks) /\ IsInjective(cpu_free')
      /\ cpu_block_table' \in [Seqs -> Seq(CpuBlocks)] /\ cpu_block_table'[s] = <<>>
      /\ \A t \in Seqs \ {s} : cpu_block_table'[t] = cpu_block_table[t]
  BY <1>1, FreeCpuStep
<1>3. P!FreeCpu(s)
  <2>1. /\ [t \in Seqs |-> Chain(token_ids[t])]' = [t \in Seqs |-> Chain(token_ids[t])]
        /\ [h \in Digests |-> IF h \in DOMAIN hash_to_block THEN hash_to_block[h] ELSE None]'
             = [h \in Digests |-> IF h \in DOMAIN hash_to_block THEN hash_to_block[h] ELSE None]
        /\ Range(free_blocks') = Range(free_blocks) /\ Range(evictable') = Range(evictable)
    BY <1>1
  <2> QED BY <1>1, <1>2, <2>1 DEF P!FreeCpu
<1>4. /\ num_computed_tokens \in [Seqs -> Nat] /\ block_table[s] = <<>>
      /\ num_computed_tokens[s] <= num_tokens(s)
  BY <1>1 DEF IInv, ListInv, TypeOK, BlockManagerTypeOK, SlotsOK
<1>5. TypeOK' /\ ListsOK'
  <2>1. ListsOK'
    BY <1>1 DEF IInv, ListInv, ListsOK, Blocks
  <2>2. TypeOK'
    BY <1>1, <1>2, <1>4 DEF IInv, ListInv, TypeOK, BlockManagerTypeOK, num_tokens
  <2> QED BY <2>1, <2>2
<1>6. SlotsOK'
  <2>1. /\ num_computed_tokens'[s] <= Len(token_ids'[s])
        /\ block_table'[s] = <<>> /\ cpu_block_table'[s] = <<>>
    BY <1>1, <1>2, <1>4 DEF num_tokens
  <2>2. \A t \in Seqs \ {s} :
          /\ block_table'[t] = block_table[t] /\ cpu_block_table'[t] = cpu_block_table[t]
          /\ num_computed_tokens'[t] = num_computed_tokens[t]
          /\ Len(token_ids'[t]) = Len(token_ids[t])
    BY <1>1, <1>2
  <2> QED BY <2>1, <2>2, OneSlotStep
<1>7. PublishedIsComputed'
  BY <1>1 DEF IInv, ListInv, PublishedIsComputed
<1> QED
  BY <1>2, <1>3, <1>5, <1>6, <1>7 DEF IInv, ListInv

\* Computed tokens publish the blocks they fill: BlockPool's Publish, or nothing
\* if they fill none that is new.
LEMMA PublishStep ==
  ASSUME IInv, NEW s \in Seqs, NEW computed \in Nat,
         num_computed_tokens[s] <= computed, computed <= num_tokens(s),
         block_table[s] # <<>>, blocks_for(computed) <= Len(block_table[s]),
         cache_full_blocks(s, computed)
  PROVE  /\ \/ P!Publish(s)
            \/ /\ block_hash' = block_hash
               /\ [h \in Digests |-> IF h \in DOMAIN hash_to_block THEN hash_to_block[h] ELSE None]'
                    = [h \in Digests |-> IF h \in DOMAIN hash_to_block THEN hash_to_block[h] ELSE None]
         /\ block_hash' \in [Blocks -> Digests \cup {None}]
         /\ DOMAIN (hash_to_block') \subseteq Digests /\ Range(hash_to_block') \subseteq Blocks
         /\ Registered(s, computed) \in Nat
         /\ \A t \in Seqs : \A i \in DOMAIN block_table[t] :
              block_hash'[block_table[t][i]] # None =>
                block_hash[block_table[t][i]] # None \/ (t = s /\ i * BlockSize <= computed)
<1> DEFINE table == block_table[s]
           c == [t \in Seqs |-> Chain(token_ids[t])][s]
           mapped == [h \in Digests |-> IF h \in DOMAIN hash_to_block THEN hash_to_block[h] ELSE None]
           new == NewlyFull(s, computed)
           hashes == {Hash(s, i) : i \in new}
           position(h) == CHOOSE i \in new : Hash(s, i) = h
           lo == num_registered_blocks[s] + 1
           hi == computed \div BlockSize
<1>1. /\ block_hash' = [b \in Blocks |-> IF \E i \in new : table[i] = b
                                         THEN Hash(s, CHOOSE i \in new : table[i] = b)
                                         ELSE block_hash[b]]
      /\ hash_to_block' = [h \in DOMAIN hash_to_block \cup hashes |->
                             IF h \in hashes THEN table[position(h)] ELSE hash_to_block[h]]
  BY DEF cache_full_blocks
<1>2. /\ num_computed_tokens \in [Seqs -> Nat] /\ num_registered_blocks \in [Seqs -> Nat]
      /\ token_ids[s] \in Seq(Tokens) /\ num_tokens(s) = Len(token_ids[s])
      /\ num_tokens(s) \in Nat /\ num_tokens(s) <= MaxTokens /\ BlockSize \in Nat \ {0}
      /\ DOMAIN hash_to_block \subseteq Digests
  BY PoolAssumption, ClientAssumption DEF IInv, ListInv, TypeOK, BlockManagerTypeOK, num_tokens
<1>3. computed \in Nat /\ computed <= num_tokens(s) /\ table # <<>> /\ blocks_for(computed) <= Len(table)
  OBVIOUS
<1>4. hi \in Nat /\ hi * BlockSize \in Nat /\ hi * BlockSize <= computed /\ lo \in Nat \ {0}
  <2>1. hi \in Nat
    BY <1>2, <1>3, Division
  <2>2. hi * BlockSize \in Nat
    BY <1>2, <2>1, SMT
  <2>3. hi <= computed \div BlockSize => hi * BlockSize <= computed
    BY <1>2, <1>3, <2>1, Quotient
  <2>4. hi <= computed \div BlockSize
    BY <2>1
  <2>5. lo \in Nat \ {0}
    BY <1>2
  <2> QED BY <2>1, <2>2, <2>3, <2>4, <2>5
<1>5. /\ Len(c) = num_tokens(s) \div BlockSize /\ Len(c) \in Nat /\ c \in Seq(Digests) /\ IsInjective(c)
      /\ \A i \in 1..Len(c) : c[i] = Hash(s, i)
  <2>1. c = Chain(token_ids[s])
    OBVIOUS
  <2> HIDE DEF c
  <2> QED BY <1>2, <2>1, ChainFacts DEF Hash
<1>6. hi <= Len(c)
  <2>1. hi * BlockSize <= num_tokens(s)
    BY <1>2, <1>3, <1>4
  <2> HIDE DEF hi
  <2>2. hi <= num_tokens(s) \div BlockSize
    BY <1>2, <1>4, <2>1, Quotient
  <2> QED BY <1>5, <2>2
<1>7. hi <= Len(table) /\ Len(table) \in Nat /\ table \in Seq(Blocks) /\ IsInjective(table)
  <2>1. hi <= blocks_for(computed) /\ blocks_for(computed) \in Nat
    BY <1>2, <1>3, <1>4, BlocksFor, BlocksForMore
  <2>2. Len(table) \in Nat /\ table \in Seq(Blocks) /\ IsInjective(table)
    BY PoolFacts
  <2> QED BY <1>3, <1>4, <2>1, <2>2
<1>8. new = IF PrefixCaching THEN {i \in lo..hi : block_hash[table[i]] = None /\ Hash(s, i) \notin DOMAIN hash_to_block}
                             ELSE {}
  BY DEF NewlyFull
<1> HIDE DEF new, c, lo, hi, table
<1>9. ASSUME NEW i \in new
      PROVE  /\ i \in lo..hi /\ i \in 1..Len(table) /\ i \in 1..Len(c) /\ i \in Nat
             /\ table[i] \in Blocks /\ block_hash[table[i]] = None
             /\ Hash(s, i) = c[i] /\ Hash(s, i) \in Digests /\ Hash(s, i) \notin DOMAIN hash_to_block
  <2>1. i \in lo..hi /\ block_hash[table[i]] = None /\ Hash(s, i) \notin DOMAIN hash_to_block
    BY <1>8
  <2>2. i \in 1..Len(table) /\ i \in 1..Len(c) /\ i \in Nat
    BY <1>4, <1>5, <1>6, <1>7, <2>1
  <2> QED BY <1>5, <1>7, <2>1, <2>2
<1>10. \A i, j \in new : (table[i] = table[j] \/ Hash(s, i) = Hash(s, j)) => i = j
  BY <1>5, <1>7, <1>9 DEF IsInjective
<1>11. \A i \in new : position(Hash(s, i)) = i
  <2> SUFFICES ASSUME NEW i \in new PROVE position(Hash(s, i)) = i
    OBVIOUS
  <2>1. position(Hash(s, i)) \in new /\ Hash(s, position(Hash(s, i))) = Hash(s, i)
    OBVIOUS
  <2> HIDE DEF position
  <2> QED BY <1>10, <2>1
<1>12. ASSUME new = {} PROVE block_hash' = block_hash /\ mapped' = mapped
  <2>1. block_hash \in [Blocks -> Digests \cup {None}]
    BY PoolFacts
  <2>2. block_hash' = block_hash
    BY <1>1, <1>12, <2>1
  <2>3. hashes = {}
    BY <1>12
  <2>4. /\ DOMAIN (hash_to_block') = DOMAIN hash_to_block
        /\ \A h \in DOMAIN hash_to_block : hash_to_block'[h] = hash_to_block[h]
    BY <1>1, <2>3
  <2>5. [h \in Digests |-> IF h \in DOMAIN hash_to_block THEN hash_to_block[h] ELSE None]' = mapped
    BY <2>4
  <2> QED BY <2>2, <2>5
<1>13. ASSUME new # {} PROVE P!Publish(s)
  <2> DEFINE news == {i \in lo..hi : P!Publishable(s, i)}
  <2>1. PICK i0 \in new : TRUE
    BY <1>13
  <2>2. lo \in 1..Len(table) /\ hi \in 1..Len(table)
    BY <1>4, <1>7, <1>9, <2>1
  <2>3. PrefixCaching
    BY <1>8, <2>1
  <2>4. news = new
    <3>1. ASSUME NEW i \in lo..hi
          PROVE  P!Publishable(s, i) <=> (block_hash[table[i]] = None /\ Hash(s, i) \notin DOMAIN hash_to_block)
      <4>1. i \in 1..Len(c)
        BY <1>4, <1>5, <1>6
      <4>2. c[i] \in Digests /\ c[i] = Hash(s, i)
        BY <1>5, <4>1
      <4>3. mapped[c[i]] = None <=> Hash(s, i) \notin DOMAIN hash_to_block
        BY <4>2, PoolFacts, NoneAssumption
      <4> HIDE DEF mapped
      <4> QED BY <4>3 DEF P!Publishable, mapped, table, c
    <3> QED BY <1>8, <2>3, <3>1
  <2> HIDE DEF news
  <2>5. block_hash' = [b \in Blocks |-> IF \E i \in news : table[i] = b
                                        THEN c[CHOOSE i \in news : table[i] = b]
                                        ELSE block_hash[b]]
    <3>1. ASSUME NEW b \in Blocks, NEW i \in new, table[i] = b
          PROVE  Hash(s, CHOOSE j \in new : table[j] = b) = c[CHOOSE j \in new : table[j] = b]
      <4>1. (CHOOSE j \in new : table[j] = b) \in new
        BY <3>1
      <4> QED BY <1>9, <4>1
    <3> QED BY <1>1, <2>4, <3>1
  <2>6. [h \in Digests |-> IF h \in DOMAIN (hash_to_block') THEN hash_to_block'[h] ELSE None]
          = [h \in Digests |-> IF \E i \in news : c[i] = h
                               THEN table[CHOOSE i \in news : c[i] = h]
                               ELSE mapped[h]]
    <3> SUFFICES ASSUME NEW h \in Digests
                 PROVE  (IF h \in DOMAIN (hash_to_block') THEN hash_to_block'[h] ELSE None)
                          = (IF \E i \in news : c[i] = h THEN table[CHOOSE i \in news : c[i] = h] ELSE mapped[h])
      BY Zenon
    <3>1. CASE \E i \in news : c[i] = h
      <4>1. PICK i \in new : c[i] = h
        BY <2>4, <3>1
      <4>2. h \in hashes /\ Hash(s, i) = h
        BY <1>9, <4>1
      <4>3. hash_to_block'[h] = table[i] /\ h \in DOMAIN (hash_to_block')
        BY <1>1, <1>11, <4>2, ZenonT(30)
      <4>4. (CHOOSE j \in news : c[j] = h) \in new /\ c[CHOOSE j \in news : c[j] = h] = h
        BY <2>4, <4>1
      <4>5. (CHOOSE j \in news : c[j] = h) = i
        BY <1>9, <1>10, <4>1, <4>4
      <4> QED BY <3>1, <4>3, <4>5
    <3>2. CASE ~\E i \in news : c[i] = h
      <4>1. h \notin hashes
        BY <1>9, <2>4, <3>2
      <4>2. /\ h \in DOMAIN (hash_to_block') <=> h \in DOMAIN hash_to_block
            /\ h \in DOMAIN hash_to_block => hash_to_block'[h] = hash_to_block[h]
        BY <1>1, <4>1
      <4> QED BY <3>2, <4>2
    <3> QED BY <3>1, <3>2
  <2>7. P!Publish(s)
    <3> DEFINE Body(l, h) ==
          LET positions == {i \in l..h : P!Publishable(s, i)} IN
          /\ h <= Len(c)
          /\ block_hash' = [b \in Blocks |-> IF \E i \in positions : table[i] = b
                                             THEN c[CHOOSE i \in positions : table[i] = b]
                                             ELSE block_hash[b]]
          /\ [g \in Digests |-> IF g \in DOMAIN hash_to_block THEN hash_to_block[g] ELSE None]'
               = [g \in Digests |-> IF \E i \in positions : c[i] = g
                                    THEN table[CHOOSE i \in positions : c[i] = g]
                                    ELSE mapped[g]]
    <3>1. Body(lo, hi)
      BY <1>6, <2>5, <2>6 DEF news
    <3>2. (\E l, h \in 1..Len(table) : Body(l, h)) => P!Publish(s)
      BY DEF P!Publish, c, table
    <3> HIDE DEF Body
    <3> QED BY <2>2, <3>1, <3>2
  <2> QED BY <2>7
<1>14. Registered(s, computed) \in Nat
  <2> DEFINE P0 == {num_registered_blocks[s], hi}
  <2>1. num_registered_blocks[s] + hi \in Nat /\ P0 \in SUBSET (0 .. num_registered_blocks[s] + hi) /\ P0 # {}
    BY <1>2, <1>4
  <2>2. Max(P0) \in P0
    BY <2>1, MaxExists
  <2> QED BY <1>2, <1>4, <2>2 DEF Registered, hi
<1>15. \A h \in DOMAIN (hash_to_block') : h \in Digests /\ hash_to_block'[h] \in Blocks
  <2> SUFFICES ASSUME NEW h \in DOMAIN (hash_to_block') PROVE h \in Digests /\ hash_to_block'[h] \in Blocks
    OBVIOUS
  <2>1. CASE h \in hashes
    <3>1. PICK i \in new : h = Hash(s, i)
      BY <2>1
    <3>2. hash_to_block'[h] = table[i]
      BY <1>1, <1>11, <2>1, <3>1, ZenonT(30)
    <3> QED BY <1>9, <3>1, <3>2
  <2>2. CASE h \notin hashes
    <3>1. h \in DOMAIN hash_to_block /\ hash_to_block'[h] = hash_to_block[h]
      BY <1>1, <2>2
    <3> QED BY <3>1, PoolFacts
  <2> QED BY <2>1, <2>2
<1>16. block_hash' \in [Blocks -> Digests \cup {None}]
  <2>1. block_hash \in [Blocks -> Digests \cup {None}]
    BY PoolFacts
  <2>2. \A b \in Blocks : (\E i \in new : table[i] = b) => (CHOOSE i \in new : table[i] = b) \in new
    OBVIOUS
  <2>3. \A b \in Blocks : (\E i \in new : table[i] = b) => Hash(s, CHOOSE i \in new : table[i] = b) \in Digests
    BY <1>9, <2>2
  <2> QED BY <1>1, <2>1, <2>3
<1>17. DOMAIN (hash_to_block') \subseteq Digests /\ Range(hash_to_block') \subseteq Blocks
  BY <1>15 DEF Range
<1>18. ASSUME NEW t \in Seqs, NEW i \in DOMAIN block_table[t],
              block_hash'[block_table[t][i]] # None, block_hash[block_table[t][i]] = None
       PROVE  t = s /\ i * BlockSize <= computed
  <2> DEFINE b == block_table[t][i]
  <2>1. i \in Nat /\ b \in Blocks /\ b \in Range(block_table[t])
    <3>1. block_table[t] \in Seq(Blocks)
      BY PoolFacts
    <3> QED BY <3>1 DEF Range
  <2>2. PICK j \in new : table[j] = b
    BY <1>1, <1>18, <2>1
  <2>3. b \in Range(table)
    BY <1>7, <1>9, <2>2 DEF Range
  <2>4. t = s
    BY <1>18, <2>1, <2>3, PoolFacts DEF table
  <2>5. i = j
    BY <1>7, <1>9, <1>18, <2>2, <2>4 DEF IsInjective, table
  <2>6. i <= hi
    BY <1>4, <1>9, <2>1, <2>5
  <2>7. i * BlockSize \in Nat /\ i * BlockSize <= hi * BlockSize
    BY <1>2, <1>4, <2>1, <2>6, SMT
  <2> QED BY <1>3, <1>4, <2>4, <2>7
<1> QED
  BY <1>12, <1>13, <1>14, <1>16, <1>17, <1>18

\* One token more fills at most one block more, and fills it to the last slot.
LEMMA OneMoreToken ==
  ASSUME NEW B \in Nat \ {0}, NEW n \in Nat
  PROVE  \/ (n + 1) \div B = n \div B
         \/ (n + 1) \div B = n \div B + 1 /\ (n \div B + 1) * B = n + 1
<1> DEFINE q == n \div B
           r == n % B
           p == (n + 1) \div B
<1>1. q \in Nat /\ r \in 0..B - 1 /\ n = q * B + r /\ p \in Nat
  <2>1. n + 1 \in Nat
    OBVIOUS
  <2>2. q \in Nat /\ r \in 0..B - 1 /\ n = q * B + r
    BY Division
  <2>3. p \in Nat
    BY <2>1, Division
  <2> QED BY <2>2, <2>3
<1> HIDE DEF q, r, p
<1>2. (q + 1) * B = q * B + B /\ (q + 2) * B = q * B + B + B /\ q * B \in Nat
  BY <1>1, SMT
<1>3. q <= p
  <2>1. q * B <= n + 1
    BY <1>1, <1>2
  <2> QED BY <1>1, <2>1, Quotient DEF p
<1>4. p < q + 2
  <2>1. n + 1 < (q + 2) * B
    BY <1>1, <1>2
  <2>2. q + 2 \in Nat /\ n + 1 \in Nat
    BY <1>1
  <2> QED BY <2>1, <2>2, Quotient DEF p
<1>5. ASSUME p = q + 1 PROVE (q + 1) * B = n + 1
  <2>1. (q + 1) * B <= n + 1
    <3>1. q + 1 \in Nat /\ n + 1 \in Nat /\ q + 1 <= p
      BY <1>1, <1>5
    <3> QED BY <3>1, Quotient DEF p
  <2> QED BY <1>1, <1>2, <2>1
<1>6. p = q \/ p = q + 1
  BY <1>1, <1>3, <1>4
<1> QED
  BY <1>5, <1>6 DEF p, q

\* A sampled token leaves the chain as it is, or extends it with a new hash.
LEMMA SampleStep ==
  ASSUME IInv, NEW s \in Seqs, Sample(s)
  PROVE  LET chains == [t \in Seqs |-> Chain(token_ids[t])] IN
         /\ \/ chains' = chains
            \/ \E h \in Digests \ P!Range(chains[s]) : chains' = [chains EXCEPT ![s] = Append(@, h)]
         /\ token_ids' \in [Seqs -> Seq(Tokens)]
         /\ \A t \in Seqs : Len(token_ids'[t]) \in 1..MaxTokens /\ Len(token_ids[t]) <= Len(token_ids'[t])
         /\ \A t \in Seqs \ {s} : token_ids'[t] = token_ids[t]
<1>1. num_tokens(s) < MaxTokens
  BY DEF Sample
<1>2. PICK x \in Tokens : token_ids' = [token_ids EXCEPT ![s] = Append(@, x)]
  BY DEF Sample
<1> DEFINE u == token_ids[s]
           v == Append(u, x)
           n == Len(u)
           q == n \div BlockSize
<1>3. /\ token_ids \in [Seqs -> Seq(Tokens)] /\ u \in Seq(Tokens) /\ n \in Nat /\ num_tokens(s) = n
      /\ n + 1 <= MaxTokens /\ BlockSize \in Nat \ {0} /\ MaxTokens \in Nat
      /\ \A t \in Seqs : Len(token_ids[t]) \in 1..MaxTokens
  BY <1>1, PoolAssumption, ClientAssumption DEF IInv, ListInv, TypeOK, num_tokens
<1>4. /\ v \in Seq(Tokens) /\ Len(v) = n + 1 /\ token_ids'[s] = v
      /\ \A t \in Seqs \ {s} : token_ids'[t] = token_ids[t]
      /\ \A j \in 1..n : v[j] = u[j]
  BY <1>2, <1>3
<1> HIDE DEF v
<1>5. /\ Chain(u) \in Seq(Digests) /\ Len(Chain(u)) = q /\ q \in Nat
      /\ \A i \in 1..q : i * BlockSize \in 1..n /\ Chain(u)[i] = SubSeq(u, 1, i * BlockSize)
  BY <1>3, ChainFacts
<1>6. /\ Chain(v) \in Seq(Digests) /\ IsInjective(Chain(v)) /\ Len(Chain(v)) = (n + 1) \div BlockSize
      /\ \A i \in 1 .. (n + 1) \div BlockSize : Chain(v)[i] = SubSeq(v, 1, i * BlockSize)
  BY <1>3, <1>4, ChainFacts
<1>7. \A k \in 1..n : SubSeq(v, 1, k) = SubSeq(u, 1, k)
  BY <1>3, <1>4
<1>8. \/ (n + 1) \div BlockSize = q
      \/ (n + 1) \div BlockSize = q + 1
  BY <1>3, OneMoreToken
<1> HIDE DEF u, n, q
<1>9. \A i \in 1..q : i \in 1 .. (n + 1) \div BlockSize /\ Chain(v)[i] = Chain(u)[i]
  <2> SUFFICES ASSUME NEW i \in 1..q
               PROVE  i \in 1 .. (n + 1) \div BlockSize /\ Chain(v)[i] = Chain(u)[i]
    OBVIOUS
  <2>1. i \in 1 .. (n + 1) \div BlockSize
    BY <1>5, <1>8
  <2>2. i * BlockSize \in 1..n
    BY <1>5
  <2>3. SubSeq(v, 1, i * BlockSize) = SubSeq(u, 1, i * BlockSize)
    BY <1>7, <2>2
  <2> QED BY <1>5, <1>6, <2>1, <2>3
<1> DEFINE chains == [t \in Seqs |-> Chain(token_ids[t])]
<1>10. chains[s] = Chain(u) /\ (chains')[s] = Chain(v) /\ \A t \in Seqs \ {s} : (chains')[t] = chains[t]
  BY <1>4 DEF u
<1>11. ASSUME (n + 1) \div BlockSize = q PROVE chains' = chains
  <2>1. Chain(v) = Chain(u)
    BY <1>5, <1>6, <1>9, <1>11
  <2> QED BY <1>10, <2>1
<1>12. ASSUME (n + 1) \div BlockSize = q + 1
       PROVE  \E h \in Digests \ P!Range(chains[s]) : chains' = [chains EXCEPT ![s] = Append(@, h)]
  <2> DEFINE h == Chain(v)[q + 1]
  <2>1. q + 1 \in 1..Len(Chain(v)) /\ h \in Digests /\ Len(Chain(v)) = q + 1
    BY <1>5, <1>6, <1>12
  <2>2. Chain(v) = Append(Chain(u), h)
    BY <1>5, <1>6, <1>9, <2>1
  <2>3. h \notin Range(Chain(u))
    <3> SUFFICES ASSUME NEW i \in 1..q, Chain(u)[i] = h PROVE FALSE
      BY <1>5 DEF Range
    <3>1. Chain(v)[i] = Chain(v)[q + 1] /\ i \in 1..Len(Chain(v)) /\ i # q + 1
      BY <1>5, <1>9, <2>1
    <3> QED BY <1>6, <2>1, <3>1 DEF IsInjective
  <2>4. chains' = [chains EXCEPT ![s] = Append(chains[s], h)]
    BY <1>10, <2>2
  <2>5. h \in Digests \ P!Range(chains[s])
    BY <1>10, <2>1, <2>3, SameOperators
  <2> HIDE DEF h
  <2> QED BY <2>4, <2>5
<1>13. token_ids' \in [Seqs -> Seq(Tokens)]
  BY <1>2, <1>3, <1>4 DEF u, v
<1>14. \A t \in Seqs : Len(token_ids'[t]) \in 1..MaxTokens /\ Len(token_ids[t]) <= Len(token_ids'[t])
  BY <1>3, <1>4 DEF u, n
<1> QED
  BY <1>4, <1>8, <1>11, <1>12, <1>13, <1>14

\* What update() does for one sequence is BlockPool's Update.
LEMMA UpdateStep ==
  ASSUME IInv, NEW s \in Seqs, Update(s)
  PROVE  P!Update(s) /\ ListInv'
<1> DEFINE table == block_table[s]
           chains == [t \in Seqs |-> Chain(token_ids[t])]
           mapped == [h \in Digests |-> IF h \in DOMAIN hash_to_block THEN hash_to_block[h] ELSE None]
<1>1. PICK n \in 1..num_uncomputed_tokens(s) :
        LET computed == num_computed_tokens[s] + n IN
        /\ blocks_for(computed) <= Len(block_table[s])
        /\ num_computed_tokens' = [num_computed_tokens EXCEPT ![s] = computed]
        /\ cache_full_blocks(s, computed)
        /\ IF computed = num_tokens(s) THEN Sample(s) ELSE UNCHANGED token_ids
        /\ \/ /\ num_registered_blocks' = [num_registered_blocks EXCEPT ![s] = Registered(s, computed)]
              /\ UNCHANGED <<free_blocks, evictable, ref_counts, block_table>>
           \/ /\ computed = num_tokens(s)
              /\ Release(s) /\ Unregister(s)
  BY DEF Update
<1>2. /\ num_computed_tokens \in [Seqs -> Nat] /\ num_registered_blocks \in [Seqs -> Nat]
      /\ num_tokens(s) \in Nat /\ num_tokens(s) = Len(token_ids[s]) /\ BlockSize \in Nat \ {0}
      /\ token_ids \in [Seqs -> Seq(Tokens)] /\ \A t \in Seqs : Len(token_ids[t]) \in 1..MaxTokens
      /\ block_table \in [Seqs -> Seq(Blocks)] /\ ref_counts \in [Blocks -> Nat] /\ ListsOK
  BY PoolAssumption, ClientAssumption DEF IInv, ListInv, TypeOK, BlockManagerTypeOK, num_tokens
<1>3. PICK computed \in Nat : computed = num_computed_tokens[s] + n
  BY <1>2
<1>4. num_computed_tokens[s] < computed /\ computed <= num_tokens(s)
  <2>1. n \in Nat /\ 1 <= n /\ n <= num_tokens(s) - num_computed_tokens[s]
    BY <1>2 DEF num_uncomputed_tokens
  <2> QED BY <1>2, <1>3, <2>1
<1>5. /\ blocks_for(computed) <= Len(block_table[s])
      /\ num_computed_tokens' = [num_computed_tokens EXCEPT ![s] = computed]
      /\ cache_full_blocks(s, computed)
      /\ Sample(s) \/ UNCHANGED token_ids
      /\ \/ /\ num_registered_blocks' = [num_registered_blocks EXCEPT ![s] = Registered(s, computed)]
            /\ UNCHANGED <<free_blocks, evictable, ref_counts, block_table>>
         \/ Release(s) /\ Unregister(s)
      /\ UNCHANGED <<cpu_free, cpu_block_table>>
  BY <1>1, <1>3 DEF Update, cpuVars
<1>6. table # <<>> /\ cpu_block_table[s] = <<>>
  <2>1. blocks_for(computed) \in Nat /\ blocks_for(computed) # 0
    BY <1>2, <1>3, <1>4, BlocksFor, BlocksForMore
  <2>2. table # <<>>
    BY <1>5, <2>1
  <2> QED BY <2>2 DEF IInv, ListInv, SlotsOK
<1>7. /\ \/ P!Publish(s)
         \/ block_hash' = block_hash /\ mapped' = mapped
      /\ block_hash' \in [Blocks -> Digests \cup {None}]
      /\ DOMAIN (hash_to_block') \subseteq Digests /\ Range(hash_to_block') \subseteq Blocks
      /\ Registered(s, computed) \in Nat
      /\ \A t \in Seqs : \A i \in DOMAIN block_table[t] :
           block_hash'[block_table[t][i]] # None =>
             block_hash[block_table[t][i]] # None \/ (t = s /\ i * BlockSize <= computed)
  <2>1. num_computed_tokens[s] <= computed
    BY <1>2, <1>4
  <2> QED BY <1>4, <1>5, <1>6, <2>1, PublishStep
<1>8. /\ \/ chains' = chains
         \/ \E h \in Digests \ P!Range(chains[s]) : chains' = [chains EXCEPT ![s] = Append(@, h)]
      /\ token_ids' \in [Seqs -> Seq(Tokens)]
      /\ \A t \in Seqs : Len(token_ids'[t]) \in 1..MaxTokens /\ Len(token_ids[t]) <= Len(token_ids'[t])
      /\ \A t \in Seqs \ {s} : token_ids'[t] = token_ids[t]
  <2>1. CASE Sample(s)
    BY <2>1, SampleStep
  <2>2. CASE UNCHANGED token_ids
    <3>1. chains' = chains
      BY <2>2
    <3>2. \A t \in Seqs : Len(token_ids[t]) <= Len(token_ids[t])
      BY <1>2
    <3> QED BY <1>2, <2>2, <3>1, <3>2
  <2> QED BY <1>5, <2>1, <2>2
<1>9. /\ \/ P!Return(s)
         \/ /\ Range(free_blocks)' = Range(free_blocks) /\ Range(evictable)' = Range(evictable)
            /\ UNCHANGED <<ref_counts, block_table>>
      /\ ListsOK' /\ ref_counts' \in [Blocks -> Nat]
      /\ block_table' \in [Seqs -> Seq(Blocks)]
      /\ block_table'[s] = <<>> \/ block_table'[s] = table
      /\ \A t \in Seqs \ {s} : block_table'[t] = block_table[t]
      /\ num_registered_blocks' \in [Seqs -> Nat]
  <2>1. CASE Release(s) /\ Unregister(s)
    BY <1>2, <2>1, ReleaseStep DEF Unregister
  <2>2. CASE /\ num_registered_blocks' = [num_registered_blocks EXCEPT ![s] = Registered(s, computed)]
             /\ UNCHANGED <<free_blocks, evictable, ref_counts, block_table>>
    <3>1. ListsOK'
      BY <1>2, <2>2 DEF ListsOK, Blocks
    <3> QED BY <1>2, <1>7, <2>2, <3>1
  <2> QED BY <1>5, <2>1, <2>2
<1>10. P!Update(s)
  <2>1. Range(cpu_free)' = Range(cpu_free)
    BY <1>5
  <2> QED BY <1>5, <1>7, <1>8, <1>9, <2>1 DEF P!Update
<1>11. TypeOK'
  <2>1. num_computed_tokens' \in [Seqs -> Nat]
    BY <1>2, <1>5
  <2> QED BY <1>5, <1>7, <1>8, <1>9, <2>1 DEF IInv, ListInv, TypeOK, BlockManagerTypeOK, ListsOK, num_tokens
<1>12. SlotsOK'
  <2>1. num_computed_tokens'[s] = computed /\ \A t \in Seqs \ {s} : num_computed_tokens'[t] = num_computed_tokens[t]
    BY <1>2, <1>5
  <2>2. computed <= Len(token_ids'[s])
    <3>1. Len(token_ids'[s]) \in Nat /\ Len(token_ids[s]) <= Len(token_ids'[s])
      BY <1>8
    <3> QED BY <1>2, <1>4, <3>1
  <2>3. /\ cpu_block_table'[s] = <<>>
        /\ block_table'[s] # <<>> => blocks_for(computed) <= Len(block_table'[s])
    BY <1>5, <1>6, <1>9
  <2>4. \A t \in Seqs \ {s} :
          /\ block_table'[t] = block_table[t] /\ cpu_block_table'[t] = cpu_block_table[t]
          /\ num_computed_tokens'[t] = num_computed_tokens[t]
          /\ Len(token_ids'[t]) = Len(token_ids[t])
    BY <1>5, <1>8, <1>9, <2>1
  <2> QED BY <2>1, <2>2, <2>3, <2>4, OneSlotStep
<1>13. PublishedIsComputed'
  <2> SUFFICES ASSUME NEW t \in Seqs, NEW i \in DOMAIN (block_table'[t]),
                      block_hash'[block_table'[t][i]] # None
               PROVE  i * BlockSize <= num_computed_tokens'[t]
    BY DEF PublishedIsComputed
  <2>1. block_table'[t] = block_table[t] /\ i \in DOMAIN block_table[t] /\ i \in Nat
    <3>1. block_table'[t] = block_table[t] \/ block_table'[t] = <<>>
      BY <1>9
    <3>2. DOMAIN <<>> = {}
      OBVIOUS
    <3>3. block_table[t] \in Seq(Blocks)
      BY <1>2
    <3> QED BY <3>1, <3>2, <3>3
  <2>2. CASE t = s /\ i * BlockSize <= computed
    BY <1>2, <1>5, <2>2
  <2>3. CASE block_hash[block_table[t][i]] # None
    <3>1. i * BlockSize <= num_computed_tokens[t]
      BY <2>1, <2>3 DEF IInv, ListInv, PublishedIsComputed
    <3>2. i * BlockSize \in Nat
      <4>1. i \in Nat /\ BlockSize \in Nat
        BY <2>1, PoolAssumption
      <4> QED BY <4>1, SMT
    <3>3. num_computed_tokens[t] \in Nat /\ num_computed_tokens'[t] \in Nat
          /\ num_computed_tokens[t] <= num_computed_tokens'[t]
      BY <1>2, <1>4, <1>5
    <3> QED BY <3>1, <3>2, <3>3
  <2> QED BY <1>7, <2>1, <2>2, <2>3
<1>14. (IsInjective(cpu_free))'
  BY <1>5 DEF IInv, ListInv
<1> QED
  BY <1>9, <1>10, <1>11, <1>12, <1>13, <1>14 DEF ListInv

-----------------------------------------------------------------------------
\* The counter of a fresh pool: 0 .. n - 1 in order.
LEMMA FreshList ==
  ASSUME NEW n \in Nat
  PROVE  /\ [i \in 1..n |-> i - 1] \in Seq(0..n - 1)
         /\ IsInjective([i \in 1..n |-> i - 1])
         /\ Range([i \in 1..n |-> i - 1]) = 0..n - 1
<1> DEFINE l == [i \in 1..n |-> i - 1]
<1>1. \A i \in 1..n : i - 1 \in 0..n - 1 /\ l[i] = i - 1
  OBVIOUS
<1>2. DOMAIN l = 1..n /\ l \in Seq(0..n - 1)
  BY <1>1
<1>3. \A b \in 0..n - 1 : b + 1 \in 1..n /\ l[b + 1] = b
  BY <1>1
<1> HIDE DEF l
<1>4. IsInjective(l)
  BY <1>1, <1>2 DEF IsInjective
<1>5. Range(l) = 0..n - 1
  <2>1. \A b \in Range(l) : b \in 0..n - 1
    BY <1>1, <1>2 DEF Range
  <2>2. \A b \in 0..n - 1 : b \in Range(l)
    BY <1>2, <1>3 DEF Range
  <2> QED BY <2>1, <2>2
<1> QED BY <1>2, <1>4, <1>5 DEF l

LEMMA ClientInit == Init => IInv /\ P!Init
<1> SUFFICES ASSUME Init PROVE ListInv /\ P!Init
  BY PoolSteps DEF IInv
<1>1. NumBlocks \in Nat /\ NumCpuBlocks \in Nat
  BY PoolAssumption
<1>2. /\ free_blocks = [i \in 1..NumBlocks |-> i - 1] /\ evictable = <<>>
      /\ ref_counts = [b \in Blocks |-> 0] /\ block_hash = [b \in Blocks |-> None]
      /\ hash_to_block = <<>>
      /\ cpu_free = [i \in 1..NumCpuBlocks |-> i - 1]
      /\ block_table = [s \in Seqs |-> <<>>] /\ cpu_block_table = [s \in Seqs |-> <<>>]
      /\ num_registered_blocks = [s \in Seqs |-> 0] /\ num_computed_tokens = [s \in Seqs |-> 0]
      /\ token_ids \in [Seqs -> Prompts]
  BY DEF Init, BlockManagerInit
<1>3. /\ free_blocks \in Seq(Blocks) /\ IsInjective(free_blocks) /\ Range(free_blocks) = Blocks
      /\ cpu_free \in Seq(CpuBlocks) /\ IsInjective(cpu_free) /\ Range(cpu_free) = CpuBlocks
  BY <1>1, <1>2, FreshList DEF Blocks, CpuBlocks
<1>4. /\ evictable \in Seq(Blocks) /\ IsInjective(evictable) /\ Range(evictable) = {}
      /\ DOMAIN hash_to_block = {} /\ Range(hash_to_block) = {}
  BY <1>2 DEF IsInjective, Range
<1>5. \A s \in Seqs : token_ids[s] \in Seq(Tokens) /\ Len(token_ids[s]) \in 1..MaxTokens
  BY <1>2, ClientAssumption
<1>6. TypeOK
  <2>1. token_ids \in [Seqs -> Seq(Tokens)]
    BY <1>2, <1>5
  <2> QED BY <1>2, <1>3, <1>4, <1>5, <2>1 DEF TypeOK, BlockManagerTypeOK, num_tokens
<1>7. ListsOK
  BY <1>3, <1>4 DEF ListsOK
<1>8. SlotsOK
  <2>1. MaxTokens \in Nat
    BY ClientAssumption
  <2> QED BY <1>2, <1>5, <2>1 DEF SlotsOK, num_tokens
<1>9. PublishedIsComputed
  BY <1>2 DEF PublishedIsComputed
<1>10. P!Init
  <2>1. [h \in Digests |-> IF h \in DOMAIN hash_to_block THEN hash_to_block[h] ELSE None]
          = [h \in Digests |-> None]
    BY <1>4
  <2>2. [s \in Seqs |-> Chain(token_ids[s])] \in [Seqs -> {Chain(p) : p \in Prompts}]
    BY <1>2
  <2> QED BY <1>2, <1>3, <1>4, <2>1, <2>2 DEF P!Init
<1> QED
  BY <1>3, <1>6, <1>7, <1>8, <1>9, <1>10 DEF ListInv

LEMMA ClientStep ==
  ASSUME IInv, [Next]_vars
  PROVE  [P!Next]_(P!vars) /\ IInv'
<1>1. ASSUME UNCHANGED vars PROVE UNCHANGED P!vars /\ ListInv'
  <2> USE <1>1 DEF vars, gpuVars, cpuVars
  <2>1. UNCHANGED P!vars
    <3>1. /\ [t \in Seqs |-> Chain(token_ids[t])]' = [t \in Seqs |-> Chain(token_ids[t])]
          /\ [h \in Digests |-> IF h \in DOMAIN hash_to_block THEN hash_to_block[h] ELSE None]'
               = [h \in Digests |-> IF h \in DOMAIN hash_to_block THEN hash_to_block[h] ELSE None]
          /\ Range(free_blocks)' = Range(free_blocks) /\ Range(evictable)' = Range(evictable)
          /\ Range(cpu_free)' = Range(cpu_free)
      OBVIOUS
    <3> QED BY <3>1 DEF P!vars
  <2>2. ListsOK' /\ (IsInjective(cpu_free))'
    BY DEF IInv, ListInv, ListsOK, Blocks
  <2>3. TypeOK'
    BY DEF IInv, ListInv, TypeOK, BlockManagerTypeOK, num_tokens
  <2>4. SlotsOK'
    BY DEF IInv, ListInv, SlotsOK, num_tokens, blocks_for
  <2>5. PublishedIsComputed'
    BY DEF IInv, ListInv, PublishedIsComputed
  <2> QED BY <2>1, <2>2, <2>3, <2>4, <2>5 DEF ListInv
<1>2. ASSUME Next PROVE P!Next /\ ListInv'
  <2> SUFFICES ASSUME NEW s \in Seqs,
                      \/ Start(s) \/ Extend(s) \/ Update(s)
                      \/ DropTable(s) \/ SwapOut(s) \/ SwapIn(s) \/ DropSwapped(s)
               PROVE  P!Next /\ ListInv'
    BY <1>2 DEF Next
  <2>1. CASE Start(s)
    BY <2>1, StartStep DEF P!Next
  <2>2. CASE Extend(s)
    BY <2>2, ExtendStep DEF P!Next
  <2>3. CASE Update(s)
    BY <2>3, UpdateStep DEF P!Next
  <2>4. CASE DropTable(s)
    BY <2>4, DropTableStep DEF P!Next
  <2>5. CASE SwapOut(s)
    BY <2>5, SwapOutStep DEF P!Next
  <2>6. CASE SwapIn(s)
    BY <2>6, SwapInStep DEF P!Next
  <2>7. CASE DropSwapped(s)
    BY <2>7, DropSwappedStep DEF P!Next
  <2> QED BY <2>1, <2>2, <2>3, <2>4, <2>5, <2>6, <2>7
<1>3. [P!Next]_(P!vars) /\ ListInv'
  BY <1>1, <1>2
<1>4. P!IInv'
  BY <1>3, PoolSteps DEF IInv
<1> QED
  BY <1>3, <1>4 DEF IInv

THEOREM Invariance == Spec => []IInv
<1>1. Init => IInv
  BY ClientInit
<1>2. IInv /\ [Next]_vars => IInv'
  BY ClientStep
<1> QED BY <1>1, <1>2, PTL DEF Spec

\* The free list, the LRU list and the blocks in use make up the pool.
LEMMA AccountsForPool == IInv => NoLeak
<1> SUFFICES ASSUME IInv PROVE NoLeak
  OBVIOUS
<1> DEFINE idle == Range(free_blocks) \cup Range(evictable)
           used == {b \in Blocks : ref_counts[b] > 0}
<1>1. ListsOK /\ IsInjective(cpu_free)
  BY DEF IInv, ListInv
<1>2. IsInjective(free_blocks \o evictable)
  BY <1>1, JoinLists DEF ListsOK
<1>3. /\ IsFiniteSet(Range(free_blocks)) /\ Len(free_blocks) = Cardinality(Range(free_blocks))
      /\ Range(free_blocks) \subseteq Blocks
  BY <1>1, ListLength DEF ListsOK
<1>4. /\ IsFiniteSet(Range(evictable)) /\ Len(evictable) = Cardinality(Range(evictable))
      /\ Range(evictable) \subseteq Blocks
  BY <1>1, ListLength DEF ListsOK
<1>5. Cardinality(idle) = Len(free_blocks) + Len(evictable)
  <2>1. Cardinality(Range(free_blocks) \cup Range(evictable))
          = Cardinality(Range(free_blocks)) + Cardinality(Range(evictable))
              - Cardinality(Range(free_blocks) \cap Range(evictable))
    BY <1>3, <1>4, FS_Union
  <2>2. Cardinality(Range(free_blocks) \cap Range(evictable)) = 0
    BY <1>1, FS_EmptySet DEF ListsOK
  <2>3. Len(free_blocks) \in Nat /\ Len(evictable) \in Nat
    BY <1>1 DEF ListsOK
  <2> QED BY <1>3, <1>4, <2>1, <2>2, <2>3
<1>6. used = Blocks \ idle
  BY <1>3, <1>4, PoolFacts
<1> HIDE DEF used, idle
<1>7. idle \subseteq Blocks /\ Blocks \cap idle = idle
  BY <1>3, <1>4 DEF idle
<1>8. Cardinality(Blocks \ idle) = NumBlocks - Cardinality(idle)
  BY <1>7, BlocksFinite, FS_Difference
<1>9. Len(free_blocks) + Len(evictable) \in Nat /\ NumBlocks \in Nat
  BY <1>1, PoolAssumption DEF ListsOK
<1>10. num_free_blocks + Cardinality(used) = NumBlocks
  BY <1>5, <1>6, <1>8, <1>9 DEF num_free_blocks
<1> QED BY <1>1, <1>2, <1>10 DEF NoLeak, used

\* What the pool promises its client, in terms of tables and lists.
LEMMA PoolPromises ==
  ASSUME IInv
  PROVE  /\ BlockManagerTypeOK /\ NoLeak /\ PublishedIsComputed
         /\ \A b \in Blocks :
              /\ ref_counts[b] = Cardinality({s \in Seqs : b \in Range(block_table[s])})
              /\ ref_counts[b] > 0 <=> \E s \in Seqs : b \in Range(block_table[s])
         /\ \A s, t \in Seqs : \A b \in Range(block_table[s]) \cap Range(block_table[t]) :
              s # t => block_hash[b] # None
         /\ \A s \in Seqs : IsInjective(cpu_block_table[s])
         /\ \A c \in CpuBlocks : c \in Range(cpu_free) <=> \A s \in Seqs : c \notin Range(cpu_block_table[s])
         /\ \A s, t \in Seqs : \A c \in Range(cpu_block_table[s]) \cap Range(cpu_block_table[t]) : s = t
<1>1. BlockManagerTypeOK /\ NoLeak /\ PublishedIsComputed
  BY AccountsForPool DEF IInv, ListInv, TypeOK
<1>2. P!RefCountsAreHolders /\ P!OnePool /\ P!SharedIsPublished /\ P!HostPool
  BY DEF IInv, P!IInv
<1>3. \A s \in Seqs : P!Held(s) = Range(block_table[s]) /\ P!Range(cpu_block_table[s]) = Range(cpu_block_table[s])
  BY SameOperators DEF P!Held
<1>4. ASSUME NEW b \in Blocks
      PROVE  /\ ref_counts[b] = Cardinality({s \in Seqs : b \in Range(block_table[s])})
             /\ ref_counts[b] > 0 <=> \E s \in Seqs : b \in Range(block_table[s])
  <2>1. P!Holders(b) = {s \in Seqs : b \in Range(block_table[s])}
    BY <1>3 DEF P!Holders
  <2>2. ref_counts[b] = Cardinality(P!Holders(b))
    BY <1>2, SameOperators DEF P!RefCountsAreHolders
  <2>3. ref_counts[b] \in Nat
    BY PoolFacts
  <2>4. ref_counts[b] = 0 <=> b \in Range(free_blocks) \cup Range(evictable)
    BY PoolFacts
  <2>5. (\E s \in Seqs : b \in Range(block_table[s])) <=> b \notin Range(free_blocks) \cup Range(evictable)
    BY <1>2, <1>3 DEF P!OnePool
  <2> QED BY <2>1, <2>2, <2>3, <2>4, <2>5
<1>5. \A s, t \in Seqs : \A b \in Range(block_table[s]) \cap Range(block_table[t]) :
        s # t => block_hash[b] # None
  BY <1>2, <1>3 DEF P!SharedIsPublished
<1>6. \A s \in Seqs : IsInjective(cpu_block_table[s])
  BY PoolFacts
<1>7. \A c \in CpuBlocks : c \in Range(cpu_free) <=> \A s \in Seqs : c \notin Range(cpu_block_table[s])
  BY <1>2, <1>3 DEF P!HostPool
<1>8. \A s, t \in Seqs : \A c \in Range(cpu_block_table[s]) \cap Range(cpu_block_table[t]) : s = t
  <2> SUFFICES ASSUME NEW s \in Seqs, NEW t \in Seqs,
                      NEW c \in Range(cpu_block_table[s]) \cap Range(cpu_block_table[t])
               PROVE  s = t
    OBVIOUS
  <2>1. c \in CpuBlocks
    BY <1>1 DEF BlockManagerTypeOK, Range
  <2>2. PICK r \in Seqs : \A q \in Seqs \ {r} : c \notin P!Range(cpu_block_table[q])
    BY <1>2, <1>3, <2>1 DEF P!HostPool
  <2> QED BY <1>3, <2>2
<1> QED BY <1>1, <1>4, <1>5, <1>6, <1>7, <1>8

\* No series of calls loses a block of block_manager.py's deques or counts one
\* twice: the free list, the LRU list and the blocks in use make up the pool.
THEOREM ListsAccountForPool == Spec => []NoLeak
BY AccountsForPool, Invariance, PTL

\* The prefix cache never offers a block whose tokens are not all computed.
THEOREM OnlyComputedIsPublished == Spec => []PublishedIsComputed
<1>1. IInv => PublishedIsComputed
  BY DEF IInv, ListInv
<1> QED BY <1>1, Invariance, PTL

\* The lists, the token counts and the hash map of block_manager.py implement
\* the allocator of BlockPool: every step is one of its steps or a stutter.
THEOREM Refinement == Spec => ImplementsPool
<1>1. P!Init => Pool!Init
  BY DEF P!Init, Pool!Init
<1>2. P!Next => Pool!Next
  <2>1. \A s : P!Allocate(s) => Pool!Allocate(s)
    BY DEF P!Allocate, Pool!Allocate, P!Acquire, Pool!Acquire, P!counted, Pool!counted, P!Hits, Pool!Hits, P!Picks, Pool!Picks, P!Range, Pool!Range, P!IsInjective, Pool!IsInjective, P!Cardinality, Pool!Cardinality
  <2>2. \A s : P!AppendSlots(s) => Pool!AppendSlots(s)
    BY DEF P!AppendSlots, Pool!AppendSlots, P!Acquire, Pool!Acquire, P!counted, Pool!counted, P!Picks, Pool!Picks, P!Range, Pool!Range, P!IsInjective, Pool!IsInjective, P!Cardinality, Pool!Cardinality
  <2>3. \A s : P!Update(s) => Pool!Update(s)
    <3>1. \A s : P!Publish(s) => Pool!Publish(s)
      BY DEF P!Publish, Pool!Publish, P!Publishable, Pool!Publishable
    <3>2. \A s : P!Return(s) => Pool!Return(s)
      BY DEF P!Return, Pool!Return, P!last_held, Pool!last_held, P!Held, Pool!Held, P!Range, Pool!Range
    <3> QED BY <3>1, <3>2 DEF P!Update, Pool!Update, P!Range, Pool!Range
  <2>4. \A s : P!Free(s) => Pool!Free(s)
    BY DEF P!Free, Pool!Free, P!Release, Pool!Release, P!Return, Pool!Return, P!last_held, Pool!last_held, P!Held, Pool!Held, P!Range, Pool!Range
  <2>5. \A s : P!SwapOut(s) => Pool!SwapOut(s)
    BY DEF P!SwapOut, Pool!SwapOut, P!Release, Pool!Release, P!Return, Pool!Return, P!last_held, Pool!last_held, P!Held, Pool!Held, P!Picks, Pool!Picks, P!Range, Pool!Range, P!IsInjective, Pool!IsInjective, P!Cardinality, Pool!Cardinality
  <2>6. \A s : P!SwapIn(s) => Pool!SwapIn(s)
    BY DEF P!SwapIn, Pool!SwapIn, P!Acquire, Pool!Acquire, P!counted, Pool!counted, P!Picks, Pool!Picks, P!Range, Pool!Range, P!IsInjective, Pool!IsInjective, P!Cardinality, Pool!Cardinality, P!ReleaseCpu, Pool!ReleaseCpu
  <2>7. \A s : P!FreeCpu(s) => Pool!FreeCpu(s)
    BY DEF P!FreeCpu, Pool!FreeCpu, P!ReleaseCpu, Pool!ReleaseCpu, P!Range, Pool!Range
  <2> QED BY <2>1, <2>2, <2>3, <2>4, <2>5, <2>6, <2>7 DEF P!Next, Pool!Next
<1>3. Init => Pool!Init
  BY <1>1, ClientInit
<1>4. IInv /\ [Next]_vars => [Pool!Next]_(Pool!vars)
  <2>1. UNCHANGED P!vars => UNCHANGED Pool!vars
    BY DEF P!vars, Pool!vars
  <2> QED BY <1>2, <2>1, ClientStep
<1> QED BY <1>3, <1>4, Invariance, PTL DEF Spec, ImplementsPool, Pool!Spec
==============================================================================
