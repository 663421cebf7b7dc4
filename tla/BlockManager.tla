---------------------------- MODULE BlockManager ----------------------------
(***************************************************************************)
(* engine/core/block_manager.py: the KV-cache page allocator, its two free *)
(* lists in their order (free_blocks first in first out, evictable oldest  *)
(* first), the prefix cache, and the host pool of swapped-out sequences.   *)
(*                                                                         *)
(* The module declares the state and gives one operator per method; the    *)
(* clients that call them are BlockManagerClient (any client that keeps    *)
(* the contract) and Scheduler.                                            *)
(*                                                                         *)
(* A block's content is named by the tokens whose K/V it depends on: the   *)
(* hash of the i-th block of a sequence is its whole prefix up to the end  *)
(* of that block, which is what a chain of SHA-256 digests without         *)
(* collision identifies.  seq.block_hashes is a memo of those prefixes, so *)
(* it is not a variable, and neither are the two hit-rate counters.        *)
(***************************************************************************)
EXTENDS Integers, Sequences, FiniteSetsExt, Functions, SequencesExt

CONSTANTS Seqs,            \* sequences (requests)
          NumBlocks,       \* num_blocks
          BlockSize,       \* block_size, tokens per block
          NumCpuBlocks,    \* num_cpu_blocks
          WatermarkBlocks, \* watermark_blocks
          PrefixCaching,   \* enable_prefix_caching
          None             \* Python's None

ASSUME PoolAssumption ==
  /\ NumBlocks \in Nat \ {0} /\ BlockSize \in Nat \ {0} /\ NumCpuBlocks \in Nat
  /\ WatermarkBlocks \in 0..NumBlocks - 1    \* watermark is in [0, 1)
  /\ PrefixCaching \in BOOLEAN

VARIABLES free_blocks, evictable, ref_counts, block_hash, hash_to_block, cpu_free,
          \* fields of Sequence that the allocator writes
          block_table, cpu_block_table, num_registered_blocks,
          \* fields it reads, written by its client
          token_ids, num_computed_tokens

gpuVars == <<free_blocks, evictable, ref_counts, block_hash, hash_to_block, block_table>>
cpuVars == <<cpu_free, cpu_block_table>>

Blocks == 0..NumBlocks - 1
CpuBlocks == 0..NumCpuBlocks - 1

BlockManagerInit ==
  /\ free_blocks = [i \in 1..NumBlocks |-> i - 1]
  /\ evictable = <<>>
  /\ ref_counts = [b \in Blocks |-> 0]
  /\ block_hash = [b \in Blocks |-> None]
  /\ hash_to_block = <<>>
  /\ cpu_free = [i \in 1..NumCpuBlocks |-> i - 1]
  /\ block_table = [s \in Seqs |-> <<>>]
  /\ cpu_block_table = [s \in Seqs |-> <<>>]
  /\ num_registered_blocks = [s \in Seqs |-> 0]
  /\ num_computed_tokens = [s \in Seqs |-> 0]

num_tokens(s) == Len(token_ids[s])
num_uncomputed_tokens(s) == num_tokens(s) - num_computed_tokens[s]

num_free_blocks == Len(free_blocks) + Len(evictable)
blocks_for(n) == (n + BlockSize - 1) \div BlockSize
blocks_needed(s, n) == blocks_for(num_computed_tokens[s] + n) - Len(block_table[s])

\* l without its first k members.
Drop(l, k) == SubSeq(l, k + 1, Len(l))

\* The members of l that are in T, in their order (SelectSeq, in terms that a
\* prover can expand).
Filter(l, T) ==
  LET kept == {i \in DOMAIN l : l[i] \in T}
      rank(i) == Cardinality({j \in kept : j <= i})
  IN [k \in 1..Cardinality(kept) |-> l[CHOOSE i \in kept : rank(i) = k]]

-----------------------------------------------------------------------------
\* The hash of the i-th block of s.
Hash(s, i) == SubSeq(token_ids[s], 1, i * BlockSize)

\* The longest cached prefix of s, short of the block of its last token.
cached_prefix(s) ==
  LET max_blocks == IF PrefixCaching THEN (num_tokens(s) - 1) \div BlockSize ELSE 0
      hits == Max({k \in 0..max_blocks : \A i \in 1..k : Hash(s, i) \in DOMAIN hash_to_block})
  IN [i \in 1..hits |-> hash_to_block[Hash(s, i)]]

\* Mutant: blocks are published once their tokens are known and have slots,
\* computed or not.
NewlyFullByTokens(s, computed) ==
  IF ~PrefixCaching THEN {}
  ELSE {i \in num_registered_blocks[s] + 1 .. Min({num_tokens(s) \div BlockSize, Len(block_table[s])}) :
          block_hash[block_table[s][i]] = None /\ Hash(s, i) \notin DOMAIN hash_to_block}

\* The positions of s that become full once `computed` of its tokens are, are
\* not cache hits themselves, and whose content nobody has published before.
NewlyFull(s, computed) ==
  IF ~PrefixCaching THEN {}
  ELSE {i \in num_registered_blocks[s] + 1 .. computed \div BlockSize :
          block_hash[block_table[s][i]] = None /\ Hash(s, i) \notin DOMAIN hash_to_block}

\* cache_full_blocks when `computed` tokens of s are computed; its caller sets
\* num_registered_blocks to Registered.
cache_full_blocks(s, computed) ==
  LET new == NewlyFull(s, computed)
      hashes == {Hash(s, i) : i \in new}
      position(h) == CHOOSE i \in new : Hash(s, i) = h
  IN
  /\ block_hash' = [b \in Blocks |-> IF \E i \in new : block_table[s][i] = b
                                     THEN Hash(s, CHOOSE i \in new : block_table[s][i] = b)
                                     ELSE block_hash[b]]
  /\ hash_to_block' = [h \in DOMAIN hash_to_block \cup hashes |->
                         IF h \in hashes THEN block_table[s][position(h)] ELSE hash_to_block[h]]

Registered(s, computed) ==
  IF PrefixCaching THEN Max({num_registered_blocks[s], computed \div BlockSize})
  ELSE num_registered_blocks[s]

-----------------------------------------------------------------------------
\* num_free_blocks less the watermark kept back while others run.
Available(use_watermark) ==
  num_free_blocks - (IF use_watermark THEN WatermarkBlocks ELSE 0)

can_allocate(s, n, cached, use_watermark) ==
  LET needed == blocks_for(Len(cached) * BlockSize + n) - Len(cached)
      pinned == Cardinality({b \in Range(cached) : ref_counts[b] = 0})
  IN needed <= Available(use_watermark) - pinned

can_append(s, n) == blocks_needed(s, n) <= num_free_blocks

can_swap_out(s) == Len(block_table[s]) <= Len(cpu_free)

can_swap_in(s, n, use_watermark) ==
  blocks_for(num_computed_tokens[s] + n) <= Available(use_watermark)

\* Mutant: a cache hit on a block in use is not counted.
uncounted(b) == Max({1, ref_counts[b]})

\* The reference count of a cache hit.
counted(b) == ref_counts[b] + 1

\* The table of s gains the cache hits, then what k calls of _take_free_block
\* return: the head of the free list, then the oldest of the LRU list, whose
\* content leaves the cache.
Acquire(s, cached, k) ==
  LET lru     == Filter(evictable, Blocks \ Range(cached))
      new     == SubSeq(free_blocks \o lru, 1, k)
      evicted == Range(SubSeq(lru, 1, k - Len(free_blocks)))
  IN
  /\ free_blocks' = Drop(free_blocks, k)
  /\ evictable' = Filter(lru, Blocks \ evicted)
  /\ ref_counts' = [b \in Blocks |-> IF b \in Range(new) THEN 1
                                     ELSE IF b \in Range(cached) THEN counted(b)
                                     ELSE ref_counts[b]]
  /\ block_hash' = [b \in Blocks |-> IF b \in evicted THEN None ELSE block_hash[b]]
  /\ hash_to_block' = Restrict(hash_to_block, {h \in DOMAIN hash_to_block : hash_to_block[h] \notin evicted})
  /\ block_table' = [block_table EXCEPT ![s] = @ \o cached \o new]

\* allocate: s starts with the blocks of `cached` and room for n tokens more.
allocate(s, n, cached) ==
  LET computed == Len(cached) * BlockSize IN
  /\ Acquire(s, cached, blocks_for(computed + n) - Len(cached))
  /\ num_computed_tokens' = [num_computed_tokens EXCEPT ![s] = computed]
  /\ num_registered_blocks' = [num_registered_blocks EXCEPT ![s] = Len(cached)]

append_slots(s, n) == Acquire(s, <<>>, blocks_needed(s, n))

\* Mutant: unpublished blocks are forgotten.
forgotten(last) == <<>>

\* Which released blocks go to the free list, and to the LRU list.  Reads
\* block_hash' because update publishes the full blocks of s just before.
unpublished(last) == Filter(last, {b \in Blocks : block_hash'[b] = None})

\* Mutant: every released block goes to the LRU list.
all_released(last) == last

published(last) == Filter(last, {b \in Blocks : block_hash'[b] # None})

\* free, up to num_registered_blocks: the blocks whose last holder s is go to
\* the LRU list if published and to the free list if not, tail first.
Release(s) ==
  LET last == Filter(Reverse(block_table[s]), {b \in Blocks : ref_counts[b] = 1}) IN
  /\ ref_counts' = [b \in Blocks |-> IF b \in Range(block_table[s]) THEN ref_counts[b] - 1
                                                                    ELSE ref_counts[b]]
  /\ evictable' = evictable \o published(last)
  /\ free_blocks' = free_blocks \o unpublished(last)
  /\ block_table' = [block_table EXCEPT ![s] = <<>>]

Unregister(s) == num_registered_blocks' = [num_registered_blocks EXCEPT ![s] = 0]

free(s) ==
  /\ UNCHANGED <<block_hash, hash_to_block>>
  /\ Release(s)
  /\ Unregister(s)

-----------------------------------------------------------------------------
\* The (gpu_block, cpu_block) copies that swap_out returns.
SwapOutPairs(s) == [k \in DOMAIN block_table[s] |-> <<block_table[s][k], cpu_free[k]>>]

\* swap_out: the head of the host free list for the blocks of s, then free.
swap_out(s) ==
  LET n == Len(block_table[s]) IN
  /\ cpu_free' = Drop(cpu_free, n)
  /\ cpu_block_table' = [cpu_block_table EXCEPT ![s] = @ \o SubSeq(cpu_free, 1, n)]
  /\ free(s)

free_cpu(s) ==
  /\ cpu_free' = cpu_free \o cpu_block_table[s]
  /\ cpu_block_table' = [cpu_block_table EXCEPT ![s] = <<>>]

\* swap_in: a GPU block for every host block of s, which goes back, and then
\* the append_slots of n tokens that follows in the scheduler.
swap_in(s, n) ==
  /\ Acquire(s, <<>>, Max({Len(cpu_block_table[s]), blocks_for(num_computed_tokens[s] + n)}))
  /\ free_cpu(s)
  /\ Unregister(s)

\* The (cpu_block, gpu_block) copies that swap_in returns.
SwapInPairs(s) == [k \in DOMAIN cpu_block_table[s] |-> <<cpu_block_table[s][k], block_table'[s][k]>>]

-----------------------------------------------------------------------------
BlockManagerTypeOK ==
  /\ free_blocks \in Seq(Blocks) /\ evictable \in Seq(Blocks)
  /\ ref_counts \in [Blocks -> Nat]
  /\ DOMAIN block_hash = Blocks /\ Range(hash_to_block) \subseteq Blocks
  /\ cpu_free \in Seq(CpuBlocks)
  /\ block_table \in [Seqs -> Seq(Blocks)]
  /\ cpu_block_table \in [Seqs -> Seq(CpuBlocks)]
  /\ num_registered_blocks \in [Seqs -> Nat] /\ num_computed_tokens \in [Seqs -> Nat]
=============================================================================
