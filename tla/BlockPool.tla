------------------------------ MODULE BlockPool ------------------------------
(***************************************************************************)
(* What the KV-cache page allocator of engine/core/block_manager.py        *)
(* promises, at the granularity of blocks.  The order of the free deque    *)
(* and of the LRU list is abstracted to sets, and a block's content to the *)
(* link of the hash chain (seq.block_hashes) it holds: token counts and    *)
(* block size appear in BlockManager, which implements this module.        *)
(*                                                                         *)
(* Every public method that changes the pools is one action.  The client   *)
(* rules are the two assertions of the code: allocate and swap_in start    *)
(* from an empty block table.                                              *)
(***************************************************************************)
EXTENDS Integers, Sequences, FiniteSets, Functions

CONSTANTS Seqs,       \* sequences (requests)
          Blocks,     \* GPU blocks: range(num_blocks)
          CpuBlocks,  \* host blocks: range(num_cpu_blocks)
          Hashes,     \* links of hash chains (SHA-256 digests, collision free)
          Chains,     \* hash chains that prompts come with
          None        \* Python's None

ASSUME SeqsAssumption == IsFiniteSet(Seqs)
ASSUME ChainsAssumption == \A c \in Chains : c \in Seq(Hashes) /\ IsInjective(c)
ASSUME NoneAssumption == None \notin Hashes /\ None \notin Blocks

VARIABLES free_blocks,      \* set of free_blocks
          evictable,        \* set of evictable
          ref_counts,       \* block -> number of block tables holding it
          block_hash,       \* block -> the hash it is published under, or None
          hash_to_block,    \* hash -> the block published under it, or None
          block_table,      \* sequence -> its page table
          chain,            \* sequence -> block_hashes
          cpu_free,         \* set of cpu_free
          cpu_block_table   \* sequence -> its host blocks

vars == <<free_blocks, evictable, ref_counts, block_hash, hash_to_block, block_table,
          chain, cpu_free, cpu_block_table>>

\* The blocks in the table of s.
Held(s) == Range(block_table[s])

\* The live tables that hold b: what ref_counts[b] counts.
Holders(b) == {s \in Seqs : b \in Held(s)}

\* Lists of distinct members of S: what successive pops of a free list return.
Picks(S) == {p \in UNION {[1..n -> S] : n \in 0..Cardinality(S)} : IsInjective(p)}

Init ==
  /\ free_blocks = Blocks
  /\ evictable = {}
  /\ ref_counts = [b \in Blocks |-> 0]
  /\ block_hash = [b \in Blocks |-> None]
  /\ hash_to_block = [h \in Hashes |-> None]
  /\ block_table = [s \in Seqs |-> <<>>]
  /\ chain \in [Seqs -> Chains]
  /\ cpu_free = CpuBlocks
  /\ cpu_block_table = [s \in Seqs |-> <<>>]

-----------------------------------------------------------------------------
\* Mutant: a cache hit on a block in use is not counted.
uncounted(b) == IF b \in evictable THEN 1 ELSE ref_counts[b]

\* The reference count of a cache hit.
counted(b) == ref_counts[b] + 1

\* The table of s gains the cache hits `cached`, then the blocks `new` that
\* _take_free_block returned: free ones first, and cached ones only once the
\* free list is empty, each leaving the prefix cache as it is taken.
Acquire(s, cached, new) ==
  LET hits    == Range(cached)
      taken   == Range(new)
      evicted == taken \cap evictable
  IN
  /\ evicted # {} => free_blocks \subseteq taken
  /\ free_blocks' = free_blocks \ taken
  /\ evictable' = evictable \ (hits \cup taken)
  /\ ref_counts' = [b \in Blocks |-> IF b \in taken THEN 1
                                     ELSE IF b \in hits THEN counted(b)
                                     ELSE ref_counts[b]]
  /\ block_hash' = [b \in Blocks |-> IF b \in evicted THEN None ELSE block_hash[b]]
  /\ hash_to_block' = [h \in Hashes |-> IF hash_to_block[h] \in evicted
                                        THEN None ELSE hash_to_block[h]]
  /\ block_table' = [block_table EXCEPT ![s] = @ \o cached \o new]

\* Mutant: the hits in the wrong order.
HitsReversed(s, k) == [i \in 1..k |-> hash_to_block[chain[s][k + 1 - i]]]

\* The leading k blocks of s found in the cache (cached_prefix).
Hits(s, k) == [i \in 1..k |-> hash_to_block[chain[s][i]]]

\* Start s on k cached blocks and fresh ones (cached_prefix, allocate).
Allocate(s) ==
  /\ block_table[s] = <<>> /\ cpu_block_table[s] = <<>>
  /\ \E k \in 0..Len(chain[s]) :
       /\ \A i \in 1..k : hash_to_block[chain[s][i]] # None
       /\ \E new \in Picks((free_blocks \cup evictable) \ Range(Hits(s, k))) :
            Acquire(s, Hits(s, k), new)
  /\ UNCHANGED <<chain, cpu_free, cpu_block_table>>

\* append_slots: room for more tokens.
AppendSlots(s) ==
  /\ block_table[s] # <<>>
  /\ \E new \in Picks(free_blocks \cup evictable) : Acquire(s, <<>>, new)
  /\ UNCHANGED <<chain, cpu_free, cpu_block_table>>

\* Mutant: a block may be published beside an equal one.
PublishableAgain(s, i) == block_hash[block_table[s][i]] = None

\* Position i of s goes to the cache: not a hit itself, and nobody was first.
Publishable(s, i) ==
  /\ block_hash[block_table[s][i]] = None
  /\ hash_to_block[chain[s][i]] = None

\* Some of the positions lo..hi of s, which became full, are published.
Publish(s) ==
  \E lo, hi \in 1..Len(block_table[s]) :
    LET news == {i \in lo..hi : Publishable(s, i)} IN
    /\ hi <= Len(chain[s])
    /\ block_hash' =
         [b \in Blocks |-> IF \E i \in news : block_table[s][i] = b
                           THEN chain[s][CHOOSE i \in news : block_table[s][i] = b]
                           ELSE block_hash[b]]
    /\ hash_to_block' =
         [h \in Hashes |-> IF \E i \in news : chain[s][i] = h
                           THEN block_table[s][CHOOSE i \in news : chain[s][i] = h]
                           ELSE hash_to_block[h]]

\* Mutant: blocks are returned without asking whether this was the last holder.
held_blocks(s) == Held(s)

\* The blocks that s holds alone.
last_held(s) == {b \in Held(s) : ref_counts[b] = 1}

\* The table of s is given up; a block nobody else holds becomes evictable if
\* it is published by then and free otherwise.
Return(s) ==
  /\ ref_counts' = [b \in Blocks |-> IF b \in Held(s) THEN ref_counts[b] - 1
                                                      ELSE ref_counts[b]]
  /\ free_blocks' = free_blocks \cup {b \in last_held(s) : block_hash'[b] = None}
  /\ evictable' = evictable \cup {b \in last_held(s) : block_hash'[b] # None}
  /\ block_table' = [block_table EXCEPT ![s] = <<>>]

\* update() for one sequence: the blocks it has filled are published, its chain
\* may grow with the token it samples (a hash names a whole prefix, so it never
\* occurs twice in a chain), and it gives its table up if that token ends it.
Update(s) ==
  /\ Publish(s) \/ UNCHANGED <<block_hash, hash_to_block>>
  /\ \/ UNCHANGED chain
     \/ \E h \in Hashes \ Range(chain[s]) : chain' = [chain EXCEPT ![s] = Append(@, h)]
  /\ Return(s) \/ UNCHANGED <<free_blocks, evictable, ref_counts, block_table>>
  /\ UNCHANGED <<cpu_free, cpu_block_table>>

\* free
Release(s) ==
  /\ UNCHANGED <<block_hash, hash_to_block, chain>>
  /\ Return(s)

Free(s) ==
  /\ Release(s)
  /\ UNCHANGED <<cpu_free, cpu_block_table>>

\* swap_out: one host block per block of s, then free.
SwapOut(s) ==
  /\ cpu_block_table[s] = <<>>
  /\ \E cpu \in Picks(cpu_free) :
       /\ Len(cpu) = Len(block_table[s])
       /\ cpu_free' = cpu_free \ Range(cpu)
       /\ cpu_block_table' = [cpu_block_table EXCEPT ![s] = cpu]
  /\ Release(s)

\* Mutant: the host table is not cleared.
ReleaseCpuKeepsTable(s) ==
  cpu_free' = cpu_free \cup Range(cpu_block_table[s]) /\ UNCHANGED cpu_block_table

\* The host blocks of s go back.
ReleaseCpu(s) ==
  /\ cpu_free' = cpu_free \cup Range(cpu_block_table[s])
  /\ cpu_block_table' = [cpu_block_table EXCEPT ![s] = <<>>]

\* swap_in and the append_slots behind it: a fresh GPU block for each host block
\* of s, and more for the tokens it will compute.
SwapIn(s) ==
  /\ block_table[s] = <<>>
  /\ \E new \in Picks(free_blocks \cup evictable) :
       /\ Len(new) >= Len(cpu_block_table[s])
       /\ Acquire(s, <<>>, new)
  /\ ReleaseCpu(s)
  /\ UNCHANGED chain

\* free_cpu: a swapped-out sequence is dropped.
FreeCpu(s) ==
  /\ ReleaseCpu(s)
  /\ UNCHANGED <<free_blocks, evictable, ref_counts, block_hash, hash_to_block,
                 block_table, chain>>

Next == \E s \in Seqs :
  \/ Allocate(s)
  \/ AppendSlots(s)
  \/ Update(s)
  \/ Free(s)
  \/ SwapOut(s)
  \/ SwapIn(s)
  \/ FreeCpu(s)

Spec == Init /\ [][Next]_vars

-----------------------------------------------------------------------------
\* Every variable has its type.
TypeOK ==
  /\ free_blocks \subseteq Blocks
  /\ evictable \subseteq Blocks
  /\ ref_counts \in [Blocks -> Nat]
  /\ block_hash \in [Blocks -> Hashes \cup {None}]
  /\ hash_to_block \in [Hashes -> Blocks \cup {None}]
  /\ block_table \in [Seqs -> Seq(Blocks)]
  /\ chain \in [Seqs -> Seq(Hashes)]
  /\ cpu_free \subseteq CpuBlocks
  /\ cpu_block_table \in [Seqs -> Seq(CpuBlocks)]

\* A block's reference count is the number of live block tables containing it
\* (the module docstring's invariant), so the last holder's release is the one
\* that returns it.
RefCountsAreHolders ==
  \A b \in Blocks : ref_counts[b] = Cardinality(Holders(b))

\* Every GPU block is in exactly one pool: free, evictable, or held by a table.
OnePool ==
  /\ free_blocks \cap evictable = {}
  /\ \A b \in Blocks : (\E s \in Seqs : b \in Held(s)) <=> b \notin free_blocks \cup evictable

\* The two halves of the prefix cache are inverse of each other; what waits on
\* the LRU list is still published, what is on the free list is not.
CacheConsistent ==
  /\ \A h \in Hashes : hash_to_block[h] # None => block_hash[hash_to_block[h]] = h
  /\ \A b \in Blocks : block_hash[b] # None => hash_to_block[block_hash[b]] = b
  /\ \A b \in evictable : block_hash[b] # None
  /\ \A b \in free_blocks : block_hash[b] = None

\* A block in two tables is a published one: a block still being written is
\* never shared, so no sequence writes into what another one reads.
SharedIsPublished ==
  \A s, t \in Seqs : \A b \in Held(s) \cap Held(t) : s # t => block_hash[b] # None

\* A table maps no block twice, and a published block stands in a table only
\* at the position its own content belongs to: a cache hit never serves the
\* K/V of another prefix.
RightContent == \A s \in Seqs :
  /\ IsInjective(block_table[s])
  /\ \A i \in DOMAIN block_table[s] :
       LET h == block_hash[block_table[s][i]] IN
       h # None => i <= Len(chain[s]) /\ chain[s][i] = h

\* The host pool loses no block and lends none twice.
HostPool ==
  /\ \A s \in Seqs : IsInjective(cpu_block_table[s])
  /\ \A c \in CpuBlocks :
       \/ c \in cpu_free /\ \A s \in Seqs : c \notin Range(cpu_block_table[s])
       \/ c \notin cpu_free /\ \E s \in Seqs : /\ c \in Range(cpu_block_table[s])
                                               /\ \A t \in Seqs \ {s} : c \notin Range(cpu_block_table[t])

\* No step takes a block that was held out of the cache, or republishes it
\* under another hash: what a sequence shares stays what it is while it is held.
HeldStaysPublished ==
  [][\A b \in Blocks : ref_counts[b] > 0 /\ block_hash[b] # None
                         => block_hash'[b] = block_hash[b]]_vars
=============================================================================
