-------------------------------- MODULE Engine --------------------------------
(***************************************************************************)
(* Scheduler together with engine/core/model_runner.py and the paged cache *)
(* of engine/model/attention.py: what the forward pass, replayed from a    *)
(* CUDA graph or not, and the swap copies do to the pages that the         *)
(* scheduler's tables point at.                                            *)
(*                                                                         *)
(* The K/V of a token depend on all the tokens before it, so the content   *)
(* of a cache slot is the token list it was computed from; <<>> is the     *)
(* initial zeros, padding, or what a failed forward pass left behind.      *)
(* Layers and heads are left out: all layers of a block move together.     *)
(***************************************************************************)
EXTENDS Scheduler

CONSTANT CudaGraphs  \* cuda_graphs

ASSUME EngineAssumption == CudaGraphs \in BOOLEAN

VARIABLES kv_cache,   \* slot -> content, the scratch page included
          cpu_cache   \* host slot -> content

INSTANCE BatchLayout

engineVars == <<vars, kv_cache, cpu_cache>>

EngineInit ==
  /\ Init
  /\ kv_cache = [x \in 0..(NumBlocks + 1) * BlockSize - 1 |-> <<>>]
  /\ cpu_cache = [x \in 0..NumCpuBlocks * BlockSize - 1 |-> <<>>]

\* The K/V that position p of s should have: computed from the tokens up to p.
Context(s, p) == SubSeq(token_ids[s], 1, p + 1)

\* The rows of the batch, as prepare or the graph runner lays them out.
prepare == [k \in DOMAIN batch.seqs |->
  LET e == batch.seqs[k] IN Row(block_table[e.seq], num_computed_tokens[e.seq], e.n)]

rows == IF CudaGraphs /\ can_run(prepare, [k \in DOMAIN batch.seqs |-> batch.seqs[k].sample])
        THEN Padded(prepare) ELSE prepare

\* `cache` after copying block p[1] of `from` to its block p[2] for every pair p.
Copied(cache, from, pairs) ==
  [x \in DOMAIN cache |->
     LET to == {p \in Range(pairs) : p[2] = x \div BlockSize} IN
     IF to = {} THEN cache[x] ELSE from[(CHOOSE p \in to : TRUE)[1] * BlockSize + (x % BlockSize)]]

\* The host pool after _swap_out, then the cache after _swap_in.
SwappedOut == Copied(cpu_cache, kv_cache, batch.swap_out)
SwappedIn == Copied(kv_cache, SwappedOut, batch.swap_in)

\* `cache` after the forward pass wrote the new positions, to the end or not.
Written(cache, complete) ==
  [x \in DOMAIN cache |->
     LET here == {k \in DOMAIN rows : x \in Range(slot_mapping(rows[k]))} IN
     IF here = {} THEN cache[x]
     ELSE LET k == CHOOSE k \in here : TRUE
              j == CHOOSE j \in 1..rows[k].n : slot_mapping(rows[k])[j] = x
          IN IF complete /\ k \in DOMAIN batch.seqs
             THEN Context(batch.seqs[k].seq, rows[k].start + j - 1) ELSE <<>>]

-----------------------------------------------------------------------------
\* Mutant: the copies to the host come after the forward pass.
RunBatchThenSwap ==
  /\ Execute
  /\ kv_cache' = Written(SwappedIn, TRUE)
  /\ cpu_cache' = Copied(cpu_cache, kv_cache', batch.swap_out)

\* Mutant: the copies from the host come after the forward pass.
RunBatchThenSwapIn ==
  /\ Execute
  /\ cpu_cache' = SwappedOut
  /\ kv_cache' = Copied(Written(kv_cache, TRUE), SwappedOut, batch.swap_in)

\* execute: swap out, swap in, then the forward pass.
RunBatch ==
  /\ Execute
  /\ cpu_cache' = SwappedOut
  /\ kv_cache' = Written(SwappedIn, TRUE)

\* A failed execute stops before, between or after the copies, or leaves the
\* pages of the batch half written.
RunFails ==
  /\ ExecuteFails
  /\ \/ UNCHANGED <<kv_cache, cpu_cache>>
     \/ cpu_cache' = SwappedOut /\ UNCHANGED kv_cache
     \/ cpu_cache' = SwappedOut /\ kv_cache' = SwappedIn
     \/ cpu_cache' = SwappedOut /\ kv_cache' = Written(SwappedIn, FALSE)

\* Everything else touches no page.
EngineNext == RunBatch \/ RunFails \/ ((Bookkeep \/ Request) /\ UNCHANGED <<kv_cache, cpu_cache>>)

EngineSpec == EngineInit /\ [][EngineNext]_engineVars

-----------------------------------------------------------------------------
\* While the batch runs, every sequence in it reads its own context and nothing
\* else, with either backend: each position up to its new length is in the slot
\* the kernel reads it from, through sharing, eviction, chunking, preemption,
\* swaps and padding of any order.
ReadsOwnContext == pc = "update" /\ i = 1 =>
  \A k \in DOMAIN batch.seqs :
    \A slots \in {kv_slots(rows[k]), paged_kv_slots(paged_kv_index(rows), k)} :
      [j \in DOMAIN slots |-> kv_cache[slots[j]]]
        = [j \in 1..kv_len(rows[k]) |-> Context(batch.seqs[k].seq, j - 1)]

\* What the prefix cache publishes under a hash is the K/V of that prefix:
\* "only full blocks whose K/V are all computed are hashable".
PublishedIsContent == \A b \in Blocks : block_hash[b] # None =>
  \A o \in 0..BlockSize - 1 :
    kv_cache[b * BlockSize + o] = SubSeq(block_hash[b], 1, Len(block_hash[b]) - BlockSize + o + 1)

\* A swapped-out sequence finds in host memory all it had computed, however
\* many requests used the host pool in between.
HostKeepsContext == pc = "idle" =>
  \A s \in Range(swapped) : \A p \in 0 .. num_computed_tokens[s] - 1 :
    cpu_cache[Slot(cpu_block_table[s], p)] = Context(s, p)
=============================================================================
