------------------------- MODULE BlockManagerClient -------------------------
(***************************************************************************)
(* BlockManager driven by the most general client that keeps the contract  *)
(* its methods state: ask can_* before the method, allocate and swap in    *)
(* only sequences without a table, compute only tokens that have slots.    *)
(* The scheduler is one such client.                                       *)
(***************************************************************************)
EXTENDS BlockManager

CONSTANTS Tokens,      \* token ids
          Prompts,     \* the prompts a request may come with
          MaxTokens    \* bound on the tokens of a request

ASSUME ClientAssumption ==
  /\ IsFiniteSet(Seqs) /\ MaxTokens \in Nat
  /\ \A p \in Prompts : p \in Seq(Tokens) /\ Len(p) \in 1..MaxTokens

vars == <<gpuVars, cpuVars, num_registered_blocks, token_ids, num_computed_tokens>>

Init ==
  /\ BlockManagerInit
  /\ token_ids \in [Seqs -> Prompts]

Start(s) ==
  LET cached == cached_prefix(s) IN
  /\ block_table[s] = <<>> /\ cpu_block_table[s] = <<>>
  /\ \E n \in 1 .. num_tokens(s) - Len(cached) * BlockSize :
       /\ can_allocate(s, n, cached, FALSE)
       /\ allocate(s, n, cached)
  /\ UNCHANGED <<cpuVars, token_ids>>

Extend(s) ==
  /\ block_table[s] # <<>>
  /\ \E n \in 1..num_uncomputed_tokens(s) :
       /\ blocks_needed(s, n) >= 0 /\ can_append(s, n)
       /\ append_slots(s, n)
  /\ UNCHANGED <<cpuVars, num_registered_blocks, token_ids, num_computed_tokens>>

\* s samples a token once all it has are computed.
Sample(s) ==
  /\ num_tokens(s) < MaxTokens
  /\ \E t \in Tokens : token_ids' = [token_ids EXCEPT ![s] = Append(@, t)]

\* Tokens of s that have slots are computed, and the blocks they fill are
\* published; if they are the last ones s samples, which may be its end.
Update(s) ==
  /\ \E n \in 1..num_uncomputed_tokens(s) :
       LET computed == num_computed_tokens[s] + n IN
       /\ blocks_for(computed) <= Len(block_table[s])
       /\ num_computed_tokens' = [num_computed_tokens EXCEPT ![s] = computed]
       /\ cache_full_blocks(s, computed)
       /\ IF computed = num_tokens(s) THEN Sample(s) ELSE UNCHANGED token_ids
       /\ \/ /\ num_registered_blocks' = [num_registered_blocks EXCEPT ![s] = Registered(s, computed)]
             /\ UNCHANGED <<free_blocks, evictable, ref_counts, block_table>>
          \/ /\ computed = num_tokens(s)
             /\ Release(s) /\ Unregister(s)
  /\ UNCHANGED cpuVars

\* s gives its blocks up, slots of tokens not computed included: preempted, to
\* be computed again, or failed or aborted.
DropTable(s) ==
  /\ block_table[s] # <<>>
  /\ free(s)
  /\ \/ UNCHANGED num_computed_tokens
     \/ num_computed_tokens' = [num_computed_tokens EXCEPT ![s] = 0]
  /\ UNCHANGED <<cpuVars, token_ids>>

\* s is preempted before it gets slots for more tokens.
SwapOut(s) ==
  /\ block_table[s] # <<>> /\ blocks_needed(s, 0) = 0 /\ can_swap_out(s)
  /\ swap_out(s)
  /\ UNCHANGED <<token_ids, num_computed_tokens>>

SwapIn(s) ==
  /\ block_table[s] = <<>> /\ cpu_block_table[s] # <<>>
  /\ \E n \in 1..num_uncomputed_tokens(s) :
       /\ can_swap_in(s, n, FALSE)
       /\ swap_in(s, n)
  /\ UNCHANGED <<token_ids, num_computed_tokens>>

\* A swapped-out request fails or is aborted.
DropSwapped(s) ==
  /\ cpu_block_table[s] # <<>>
  /\ free_cpu(s)
  /\ UNCHANGED <<gpuVars, num_registered_blocks, token_ids, num_computed_tokens>>

Next == \E s \in Seqs :
  \/ Start(s)
  \/ Extend(s)
  \/ Update(s)
  \/ DropTable(s)
  \/ SwapOut(s)
  \/ SwapIn(s)
  \/ DropSwapped(s)

Spec == Init /\ [][Next]_vars

-----------------------------------------------------------------------------
\* The deques carry no block twice and the LRU list loses none: with the
\* blocks in use they count up to the pool (check_invariants, "leak").
NoLeak ==
  /\ IsInjective(free_blocks \o evictable) /\ IsInjective(cpu_free)
  /\ num_free_blocks + Cardinality({b \in Blocks : ref_counts[b] > 0}) = NumBlocks

\* A published block in a table is one whose tokens that sequence has computed
\* or got from the cache: partial blocks are never published.
PublishedIsComputed == \A s \in Seqs : \A i \in DOMAIN block_table[s] :
  block_hash[block_table[s][i]] # None => i * BlockSize <= num_computed_tokens[s]

-----------------------------------------------------------------------------
\* Digests of this instance: whole blocks of tokens, up to the longest request.
Digests == UNION {[1 .. i * BlockSize -> Tokens] : i \in 1 .. MaxTokens \div BlockSize}

ASSUME NoneAssumption == None \notin Digests /\ None \notin Blocks

\* The hashes of the full blocks of a token list.
Chain(tokens) == [i \in 1 .. Len(tokens) \div BlockSize |-> SubSeq(tokens, 1, i * BlockSize)]

Pool == INSTANCE BlockPool WITH
  Blocks <- Blocks, CpuBlocks <- CpuBlocks, Hashes <- Digests,
  Chains <- {Chain(p) : p \in Prompts},
  free_blocks <- Range(free_blocks), evictable <- Range(evictable), cpu_free <- Range(cpu_free),
  hash_to_block <- [h \in Digests |-> IF h \in DOMAIN hash_to_block THEN hash_to_block[h] ELSE None],
  chain <- [s \in Seqs |-> Chain(token_ids[s])]

\* The lists, the token counts and the hash map of the code implement the
\* allocator of BlockPool.
ImplementsPool == Pool!Spec
=============================================================================
