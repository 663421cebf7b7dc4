---------------------------- MODULE MCBlockPool ----------------------------
(* A small instance of BlockPool for TLC. *)
EXTENDS BlockPool, TLC

\* Bound on the length of a hash chain: the number of full blocks of a request.
CONSTANT MaxChain

\* Sequences, blocks, host blocks and hashes are interchangeable.
Symmetry == Permutations(Seqs) \cup Permutations(Blocks)
              \cup Permutations(CpuBlocks) \cup Permutations(Hashes)

\* Every hash chain.
AllChains == Picks(Hashes)

\* A request has at most MaxChain full blocks and one partial one.
Bound == \A s \in Seqs : /\ Len(chain[s]) <= MaxChain
                         /\ Len(block_table[s]) <= MaxChain + 1
=============================================================================
