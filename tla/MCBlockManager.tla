--------------------------- MODULE MCBlockManager ---------------------------
(* Small instances of BlockManagerClient for TLC. *)
EXTENDS BlockManagerClient, TLC

\* Requests with a common first block, one of which is a block longer.
SharedPrompts == {<<0, 0, 1, 1>>, <<0, 0, 1>>}

Symmetry == Permutations(Seqs)
=============================================================================
