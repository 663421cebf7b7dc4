------------------------------ MODULE BatchLayout ------------------------------
(***************************************************************************)
(* How a batch is laid out for the attention kernels: prepare of           *)
(* engine/core/model_runner.py, paged_kv_index of engine/model/attention.py*)
(* and the padded decode batches of engine/core/cuda_graphs.py.            *)
(*                                                                         *)
(* A row is one sequence of the batch: its pages, how many tokens it had   *)
(* and how many it computes now.  A slot is an index into the flat view of *)
(* the cache, block * block_size + offset.                                 *)
(***************************************************************************)
EXTENDS Integers, FiniteSetsExt, SequencesExt

CONSTANTS NumBlocks,   \* num_blocks
          BlockSize,   \* block_size
          MaxNumSeqs   \* max_num_seqs

\* The page behind the pool, which the block manager never hands out.
scratch_block == NumBlocks

pages(n) == (n + BlockSize - 1) \div BlockSize

Slot(table, p) == table[p \div BlockSize + 1] * BlockSize + (p % BlockSize)

kv_len(row) == row.start + row.n

\* The table a sequence has may be longer than its row needs.
Row(block_table, start, n) ==
  [table |-> SubSeq(block_table, 1, pages(start + n)), start |-> start, n |-> n]

\* Where the new K/V of a row go.
slot_mapping(row) == [j \in 1..row.n |-> Slot(row.table, row.start + j - 1)]

\* What the naive backend gathers for a row.
kv_slots(row) == [j \in 1..kv_len(row) |-> Slot(row.table, j - 1)]

\* Block tables in FlashInfer's CSR form.
paged_kv_index(rows) ==
  LET npages[k \in 0..Len(rows)] == IF k = 0 THEN 0 ELSE npages[k - 1] + Len(rows[k].table) IN
  [indptr |-> npages,
   indices |-> FlattenSeq([k \in DOMAIN rows |-> rows[k].table]),
   last_page_len |-> [k \in DOMAIN rows |-> kv_len(rows[k]) - (Len(rows[k].table) - 1) * BlockSize]]

\* What FlashInfer's kernels read for row k of that index.
paged_kv_slots(index, k) ==
  LET first == index.indptr[k - 1]
      len   == (index.indptr[k] - first - 1) * BlockSize + index.last_page_len[k]
  IN [j \in 1..len |-> index.indices[first + (j - 1) \div BlockSize + 1] * BlockSize
                         + ((j - 1) % BlockSize)]

-----------------------------------------------------------------------------
\* CUDA graphs: one per bucket, for batches of decodes.
AllBuckets == {1, 2, 4, 8, 16, 24, 32, 48, 64, 96, 128, 160, 192, 224, 256, 320, 384, 448, 512}

buckets == {b \in AllBuckets : b < MaxNumSeqs} \cup {MaxNumSeqs}

can_run(rows, do_sample) ==
  /\ Len(rows) <= Max(buckets)
  /\ \A k \in DOMAIN rows : rows[k].n = 1 /\ do_sample[k]

\* Mutant: the padding is sent to the last page of the pool.
padding_in_pool == [table |-> <<NumBlocks - 1>>, start |-> 0, n |-> 1]

\* A padding row: token 0 at position 0 of the scratch page.
padding == [table |-> <<scratch_block>>, start |-> 0, n |-> 1]

\* The batch that is replayed, padded up to its bucket.
Padded(rows) ==
  LET size == Min({b \in buckets : b >= Len(rows)}) IN
  rows \o [k \in 1..size - Len(rows) |-> padding]
================================================================================
