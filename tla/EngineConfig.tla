----------------------------- MODULE EngineConfig -----------------------------
(***************************************************************************)
(* engine/config.py: how the automatic choices of a configuration are      *)
(* filled in, and which combinations are refused.                          *)
(***************************************************************************)
EXTENDS Integers

CONSTANTS CudaAvailable,  \* torch.cuda.is_available()
          None,           \* Python's None
          Unit            \* fractions and floats are counted in units of 1/Unit

Positive == Nat \ {0}

\* What __post_init__ accepts; "cuda" stands for every CUDA device, "float16"
\* for both half-precision types.
Configs ==
  [device : {"auto", "cpu", "cuda", "mps"}, dtype : {"auto", "float32", "float16"},
   attention_backend : {"auto", "naive", "flashinfer"}, cuda_graphs : BOOLEAN,
   num_blocks : Positive \cup {None}, max_model_len : Positive \cup {None},
   max_num_seqs : Positive, max_batch_tokens : Positive,
   enable_chunked_prefill : BOOLEAN]

is_cuda(c) == c.device = "cuda"

-----------------------------------------------------------------------------
\* The steps of resolve, in their order.
with_device(c) ==
  [c EXCEPT !.device = IF @ # "auto" THEN @ ELSE IF CudaAvailable THEN "cuda" ELSE "cpu"]

with_dtype(c) ==
  [c EXCEPT !.dtype = IF @ # "auto" THEN @ ELSE IF is_cuda(c) THEN "float16" ELSE "float32"]

with_backend(c) ==
  [c EXCEPT !.attention_backend =
     IF @ # "auto" THEN @ ELSE IF is_cuda(c) /\ c.dtype # "float32" THEN "flashinfer" ELSE "naive"]

with_model_len(c, model_max_len) ==
  [c EXCEPT !.max_model_len = IF @ = None THEN model_max_len ELSE @]

\* Without chunking the budget is raised to the longest prefill there can be.
with_batch_tokens(c) ==
  [c EXCEPT !.max_batch_tokens =
     IF ~c.enable_chunked_prefill /\ @ < c.max_model_len THEN c.max_model_len ELSE @]

resolve(c, model_max_len) ==
  with_batch_tokens(with_model_len(with_backend(with_dtype(with_device(c))), model_max_len))

\* No check of resolve raises on its result r.
accepted(r, model_max_len) ==
  /\ r.attention_backend = "flashinfer" => is_cuda(r) /\ r.dtype # "float32"
  /\ r.cuda_graphs => is_cuda(r) /\ r.attention_backend = "flashinfer"
  /\ r.num_blocks # None \/ is_cuda(r)
  /\ r.max_model_len <= model_max_len
  /\ r.enable_chunked_prefill => r.max_batch_tokens >= r.max_num_seqs
==============================================================================
