------------------------------- MODULE Startup --------------------------------
(***************************************************************************)
(* LLMEngine.__init__: which checkpoints engine/model/loader.py turns into *)
(* the model of engine/model/qwen3.py, and how                             *)
(* ModelRunner.profile_num_blocks and the configuration size the KV cache. *)
(***************************************************************************)
EXTENDS EngineConfig, FiniteSets

CONSTANTS WORKSPACE_BYTES,   \* of FlashInferAttention
          GRAPH_BYTES        \* what the captured graphs keep, 512 << 20

\* The options of __post_init__ that size the cache.
Sizes == [gpu_memory_utilization : 1..Unit, watermark : 0..Unit - 1, swap_space : Nat,
          preemption_mode : {"recompute", "swap"}]

\* What the profile measures: the device, the peak of the dummy batch, and what
\* others than the allocator hold.
Measures == [total : Nat, peak : Nat, non_torch : Int]

minimum(a, b) == IF a <= b THEN a ELSE b

-----------------------------------------------------------------------------
\* Sizing, for a resolved configuration r, its sizes z, measures m and blocks of
\* bpb bytes.

\* The dummy batch of the profile: max_batch_tokens over at most 16 sequences,
\* the last one with the rest.
num_seqs(r) == minimum(r.max_num_seqs, r.max_batch_tokens)
num_dummy(r) == minimum(num_seqs(r), 16)

\* Where each dummy sequence starts in the batch.
bounds(r) == [k \in 0..num_dummy(r) |->
                IF k = num_dummy(r) THEN r.max_batch_tokens
                                    ELSE k * (r.max_batch_tokens \div num_dummy(r))]

later(r) == (IF r.attention_backend = "flashinfer" THEN WORKSPACE_BYTES ELSE 0)
              + (IF r.cuda_graphs THEN GRAPH_BYTES ELSE 0)

budget(r, z, m) == (m.total * z.gpu_memory_utilization) \div Unit - m.peak - m.non_torch - later(r)

profile_num_blocks(r, z, m, bpb) == budget(r, z, m) \div bpb

num_blocks(r, z, m, bpb) ==
  IF r.num_blocks # None THEN r.num_blocks ELSE profile_num_blocks(r, z, m, bpb)

num_cpu_blocks(z, bpb) == IF z.preemption_mode = "swap" THEN z.swap_space \div bpb ELSE 0

watermark_blocks(z, n) == (z.watermark * n) \div Unit

\* KVCache has one block more than the pool, the scratch block.
cache_bytes(n, bpb) == (n + 1) * bpb

\* __init__ raises neither in resolve nor in the profile.
started(r, z, m, bpb, model_max_len) ==
  accepted(r, model_max_len) /\ (r.num_blocks = None => profile_num_blocks(r, z, m, bpb) >= 1)

-----------------------------------------------------------------------------
\* The parameters of Qwen3ForCausalLM and the tensors of a checkpoint are pairs
\* of a layer and a name; those of no layer are at layer -1.
Model == -1
Layers(cfg) == 0..cfg.num_hidden_layers - 1

Shared(cfg) == {"embed_tokens", "norm"} \cup IF cfg.tie_word_embeddings THEN {} ELSE {"lm_head"}

\* named_parameters() of the modules as they are built.
AttentionParameters == {"qkv_proj", "o_proj", "q_norm", "k_norm"}
MLPParameters == {"gate_up_proj", "down_proj"}
LayerParameters ==
  AttentionParameters \cup MLPParameters \cup {"input_layernorm", "post_attention_layernorm"}
parameters(cfg) == ({Model} \X Shared(cfg)) \cup (Layers(cfg) \X LayerParameters)

q_size(cfg) == cfg.num_attention_heads * cfg.head_dim
kv_size(cfg) == cfg.num_key_value_heads * cfg.head_dim

Matrix(rows, cols) == [rows |-> rows, cols |-> cols]
Vector(rows) == Matrix(rows, None)

shape(cfg, name) ==
  CASE name \in {"embed_tokens", "lm_head"} -> Matrix(cfg.vocab_size, cfg.hidden_size)
    [] name \in {"norm", "input_layernorm", "post_attention_layernorm"} -> Vector(cfg.hidden_size)
    [] name \in {"q_norm", "k_norm"} -> Vector(cfg.head_dim)
    [] name = "qkv_proj" -> Matrix(q_size(cfg) + 2 * kv_size(cfg), cfg.hidden_size)
    [] name = "o_proj" -> Matrix(cfg.hidden_size, q_size(cfg))
    [] name = "gate_up_proj" -> Matrix(2 * cfg.intermediate_size, cfg.hidden_size)
    [] name = "down_proj" -> Matrix(cfg.hidden_size, cfg.intermediate_size)

\* What load_model takes as it is, and what it concatenates.
Copied == {"o_proj", "q_norm", "k_norm", "down_proj", "input_layernorm", "post_attention_layernorm"}
LayerTensors == Copied \cup {"q_proj", "k_proj", "v_proj", "gate_proj", "up_proj"}
taken(cfg) == ({Model} \X Shared(cfg)) \cup (Layers(cfg) \X LayerTensors)

\* A tied checkpoint may store the head once more.
redundant(cfg) == IF cfg.tie_word_embeddings THEN {<<Model, "lm_head">>} ELSE {}

parts(name) == CASE name = "qkv_proj" -> {"q_proj", "k_proj", "v_proj"}
                 [] name = "gate_up_proj" -> {"gate_proj", "up_proj"}
                 [] OTHER -> {name}

\* The keys of `weights`: every parameter all of whose parts were taken.
weights(cfg) ==
  ({Model} \X Shared(cfg)) \cup (Layers(cfg) \X (Copied \cup {"qkv_proj", "gate_up_proj"}))

\* torch.cat along the rows, of tensors with the same columns.
cat_rows(ckpt, l, name) ==
  CASE name = "qkv_proj" -> ckpt[<<l, "q_proj">>].rows + ckpt[<<l, "k_proj">>].rows
                              + ckpt[<<l, "v_proj">>].rows
    [] name = "gate_up_proj" -> ckpt[<<l, "gate_proj">>].rows + ckpt[<<l, "up_proj">>].rows
    [] OTHER -> ckpt[<<l, name>>].rows

\* load_model raises nothing on the checkpoint, which maps keys to shapes.
load_model(cfg, ckpt) ==
  /\ taken(cfg) \subseteq DOMAIN ckpt
  /\ DOMAIN ckpt \subseteq taken(cfg) \cup redundant(cfg)
  /\ weights(cfg) = parameters(cfg)
  /\ \A w \in weights(cfg) :
       /\ cat_rows(ckpt, w[1], w[2]) = shape(cfg, w[2]).rows
       /\ \A part \in parts(w[2]) : ckpt[<<w[1], part>>].cols = shape(cfg, w[2]).cols
==============================================================================
