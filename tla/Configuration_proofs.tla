------------------------- MODULE Configuration_proofs -------------------------
(***************************************************************************)
(* Proofs, for every configuration, checkpoint and request body, that what *)
(* start-up and the server let through satisfies the assumptions the other *)
(* specifications make: of Scheduler and AppendToken on a request, of      *)
(* Scheduler on its limits, of BlockManager on its pool.                   *)
(***************************************************************************)
EXTENDS Startup, Requests, TLAPS

-----------------------------------------------------------------------------
\* The result has no automatic choice left and a budget for the longest prefill
\* unless prefills are chunked, which stays as it was given.
LEMMA Resolved ==
  ASSUME NEW c \in Configs, NEW model_max_len \in Positive, None \notin Nat,
         NEW r, r = resolve(c, model_max_len)
  PROVE  /\ r \in Configs
         /\ r.device # "auto" /\ r.dtype # "auto" /\ r.attention_backend # "auto"
         /\ r.max_model_len \in Positive
         /\ r.enable_chunked_prefill \/ r.max_batch_tokens >= r.max_model_len
         /\ r.enable_chunked_prefill = c.enable_chunked_prefill
<1> DEFINE d == with_device(c)
           t == with_dtype(d)
           b == with_backend(t)
           l == with_model_len(b, model_max_len)
<1>1. d \in Configs /\ d.device # "auto" /\ d.enable_chunked_prefill = c.enable_chunked_prefill
  BY SMT DEF with_device, Configs
<1>2. /\ t \in Configs /\ t.device = d.device /\ t.dtype # "auto"
      /\ t.enable_chunked_prefill = c.enable_chunked_prefill
  BY <1>1, SMT DEF with_dtype, Configs, is_cuda
<1>3. /\ b \in Configs /\ b.device = d.device /\ b.dtype = t.dtype /\ b.attention_backend # "auto"
      /\ b.enable_chunked_prefill = c.enable_chunked_prefill
  BY <1>2, SMT DEF with_backend, Configs, is_cuda
<1>4. /\ l \in Configs /\ l.device = d.device /\ l.dtype = t.dtype
      /\ l.attention_backend = b.attention_backend /\ l.max_model_len \in Positive
      /\ l.enable_chunked_prefill = c.enable_chunked_prefill
  BY <1>3, SMT DEF with_model_len, Configs, Positive
<1>5. r = with_batch_tokens(l)
  BY DEF resolve
<1> HIDE DEF d, t, b, l
<1> QED
  BY <1>1, <1>2, <1>3, <1>4, <1>5, SMT DEF with_batch_tokens, Configs, Positive

\* resolve() is "Idempotent": a configuration that went through it comes out of
\* a second call as it went in, so engines may share one.
THEOREM ResolveIdempotent ==
  ASSUME NEW c \in Configs, NEW model_max_len \in Positive, None \notin Nat
  PROVE  resolve(resolve(c, model_max_len), model_max_len) = resolve(c, model_max_len)
<1> DEFINE r == resolve(c, model_max_len)
<1>1. /\ r \in Configs
      /\ r.device # "auto" /\ r.dtype # "auto" /\ r.attention_backend # "auto"
      /\ r.max_model_len \in Positive
      /\ r.enable_chunked_prefill \/ r.max_batch_tokens >= r.max_model_len
  BY Resolved
<1> HIDE DEF r
<1>2. with_device(r) = r
  BY <1>1, SMT DEF with_device, Configs
<1>3. with_dtype(r) = r
  BY <1>1, SMT DEF with_dtype, Configs
<1>4. with_backend(r) = r
  BY <1>1, SMT DEF with_backend, Configs
<1>5. with_model_len(r, model_max_len) = r
  BY <1>1, SMT DEF with_model_len, Configs, Positive
<1>6. with_batch_tokens(r) = r
  BY <1>1, SMT DEF with_batch_tokens, Configs, Positive
<1>7. resolve(r, model_max_len) = r
  BY <1>2, <1>3, <1>4, <1>5, <1>6 DEF resolve
<1> QED BY <1>7 DEF r

\* Scheduler's assumption on its constants is what an accepted configuration
\* gives: with chunking one token for every running sequence, without it the
\* longest prefill.
THEOREM AcceptedConfigFitsScheduler ==
  ASSUME NEW c \in Configs, NEW model_max_len \in Positive, None \notin Nat,
         NEW r, r = resolve(c, model_max_len), accepted(r, model_max_len)
  PROVE  /\ r.max_num_seqs \in Nat \ {0} /\ r.max_model_len \in Nat
         /\ r.max_batch_tokens >= IF r.enable_chunked_prefill THEN r.max_num_seqs ELSE r.max_model_len
<1>1. /\ r \in Configs /\ r.max_model_len \in Positive
      /\ r.enable_chunked_prefill \/ r.max_batch_tokens >= r.max_model_len
  BY Resolved
<1> QED BY <1>1, SMT DEF accepted, Configs, Positive

-----------------------------------------------------------------------------
\* A body with one prompt always yields a list of token ids.
LEMMA PromptIds ==
  ASSUME tokenizer \in [Text -> TokenIds], NEW p \in Prompts, single(p)
  PROVE  prompt_ids(p) \in TokenIds
<1>1. CASE p.kind = "text"
  <2>1. p.value \in Text
    BY <1>1 DEF Prompts
  <2> QED BY <1>1, <2>1 DEF prompt_ids
<1>2. CASE p.kind = "ids"
  <2>1. p.value \in TokenIds
    BY <1>2 DEF Prompts
  <2> QED BY <1>2, <2>1 DEF prompt_ids
<1>3. CASE p.kind = "texts"
  <2>1. p.value \in Seq(Text) /\ Len(p.value) = 1
    BY <1>3 DEF Prompts, single
  <2>2. p.value[1] \in Text
    BY <2>1
  <2> QED BY <1>3, <2>2 DEF prompt_ids
<1>4. CASE p.kind = "lists"
  <2>1. p.value \in Seq(TokenIds) /\ Len(p.value) = 1
    BY <1>4 DEF Prompts, single
  <2>2. p.value[1] \in TokenIds
    BY <2>1
  <2> QED BY <1>4, <2>2 DEF prompt_ids
<1> QED
  BY <1>1, <1>2, <1>3, <1>4 DEF Prompts

\* What Scheduler and AppendToken assume of a request holds of every one that
\* is answered 200: a prompt, room for a token, both within max_model_len (so
\* the block tables fit), ids the embedding has a row for, and stop strings
\* that cannot match before any text exists.
THEOREM AcceptedRequestFitsScheduler ==
  ASSUME tokenizer \in [Text -> TokenIds], max_model_len \in Nat \ {0}, vocab_size \in Nat,
         None \notin Int, NEW req \in CompletionRequest, status(req) = 200,
         NEW ids, ids = prompt_ids(req.prompt)
  PROVE  /\ Len(ids) \in Nat \ {0} /\ max_tokens(req) \in Nat \ {0}
         /\ Len(ids) + max_tokens(req) <= max_model_len
         /\ \A i \in DOMAIN ids : ids[i] \in 0 .. vocab_size - 1
         /\ \A i \in DOMAIN stop_strings(req) : stop_strings(req)[i] # EmptyText
<1>1. single(req.prompt) /\ params_valid(req) /\ validate(ids, max_tokens(req))
  BY DEF status
<1>2. ids \in TokenIds
  BY <1>1, PromptIds DEF CompletionRequest
<1>3. Len(ids) \in Nat /\ \A i \in DOMAIN ids : ids[i] \in Int
  BY <1>2 DEF TokenIds
<1>4. max_tokens(req) \in Int
  <2>1. req.max_tokens \in Int \cup {None}
    BY Zenon DEF CompletionRequest
  <2>2. max_model_len - Len(ids) \in Int
    BY <1>3
  <2> QED BY <2>1, <2>2 DEF max_tokens
<1> QED
  BY <1>1, <1>3, <1>4 DEF params_valid, validate

\* A limit the body leaves out is 16, and a prompt that leaves less room than that
\* is refused for the sum.  A limit of null is all the room the prompt leaves:
\* then of the checks on lengths it fails none but an empty prompt or a prompt
\* that fills the context, and the latter is refused for its limit.
THEOREM LimitsThatAreNotGiven ==
  ASSUME tokenizer \in [Text -> TokenIds], max_model_len \in Nat \ {0}, vocab_size \in Nat,
         None \notin Int, NEW body, NEW req \in CompletionRequest, req = with_defaults(body),
         ~unsupported(req), req.model \in served_names, single(req.prompt),
         req.temperature >= 0, 0 < req.top_p, req.top_p <= Unit,
         \A i \in DOMAIN stop_strings(req) : stop_strings(req)[i] # EmptyText,
         NEW ids, ids = prompt_ids(req.prompt),
         \A i \in DOMAIN ids : 0 <= ids[i] /\ ids[i] < vocab_size
  PROVE  /\ "max_tokens" \notin DOMAIN body
              => (status(req) = 200 <=> Len(ids) \in 1 .. max_model_len - 16)
         /\ req.max_tokens = None
              => (status(req) = 200 <=> Len(ids) \in 1 .. max_model_len - 1)
<1>1. Len(ids) \in Nat
  BY PromptIds DEF CompletionRequest, TokenIds
<1>2. ASSUME NEW limit \in Int, max_tokens(req) = limit
      PROVE  status(req) = 200
               <=> limit >= 1 /\ Len(ids) # 0 /\ Len(ids) + limit <= max_model_len
  <2>1. params_valid(req) <=> limit >= 1
    BY <1>2 DEF params_valid
  <2>2. validate(ids, max_tokens(req)) <=> Len(ids) # 0 /\ Len(ids) + limit <= max_model_len
    BY <1>2 DEF validate
  <2>3. status(req) = 200 <=> params_valid(req) /\ validate(ids, max_tokens(req))
    BY DEF status
  <2> QED BY <2>1, <2>2, <2>3
<1>3. ASSUME "max_tokens" \notin DOMAIN body
      PROVE  status(req) = 200 <=> Len(ids) \in 1 .. max_model_len - 16
  <2>1. req.max_tokens = 16
    BY <1>3 DEF with_defaults, Defaults
  <2>2. max_tokens(req) = 16
    BY <2>1 DEF max_tokens
  <2>3. status(req) = 200 <=> Len(ids) # 0 /\ Len(ids) + 16 <= max_model_len
    BY <1>2, <2>2
  <2> QED BY <1>1, <2>3
<1>4. ASSUME req.max_tokens = None
      PROVE  status(req) = 200 <=> Len(ids) \in 1 .. max_model_len - 1
  <2>1. max_tokens(req) = max_model_len - Len(ids)
    BY <1>4 DEF max_tokens
  <2>2. max_model_len - Len(ids) \in Int
    BY <1>1
  <2>3. status(req) = 200
          <=> /\ max_model_len - Len(ids) >= 1 /\ Len(ids) # 0
              /\ Len(ids) + (max_model_len - Len(ids)) <= max_model_len
    BY <1>2, <2>1, <2>2
  <2> QED BY <1>1, <2>3
<1> QED
  BY <1>3, <1>4

\* "Any request that can exist must fit one iteration": without chunking the
\* tokens of a request that is answered 200, those it has generated included,
\* never exceed the budget, so a recompute victim can be admitted again.
THEOREM EveryPrefillFits ==
  ASSUME tokenizer \in [Text -> TokenIds], vocab_size \in Nat, None \notin Int,
         NEW c \in Configs, NEW model_max_len \in Positive, ~c.enable_chunked_prefill,
         NEW r, r = resolve(c, model_max_len), max_model_len = r.max_model_len,
         NEW req \in CompletionRequest, status(req) = 200,
         NEW generated \in Nat, generated < max_tokens(req)
  PROVE  Len(prompt_ids(req.prompt)) + generated <= r.max_batch_tokens
<1> DEFINE ids == prompt_ids(req.prompt)
<1>1. None \notin Nat
  OBVIOUS
<1>2. /\ r \in Configs /\ r.max_model_len \in Positive
      /\ r.max_batch_tokens >= r.max_model_len
  BY <1>1, Resolved
<1>3. max_model_len \in Nat \ {0}
  BY <1>2 DEF Positive
<1>4. /\ Len(ids) \in Nat \ {0} /\ max_tokens(req) \in Nat \ {0}
      /\ Len(ids) + max_tokens(req) <= max_model_len
  BY <1>3, AcceptedRequestFitsScheduler
<1> HIDE DEF ids
<1>5. r.max_batch_tokens \in Nat
  BY <1>2 DEF Configs, Positive
<1>6. Len(ids) + generated <= r.max_batch_tokens
  BY <1>2, <1>3, <1>4, <1>5
<1> QED BY <1>6 DEF ids

-----------------------------------------------------------------------------
\* PoolAssumption of BlockManager and the host memory of ConfigAssumption are
\* what __init__ hands to the allocator: a pool that is not empty, a watermark
\* that leaves admission a block, host blocks only for swapping.
THEOREM StartedEngineFitsBlockManager ==
  ASSUME NEW c \in Configs, NEW model_max_len \in Positive, None \notin Nat, Unit \in Positive,
         NEW z \in Sizes, NEW m \in Measures, NEW bpb \in Positive,
         WORKSPACE_BYTES \in Nat, GRAPH_BYTES \in Nat,
         NEW r, r = resolve(c, model_max_len), started(r, z, m, bpb, model_max_len),
         NEW n, n = num_blocks(r, z, m, bpb)
  PROVE  /\ n \in Nat \ {0} /\ watermark_blocks(z, n) \in 0..n - 1
         /\ num_cpu_blocks(z, bpb) \in Nat
         /\ z.preemption_mode = "swap" \/ num_cpu_blocks(z, bpb) = 0
<1>1. r \in Configs
  BY Resolved
<1>2. n \in Nat \ {0}
  <2>1. CASE r.num_blocks # None
    BY <1>1, <2>1 DEF num_blocks, Configs, Positive
  <2>2. CASE r.num_blocks = None
    <3>1. m.total * z.gpu_memory_utilization \in Int
      BY SMT DEF Sizes, Measures, Positive
    <3>2. (m.total * z.gpu_memory_utilization) \div Unit \in Int
      BY <3>1, SMT DEF Positive
    <3>3. budget(r, z, m) \in Int
      BY <3>2, SMT DEF budget, later, Measures
    <3>4. profile_num_blocks(r, z, m, bpb) \in Int
      BY <3>3, SMT DEF profile_num_blocks, Positive
    <3> QED BY <2>2, <3>4, SMT DEF num_blocks, started
  <2> QED BY <2>1, <2>2
<1>3. watermark_blocks(z, n) \in 0..n - 1
  <2> DEFINE w == z.watermark
  <2>1. w \in Nat /\ w < Unit
    BY SMT DEF Sizes, Positive
  <2> HIDE DEF w
  <2>2. w * n \in Nat /\ w * n < n * Unit
    BY <1>2, <2>1, SMT DEF Positive
  <2>3. ASSUME NEW x \in Nat, x < n * Unit PROVE x \div Unit \in 0..n - 1
    BY <1>2, <2>3, SMT DEF Positive
  <2> QED BY <2>2, <2>3 DEF watermark_blocks, w
<1>4. num_cpu_blocks(z, bpb) \in Nat
  BY SMT DEF num_cpu_blocks, Sizes, Positive
<1>5. z.preemption_mode = "swap" \/ num_cpu_blocks(z, bpb) = 0
  BY DEF num_cpu_blocks
<1> QED BY <1>2, <1>3, <1>4, <1>5

\* "give the cache whatever the gpu_memory_utilization budget leaves": the pool
\* is the largest that fits the budget, and with the scratch block KVCache goes
\* past it, by one block at most.
THEOREM CacheTakesTheBudget ==
  ASSUME NEW r, NEW z, NEW m, NEW bpb \in Positive, budget(r, z, m) \in Int,
         NEW n, n = profile_num_blocks(r, z, m, bpb)
  PROVE  /\ n * bpb <= budget(r, z, m)
         /\ budget(r, z, m) < cache_bytes(n, bpb)
         /\ cache_bytes(n, bpb) <= budget(r, z, m) + bpb
<1> DEFINE b == budget(r, z, m)
<1>1. b \in Int /\ n = b \div bpb
  BY DEF profile_num_blocks
<1> HIDE DEF b
<1>2. n \in Int /\ n * bpb <= b /\ b < (n + 1) * bpb
  BY <1>1, SMT DEF Positive
<1>3. (n + 1) * bpb = n * bpb + bpb
  BY <1>2, SMT DEF Positive
<1> QED BY <1>1, <1>2, <1>3, SMT DEF b, cache_bytes, Positive

\* The dummy batch of the profile is the whole budget of an iteration and none
\* of its sequences is empty; their positions are in the model's RoPE table if
\* max_batch_tokens is not above the model's context length (nothing checks it:
\* with few sequences and a larger budget the lookup is out of range).
THEOREM DummyBatchIsFull ==
  ASSUME NEW c \in Configs, NEW model_max_len \in Positive, None \notin Nat,
         NEW r, r = resolve(c, model_max_len)
  PROVE  /\ bounds(r)[0] = 0 /\ bounds(r)[num_dummy(r)] = r.max_batch_tokens
         /\ \A k \in 0..num_dummy(r) - 1 :
              /\ bounds(r)[k] < bounds(r)[k + 1]
              /\ r.max_batch_tokens <= model_max_len =>
                   bounds(r)[k + 1] - bounds(r)[k] - 1 \in 0..model_max_len - 1
<1> DEFINE t == r.max_batch_tokens
           d == num_dummy(r)
           q == t \div d
<1>1. t \in Positive /\ r.max_num_seqs \in Positive
  BY Resolved, SMT DEF Configs
<1>2. d \in Positive /\ d <= t
  BY <1>1, SMT DEF num_dummy, num_seqs, minimum, Positive
<1> HIDE DEF t, d
<1>3. q \in Nat /\ q >= 1 /\ q * d <= t
  BY <1>1, <1>2, SMT DEF Positive
<1> HIDE DEF q
<1>4. bounds(r) = [k \in 0..d |-> IF k = d THEN t ELSE k * q]
  BY DEF bounds, t, d, q
<1>5. bounds(r)[0] = 0 /\ bounds(r)[d] = t
  BY <1>2, <1>3, <1>4, SMT DEF Positive
<1>6. ASSUME NEW k \in 0..d - 1
      PROVE  /\ bounds(r)[k] < bounds(r)[k + 1]
             /\ 0 <= bounds(r)[k] /\ bounds(r)[k + 1] <= t
             /\ bounds(r)[k] \in Int /\ bounds(r)[k + 1] \in Int
  <2>1. bounds(r)[k] = k * q /\ k * q \in Nat
    BY <1>2, <1>3, <1>4, SMT DEF Positive
  <2>2. (k + 1) * q = k * q + q /\ (k + 1) * q <= d * q
    BY <1>2, <1>3, SMT DEF Positive
  <2>3. bounds(r)[k + 1] = IF k + 1 = d THEN t ELSE (k + 1) * q
    BY <1>2, <1>4, SMT DEF Positive
  <2>4. (k + 1) * q \in Nat /\ (k + 1) * q <= t /\ k * q < (k + 1) * q
    <3>1. d * q = q * d
      BY <1>2, <1>3, SMT DEF Positive
    <3>2. d * q <= t
      BY <1>3, <3>1
    <3> DEFINE a == k * q
               e == (k + 1) * q
               f == d * q
    <3>3. a \in Nat /\ e = a + q /\ e <= f /\ f <= t /\ f \in Int
      BY <1>2, <1>3, <2>1, <2>2, <3>2, SMT DEF Positive
    <3> HIDE DEF a, e, f
    <3>4. e \in Nat /\ e <= t /\ a < e
      BY <1>1, <1>3, <3>3, SMT DEF Positive
    <3> QED BY <3>4 DEF a, e
  <2>5. k * q < t
    BY <1>1, <2>1, <2>4, SMT DEF Positive
  <2>6. CASE k + 1 = d
    BY <1>1, <2>1, <2>3, <2>5, <2>6, SMT DEF Positive
  <2>7. CASE k + 1 # d
    BY <1>1, <2>1, <2>3, <2>4, <2>7, SMT DEF Positive
  <2> QED BY <2>6, <2>7
<1>7. ASSUME NEW k \in 0..d - 1, t <= model_max_len
      PROVE  bounds(r)[k + 1] - bounds(r)[k] - 1 \in 0..model_max_len - 1
  BY <1>1, <1>6, <1>7, SMT DEF Positive
<1> QED BY <1>5, <1>6, <1>7 DEF t, d

\* The names load_model builds are those of the modules of qwen3.py, whatever
\* the number of layers and with or without a tied head: "missing" and
\* "unexpected" are always empty, a mismatch shows when a tensor is taken.
LEMMA NamesAgree ==
  ASSUME NEW cfg
  PROVE  weights(cfg) = parameters(cfg)
<1>1. Copied \cup {"qkv_proj", "gate_up_proj"} = LayerParameters
  BY SMT DEF Copied, LayerParameters, AttentionParameters, MLPParameters
<1> QED BY <1>1 DEF weights, parameters

\* "Loading is strict: every tensor in the checkpoint must be consumed and every
\* parameter filled, with matching shapes": every tensor but a redundant head
\* goes into a parameter with its columns, and every parameter consists of
\* tensors of the checkpoint.  A tensor that is copied has the very shape of its
\* parameter; of fused ones only the sum of the rows is compared.
THEOREM LoadingIsStrict ==
  ASSUME NEW cfg, NEW ckpt, load_model(cfg, ckpt)
  PROVE  /\ \A key \in DOMAIN ckpt \ redundant(cfg) :
              \E p \in parameters(cfg) :
                 /\ p[1] = key[1] /\ key[2] \in parts(p[2])
                 /\ ckpt[key].cols = shape(cfg, p[2]).cols
         /\ \A p \in parameters(cfg) :
              /\ \A part \in parts(p[2]) : <<p[1], part>> \in DOMAIN ckpt
              /\ p[2] \notin {"qkv_proj", "gate_up_proj"} =>
                   /\ ckpt[p].rows = shape(cfg, p[2]).rows
                   /\ ckpt[p].cols = shape(cfg, p[2]).cols
<1>1. ASSUME NEW key \in taken(cfg)
      PROVE  \E p \in weights(cfg) : p[1] = key[1] /\ key[2] \in parts(p[2])
  <2>1. CASE key \in {Model} \X Shared(cfg)
    BY <2>1 DEF weights, parts, Shared
  <2>2. CASE key \in Layers(cfg) \X LayerTensors
    <3>1. PICK l \in Layers(cfg), name \in LayerTensors : key = <<l, name>>
      BY <2>2
    <3>2. CASE name \in Copied
      <4>1. <<l, name>> \in weights(cfg) /\ name \in parts(name)
        BY <3>2 DEF weights, parts, Copied
      <4> QED BY <3>1, <4>1
    <3>3. CASE name \in {"q_proj", "k_proj", "v_proj"}
      <4>1. <<l, "qkv_proj">> \in weights(cfg) /\ name \in parts("qkv_proj")
        BY <3>3 DEF weights, parts
      <4> QED BY <3>1, <4>1
    <3>4. CASE name \in {"gate_proj", "up_proj"}
      <4>1. <<l, "gate_up_proj">> \in weights(cfg) /\ name \in parts("gate_up_proj")
        BY <3>4 DEF weights, parts
      <4> QED BY <3>1, <4>1
    <3> QED BY <3>2, <3>3, <3>4 DEF LayerTensors
  <2> QED BY <2>1, <2>2 DEF taken
<1>2. ASSUME NEW key \in DOMAIN ckpt \ redundant(cfg)
      PROVE  \E p \in parameters(cfg) :
                /\ p[1] = key[1] /\ key[2] \in parts(p[2])
                /\ ckpt[key].cols = shape(cfg, p[2]).cols
  <2>1. key \in taken(cfg)
    BY <1>2 DEF load_model
  <2>2. PICK p \in weights(cfg) : p[1] = key[1] /\ key[2] \in parts(p[2])
    BY <1>1, <2>1
  <2>3. key = <<p[1], key[2]>>
    BY <2>1, <2>2 DEF taken
  <2>4. ckpt[key].cols = shape(cfg, p[2]).cols
    BY <2>2, <2>3 DEF load_model
  <2> QED BY <2>2, <2>4, NamesAgree
<1>3. ASSUME NEW p \in parameters(cfg)
      PROVE  /\ \A part \in parts(p[2]) : <<p[1], part>> \in DOMAIN ckpt
             /\ p[2] \notin {"qkv_proj", "gate_up_proj"} =>
                  /\ ckpt[p].rows = shape(cfg, p[2]).rows
                  /\ ckpt[p].cols = shape(cfg, p[2]).cols
  <2>1. p \in weights(cfg) /\ p = <<p[1], p[2]>>
    BY NamesAgree DEF parameters
  <2>2. \A part \in parts(p[2]) : <<p[1], part>> \in taken(cfg)
    BY <2>1 DEF weights, taken, parts, Copied, LayerTensors, Shared
  <2>3. p[2] \notin {"qkv_proj", "gate_up_proj"} =>
          parts(p[2]) = {p[2]} /\ cat_rows(ckpt, p[1], p[2]) = ckpt[<<p[1], p[2]>>].rows
    BY DEF parts, cat_rows
  <2> QED BY <2>1, <2>2, <2>3 DEF load_model
<1> QED BY <1>2, <1>3
==============================================================================
