------------------------------ MODULE Generate ------------------------------
(***************************************************************************)
(* main of examples/generate.cpp and examples/generate_cuda.cpp: a GGUF    *)
(* file is parsed, its weights are loaded and bound to a prefill and a     *)
(* decode context that share one KV cache, the prompt is run through the   *)
(* prefill graph, and the decode graph is run once per further token.  A   *)
(* run is a sequence of kernels (CpuExecutor::run, CudaExecutor::run);     *)
(* those that matter here read weights and, in attention, the cache.       *)
(*                                                                         *)
(* A row of the cache is the token it was computed from with the position  *)
(* it was rotated to.  What the kernels make of the rows is any logits.    *)
(* Each driver has the kernels of its device.                              *)
(***************************************************************************)
EXTENDS GgufWeights, KVCache, Sampler

CONSTANTS Prompts,         \* bound: encoded prompts
          MaxNewTokens,    \* bound: values of max_new_tokens
          Logits,          \* bound: logits a run may end with
          SampConfigs      \* device -> sampling configurations

\* Prompts have a token; the vocabulary is not empty; exp is not 0 at its
\* maximum.
ASSUME GenerateAssumption ==
    /\ Prompts \subseteq Seq(Nat) \ {<<>>}
    /\ MaxNewTokens \subseteq Int
    /\ \A lg \in Logits : /\ DOMAIN lg \subseteq Nat /\ IsFiniteSet(DOMAIN lg) /\ DOMAIN lg # {}
                          /\ lg \in [DOMAIN lg -> Int]
    /\ \A d \in Devices : \A s \in SampConfigs[d] : s.top_k \in Int /\ s.p \in Int /\ s.q \in Nat \ {0}
    /\ MassRange \in Nat \ {0}

VARIABLES max_new_tokens, samp_cfg,
          prompt_len,
          all_tokens,      \* prompt and generated tokens
          ctx,             \* the context that runs, "prefill" or "decode"
          op,              \* the kernel of the run that is due
          logits,          \* the logits of the last run
          token,           \* the token sampled last
          step             \* step of the decode loop, 0 before the first token

mainVars == <<max_new_tokens, samp_cfg, prompt_len, all_tokens, ctx, op, logits, token, step>>
genVars  == <<parseVars, stage, weightVars, kvVars, mainVars>>

NoToken == -1

\* -1 when the metadata has none: then no token is the end.
eos_token_id == LET k == <<"tokenizer", "eos_token_id">>
                IN IF HasInt(k) THEN metadata[k].v
                   ELSE IF k \in DOMAIN metadata /\ metadata[k].type = "BOOL"
                   THEN IF metadata[k].v THEN 1 ELSE 0
                   ELSE -1

-----------------------------------------------------------------------------
(* The cache is made for the prompt and everything that may follow.        *)

start(p, m, cfg_s) == /\ max_new_tokens' = m /\ samp_cfg' = cfg_s
                      /\ prompt_len' = Len(p) /\ all_tokens' = p

\* Mutant: no room for the prompt.
max_seq_len_without_prompt(n, m) == m

max_seq_len_of(n, m) == n + m

\* encode gives tokens of the vocabulary it was made from.
EncodedPrompts == {p \in Prompts : \A s \in DOMAIN p : p[s] < cfg.vocab}

init_cache == /\ stage = "bound"
              /\ \E p \in EncodedPrompts, m \in MaxNewTokens, s \in SampConfigs[device] :
                   LET n == max_seq_len_of(Len(p), m)
                   IN /\ device = "cuda" =>
                            /\ m > 0
                            /\ kv_sizes_ok(cfg.num_layers, cfg.num_kv_heads, cfg.head_dim, n)
                      /\ start(p, m, s)
                      /\ kv_init(cfg.num_layers, cfg.num_kv_heads, cfg.head_dim, n)
              /\ stage' = "running" /\ ctx' = "prefill" /\ op' = 1
              /\ UNCHANGED <<parseVars, weightVars, logits, token, step>>

\* A size is refused, or an allocation on the device fails.
init_cache_fails == /\ stage = "bound" /\ device = "cuda"
                    /\ stage' = "exit_error"
                    /\ UNCHANGED <<parseVars, weightVars, kvVars, mainVars>>

-----------------------------------------------------------------------------
(* The kernels of a run: embedding, per layer attention and what follows   *)
(* it, and the output head.                                                *)

NumOps == 2 * cfg.num_layers + 2

IsAttention(i) == i > 1 /\ i < NumOps /\ i % 2 = 0
LayerOf(i)     == (i - 2) \div 2

BeforeAttention == {"attn_norm", "q_proj", "k_proj", "v_proj", "q_norm", "k_norm"}

\* The constants that kernel i reads.
WeightsOf(i) ==
    IF i = 1 THEN {<<"tok_embeddings">>}
    ELSE IF i = NumOps THEN {<<"output_norm">>, <<"lm_head">>}
    ELSE {v \in Constants : /\ Len(v) = 3 /\ v[2] = LayerOf(i)
                            /\ v[3] \in BeforeAttention <=> IsAttention(i)}

has_weights(i) == WeightsOf(i) \subseteq DOMAIN bound[ctx]

\* Norms read a gamma, which nothing but the device's check of its format
\* guards; an embedding or a linear reads each other constant.
IsGamma(v) == v[Len(v)] \in {"attn_norm", "q_norm", "k_norm", "ffn_norm", "output_norm"}

kQ8_0BlockElems == 32

\* The kernels take storage t for constant v.
weight_ok(v, t) == IF IsGamma(v) THEN device = "cuda" => t.dtype # "Q8_0"
                   ELSE /\ t.shape[1] > 0 /\ t.shape[2] > 0
                        /\ t.dtype = "Q8_0" => t.shape[2] % kQ8_0BlockElems = 0

heads_ok == /\ cfg.num_heads > 0 /\ cfg.num_kv_heads > 0 /\ cfg.head_dim > 0
            /\ cfg.num_heads % cfg.num_kv_heads = 0

Tensor(v) == storage[bound[ctx][v]]

input_ids == IF ctx = "prefill" THEN all_tokens ELSE <<all_tokens[Len(all_tokens)]>>

\* kernel_embedding of the CPU; the device's fills the row with zeros.
ids_ok == \A s \in DOMAIN input_ids : input_ids[s] \in 0..(cfg.vocab - 1)

\* Mutant: no kernel looks at the shapes and formats of its weights.
kernel_accepts_any_weight(i) == /\ IsAttention(i) => heads_ok
                                /\ i = 1 /\ device = "cpu" => ids_ok

kernel_accepts(i) == /\ \A v \in WeightsOf(i) : weight_ok(v, Tensor(v))
                     /\ IsAttention(i) => heads_ok
                     /\ i = 1 /\ device = "cpu" => ids_ok

\* Mutant: the offset is applied to a run of any length, and lost at length 1.
pos_offset_from_one == IF kv_initialized /\ cached_len > 1 /\ Len(input_ids) = 1
                       THEN cached_len ELSE 0

\* kernel_rope.
pos_offset == IF kv_initialized /\ cached_len > 0 /\ Len(input_ids) = 1 THEN cached_len ELSE 0

Rows == [s \in DOMAIN input_ids |-> <<input_ids[s], pos_offset + s - 1>>]

\* kernel_attention with a cache: an empty one takes the prompt, one with
\* rows takes one more.
attention_ok == \/ ~kv_initialized
                \/ cached_len = 0 /\ can_append(Len(input_ids))
                \/ cached_len > 0 /\ Len(input_ids) = 1 /\ can_append(1)

attention(l) == IF kv_initialized THEN store(l, cached_len, Rows) ELSE UNCHANGED layers

running == stage = "running" /\ op <= NumOps

run_kernel == /\ running /\ has_weights(op) /\ kernel_accepts(op)
              /\ IF IsAttention(op) THEN attention_ok /\ attention(LayerOf(op))
                                    ELSE UNCHANGED layers
              /\ op' = op + 1
              /\ UNCHANGED <<parseVars, stage, weightVars, max_seq_len, cached_len, max_new_tokens,
                             samp_cfg, prompt_len, all_tokens, ctx, logits, token, step>>

kv_cache_advance_tokens == IF ctx = "prefill" THEN prompt_len ELSE 1

advance_ok == kv_initialized /\ can_append(kv_cache_advance_tokens)

\* The run ends with advance_kv_cache_step; main has the logits.
run_end == /\ stage = "running" /\ op = NumOps + 1 /\ advance_ok
           /\ advance(kv_cache_advance_tokens)
           /\ logits' \in {lg \in Logits : DOMAIN lg = 0..(cfg.vocab - 1)}
           /\ stage' = "sampling"
           /\ UNCHANGED <<parseVars, weightVars, layers, max_seq_len, max_new_tokens, samp_cfg,
                          prompt_len, all_tokens, ctx, op, token, step>>

\* A weight is not bound, a kernel refuses its arguments, the cache is full,
\* or the device fails.  generate breaks out of its decode loop; otherwise
\* main returns 1.
run_fails == /\ \/ running /\ ~has_weights(op)
                \/ running /\ has_weights(op) /\ ~kernel_accepts(op)
                \/ running /\ IsAttention(op) /\ ~attention_ok
                \/ stage = "running" /\ op = NumOps + 1 /\ ~advance_ok
                \/ stage = "running" /\ device = "cuda"
             /\ stage' = IF device = "cpu" /\ ctx = "decode" THEN "exit_ok" ELSE "exit_error"
             /\ UNCHANGED <<parseVars, weightVars, kvVars, mainVars>>

\* The norms of the CPU read any gamma as floats: one of a smaller format is
\* read past its end.  That stops the program, or goes unnoticed.
read_past_gamma ==
    /\ running /\ device = "cpu"
    /\ \E v \in WeightsOf(op) \cap DOMAIN bound[ctx] : IsGamma(v) /\ Tensor(v).dtype # "F32"
    /\ stage' = "exit_error"
    /\ UNCHANGED <<parseVars, weightVars, kvVars, mainVars>>

-----------------------------------------------------------------------------
(* Sampling, and the loop.                                                 *)

\* Mutant: the limit is tested before the step is counted.
more_after_late == step < max_new_tokens

more_after == step + 1 < max_new_tokens

sample_token == /\ stage = "sampling"
                /\ token' \in sample(samp_cfg, logits, all_tokens)
                /\ IF token' = eos_token_id
                   THEN stage' = "exit_ok" /\ UNCHANGED <<all_tokens, step, ctx, op>>
                   ELSE /\ all_tokens' = Append(all_tokens, token')
                        /\ step' = step + 1
                        /\ stage' = IF more_after THEN "running" ELSE "exit_ok"
                        /\ ctx' = "decode" /\ op' = 1
                /\ UNCHANGED <<parseVars, weightVars, kvVars, max_new_tokens, samp_cfg,
                               prompt_len, logits>>

\* main returns and the cache is destroyed, once.
leave == /\ stage \in {"exit_ok", "exit_error"} /\ kv_initialized /\ layers[0] # <<>>
         /\ \/ kv_release
            \/ device = "cuda" /\ \E l \in DOMAIN layers : kv_release_fails(l)
         /\ UNCHANGED <<parseVars, stage, weightVars, mainVars>>

-----------------------------------------------------------------------------
GenerateInit == /\ ParseInit /\ WeightInit /\ KVCacheInit
                /\ max_new_tokens = 0 /\ samp_cfg = <<>>
                /\ prompt_len = 0 /\ all_tokens = <<>>
                /\ ctx = "none" /\ op = 0
                /\ logits = <<>> /\ token = NoToken /\ step = 0

parsing == ParseNext /\ UNCHANGED <<weightVars, kvVars, mainVars>>
weights == WeightNext /\ UNCHANGED <<kvVars, mainVars>>

GenerateNext == \/ parsing
                \/ weights
                \/ init_cache \/ init_cache_fails
                \/ run_kernel \/ run_end \/ run_fails \/ read_past_gamma
                \/ sample_token
                \/ leave

\* One thread runs main; nothing stops it half-way.
GenerateSpec == GenerateInit /\ [][GenerateNext]_genVars /\ WF_genVars(GenerateNext)

-----------------------------------------------------------------------------
(* Properties. *)

Generated == Len(all_tokens) - prompt_len

GenerateTypeOK ==
    /\ stage \in {"header", "metadata", "value", "tensors", "parsed", "parse_failed", "loading",
                  "binding", "binding_decode", "bound", "running", "sampling", "exit_ok", "exit_error"}
    /\ cached_len \in 0..max_seq_len
    /\ ctx \in {"none", "prefill", "decode"}
    /\ op \in Nat /\ step \in Nat
    /\ all_tokens \in Seq(Nat) /\ prompt_len <= Len(all_tokens)

\* Between the kernels of any run, every layer holds the row of every token
\* before the run at its own position, and each layer already done holds the
\* rows of this run behind them; between runs the length is that of all
\* tokens that were fed.  No layer runs ahead, no token is rotated to
\* another's position, at whatever prompt length, 1 included (kernel_rope,
\* kernel_attention, advance_kv_cache_step).
CacheHoldsTokens ==
    stage \in {"running", "sampling"} /\ kv_initialized =>
        /\ stage = "sampling" => cached_len = Len(all_tokens)
        /\ stage = "running" => cached_len = IF ctx = "prefill" THEN 0 ELSE Len(all_tokens) - 1
        /\ \A l \in DOMAIN layers :
             LET done == stage = "running" /\ op > 2 * l + 2
             IN \A p \in 0..((IF done THEN Len(all_tokens) ELSE cached_len) - 1) :
                    layers[l][p] = <<all_tokens[p + 1], p>>

\* The state of main between any two kernels: of its type, the cache's length
\* within the cache, and every row in its place.
CacheInv == GenerateTypeOK /\ CacheHoldsTokens

\* A token is only ever produced by a model all of whose constants were
\* found, loaded whole and bound, each of a format and a shape that the kernel
\* reading it can take, though the loader passes over constants that the file
\* lacks and takes any shape (load_shared_weights, get_tensor,
\* check_q8_block_aligned, kernel_attention).
OnlyCompleteModelsSpeak ==
    token # NoToken => /\ Constants \subseteq DOMAIN aliases
                       /\ \A v \in Constants : weight_ok(v, storage[aliases[v]])
                       /\ heads_ok

\* generate yields at most max_new_tokens tokens, and exactly one when it was
\* asked for none or fewer but the prompt still fits; the cache is never the
\* reason to stop once prefill succeeded (max_seq_len, the decode loop).
TokenLimit == /\ Generated <= IF max_new_tokens > 1 THEN max_new_tokens ELSE 1
              /\ stage = "exit_ok" /\ device = "cpu" =>
                   token = eos_token_id \/ Generated = (IF max_new_tokens > 1 THEN max_new_tokens ELSE 1)

\* What sample_token returns passes all filters as they are meant: the
\* penalty once per occurrence, fewer than top_k likelier tokens, less than
\* top_p likelier mass, the likeliest when greedy; whatever the logits, which
\* are finite, and the order in which the sort leaves equals (Sampler::sample).
SamplesEligible ==
    [][stage = "sampling" /\ stage' # "sampling" =>
         token' \in Eligible(samp_cfg, logits, all_tokens)]_genVars

\* Every weight is there and can be read; a gamma as the floats it is made of.
whole == /\ file.supported /\ size = file.bytes /\ tokenizer_ok
         /\ Constants \subseteq DOMAIN aliases
         /\ \A v \in Constants : LET t == storage[aliases[v]]
                                IN weight_ok(v, t) /\ (IsGamma(v) => t.dtype = "F32")
         /\ heads_ok

\* On the CPU a complete model that was loaded, of formats and shapes that the
\* kernels take, goes on to produce its tokens and return 0, unless a negative
\* limit leaves the prompt itself no room (check_q8_block_aligned,
\* kernel_attention, the decode loop).
Generates == (stage = "bound" /\ device = "cpu" /\ whole) ~>
                (\/ stage = "exit_ok" /\ (Generated > 0 \/ token = eos_token_id)
                 \/ max_new_tokens < 0)

\* main returns in every case.
Returns == <>(stage \in {"exit_ok", "exit_error", "parse_failed"})
=============================================================================
