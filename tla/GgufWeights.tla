----------------------------- MODULE GgufWeights -----------------------------
(***************************************************************************)
(* From a parsed file to the weights of a model                            *)
(* (src/io/gguf_weight_loader.cpp, src/core/tensor.cpp, and the constants  *)
(* of src/model/transformer_graph_builder.cpp): the configuration is read  *)
(* out of the metadata, every Constant of the prefill graph gets storage   *)
(* with the contents of its GGUF tensor, one constant per step, and the    *)
(* storage is bound to the prefill and the decode context.                 *)
(*                                                                         *)
(* Files hold tensors of the size the graph gives them: nothing compares   *)
(* the two, and a larger tensor would be written past its storage.         *)
(***************************************************************************)
EXTENDS GgufFile, FiniteSetsExt

CONSTANT Devices        \* the drivers: "cpu" is generate, "cuda" generate_cuda

VARIABLES device,       \* cfg.device
          cfg,          \* TransformerConfig
          next_const,   \* the next value of the loop over the graph
          storage,      \* storage_by_gguf_name_: dtype and contents of a tensor
          aliases,      \* aliases_by_value_name_: value name -> GGUF name
          total_bytes,  \* total_bytes_
          bound         \* per context: value name -> GGUF name of its storage

weightVars == <<device, cfg, next_const, storage, aliases, total_bytes, bound>>

Contexts == {"prefill", "decode"}

-----------------------------------------------------------------------------
(* extract_config. *)

IntTypes == {"INT32", "UINT32", "INT64", "UINT64"}

HasInt(k) == k \in DOMAIN metadata /\ metadata[k].type \in IntTypes

architecture == LET k == <<"general", "architecture">>
                IN IF k \in DOMAIN metadata /\ metadata[k].type = "STRING"
                   THEN metadata[k].v ELSE "llama"

\* The architecture's own key, then llama's; a value of another type is passed over.
read_int(k, default) == IF HasInt(<<architecture, k>>) THEN metadata[<<architecture, k>>].v
                        ELSE IF HasInt(<<"llama", k>>) THEN metadata[<<"llama", k>>].v
                        ELSE default

tokens_key == <<"tokenizer", "tokens">>

has_tokens == tokens_key \in DOMAIN metadata /\ metadata[tokens_key].type = "ARRAY"

\* BPETokenizer::init.
tokenizer_ok == has_tokens /\ LET t == metadata[tokens_key].v
                              IN \A i \in DOMAIN t : t[i].type = "STRING"

vocab_size == IF has_tokens THEN Len(metadata[tokens_key].v)
              ELSE IF \E i \in DOMAIN tensor_infos : tensor_infos[i].name = <<"token_embd">>
              THEN LET i == CHOOSE i \in DOMAIN tensor_infos :
                                /\ tensor_infos[i].name = <<"token_embd">>
                                /\ \A j \in 1..(i - 1) : tensor_infos[j].name # <<"token_embd">>
                   IN tensor_infos[i].dimensions[1]
              ELSE 0

use_qk_norm == \E i \in DOMAIN tensor_infos : tensor_infos[i].name = <<"blk", 0, "attn_q_norm">>

\* main goes on to the tokenizer, which cannot do without its tokens.
extract_config ==
    /\ stage = "parsed"
    /\ device' \in Devices
    /\ cfg' = [num_layers |-> read_int("block_count", 1),
               hidden |-> read_int("embedding_length", 768),
               intermediate |-> read_int("feed_forward_length", 2048),
               num_heads |-> read_int("head_count", 12),
               num_kv_heads |-> read_int("head_count_kv", 12),
               head_dim |-> read_int("key_length", 64),
               vocab |-> vocab_size, qk_norm |-> use_qk_norm]
    /\ stage' = IF tokenizer_ok THEN "loading" ELSE "exit_error"
    /\ UNCHANGED <<parseVars, next_const, storage, aliases, total_bytes, bound>>

-----------------------------------------------------------------------------
(* The Constant values of build_transformer, in the order it adds them. *)

\* Shape of the weight of that name.
ShapeOf(n) ==
    LET vocab_shape == <<cfg.vocab, cfg.hidden>>
        kv_shape    == <<cfg.num_kv_heads * cfg.head_dim, cfg.hidden>>
        shapes == [tok_embeddings |-> vocab_shape, lm_head |-> vocab_shape,
                   attn_norm |-> <<cfg.hidden>>, ffn_norm |-> <<cfg.hidden>>, output_norm |-> <<cfg.hidden>>,
                   q_proj |-> <<cfg.num_heads * cfg.head_dim, cfg.hidden>>,
                   k_proj |-> kv_shape, v_proj |-> kv_shape,
                   o_proj |-> <<cfg.hidden, cfg.num_heads * cfg.head_dim>>,
                   q_norm |-> <<cfg.head_dim>>, k_norm |-> <<cfg.head_dim>>,
                   gate_proj |-> <<cfg.intermediate, cfg.hidden>>, up_proj |-> <<cfg.intermediate, cfg.hidden>>,
                   down_proj |-> <<cfg.hidden, cfg.intermediate>>]
    IN shapes[n[Len(n)]]

\* The weights of a layer.
LayerWeights == IF cfg.qk_norm
                THEN <<"attn_norm", "q_proj", "k_proj", "v_proj", "o_proj", "q_norm", "k_norm",
                       "ffn_norm", "gate_proj", "up_proj", "down_proj">>
                ELSE <<"attn_norm", "q_proj", "k_proj", "v_proj", "o_proj",
                       "ffn_norm", "gate_proj", "up_proj", "down_proj">>

NumConstants == 3 + cfg.num_layers * Len(LayerWeights)

Constant(i) == CASE i = 1 -> <<"tok_embeddings">>
                 [] i = 2 -> <<"lm_head">>
                 [] i = NumConstants -> <<"output_norm">>
                 [] OTHER -> <<"layer", (i - 3) \div Len(LayerWeights),
                               LayerWeights[1 + ((i - 3) % Len(LayerWeights))]>>

Constants == {Constant(i) : i \in 1..NumConstants}

-----------------------------------------------------------------------------
(* Names. *)

LayerSuffixes == [attn_norm |-> "attn_norm", attn_q |-> "q_proj", attn_k |-> "k_proj",
                  attn_v |-> "v_proj", attn_q_norm |-> "q_norm", attn_k_norm |-> "k_norm",
                  attn_output |-> "o_proj", ffn_norm |-> "ffn_norm", ffn_gate |-> "gate_proj",
                  ffn_up |-> "up_proj", ffn_down |-> "down_proj"]

GlobalNames == [token_embd |-> "tok_embeddings", output_norm |-> "output_norm",
                output |-> "lm_head"]

HasValueName(g) == \/ Len(g) = 3 /\ g[3] \in DOMAIN LayerSuffixes
                   \/ Len(g) = 1 /\ g[1] \in DOMAIN GlobalNames

gguf_name_to_value_name(g) == IF Len(g) = 3 THEN <<"layer", g[2], LayerSuffixes[g[3]]>>
                              ELSE <<GlobalNames[g[1]]>>

Names == {tensor_infos[i].name : i \in DOMAIN tensor_infos}

Sources(v) == {g \in Names : HasValueName(g) /\ gguf_name_to_value_name(g) = v}

\* The GGUF tensors of a value: at most one.  Tied embeddings: a file without
\* output.weight uses the token embeddings.
value_to_gguf(v) == IF v = <<"lm_head">> /\ Sources(v) = {}
                    THEN Sources(<<"tok_embeddings">>) ELSE Sources(v)

\* Of two tensors of one name the last is taken.
Last(S) == CHOOSE i \in S : \A j \in S : j <= i
gguf_tensor(g) == tensor_infos[Last({i \in DOMAIN tensor_infos : tensor_infos[i].name = g})]

-----------------------------------------------------------------------------
(* Sizes. *)

Supported == {"F32", "F16", "BF16", "Q8_0"}
ggml_dtype_size(t) == [F32 |-> 4, F16 |-> 2, BF16 |-> 2, Q8_0 |-> 34][t]
ggml_blck_size(t) == IF t = "Q8_0" THEN 32 ELSE 1

Numel(dims) == LET n[i \in 0..Len(dims)] == IF i = 0 THEN 1 ELSE n[i - 1] * dims[i]
               IN n[Len(dims)]

tensor_bytes(ti) == LET b == ggml_blck_size(ti.dtype)
                    IN ((Numel(ti.dimensions) + b - 1) \div b) * ggml_dtype_size(ti.dtype)

-----------------------------------------------------------------------------
(* Conversion.  A number of a tensor is the bits of its format: F16 bits   *)
(* become the fields <<sign, exponent, mantissa>> of an F32.               *)

F16Sign(b) == b \div 2^15
F16Exp(b)  == (b \div 2^10) % 2^5
F16Mant(b) == b % 2^10

\* Left shift that brings the highest bit of a 10-bit mantissa to bit 10:
\* countl_zero(mant) - 21.
Shift(m) == CHOOSE s \in 1..10 : 2^10 <= m * 2^s /\ m * 2^s < 2^11

subnormal(b) == LET s == Shift(F16Mant(b))
                IN <<F16Sign(b), 113 - s, ((F16Mant(b) * 2^s) % 2^10) * 2^13>>

f16_to_f32(b) == IF F16Exp(b) = 0
                 THEN IF F16Mant(b) = 0 THEN <<F16Sign(b), 0, 0>> ELSE subnormal(b)
                 ELSE IF F16Exp(b) = 31
                 THEN <<F16Sign(b), 255, IF F16Mant(b) = 0 THEN 0 ELSE 2^22>>
                 ELSE <<F16Sign(b), F16Exp(b) + 112, F16Mant(b) * 2^13>>

dequantize_to_f32(dtype, number) == IF dtype = "F16" THEN f16_to_f32(number) ELSE number

\* BF16 and Q8_0 stay as they are, F16 becomes F32.
ggml_to_dtype(t) == IF t = "F16" THEN "F32" ELSE t

-----------------------------------------------------------------------------
(* load_shared_weights. *)

value == Constant(next_const)
loading == stage = "loading" /\ next_const <= NumConstants

InFile(ti) == data_offset + ti.offset + tensor_bytes(ti) <= size

\* The number that the bytes of a tensor hold, if a tensor was written there.
NumberAt(ti) == LET T == file.tensors
                    W == {i \in DOMAIN T :
                            file.data_start + T[i].info.offset = data_offset + ti.offset}
                IN IF W = {} THEN "unwritten" ELSE T[Last(W)].number

can_load(ti) == ti.dtype \in Supported /\ InFile(ti)

loaded_bytes(v, dtype, ti) == IF dtype = "Q8_0" THEN tensor_bytes(ti)
                              ELSE Numel(ShapeOf(v)) * ggml_dtype_size(dtype)

WithName(f, k, v) == [x \in DOMAIN f \cup {k} |-> IF x = k THEN v ELSE f[x]]

\* Mutant: the constant without a tensor is looked at again.
skip_constant_again == /\ loading /\ value_to_gguf(value) = {}
                       /\ UNCHANGED <<parseVars, stage, weightVars>>

\* No tensor of the file has this name: the value stays without storage.
skip_constant == /\ loading /\ value_to_gguf(value) = {}
                 /\ next_const' = next_const + 1
                 /\ UNCHANGED <<parseVars, stage, device, cfg, storage, aliases, total_bytes, bound>>

load_new(g) ==
    /\ loading /\ g \in value_to_gguf(value) /\ g \notin DOMAIN storage
    /\ can_load(gguf_tensor(g))
    /\ LET ti    == gguf_tensor(g)
           dtype == ggml_to_dtype(ti.dtype)
       IN /\ storage' = WithName(storage, g,
                 [dtype |-> dtype, shape |-> ShapeOf(value),
                  number |-> dequantize_to_f32(ti.dtype, NumberAt(ti))])
          /\ total_bytes' = total_bytes + loaded_bytes(value, dtype, ti)
    /\ aliases' = WithName(aliases, value, g)
    /\ next_const' = next_const + 1
    /\ UNCHANGED <<parseVars, stage, device, cfg, bound>>

\* Mutant: the alias is counted like a tensor of its own.
load_alias_counts(g) ==
    /\ loading /\ g \in value_to_gguf(value) /\ g \in DOMAIN storage
    /\ storage[g].shape = ShapeOf(value)
    /\ aliases' = WithName(aliases, value, g)
    /\ total_bytes' = total_bytes + loaded_bytes(value, storage[g].dtype, gguf_tensor(g))
    /\ next_const' = next_const + 1
    /\ UNCHANGED <<parseVars, stage, device, cfg, storage, bound>>

\* The GGUF tensor is there already: a second name for it.
load_alias(g) ==
    /\ loading /\ g \in value_to_gguf(value) /\ g \in DOMAIN storage
    /\ storage[g].shape = ShapeOf(value)
    /\ aliases' = WithName(aliases, value, g)
    /\ next_const' = next_const + 1
    /\ UNCHANGED <<parseVars, stage, device, cfg, storage, total_bytes, bound>>

\* The tensor is cut off or of a format that is not supported, or a CUDA call
\* fails.  The store is dropped with the tensors it has, and main returns.
load_fails(g) ==
    /\ loading /\ g \in value_to_gguf(value) /\ g \notin DOMAIN storage
    /\ can_load(gguf_tensor(g)) => device = "cuda"
    /\ storage' = <<>> /\ aliases' = <<>> /\ total_bytes' = 0
    /\ stage' = "exit_error"
    /\ UNCHANGED <<parseVars, device, cfg, next_const, bound>>

load_end == /\ stage = "loading" /\ next_const > NumConstants
            /\ stage' = "binding"
            /\ UNCHANGED <<parseVars, weightVars>>

\* SharedWeightStore::bind: the constants that have storage, first for the
\* prefill context.
bind(c) == /\ stage = IF c = "prefill" THEN "binding" ELSE "binding_decode"
           /\ bound' = [bound EXCEPT ![c] =
                           [v \in Constants \cap DOMAIN aliases |-> aliases[v]]]
           /\ stage' = IF c = "prefill" THEN "binding_decode" ELSE "bound"
           /\ UNCHANGED <<parseVars, device, cfg, next_const, storage, aliases, total_bytes>>

-----------------------------------------------------------------------------
WeightInit == /\ device = "none" /\ cfg = <<>>
              /\ next_const = 1
              /\ storage = <<>> /\ aliases = <<>> /\ total_bytes = 0
              /\ bound = [c \in Contexts |-> <<>>]

WeightNext == \/ extract_config
              \/ skip_constant
              \/ \E g \in Names : load_new(g) \/ load_alias(g) \/ load_fails(g)
              \/ load_end
              \/ \E c \in Contexts : bind(c)

-----------------------------------------------------------------------------
(* Properties. *)

Written(g) == LET T == file.tensors
              IN T[Last({i \in DOMAIN T : T[i].info.name = g})]

\* The bytes of a tensor in storage.
StoredBytes(g) == IF storage[g].dtype = "Q8_0" THEN tensor_bytes(gguf_tensor(g))
                  ELSE Numel(storage[g].shape) * ggml_dtype_size(storage[g].dtype)

\* A finite F16 and the F32 made of it are the same number: the F32's
\* significand times two to its exponent, put at the F16's scale.
SameNumber(b, f) ==
    LET scale16 == IF F16Exp(b) = 0 THEN -24 ELSE F16Exp(b) - 25
        digits  == IF F16Exp(b) = 0 THEN F16Mant(b) ELSE 2^10 + F16Mant(b)
    IN /\ f[1] = F16Sign(b)
       /\ IF F16Exp(b) = 31 THEN f[2] = 255 /\ (f[3] = 0 <=> F16Mant(b) = 0)
          ELSE IF digits = 0 THEN f[2] = 0 /\ f[3] = 0
          ELSE LET up == scale16 - (f[2] - 150)
               IN up \in 0..23 /\ digits * 2^up = 2^23 + f[3]

\* A loaded tensor holds what the writer put into the tensor of that name, to
\* the last bit of every format (infinities, subnormals and zeros of F16
\* included), is as large, and all of its bytes were in the file: no wrong
\* offset, stale duplicate or cut-off block is ever taken for a weight
\* (load_tensor_from_gguf, tensor_view, f16_to_f32).
LoadedAsWritten ==
    \A g \in DOMAIN storage :
        LET w == Written(g)
        IN /\ file.data_start + w.info.offset + w.bytes <= size
           /\ IF w.info.dtype = "F16" THEN SameNumber(w.number, storage[g].number)
              ELSE storage[g].dtype = w.info.dtype /\ storage[g].number = w.number
           /\ StoredBytes(g) = IF w.info.dtype = "Q8_0" THEN w.bytes
                               ELSE Numel(w.info.dimensions) * ggml_dtype_size(storage[g].dtype)

\* Every GGUF tensor is stored once however many values use it, the count of
\* bytes is that of the storage, each alias fits its storage, and both
\* contexts see the same storage under the same name (load_shared_weights,
\* check_compatible_weight, bind).
WeightsSharedOnce ==
    /\ total_bytes = MapThenSumSet(StoredBytes, DOMAIN storage)
    /\ DOMAIN storage = {aliases[v] : v \in DOMAIN aliases}
    /\ \A v \in DOMAIN aliases : storage[aliases[v]].shape = ShapeOf(v)
    /\ \A c \in Contexts : bound[c] # <<>> => bound[c] = aliases
=============================================================================
