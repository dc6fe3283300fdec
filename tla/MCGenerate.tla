----------------------------- MODULE MCGenerate -----------------------------
(* Generate for TLC: files of each kind the parser and the loader tell     *)
(* apart, whole and cut short.                                             *)
EXTENDS Generate, GgufWriter

KV(k, v) == [key |-> k, value |-> v]
Str(k, s) == KV(k, Scalar("STRING", s))
Num(k, t, n) == KV(k, Scalar(t, n))

TokensKV == KV(tokens_key, Array("STRING", <<Scalar("STRING", "a"), Scalar("STRING", "end"), Scalar("STRING", "b")>>))
EosKV    == Num(<<"tokenizer", "eos_token_id">>, "UINT32", 1)

ModelKV(hidden, ffn, heads, kv_heads, head_dim) ==
    <<Num(<<"llama", "embedding_length">>, "UINT32", hidden),
      Num(<<"llama", "feed_forward_length">>, "INT64", ffn),
      Num(<<"llama", "head_count">>, "UINT32", heads),
      Num(<<"llama", "head_count_kv">>, "INT32", kv_heads),
      Num(<<"llama", "key_length">>, "UINT64", head_dim)>>

\* A model with hidden size 2, one head of dimension 2, vocabulary 3.
SmallKV == ModelKV(2, 3, 1, 1, 2)

SmallDims == [token_embd |-> <<3, 2>>, output |-> <<3, 2>>, output_norm |-> <<2>>,
              attn_norm |-> <<2>>, attn_q |-> <<2, 2>>, attn_k |-> <<2, 2>>, attn_v |-> <<2, 2>>,
              attn_output |-> <<2, 2>>, attn_q_norm |-> <<2>>, attn_k_norm |-> <<2>>,
              ffn_norm |-> <<2>>, ffn_gate |-> <<3, 2>>, ffn_up |-> <<3, 2>>, ffn_down |-> <<2, 3>>]

T(name, dims, dtype, number) ==
    [name |-> name, dims |-> dims, dtype |-> dtype, number |-> number]

\* One whose weights are whole blocks of Q8_0, with norms in floats.
BlockDims == [n \in DOMAIN SmallDims |-> [i \in DOMAIN SmallDims[n] |->
                IF n \in {"token_embd", "output"} /\ i = 1 THEN 3 ELSE 32]]

LayerNames == <<"attn_norm", "attn_q", "attn_k", "attn_v", "attn_output",
                "ffn_norm", "ffn_gate", "ffn_up", "ffn_down">>
QkNames    == LayerNames \o <<"attn_q_norm", "attn_k_norm">>

Bits(dtype, i) == IF dtype = "F32" THEN <<0, 127 + i, 0>> ELSE i

LayerOfDims(l, names, dims, Dtype(_)) ==
    [i \in DOMAIN names |-> T(<<"blk", l, names[i]>>, dims[names[i]], Dtype(names[i]),
                              Bits(Dtype(names[i]), 20 * (l + 1) + i))]

Layer(l, names, dtype) == LayerOfDims(l, names, SmallDims, LAMBDA n : dtype)

NormsF32(dtype, n) == IF n \in {"attn_norm", "ffn_norm"} THEN "F32" ELSE dtype
MixedLayer(l, names, dims, dtype) == LayerOfDims(l, names, dims, LAMBDA n : NormsF32(dtype, n))

Ends(dtype) == <<T(<<"token_embd">>, <<3, 2>>, dtype, Bits(dtype, 1)),
                 T(<<"output_norm">>, <<2>>, "F32", Bits("F32", 2))>>
Output(dtype) == <<T(<<"output">>, <<3, 2>>, dtype, Bits(dtype, 3))>>

\* F16 bits: zeros, smallest and other subnormals, normals, infinity, NaN.
F16Bits == <<0, 32768, 1, 512, 1023, 33000, 1024, 15360, 48128, 31743, 31744, 64512, 32256>>
F16Tensors == [i \in DOMAIN F16Bits |->
                 LET names == <<"token_embd", "output_norm">> \o QkNames
                 IN IF i <= 2 THEN T(<<names[i]>>, SmallDims[names[i]], "F16", F16Bits[i])
                    ELSE T(<<"blk", 0, names[i]>>, SmallDims[names[i]], "F16", F16Bits[i])]

\* Values of all kinds: nested and empty arrays, repeated keys, negatives.
OddKV == <<Num(<<"general", "alignment">>, "UINT32", 64),
           KV(<<"x", "nested">>, Array("ARRAY", <<Array("INT8", <<Scalar("INT8", -2), Scalar("INT8", 3)>>),
                                                  Array("INT8", <<>>),
                                                  Array("BOOL", <<Scalar("BOOL", TRUE)>>)>>)),
           Num(<<"x", "twice">>, "INT16", -1), KV(<<"x", "twice">>, Scalar("BOOL", FALSE)),
           KV(<<"x", "empty">>, Array("TENSOR", <<>>)),
           Str(<<"x", "text">>, "long"),
           Str(<<"general", "architecture">>, "qwen"),
           Num(<<"qwen", "embedding_length">>, "FLOAT32", 9),
           Num(<<"qwen", "block_count">>, "UINT32", 1), Num(<<"llama", "block_count">>, "UINT32", 2)>>

Limits == [string |-> MaxStringLen, array |-> MaxArrayLen, dims |-> MaxTensorDims, tensors |-> MaxTensorCount]

W(kv, tensors, a) == Write("GGUF", 3, kv, tensors, a, Limits)
OneTensor(dims) == <<T(<<"token_embd">>, dims, "F32", Bits("F32", 1))>>

Corpus ==
    [two_layers |-> W(SmallKV \o <<TokensKV, EosKV, Num(<<"llama", "block_count">>, "UINT32", 2)>>,
                      Ends("F32") \o Layer(0, LayerNames, "F32")
                          \o MixedLayer(1, LayerNames, SmallDims, "BF16") \o Output("F32"), 32),
     whole_q8   |-> W(ModelKV(32, 32, 2, 1, 16) \o <<TokensKV, EosKV>>,
                      <<T(<<"token_embd">>, <<3, 32>>, "Q8_0", 1),
                        T(<<"output_norm">>, <<32>>, "F32", Bits("F32", 2))>>
                          \o MixedLayer(0, LayerNames, [BlockDims EXCEPT !.attn_k = <<16, 32>>,
                                                                        !.attn_v = <<16, 32>>], "Q8_0"), 32),
     bf16_norms |-> W(SmallKV \o <<TokensKV, EosKV>>,
                      Ends("F32") \o Layer(0, LayerNames, "BF16"), 32),
     odd_heads  |-> W(ModelKV(2, 3, 3, 2, 2) \o <<TokensKV, EosKV>>,
                      Ends("F32") \o LayerOfDims(0, LayerNames,
                          [SmallDims EXCEPT !.attn_q = <<6, 2>>, !.attn_k = <<4, 2>>,
                                            !.attn_v = <<4, 2>>, !.attn_output = <<2, 6>>],
                          LAMBDA n : "F32"), 32),
     tied_f16   |-> W(SmallKV \o <<TokensKV>>, F16Tensors, 32),
     odd_q8     |-> W(OddKV \o SmallKV \o <<TokensKV, EosKV>>,
                      Ends("Q8_0") \o Layer(0, LayerNames, "Q8_0"), 64),
     no_ffn_up  |-> W(SmallKV \o <<TokensKV, EosKV>>,
                      Ends("BF16") \o Layer(0, SelectSeq(LayerNames, LAMBDA n : n # "ffn_up"), "BF16")
                          \o <<T(<<"rope_freqs">>, <<2>>, "F32", Bits("F32", 9))>>, 32),
     twice      |-> W(<<TokensKV>>, OneTensor(<<3, 768>>)
                          \o <<T(<<"token_embd">>, <<3, 768>>, "F32", Bits("F32", 7))>>, 32),
     q4         |-> W(<<TokensKV>>, <<T(<<"token_embd">>, <<3, 768>>, "Q4_0", 5)>>, 32),
     no_tensors |-> W(<<TokensKV>>, <<>>, 32),
     no_strings |-> W(<<KV(tokens_key, Array("UINT8", <<Scalar("UINT8", 1)>>))>>, OneTensor(<<1, 768>>), 32),
     long_text  |-> W(<<Str(<<"x", "text">>, "longer")>>, <<>>, 32),
     no_tokens  |-> W(<<EosKV>>, OneTensor(<<3, 768>>), 32),
     nothing    |-> W(<<>>, <<>>, 32),
     bad_value  |-> W(<<KV(<<"x", "bad">>, Scalar("TENSOR", 0))>>, <<>>, 32),
     long_array |-> W(<<KV(<<"x", "long">>, Array("UINT8", [i \in 1..(MaxArrayLen + 1) |-> Scalar("UINT8", i)]))>>,
                      <<>>, 32),
     no_dims    |-> W(<<>>, OneTensor(<<>>), 32),
     many_dims  |-> W(<<>>, OneTensor([i \in 1..(MaxTensorDims + 1) |-> 1]), 32),
     zero_dim   |-> W(<<>>, OneTensor(<<2, 0>>), 32),
     many       |-> W(<<>>, [i \in 1..(MaxTensorCount + 1) |-> OneTensor(<<1>>)[1]], 32),
     magic      |-> Write("GGML", 3, <<>>, <<>>, 32, Limits),
     version    |-> Write("GGUF", 2, <<TokensKV>>, <<>>, 32, Limits)]

MCFiles == Corpus

\* Whole; without the last byte of a field; without the last byte of a tensor.
MCSizes(f) ==
    LET F == Corpus[f]
        header == IF f \in {"odd_q8", "no_tokens"}
                  THEN {F.fields[i].end - 1 : i \in DOMAIN F.fields} ELSE {F.fields[3].end - 1}
    IN {F.bytes} \cup header
         \cup {F.data_start + F.tensors[i].info.offset + F.tensors[i].bytes - 1 : i \in DOMAIN F.tensors}

MCPrompts      == {<<0>>, <<2, 2>>}
MCMaxNewTokens == {-2, 0, 1, 3}

\* Equals, one far behind, one ahead, and tokens that a penalty swaps.
MCLogits == {[t \in 0..2 |-> l[t + 1]] :
               l \in {<<0, 0, 0>>, <<32, -16, 16>>, <<16, 32, 16>>, <<-16, -16, -8>>}}

\* The configurations of the two programs, and some that draw.
Config(g, pen, k, p, q) == [greedy |-> g, penalty |-> pen, top_k |-> k, p |-> p, q |-> q]
MCSampConfigs == [cpu  |-> {Config(TRUE, TRUE, 1, 1, 1), Config(FALSE, TRUE, 0, 1, 2)},
                  cuda |-> {Config(TRUE, TRUE, 40, 9, 10), Config(FALSE, FALSE, 2, 9, 10)}]
=============================================================================
