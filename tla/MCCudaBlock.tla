----------------------------- MODULE MCCudaBlock -----------------------------
(***************************************************************************)
(* Blocks of two warps of two lanes, one of two warps of four, and one     *)
(* warp; rows shorter and longer than the block, two tiles of keys of which *)
(* the last is not full, and block tables with a hole.                     *)
(***************************************************************************)
EXTENDS CudaBlock, TLC

Cells == (0..5) \X (0..5)
Key   == [c \in Cells |-> 1 + ((2 * c[1] + c[2]) % 3)]
Value == [c \in Cells |-> 1 + ((c[1] + 3 * c[2]) % 5)]
Row(n) == [i \in 0..(n - 1) |-> 1 + ((2 * i) % 5)]

Block(name, warps, lanes) == [name |-> name, warps |-> warps, lanes |-> lanes]

Rows == {Block("rmsnorm", 2, 2) @@ [n |-> n, x |-> Row(n), gamma |-> Row(n)] : n \in {3, 6}}
        \cup {Block("softmax", 2, 2) @@ [n |-> n, x |-> Row(n)] : n \in {3, 6}}
        \cup {Block("softmax", 1, 4) @@ [n |-> 3, x |-> Row(3)]}

Gemm(by, bx) == Block("sgemm", 2, 2) @@ [tile |-> 2, by |-> by, bx |-> bx, M |-> 3, N |-> 4, K |-> 3,
                                         A |-> Key, B |-> Value]

Q8(N) == Block("q8", 2, 2) @@ [by |-> 1, bx |-> 1, M |-> 2, N |-> N, K |-> 4,
                               A |-> Key, B |-> Value, scale |-> Key]

Heads(qh, kv, dim) == [qh |-> qh, num_heads |-> 2, num_kv_heads |-> kv, head_dim |-> dim,
                       q |-> Row(dim), k |-> Key, v |-> Value]

Decode(form, len, table) == [form |-> form, len |-> len, table |-> table, block_size |-> 2]

Decodes == {Block("decode", 2, 2) @@ Heads(1, 2, 3) @@ d :
              d \in {Decode("contiguous", 3, <<>>), Decode("paged", 3, <<2, 0>>),
                     Decode("paged", 4, <<-1, 1>>), Decode("paged", 2, <<-1>>), Decode("batch", 5, <<2, 1>>), Decode("batch", 0, <<-1>>)}}
           \cup {Block("decode", 1, 4) @@ Heads(1, 1, 2) @@ Decode("paged", 3, <<1, 0>>),
                 Block("decode", 2, 4) @@ Heads(0, 2, 3) @@ Decode("contiguous", 2, <<>>),
                 Block("decode", 2, 2) @@ Heads(0, 1, 5) @@ Decode("contiguous", 2, <<>>)}

Sdpa(causal, q_pos) == Block("sdpa", 2, 2) @@ Heads(1, 2, 3) @@ Decode("contiguous", 0, <<>>)
                       @@ [tile |-> 2, causal |-> causal, q_pos |-> q_pos, q_len |-> 4]

MCLaunches == Rows \cup Decodes \cup {Gemm(0, 0), Gemm(1, 1), Q8(4), Q8(3)}
              \cup {Sdpa(TRUE, 1), Sdpa(TRUE, 2), Sdpa(FALSE, 0)}
=============================================================================
