------------------------------- MODULE KVCache -------------------------------
(***************************************************************************)
(* The contiguous KV cache of one sequence                                 *)
(* (src/runtime/cache/kv_cache.cpp): per layer one row per position up to  *)
(* max_seq_len, and one length for all layers.  K and V of a position are  *)
(* one row.                                                                *)
(***************************************************************************)
EXTENDS Integers, Sequences, FiniteSets

VARIABLES layers,        \* layers_: layer -> position -> row
          max_seq_len,   \* max_seq_len_
          cached_len     \* cached_len_

kvVars == <<layers, max_seq_len, cached_len>>

\* What init fills the rows with.
ZeroKV == <<>>

kv_initialized == max_seq_len > 0

Emptied == /\ layers' = <<>>
           /\ max_seq_len' = 0
           /\ cached_len' = 0

kv_sizes_ok(num_layers, num_kv_heads, head_dim, n) ==
    num_layers > 0 /\ num_kv_heads > 0 /\ head_dim > 0 /\ n > 0

\* init and init_cuda drop what was there before; sizes that are not positive
\* leave the cache uninitialized, and are an error of init_cuda.
kv_init(num_layers, num_kv_heads, head_dim, n) ==
    IF ~kv_sizes_ok(num_layers, num_kv_heads, head_dim, n) THEN Emptied
    ELSE /\ layers' = [l \in 0..(num_layers - 1) |-> [p \in 0..(n - 1) |-> ZeroKV]]
         /\ max_seq_len' = n
         /\ cached_len' = 0

\* release and the destructor; init_cuda that fails ends here too.
kv_release == Emptied

\* An error of cudaFree ends release: the sizes stay, and the layers up to
\* the one whose storage was being freed have none.
kv_release_fails(l) == /\ layers' = [k \in DOMAIN layers |-> IF k <= l THEN <<>> ELSE layers[k]]
                       /\ UNCHANGED <<max_seq_len, cached_len>>

can_append(n) == n >= 0 /\ n <= max_seq_len - cached_len

\* The rows of a run of tokens are copied to position start and on.
store(l, start, rows) ==
    layers' = [layers EXCEPT ![l] = [p \in DOMAIN @ |->
                  IF p \in start..(start + Len(rows) - 1) THEN rows[p - start + 1] ELSE @[p]]]

\* set_cached_len clamps.
Clamped(n) == IF n < 0 THEN 0 ELSE IF n > max_seq_len THEN max_seq_len ELSE n

advance(n) == cached_len' = Clamped(cached_len + n)

KVCacheInit == layers = <<>> /\ max_seq_len = 0 /\ cached_len = 0
=============================================================================
