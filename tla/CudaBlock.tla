----------------------------- MODULE CudaBlock -----------------------------
(***************************************************************************)
(* One thread block of the kernels of cuda_kernels.cu that share memory:   *)
(* the block reductions, RMSNorm, softmax, tiled SGEMM, the Q8_0 SGEMM,    *)
(* tiled attention and the decode attentions.  Threads run in any order    *)
(* between __syncthreads(); the lanes of a warp meet at a shuffle.         *)
(*                                                                         *)
(* What a thread does between two such points is one step, and `accesses`  *)
(* keeps the shared slots that the steps since the last barrier touched:   *)
(* BlockSafe says that no two of them conflict, so that finer steps would  *)
(* not show either.  Numbers are integers; exp(x) is 2^x scaled by         *)
(* 2^ExpRange, and a quotient is the pair of its terms.                    *)
(***************************************************************************)
EXTENDS Integers, Sequences, FiniteSets, FiniteSetsExt

CONSTANTS Launches,   \* bound: kernels with their arguments
          Garbage,    \* bound: what shared memory may hold at first
          ExpRange    \* bound: the widest spread of scores

\* What every launch has: a warp for each lane of the first one at most, so
\* that it can reduce the partials of all warps, and sizes that are integers.
ASSUME LaunchAssumption ==
    \A k \in Launches :
        /\ k.name \in {"rmsnorm", "softmax", "sgemm", "q8", "decode", "sdpa"}
        /\ k.lanes \in Nat \ {0} /\ k.warps \in 1..k.lanes
        /\ k.name = "sgemm" => k.tile \in Nat \ {0} /\ k.K \in Nat
        /\ k.name = "q8" => {k.M, k.N} \subseteq Nat
        /\ k.name = "decode" => k.table \in Seq(Int) /\ k.block_size \in Nat \ {0} /\ k.len \in Int
        /\ k.name = "sdpa" => k.tile \in Nat \ {0} /\ {k.q_pos, k.q_len} \subseteq Nat

VARIABLES kernel,     \* the launch
          pc,         \* per thread, where it goes on
          waiting,    \* the threads at __syncthreads()
          reg,        \* per thread, its local variables
          shared,     \* slot -> value
          out,        \* output index -> pair
          accesses    \* shared accesses since the last barrier

blockVars == <<kernel, pc, waiting, reg, shared, out, accesses>>

Lowest  == -1000    \* -FLT_MAX
BLOCK   == kernel.warps * kernel.lanes
Threads == 0..(BLOCK - 1)
lane(t) == t % kernel.lanes
warp(t) == t \div kernel.lanes
exited  == {t \in Threads : pc[t] = "exit"}

\* A memory with one cell, and f with the cells of g written over it.
Cell(x, v) == [y \in {x} |-> v]
Over(f, g) == [y \in DOMAIN f \cup DOMAIN g |-> IF y \in DOMAIN g THEN g[y] ELSE f[y]]

SumOver(S, f(_)) == MapThenSumSet(f, S)

\* for (i = t; i < n; i += BLOCK)
Strided(t, n) == {i \in 0..(n - 1) : i % BLOCK = t}

-----------------------------------------------------------------------------
(* A step of a thread, and the barrier. *)

at(t, label) == pc[t] = label /\ t \notin waiting

Touched(t, kind, S) == {[slot |-> s, kind |-> kind, thread |-> t, settled |-> FALSE] : s \in S}

\* Thread t reads and writes shared slots and goes on at `next`.
go(t, next, r, reads, writes) ==
    /\ pc' = [pc EXCEPT ![t] = next]
    /\ reg' = [reg EXCEPT ![t] = r]
    /\ shared' = Over(shared, writes)
    /\ accesses' = accesses \cup Touched(t, "read", reads) \cup Touched(t, "write", DOMAIN writes)
    /\ UNCHANGED kernel

run(t, next, r, reads, writes)  == go(t, next, r, reads, writes) /\ UNCHANGED waiting
sync(t, next, r, reads, writes) == go(t, next, r, reads, writes) /\ waiting' = waiting \cup {t}

NoSlots  == {}
NoWrites == <<>>

syncthreads == /\ waiting = Threads
               /\ \A t, u \in waiting : pc[t] = pc[u]
               /\ waiting' = {} /\ accesses' = {}
               /\ UNCHANGED <<kernel, pc, reg, shared, out>>

-----------------------------------------------------------------------------
(* block_reduce_sum and block_reduce_max; each has its own warp_partials.  *)

Joined(op, a, b) == IF op = "sum" THEN a + b ELSE Max({a, b})
Unit(op)         == IF op = "sum" THEN 0 ELSE Lowest

\* v = v op __shfl_down(v, offset), for offset = lanes / 2 down to 1; a lane
\* without a partner gets its own value.
warp_reduced(op, v) ==
    LET n == kernel.lanes
        shfl(f, o) == [i \in 0..(n - 1) |-> Joined(op, f[i], IF i + o < n THEN f[i + o] ELSE f[i])]
        h[o \in 1..n] == IF o >= n THEN v ELSE shfl(h[2 * o], o)
    IN h[1]

\* The threads of warp w meet at `label`, reduce v and go on at `next`.
shuffle(w, label, next) ==
    LET lanes == {t \in Threads : warp(t) = w}
        first == w * kernel.lanes
        v == warp_reduced(reg[first].op, [i \in 0..(kernel.lanes - 1) |-> reg[first + i].v])
    IN /\ \A t \in lanes : at(t, label)
       /\ pc' = [t \in Threads |-> IF t \in lanes THEN next ELSE pc[t]]
       /\ reg' = [t \in Threads |-> IF t \in lanes THEN [reg[t] EXCEPT !.v = v[lane(t)]] ELSE reg[t]]
       /\ accesses' = {IF a.thread \in lanes THEN [a EXCEPT !.settled = TRUE] ELSE a : a \in accesses}
       /\ UNCHANGED <<kernel, waiting, shared, out>>

warp_reduce(w) == shuffle(w, "reduce", "put_partial")

put_partial(t) ==
    LET r == reg[t]
    IN /\ at(t, "put_partial")
       /\ sync(t, "get_partial", r, NoSlots, IF lane(t) = 0 THEN Cell(<<r.op, warp(t)>>, r.v) ELSE NoWrites)
       /\ UNCHANGED out

get_partial(t) ==
    LET r == reg[t]
        slot == <<r.op, lane(t)>>
        next == IF warp(t) = 0 THEN "reduce_partials" ELSE "put_result"
    IN /\ at(t, "get_partial")
       /\ \/ /\ t < kernel.warps
             /\ run(t, next, [r EXCEPT !.v = shared[slot]], {slot}, NoWrites)
          \/ /\ t >= kernel.warps
             /\ run(t, next, [r EXCEPT !.v = Unit(r.op)], NoSlots, NoWrites)
       /\ UNCHANGED out

reduce_partials == shuffle(0, "reduce_partials", "put_result")

put_result(t) ==
    LET r == reg[t]
    IN /\ at(t, "put_result")
       /\ sync(t, "get_result", r, NoSlots, IF t = 0 THEN Cell(<<r.op, 0>>, r.v) ELSE NoWrites)
       /\ UNCHANGED out

\* Mutant: no barrier after the result is read.
get_result_open(t) ==
    LET r == reg[t]
    IN /\ at(t, "get_result")
       /\ run(t, r.ret, [r EXCEPT !.v = shared[<<r.op, 0>>]], {<<r.op, 0>>}, NoWrites)
       /\ UNCHANGED out

get_result(t) ==
    LET r == reg[t]
    IN /\ at(t, "get_result")
       /\ sync(t, r.ret, [r EXCEPT !.v = shared[<<r.op, 0>>]], {<<r.op, 0>>}, NoWrites)
       /\ UNCHANGED out

\* Thread t calls block_reduce_`op` with v and goes on at `ret`.
block_reduce(t, op, v, ret, r, reads) ==
    /\ run(t, "reduce", [r EXCEPT !.op = op, !.v = v, !.ret = ret], reads, NoWrites)
    /\ UNCHANGED out

leave(t, written) == /\ pc' = [pc EXCEPT ![t] = "exit"]
                     /\ out' = Over(out, written)
                     /\ UNCHANGED <<kernel, waiting, reg, shared, accesses>>

-----------------------------------------------------------------------------
(* rmsnorm_kernel and softmax_kernel: a row x of n numbers. *)

rmsnorm_sum(t) == /\ at(t, "rmsnorm")
                  /\ block_reduce(t, "sum", SumOver(Strided(t, kernel.n), LAMBDA h : kernel.x[h] * kernel.x[h]),
                                  "rmsnorm_write", reg[t], NoSlots)

rmsnorm_write(t) == /\ at(t, "rmsnorm_write")
                    /\ leave(t, [h \in Strided(t, kernel.n) |-> <<kernel.x[h] * kernel.gamma[h], reg[t].v>>])

\* exp(x - m)
Exp(x, m) == 2^(ExpRange + x - m)

softmax_max(t) == /\ at(t, "softmax")
                  /\ block_reduce(t, "max", Max({Lowest} \cup {kernel.x[c] : c \in Strided(t, kernel.n)}),
                                  "softmax_sum", reg[t], NoSlots)

softmax_sum(t) ==
    LET e == [c \in Strided(t, kernel.n) |-> Exp(kernel.x[c], reg[t].v)]
    IN /\ at(t, "softmax_sum")
       /\ run(t, "reduce", [reg[t] EXCEPT !.op = "sum", !.v = SumOver(DOMAIN e, LAMBDA c : e[c]),
                                          !.ret = "softmax_divide"], NoSlots, NoWrites)
       /\ out' = Over(out, [c \in DOMAIN e |-> <<e[c], 1>>])

softmax_divide(t) ==
    /\ at(t, "softmax_divide")
    /\ leave(t, [c \in Strided(t, kernel.n) |-> <<out[c][1], reg[t].v>>])

-----------------------------------------------------------------------------
(* sgemm_kernel: the TILE x TILE block (by, bx) of C = A B.  A thread is   *)
(* ty * TILE + tx, and reg.pos is tile_k.                                  *)

tx(t)  == t % kernel.tile
ty(t)  == t \div kernel.tile
row(t) == kernel.by * kernel.tile + ty(t)
col(t) == kernel.bx * kernel.tile + tx(t)

sgemm_load(t) ==
    LET a_col == reg[t].pos + tx(t)
        b_row == reg[t].pos + ty(t)
    IN /\ at(t, "sgemm") /\ reg[t].pos < kernel.K
       /\ sync(t, "sgemm_tile", reg[t], NoSlots,
               Over(Cell(<<"As", ty(t), tx(t)>>, IF row(t) < kernel.M /\ a_col < kernel.K
                                                 THEN kernel.A[<<row(t), a_col>>] ELSE 0),
                    Cell(<<"Bs", ty(t), tx(t)>>, IF b_row < kernel.K /\ col(t) < kernel.N
                                                 THEN kernel.B[<<b_row, col(t)>>] ELSE 0)))
       /\ UNCHANGED out

sgemm_tile(t) ==
    LET As(k) == <<"As", ty(t), k>>
        Bs(k) == <<"Bs", k, tx(t)>>
        ks == 0..(kernel.tile - 1)
    IN /\ at(t, "sgemm_tile")
       /\ sync(t, "sgemm", [reg[t] EXCEPT !.acc = @ + SumOver(ks, LAMBDA k : shared[As(k)] * shared[Bs(k)]),
                                          !.pos = @ + kernel.tile],
               {As(k) : k \in ks} \cup {Bs(k) : k \in ks}, NoWrites)
       /\ UNCHANGED out

sgemm_write(t) == /\ at(t, "sgemm") /\ reg[t].pos >= kernel.K
                  /\ leave(t, IF row(t) < kernel.M /\ col(t) < kernel.N
                              THEN Cell(<<row(t), col(t)>>, <<reg[t].acc, 1>>) ELSE NoWrites)

-----------------------------------------------------------------------------
(* sgemm_q8_0_nblock_kernel: one row of C, as many columns as a warp has   *)
(* lanes; warp w takes every warps-th row of B.  A thread outside of C      *)
(* returns before the barrier: it is the grid of the launch that leaves no  *)
(* such thread.  The scale of a row of the block is read by lane 0.         *)

q8_column(t) == kernel.bx * kernel.lanes + lane(t)

q8_inside(t) == kernel.by < kernel.M /\ q8_column(t) < kernel.N

q8_local(t) ==
    LET n == q8_column(t)
        ks == {k \in 0..(kernel.K - 1) : k % kernel.warps = warp(t)}
        v == SumOver(ks, LAMBDA k : kernel.A[<<kernel.by, k>>] * kernel.B[<<k, n>>] * kernel.scale[<<k, kernel.bx>>])
    IN /\ at(t, "q8")
       /\ IF q8_inside(t)
          THEN /\ sync(t, "q8_sum", reg[t], NoSlots, Cell(<<"partials", warp(t), lane(t)>>, v))
               /\ UNCHANGED out
          ELSE leave(t, NoWrites)

q8_sum(t) ==
    /\ at(t, "q8_sum")
    /\ LET slots == {<<"partials", w, lane(t)>> : w \in 0..(kernel.warps - 1)}
       IN /\ pc' = [pc EXCEPT ![t] = "exit"]
          /\ accesses' = accesses \cup Touched(t, "read", slots)
          /\ out' = Over(out, Cell(<<kernel.by, q8_column(t)>>, <<SumOver(slots, LAMBDA s : shared[s]), 1>>))
          /\ UNCHANGED <<kernel, waiting, reg, shared>>

-----------------------------------------------------------------------------
(* The online softmax: m is the largest score so far, l and acc are sums   *)
(* scaled by exp(-m).  A sum scaled for `from` is rescaled for `to`.       *)

Rescaled(a, from, to) == IF from = Lowest THEN 0 ELSE a \div 2^(to - from)

\* paged_attention_decode_kernel, its batch form, and
\* kv_cache_attention_decode_kernel (no table).  A row of the cache holds
\* all key heads: query head qh reads head qh / group from kv_base on.
kv_base == (kernel.qh \div (kernel.num_heads \div kernel.num_kv_heads)) * kernel.head_dim

seq_len == LET most == Len(kernel.table) * kernel.block_size
           IN IF kernel.form = "batch" /\ kernel.len > most THEN most ELSE kernel.len

missing(pos) == kernel.form # "contiguous" /\ kernel.table[(pos \div kernel.block_size) + 1] < 0

kv_row(pos) == IF kernel.form = "contiguous" THEN pos
               ELSE kernel.table[(pos \div kernel.block_size) + 1] * kernel.block_size
                    + (pos % kernel.block_size)

Dot(D, pos) == SumOver(D, LAMBDA d : kernel.q[d] * kernel.k[<<kv_row(pos), kv_base + d>>])

\* The batch kernel leaves a sequence without tokens alone.
decode_empty(t) == /\ at(t, "decode") /\ kernel.form = "batch" /\ kernel.len <= 0
                   /\ leave(t, NoWrites)

decode_skip(t) == /\ at(t, "decode") /\ reg[t].pos < seq_len /\ missing(reg[t].pos)
                  /\ run(t, "decode", [reg[t] EXCEPT !.pos = @ + 1], NoSlots, NoWrites)
                  /\ UNCHANGED out

decode_score(t) == /\ at(t, "decode") /\ reg[t].pos < seq_len /\ ~missing(reg[t].pos)
                   /\ block_reduce(t, "sum", Dot(Strided(t, kernel.head_dim), reg[t].pos),
                                   "decode_update", reg[t], NoSlots)

decode_update(t) ==
    LET r == reg[t]
        new_m == Max({r.m, r.v})
        beta == Exp(r.v, new_m)
        v == IF t < kernel.head_dim THEN kernel.v[<<kv_row(r.pos), kv_base + t>>] ELSE 0
    IN /\ at(t, "decode_update")
       /\ run(t, "decode", [r EXCEPT !.acc = Rescaled(@, r.m, new_m) + beta * v,
                                     !.l = Rescaled(@, r.m, new_m) + beta,
                                     !.m = new_m, !.pos = @ + 1], NoSlots, NoWrites)
       /\ UNCHANGED out

decode_write(t) == /\ at(t, "decode") /\ kernel.len > 0 /\ reg[t].pos >= seq_len
                   /\ leave(t, IF t < kernel.head_dim THEN Cell(t, <<reg[t].acc, reg[t].l>>) ELSE NoWrites)

-----------------------------------------------------------------------------
(* flash_sdpa_tiled_kernel: the query at q_pos over the keys in tiles.     *)
(* reg.pos is tile_start and reg.t the key of the tile.                    *)

valid_keys    == IF kernel.causal THEN kernel.q_pos + 1 ELSE kernel.q_len
tile_count(t) == Min({kernel.tile, valid_keys - reg[t].pos})

sdpa_query(t) == /\ at(t, "sdpa")
                 /\ sync(t, "sdpa_load", reg[t], NoSlots,
                         [s \in {<<"q_s", d>> : d \in Strided(t, kernel.head_dim)} |-> kernel.q[s[2]]])
                 /\ UNCHANGED out

sdpa_load(t) ==
    LET idx == Strided(t, tile_count(t) * kernel.head_dim)
        key(i) == <<reg[t].pos + (i \div kernel.head_dim), kv_base + (i % kernel.head_dim)>>
    IN /\ at(t, "sdpa_load") /\ reg[t].pos < valid_keys
       /\ sync(t, "sdpa_score", [reg[t] EXCEPT !.t = 0, !.tile_m = Lowest], NoSlots,
               Over([s \in {<<"k_s", i>> : i \in idx} |-> kernel.k[key(s[2])]],
                    [s \in {<<"v_s", i>> : i \in idx} |-> kernel.v[key(s[2])]]))
       /\ UNCHANGED out

sdpa_score(t) ==
    LET D == Strided(t, kernel.head_dim)
        q_s(d) == <<"q_s", d>>
        k_s(d) == <<"k_s", reg[t].t * kernel.head_dim + d>>
    IN /\ at(t, "sdpa_score") /\ reg[t].t < tile_count(t)
       /\ block_reduce(t, "sum", SumOver(D, LAMBDA d : shared[q_s(d)] * shared[k_s(d)]), "sdpa_keep",
                       reg[t], {q_s(d) : d \in D} \cup {k_s(d) : d \in D})

sdpa_keep(t) ==
    LET r == reg[t]
    IN /\ at(t, "sdpa_keep")
       /\ run(t, "sdpa_score", [r EXCEPT !.tile_m = Max({@, r.v}), !.t = @ + 1], NoSlots,
              IF t = 0 THEN Cell(<<"scores", r.t>>, r.v) ELSE NoWrites)
       /\ UNCHANGED out

sdpa_scored(t) == /\ at(t, "sdpa_score") /\ reg[t].t >= tile_count(t)
                  /\ sync(t, "sdpa_combine", reg[t], NoSlots, NoWrites)
                  /\ UNCHANGED out

\* What a tile adds, and the shared slots it is read from.
combined(t) ==
    LET r == reg[t]
        new_m == Max({r.m, r.tile_m})
        keys == 0..(tile_count(t) - 1)
        score(i) == <<"scores", i>>
        v_s(i) == <<"v_s", i * kernel.head_dim + t>>
        beta(i) == Exp(shared[score(i)], new_m)
        owner == t < kernel.head_dim
    IN [r |-> [r EXCEPT !.acc = IF owner THEN Rescaled(@, r.m, new_m) + SumOver(keys, LAMBDA i : beta(i) * shared[v_s(i)])
                                ELSE @,
                        !.l = Rescaled(@, r.m, new_m) + SumOver(keys, beta),
                        !.m = new_m, !.pos = @ + kernel.tile],
        reads |-> {score(i) : i \in keys} \cup (IF owner THEN {v_s(i) : i \in keys} ELSE {})]

\* Mutant: no barrier before the next tile is loaded.
sdpa_combine_open(t) == /\ at(t, "sdpa_combine")
                        /\ run(t, "sdpa_load", combined(t).r, combined(t).reads, NoWrites)
                        /\ UNCHANGED out

sdpa_combine(t) == /\ at(t, "sdpa_combine")
                   /\ sync(t, "sdpa_load", combined(t).r, combined(t).reads, NoWrites)
                   /\ UNCHANGED out

sdpa_write(t) == /\ at(t, "sdpa_load") /\ reg[t].pos >= valid_keys
                 /\ leave(t, IF t < kernel.head_dim THEN Cell(t, <<reg[t].acc, reg[t].l>>) ELSE NoWrites)

-----------------------------------------------------------------------------
(* The launch. *)

heads_ok(k) == k.num_heads % k.num_kv_heads = 0 /\ k.head_dim \in 1..(k.warps * k.lanes)

\* The blocks of the grid that the Q8_0 host function launches.
q8_grid(k) == k.bx \in 0..((k.N \div k.lanes) - 1) /\ k.by \in 0..(k.M - 1)

\* Mutant: the grid is rounded up instead, so that any number of columns does.
launchable_rounded_up(k) == /\ k.name = "q8"
                            /\ k.K % k.lanes = 0 /\ k.bx * k.lanes < k.N /\ k.by \in 0..(k.M - 1)

\* What the host functions check before they launch; one thread per
\* dimension of a head is what head_dim <= 256 is for.
launchable(k) ==
    CASE k.name = "q8"     -> k.N % k.lanes = 0 /\ k.K % k.lanes = 0 /\ q8_grid(k)
      [] k.name = "decode" -> heads_ok(k) /\ (k.len > 0 \/ k.form = "batch")
      [] k.name = "sdpa"   -> heads_ok(k)
      [] OTHER             -> TRUE

Slots(k) ==
    ({"sum", "max"} \X (0..(k.warps - 1)))
    \cup CASE k.name = "sgemm" -> {"As", "Bs"} \X (0..(k.tile - 1)) \X (0..(k.tile - 1))
          [] k.name = "q8"    -> {"partials"} \X (0..(k.warps - 1)) \X (0..(k.lanes - 1))
          [] k.name = "sdpa"  -> ({"q_s"} \X (0..(k.head_dim - 1))) \cup ({"scores"} \X (0..(k.tile - 1)))
                                 \cup ({"k_s", "v_s"} \X (0..(k.tile * k.head_dim - 1)))
          [] OTHER            -> {}

Locals == [op |-> "sum", v |-> 0, ret |-> "", pos |-> 0, t |-> 0,
           m |-> Lowest, l |-> 0, acc |-> 0, tile_m |-> Lowest]

BlockInit == /\ kernel \in {k \in Launches : launchable(k)}
             /\ pc = [t \in Threads |-> kernel.name]
             /\ waiting = {} /\ accesses = {} /\ out = <<>>
             /\ reg = [t \in Threads |-> Locals]
             /\ \E g \in Garbage : shared = [s \in Slots(kernel) |-> g]

reduce_step(t)  == put_partial(t) \/ get_partial(t) \/ put_result(t) \/ get_result(t)
row_step(t)     == rmsnorm_sum(t) \/ rmsnorm_write(t)
                   \/ softmax_max(t) \/ softmax_sum(t) \/ softmax_divide(t)
matrix_step(t)  == sgemm_load(t) \/ sgemm_tile(t) \/ sgemm_write(t) \/ q8_local(t) \/ q8_sum(t)
decode_step(t)  == decode_empty(t) \/ decode_skip(t) \/ decode_score(t) \/ decode_update(t) \/ decode_write(t)
sdpa_step(t)    == \/ sdpa_query(t) \/ sdpa_load(t) \/ sdpa_score(t) \/ sdpa_keep(t)
                   \/ sdpa_scored(t) \/ sdpa_combine(t) \/ sdpa_write(t)

block_done == exited = Threads /\ UNCHANGED blockVars

BlockNext == \/ syncthreads \/ reduce_partials \/ block_done
             \/ \E w \in 0..(kernel.warps - 1) : warp_reduce(w)
             \/ \E t \in Threads : \/ reduce_step(t) \/ row_step(t) \/ matrix_step(t)
                                    \/ decode_step(t) \/ sdpa_step(t)

BlockSpec == BlockInit /\ [][BlockNext]_blockVars

-----------------------------------------------------------------------------
(* The operators as the CPU kernels compute them, one thread, in order of  *)
(* the index.  The largest score counts exp(0), so that no sum is zero.    *)

cpu_rmsnorm == LET sum_sq == SumOver(0..(kernel.n - 1), LAMBDA h : kernel.x[h]^2)
               IN [h \in 0..(kernel.n - 1) |-> <<kernel.x[h] * kernel.gamma[h], sum_sq>>]

cpu_softmax == LET C == 0..(kernel.n - 1)
                   max_val == Max({kernel.x[c] : c \in C})
                   sum == SumOver(C, LAMBDA c : Exp(kernel.x[c], max_val))
               IN [c \in C |-> <<Exp(kernel.x[c], max_val), sum>>]

cpu_sgemm(C) == [c \in C |-> <<SumOver(0..(kernel.K - 1), LAMBDA k : kernel.A[<<c[1], k>>] * kernel.B[<<k, c[2]>>]), 1>>]

\* With the scale of each block of as many columns as a warp has lanes.
cpu_sgemm_q8_0(C) ==
    LET q8_0_value(k, n) == kernel.scale[<<k, n \div kernel.lanes>>] * kernel.B[<<k, n>>]
    IN [c \in C |-> <<SumOver(0..(kernel.K - 1), LAMBDA k : kernel.A[<<c[1], k>>] * q8_0_value(k, c[2])), 1>>]

\* The maximum first, then the sum, then the weighted rows of V.
cpu_attention(positions) ==
    LET score(pos) == Dot(0..(kernel.head_dim - 1), pos)
        max_score == Max({score(pos) : pos \in positions})
        p(pos) == Exp(score(pos), max_score)
        v(pos, d) == kernel.v[<<kv_row(pos), kv_base + d>>]
    IN [d \in 0..(kernel.head_dim - 1) |->
          <<SumOver(positions, LAMBDA pos : p(pos) * v(pos, d)), SumOver(positions, p)>>]

-----------------------------------------------------------------------------
(* Properties. *)

\* Two accesses that no barrier and no shuffle of their warp orders.
Unordered(a, b) == /\ a.thread # b.thread
                   /\ warp(a.thread) = warp(b.thread) => a.settled = b.settled

\* No barrier is missing: two threads never touch a shared slot, one of them
\* to write it, without a barrier or a shuffle between.  And no barrier
\* diverges: a thread that waits is met by every thread at the same one.
BlockSafe == /\ \A a, b \in accesses : a.slot = b.slot /\ Unordered(a, b) => {a.kind, b.kind} = {"read"}
             /\ waiting # {} => exited = {}
             /\ waiting = Threads => \A t, u \in Threads : pc[t] = pc[u]

\* The part of C that this block is to write.
part(b, size, n) == {i \in 0..(n - 1) : i \div size = b}

\* Positions that the table has blocks for; holes, which the CPU refuses, are
\* skipped by the device.
found == {pos \in 0..(seq_len - 1) : ~missing(pos)}

\* Over a table of holes only, the device divides no weights by no sum: NaN.
Expected ==
    CASE kernel.name = "rmsnorm" -> cpu_rmsnorm
      [] kernel.name = "softmax" -> cpu_softmax
      [] kernel.name = "sgemm"   -> cpu_sgemm(part(kernel.by, kernel.tile, kernel.M) \X part(kernel.bx, kernel.tile, kernel.N))
      [] kernel.name = "q8"      -> cpu_sgemm_q8_0({kernel.by} \X part(kernel.bx, kernel.lanes, kernel.N))
      [] kernel.name = "sdpa"    -> cpu_attention(0..(valid_keys - 1))
      [] kernel.name = "decode"  -> IF found # {} THEN cpu_attention(found)
                                    ELSE IF kernel.len > 0 THEN [d \in 0..(kernel.head_dim - 1) |-> <<0, 0>>]
                                    ELSE <<>>

\* The block computes what the CPU kernel computes, whatever the order of its
\* threads and whatever shared memory held: every key, row element or product
\* counts once, at the scale of the final maximum.
ComputesWhole == exited = Threads => out = Expected
=============================================================================
