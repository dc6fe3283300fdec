---------------------------- MODULE PagedKVCache ----------------------------
(***************************************************************************)
(* The host side of the paged KV cache                                     *)
(* (src/runtime/cache/paged_kv_cache.{h,cpp}): a pool of MaxBlocks blocks  *)
(* of BlockSize token rows per layer, a LIFO free list, and for every      *)
(* sequence a block table and a logical length.                            *)
(*                                                                         *)
(* One action per method that changes the state.  A call that returns an   *)
(* error returns before its first assignment, so it is a stuttering step;  *)
(* the condition under which a call succeeds is the guard of its action.   *)
(* A K row and the V row written with it are one value of Rows.  A         *)
(* sequence the vector sequences_ does not hold yet is one with an empty   *)
(* table and length 0: no method tells the two apart.                      *)
(***************************************************************************)
EXTENDS Integers, Sequences, FiniteSets

CONSTANTS SeqIds,      \* sequence ids used by the callers
          Layers,      \* layer indices
          BlockSize,   \* token rows per block
          MaxBlocks,   \* blocks of the pool
          Rows,        \* K/V row values
          ZeroRow,     \* the row of freshly allocated storage
          MaxTokens    \* bound: the largest token count of a call

ASSUME GeometryAssumption == /\ BlockSize \in Nat \ {0}
                             /\ MaxBlocks \in Nat \ {0}
ASSUME RowsAssumption == ZeroRow \in Rows
\* ceil_div_int(a, b) computes a + b - 1 in a 32-bit int; the model is about
\* calls for which that sum does not overflow.
ASSUME NoOverflowAssumption == /\ MaxTokens \in Nat
                               /\ MaxTokens + BlockSize <= 2147483647

Blocks  == 0..(MaxBlocks - 1)
Offsets == 0..(BlockSize - 1)

VARIABLES initialized,   \* initialized()
          free_blocks,   \* free_blocks_, used from the back
          block_used,    \* block_used_
          seq_blocks,    \* sequences_[id].blocks
          seq_length,    \* sequences_[id].length
          kv             \* kv[l][b][o]: the row at offset o of block b in layer l

vars == <<initialized, free_blocks, block_used, seq_blocks, seq_length, kv>>

-----------------------------------------------------------------------------
(* Life cycle of the pool. *)

\* Mutant: the list is numbered from 1.
AllBlocksFree_from_one == [i \in 1..MaxBlocks |-> MaxBlocks - i + 1]

\* free_blocks_ after init and reset: block 0 is at the back.
AllBlocksFree == [i \in 1..MaxBlocks |-> MaxBlocks - i]

NoSequences == /\ seq_blocks' = [id \in SeqIds |-> <<>>]
               /\ seq_length' = [id \in SeqIds |-> 0]

ZeroedPool == /\ free_blocks' = AllBlocksFree
              /\ block_used' = [b \in Blocks |-> FALSE]
              /\ kv' = [l \in Layers |-> [b \in Blocks |-> [o \in Offsets |-> ZeroRow]]]
              /\ NoSequences

\* init with positive dimensions, at any time: it releases first.
init == /\ initialized' = TRUE
        /\ ZeroedPool

\* release, and init with a dimension that is not positive.  The storage is
\* gone; the model keeps it as zero rows that nothing can read.
release == /\ initialized' = FALSE
           /\ free_blocks' = <<>>
           /\ block_used' = [b \in Blocks |-> FALSE]
           /\ kv' = [l \in Layers |-> [b \in Blocks |-> [o \in Offsets |-> ZeroRow]]]
           /\ NoSequences

\* reset.  Before init it has an empty pool to refill and changes nothing.
reset == /\ initialized
         /\ ZeroedPool
         /\ UNCHANGED initialized

-----------------------------------------------------------------------------
(* Reservation. *)

\* Mutant: rounds down.
ceil_div_int_floors(a, b) == a \div b

ceil_div_int(a, b) == (a + b - 1) \div b

blocks_needed(n) == IF n = 0 THEN 0 ELSE ceil_div_int(n, BlockSize)

sequence_capacity(id) == Len(seq_blocks[id]) * BlockSize

has_sequence(id) == seq_blocks[id] # <<>> \/ seq_length[id] > 0

\* How many blocks reserve_sequence(id, n) takes from the free list.
to_allocate(id, n) ==
    IF blocks_needed(n) <= Len(seq_blocks[id]) THEN 0 ELSE blocks_needed(n) - Len(seq_blocks[id])

\* reserve_sequence(id, n) returns ok.
can_reserve(id, n) == initialized /\ to_allocate(id, n) <= Len(free_blocks)

\* Mutant: reads the front of the list while the back is popped.
popped_front(k) == [i \in 1..k |-> free_blocks[i]]

\* The blocks that k rounds of back() and pop_back() take, in order.
popped(k) == [i \in 1..k |-> free_blocks[Len(free_blocks) + 1 - i]]

\* Mutant: the blocks taken are not marked used.
allocate_unmarked(id, k) ==
    /\ free_blocks' = SubSeq(free_blocks, 1, Len(free_blocks) - k)
    /\ seq_blocks'  = [seq_blocks EXCEPT ![id] = @ \o popped(k)]
    /\ UNCHANGED block_used

\* The loop of reserve_sequence.
allocate(id, k) ==
    /\ free_blocks' = SubSeq(free_blocks, 1, Len(free_blocks) - k)
    /\ block_used'  = [b \in Blocks |-> block_used[b] \/ \E i \in 1..k : popped(k)[i] = b]
    /\ seq_blocks'  = [seq_blocks EXCEPT ![id] = @ \o popped(k)]

reserve_sequence(id, n) ==
    /\ can_reserve(id, n)
    /\ allocate(id, to_allocate(id, n))
    /\ UNCHANGED <<initialized, seq_length, kv>>

set_sequence_length(id, n) ==
    /\ can_reserve(id, n)
    /\ allocate(id, to_allocate(id, n))
    /\ seq_length' = [seq_length EXCEPT ![id] = n]
    /\ UNCHANGED <<initialized, kv>>

-----------------------------------------------------------------------------
(* Access to rows. *)

\* physical_block_for_position, for a block table bs, and the offset in it.
physical_block(bs, pos) == bs[(pos \div BlockSize) + 1]
offset_in_block(pos)    == pos % BlockSize

\* What token_ptr(id, layer l, pos) points to, for pos below the length, and
\* mutable_token_ptr for pos below the capacity.
token_row(id, l, pos) == kv[l][physical_block(seq_blocks[id], pos)][offset_in_block(pos)]

\* Mutant: the offset is that of the token in the run, not of its position.
TokensAt_run_offset(bs, start, n, b, o) ==
    {t \in 1..n : /\ physical_block(bs, start + t - 1) = b
                  /\ offset_in_block(t - 1) = o}

\* The tokens of a run of n rows from start whose row is at block b, offset o.
TokensAt(bs, start, n, b, o) ==
    {t \in 1..n : /\ physical_block(bs, start + t - 1) = b
                  /\ offset_in_block(start + t - 1) = o}

LatestOf(S) == CHOOSE t \in S : \A u \in S : u <= t

\* Layer storage after the rows vals are copied in, from position start on,
\* through the block table bs: the last copy to a place wins.
copy_rows(rows, bs, start, vals) ==
    [b \in Blocks |-> [o \in Offsets |->
        LET ts == TokensAt(bs, start, Len(vals), b, o)
        IN IF ts = {} THEN rows[b][o] ELSE vals[LatestOf(ts)]]]

\* write_tokens with a non-empty run (an empty one returns ok at once).  The
\* rows go through the table as the reservation left it.
write_tokens(id, l, start, vals) ==
    LET end_pos == start + Len(vals)
    IN /\ can_reserve(id, end_pos)
       /\ allocate(id, to_allocate(id, end_pos))
       /\ kv' = [kv EXCEPT ![l] = copy_rows(@, seq_blocks'[id], start, vals)]
       /\ seq_length' = [seq_length EXCEPT ![id] = IF @ >= end_pos THEN @ ELSE end_pos]
       /\ UNCHANGED initialized

append_tokens(id, l, vals) == write_tokens(id, l, seq_length[id], vals)

-----------------------------------------------------------------------------
(* Giving blocks back. *)

\* The elements of a finite set of naturals, in increasing order.
InOrder(S) == CHOOSE f \in [1..Cardinality(S) -> S] :
                 /\ \A i, j \in 1..Cardinality(S) : i < j => f[i] < f[j]
                 /\ \A x \in S : \E i \in 1..Cardinality(S) : f[i] = x

\* The entries of id's table that free_sequence pushes: those whose block is
\* still marked used when the loop reaches them.
StillUsed(id) == {i \in DOMAIN seq_blocks[id] :
                    /\ block_used[seq_blocks[id][i]]
                    /\ \A j \in 1..(i-1) : seq_blocks[id][j] # seq_blocks[id][i]}

returned(id) == [i \in 1..Cardinality(StillUsed(id)) |->
                    seq_blocks[id][InOrder(StillUsed(id))[i]]]

\* Mutant: the table is not cleared.
free_sequence_keeps_table(id) ==
    /\ free_blocks' = free_blocks \o returned(id)
    /\ block_used'  = [b \in Blocks |->
                         block_used[b] /\ \A i \in DOMAIN seq_blocks[id] : seq_blocks[id][i] # b]
    /\ seq_length'  = [seq_length EXCEPT ![id] = 0]
    /\ UNCHANGED <<initialized, seq_blocks, kv>>

\* Mutant: the length is not reset.
free_sequence_keeps_length(id) ==
    /\ free_blocks' = free_blocks \o returned(id)
    /\ block_used'  = [b \in Blocks |->
                         block_used[b] /\ \A i \in DOMAIN seq_blocks[id] : seq_blocks[id][i] # b]
    /\ seq_blocks'  = [seq_blocks EXCEPT ![id] = <<>>]
    /\ UNCHANGED <<initialized, seq_length, kv>>

\* The rows are left as they are: the next owner of a block finds them.
free_sequence(id) ==
    /\ free_blocks' = free_blocks \o returned(id)
    /\ block_used'  = [b \in Blocks |->
                         block_used[b] /\ \A i \in DOMAIN seq_blocks[id] : seq_blocks[id][i] # b]
    /\ seq_blocks'  = [seq_blocks EXCEPT ![id] = <<>>]
    /\ seq_length'  = [seq_length EXCEPT ![id] = 0]
    /\ UNCHANGED <<initialized, kv>>

-----------------------------------------------------------------------------
\* The constructor leaves the cache released.
Init == /\ initialized = FALSE
        /\ free_blocks = <<>>
        /\ block_used = [b \in Blocks |-> FALSE]
        /\ seq_blocks = [id \in SeqIds |-> <<>>]
        /\ seq_length = [id \in SeqIds |-> 0]
        /\ kv = [l \in Layers |-> [b \in Blocks |-> [o \in Offsets |-> ZeroRow]]]

\* Non-empty runs of rows that fit between start and MaxTokens.
RowRuns(start) == UNION {[1..n -> Rows] : n \in 1..(MaxTokens - start)}

Next == \/ init
        \/ release
        \/ reset
        \/ \E id \in SeqIds :
             \/ free_sequence(id)
             \/ \E n \in 0..MaxTokens : reserve_sequence(id, n)
             \/ \E n \in 0..MaxTokens : set_sequence_length(id, n)
             \/ \E l \in Layers, start \in 0..MaxTokens :
                  \E vals \in RowRuns(start) : write_tokens(id, l, start, vals)
             \/ \E l \in Layers : \E vals \in RowRuns(seq_length[id]) : append_tokens(id, l, vals)

Spec == Init /\ [][Next]_vars

-----------------------------------------------------------------------------
(* Properties. *)

TypeOK == /\ initialized \in BOOLEAN
          /\ free_blocks \in Seq(Blocks)
          /\ block_used \in [Blocks -> BOOLEAN]
          /\ seq_blocks \in [SeqIds -> Seq(Blocks)]
          /\ seq_length \in [SeqIds -> Nat]
          /\ kv \in [Layers -> [Blocks -> [Offsets -> Rows]]]

Owns(id, b) == \E i \in DOMAIN seq_blocks[id] : seq_blocks[id][i] = b
IsFree(b)   == \E i \in DOMAIN free_blocks : free_blocks[i] = b

Injective(s) == \A i, j \in DOMAIN s : s[i] = s[j] => i = j

\* A physical block appears at most once in all block tables and the free
\* list together: whatever order sequences reserve, write and free in, two
\* sequences never share storage and no block is handed out twice
\* (reserve_sequence, free_sequence).
NoBlockShared ==
    /\ Injective(free_blocks)
    /\ \A id \in SeqIds : Injective(seq_blocks[id])
    /\ \A id \in SeqIds, b \in Blocks : Owns(id, b) => ~IsFree(b)
    /\ \A id, other \in SeqIds, b \in Blocks : Owns(id, b) /\ Owns(other, b) => id = other

\* No block leaks: in an initialized cache every block is on the free list or
\* in a block table, in a released one no block is, and block_used_ says which
\* of the two, so that the used-test of free_sequence never drops a block of a
\* live sequence.
NoBlockLost ==
    \A b \in Blocks : /\ block_used[b] <=> \E id \in SeqIds : Owns(id, b)
                      /\ initialized <=> (IsFree(b) \/ block_used[b])

\* Every position below sequence_length has a block, so token_ptr and the
\* decode loop, which walk 0 .. length - 1, never leave the block table
\* (physical_block_for_position's "token position outside block table").
LengthCovered == \A id \in SeqIds : seq_length[id] <= sequence_capacity(id)

\* The inductive invariant: all of the above.
CacheInv == TypeOK /\ NoBlockShared /\ NoBlockLost /\ LengthCovered

\* What the callers see: the rows of each sequence by layer and position.
Positions(id) == Layers \X (0..(sequence_capacity(id) - 1))
rows_of == [id \in SeqIds |-> [lp \in Positions(id) |-> token_row(id, lp[1], lp[2])]]

\* The cache implements private per-sequence arrays: a call on one sequence
\* leaves the rows and lengths of every other sequence alone, and a
\* reservation moves no row that is already there.
Store == INSTANCE SequenceStore WITH store <- rows_of, len <- seq_length
StoreSpec == Store!Spec

\* Each call does what the abstract call with the same arguments does: the
\* rows a write_tokens call is given are read back at start, start + 1, ...
\* in that layer, and no other row of the sequence changes, block boundaries
\* and reservations in the same call included.
CallsImplementStore ==
    [][\A id \in SeqIds :
         /\ \A n \in 0..MaxTokens : /\ reserve_sequence(id, n) => Store!Reserve(id, n)
                                    /\ set_sequence_length(id, n) => Store!SetLength(id, n)
         /\ \A l \in Layers, start \in 0..MaxTokens : \A vals \in RowRuns(start) :
              write_tokens(id, l, start, vals) => Store!Write(id, l, start, vals)]_vars
=============================================================================
