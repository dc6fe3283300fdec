----------------------- MODULE PagedAttentionScheduler ----------------------
(***************************************************************************)
(* The paged attention scheduler                                           *)
(* (src/runtime/cache/paged_attention_scheduler.{h,cpp}): a list of active *)
(* sequences over a paged KV cache it does not own, and build_batch, which *)
(* flattens their block tables into one table padded with -1.  A kernel    *)
(* addresses the K/V storage through that copy, while the cache goes on    *)
(* changing under it: between two scheduler calls the owner of the cache   *)
(* makes any calls of PagedKVCache.                                        *)
(*                                                                         *)
(* decode_cpu builds a batch of its own and writes only to its output.     *)
(***************************************************************************)
EXTENDS PagedKVCache, FiniteSetsExt

CONSTANT MaxBatch      \* max_batch_size_

ASSUME BatchAssumption == MaxBatch \in Nat \ {0}

VARIABLES active_sequence_ids,   \* active_sequence_ids_
          batch                  \* the last batch built while none of its sequences was
                                 \* freed since, else NoBatch

batchVars == <<vars, active_sequence_ids, batch>>

NoBatch == [sequence_ids |-> <<>>, sequence_lengths |-> <<>>, block_tables |-> <<>>,
            max_blocks_per_sequence |-> 0]

Listed(id, s) == \E i \in DOMAIN s : s[i] = id

-----------------------------------------------------------------------------
(* The list of active sequences. *)

is_active(id) == Listed(id, active_sequence_ids)

\* Mutant: the size limit is not tested.
add_sequence_unlimited(id) ==
    /\ has_sequence(id) /\ seq_length[id] > 0
    /\ ~is_active(id)
    /\ active_sequence_ids' = Append(active_sequence_ids, id)
    /\ UNCHANGED <<vars, batch>>

\* Adding an active sequence again changes nothing.
add_sequence(id) ==
    /\ has_sequence(id) /\ seq_length[id] > 0
    /\ ~is_active(id)
    /\ Len(active_sequence_ids) < MaxBatch
    /\ active_sequence_ids' = Append(active_sequence_ids, id)
    /\ UNCHANGED <<vars, batch>>

\* The first place where find stops is erased.
remove_sequence(id) ==
    /\ \E k \in DOMAIN active_sequence_ids :
         /\ active_sequence_ids[k] = id
         /\ \A j \in 1..(k - 1) : active_sequence_ids[j] # id
         /\ active_sequence_ids' = SubSeq(active_sequence_ids, 1, k - 1)
                                     \o SubSeq(active_sequence_ids, k + 1, Len(active_sequence_ids))
    /\ UNCHANGED <<vars, batch>>

clear == /\ active_sequence_ids' = <<>>
         /\ UNCHANGED <<vars, batch>>

-----------------------------------------------------------------------------
(* build_batch. *)

blocks_for_length(n) == (n + BlockSize - 1) \div BlockSize

\* The status that build_batch returns: "batch" for a result.
build_status ==
    LET Missing(i) == LET id == active_sequence_ids[i]
                      IN ~has_sequence(id) \/ seq_length[id] <= 0
        Short(i)   == LET id == active_sequence_ids[i]
                      IN Len(seq_blocks[id]) < blocks_for_length(seq_length[id])
        Bad        == {i \in DOMAIN active_sequence_ids : Missing(i) \/ Short(i)}
    IN IF active_sequence_ids = <<>> THEN "invalid_argument"
       ELSE IF Len(active_sequence_ids) > MaxBatch THEN "internal_error"
       ELSE IF Bad = {} THEN "batch"
       ELSE IF Missing(Min(Bad)) THEN "not_found" ELSE "internal_error"

\* Mutant: the widths of all rows are that of the last sequence.
batch_width_last(ids) == blocks_for_length(seq_length[ids[Len(ids)]])

batch_width(ids) == Max({blocks_for_length(seq_length[ids[i]]) : i \in DOMAIN ids})

\* Row i of the flattened table is the part of the block table that the
\* sequence's length needs, then -1.
flattened(ids) ==
    LET w == batch_width(ids)
    IN [k \in 1..(Len(ids) * w) |->
          LET id  == ids[((k - 1) \div w) + 1]
              col == (k - 1) % w
          IN IF col < blocks_for_length(seq_length[id]) THEN seq_blocks[id][col + 1] ELSE -1]

build_batch ==
    LET ids == active_sequence_ids
    IN /\ build_status = "batch"
       /\ batch' = [sequence_ids |-> ids,
                    sequence_lengths |-> [i \in DOMAIN ids |-> seq_length[ids[i]]],
                    block_tables |-> flattened(ids),
                    max_blocks_per_sequence |-> batch_width(ids)]
       /\ UNCHANGED <<vars, active_sequence_ids>>

-----------------------------------------------------------------------------
(* Calls of the cache's owner. *)

cache_grows ==
    /\ \E id \in SeqIds :
         \/ \E n \in 0..MaxTokens : reserve_sequence(id, n)
         \/ \E n \in 0..MaxTokens : set_sequence_length(id, n)
         \/ \E l \in Layers, start \in 0..MaxTokens :
              \E vals \in RowRuns(start) : write_tokens(id, l, start, vals)
    /\ UNCHANGED <<active_sequence_ids, batch>>

\* The scheduler is not told: a freed sequence stays in its list.
cache_frees ==
    \E id \in SeqIds :
        /\ free_sequence(id)
        /\ batch' = IF Listed(id, batch.sequence_ids) THEN NoBatch ELSE batch
        /\ UNCHANGED active_sequence_ids

cache_restarts == /\ init \/ reset \/ release
                  /\ batch' = NoBatch
                  /\ UNCHANGED active_sequence_ids

-----------------------------------------------------------------------------
BatchInit == /\ Init
             /\ active_sequence_ids = <<>>
             /\ batch = NoBatch

BatchNext == \/ \E id \in SeqIds : add_sequence(id) \/ remove_sequence(id)
             \/ clear
             \/ build_batch
             \/ cache_grows
             \/ cache_frees
             \/ cache_restarts

BatchSpec == BatchInit /\ [][BatchNext]_batchVars

-----------------------------------------------------------------------------
(* Properties. *)

BatchTypeOK ==
    /\ TypeOK
    /\ active_sequence_ids \in Seq(SeqIds)
    /\ batch.sequence_ids \in Seq(SeqIds)
    /\ batch.block_tables \in Seq(Blocks \cup {-1})
    /\ batch.max_blocks_per_sequence \in 0..MaxBlocks

\* build_batch never returns internal_error, whatever the cache's owner and
\* the scheduler's user do in which order: its two "cannot happen" branches
\* (a list above max_batch_size, a block table shorter than the length) are
\* indeed dead, and a failure always means an empty list or a freed sequence.
BuildNeverInternal == build_status # "internal_error"

\* The state that every call finds and leaves: of its type, and not one that
\* build_batch takes for impossible.
BatchInv == BatchTypeOK /\ BuildNeverInternal

\* The place where the kernel that is given the batch looks for position pos
\* of its i-th sequence.
batch_block(i, pos) ==
    batch.block_tables[(i - 1) * batch.max_blocks_per_sequence + (pos \div BlockSize) + 1]

\* A batch stays usable while the cache goes on: as long as none of its
\* sequences was freed, every position it covers is found in the block that
\* holds it now, however sequences grew, shrank, were written or were freed
\* in the meantime, and no row of another sequence is read.
BatchStaysReadable ==
    \A i \in DOMAIN batch.sequence_ids :
        \A pos \in 0..(batch.sequence_lengths[i] - 1) :
            batch_block(i, pos) = physical_block(seq_blocks[batch.sequence_ids[i]], pos)
=============================================================================
