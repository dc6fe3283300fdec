-------------------------- MODULE PagedKVCacheCuda --------------------------
(***************************************************************************)
(* The paged KV cache on a CUDA device                                     *)
(* (src/runtime/cache/paged_kv_cache.cpp): the bookkeeping of PagedKVCache *)
(* stays on the host, the rows live in device memory, and a kernel finds   *)
(* the blocks of a sequence through a copy of its block table in device    *)
(* memory, which only upload_block_table refreshes.                        *)
(*                                                                         *)
(* A row is a pair of what its K half and its V half were copied from, the *)
(* id of the writing sequence or ZeroHalf: the two are copied one after    *)
(* the other and either copy may fail.  cudaMalloc returns any address     *)
(* that is not allocated.                                                  *)
(*                                                                         *)
(* A call on the device may fail at any moment.  When cudaMalloc fails in  *)
(* upload_block_table the entry of the sequence goes on pointing to the    *)
(* table that was freed just before, and every later call uses that        *)
(* pointer as if it were good.  cudaFree and cudaMemcpy of an address that *)
(* is not allocated do nothing; of one that was given to another sequence  *)
(* meanwhile, they free or overwrite that sequence's table (`clobbered`).  *)
(***************************************************************************)
EXTENDS PagedKVCache

CONSTANTS Addrs,      \* device addresses of block tables
          Null,       \* nullptr
          ZeroHalf,   \* what cudaMemset leaves
          Uninit,     \* an int of a new table before it is written
          MaxWritten  \* bound: the number of positions that are written

ASSUME CudaAssumption == /\ Null \notin Addrs
                         /\ SeqIds \subseteq Nat
                         /\ MaxWritten \in 0..MaxTokens
                         /\ ZeroHalf \notin SeqIds
                         /\ Rows = (SeqIds \cup {ZeroHalf}) \X (SeqIds \cup {ZeroHalf})
                         /\ ZeroRow = <<ZeroHalf, ZeroHalf>>

VARIABLES num_sequences,       \* sequences_.size()
          block_tables,        \* cuda_block_tables_, Null where the vector ends
          block_table_sizes,   \* cuda_block_table_sizes_
          memory,              \* memory[a]: the ints at address a, <<>> when a is free
          uploaded,            \* history: entries copied by the last upload that returned
                               \* ok, 0 once the table is gone
          dangling,            \* history: sequences whose entry points to a freed table
          clobbered,           \* history: a dangling entry was used after its address had
                               \* been given to another sequence
          written              \* history: positions whose row a layer has completed

tableVars == <<block_tables, block_table_sizes, memory, uploaded, dangling, clobbered>>
cudaVars  == <<vars, num_sequences, tableVars, written>>

-----------------------------------------------------------------------------
(* Life cycle. *)

NothingWritten == written' = [id \in SeqIds |-> [l \in Layers |-> {}]]

\* Memory after cudaFree of every entry of cuda_block_tables_.
AllFreed == [a \in Addrs |-> IF \E id \in SeqIds : block_tables[id] = a THEN <<>> ELSE memory[a]]

NoTables == /\ memory' = AllFreed
            /\ block_tables' = [id \in SeqIds |-> Null]
            /\ block_table_sizes' = [id \in SeqIds |-> 0]
            /\ uploaded' = [id \in SeqIds |-> 0]
            /\ num_sequences' = 0
            /\ dangling' = {} /\ clobbered' = FALSE
            /\ NothingWritten

\* init_cuda releases first.
init_cuda == init /\ NoTables

\* release; init_cuda whose cudaSetDevice, cudaMalloc or cudaMemset fails ends
\* in the same state.
release_cuda == release /\ NoTables

\* The rows after reset: a cudaMemset that fails leaves the K half (1) or the
\* V half (2) of a layer as it was, and nobody looks at its result.
zeroed_rows(kept) ==
    LET half(l, b, o, h) == IF <<l, h>> \in kept THEN kv[l][b][o][h] ELSE ZeroHalf
    IN [l \in Layers |-> [b \in Blocks |-> [o \in Offsets |-> <<half(l, b, o, 1), half(l, b, o, 2)>>]]]

\* reset forgets the sequences; their device tables stay allocated.
reset_cuda == /\ initialized
              /\ free_blocks' = AllBlocksFree
              /\ block_used' = [b \in Blocks |-> FALSE]
              /\ NoSequences
              /\ \E kept \in SUBSET (Layers \X {1, 2}) : kv' = zeroed_rows(kept)
              /\ num_sequences' = 0
              /\ uploaded' = [id \in SeqIds |-> 0]
              /\ NothingWritten
              /\ UNCHANGED <<initialized, block_tables, block_table_sizes, memory, dangling, clobbered>>

ensure_sequence(id) ==
    num_sequences' = IF id >= num_sequences THEN id + 1 ELSE num_sequences

-----------------------------------------------------------------------------
(* Reservation and lengths, as on the host. *)

reserve(id, n) == /\ reserve_sequence(id, n)
                  /\ ensure_sequence(id)
                  /\ UNCHANGED <<tableVars, written>>

\* No free block is left; the sequence exists from now on all the same.
reserve_fails(id, n) == /\ initialized /\ ~can_reserve(id, n)
                        /\ ensure_sequence(id)
                        /\ UNCHANGED <<vars, tableVars, written>>

\* Callers go back to a shorter length; only writes raise it.
truncate(id, n) == /\ id < num_sequences /\ n < seq_length[id]
                   /\ set_sequence_length(id, n)
                   /\ written' = [written EXCEPT ![id] = [l \in Layers |-> @[l] \cap 0..(n - 1)]]
                   /\ UNCHANGED <<num_sequences, tableVars>>

-----------------------------------------------------------------------------
(* write_tokens_cuda. *)

OwnRow(id) == <<id, id>>

Run(start, n) == start..(start + n - 1)

\* Every copy succeeds: what write_tokens does on the host.
write_tokens_cuda(id, l, start, n) ==
    /\ write_tokens(id, l, start, [t \in 1..n |-> OwnRow(id)])
    /\ ensure_sequence(id)
    /\ written' = [written EXCEPT ![id][l] = @ \cup Run(start, n)]
    /\ UNCHANGED tableVars

\* The rows that are copied when the first c of the 2n copies succeed: whole
\* rows, then a row with the K half only when c is odd.
PartialRun(id, l, start, c) ==
    LET torn == start + (c \div 2)
        old  == kv[l][physical_block(seq_blocks'[id], torn)][offset_in_block(torn)]
    IN [t \in 1..(c \div 2) |-> OwnRow(id)]
         \o IF c % 2 = 1 THEN << <<id, old[2]>> >> ELSE <<>>

\* Mutant: the length is raised before the copies.
write_tokens_cuda_fails_late(id, l, start, n) ==
    \E c \in 0..(2 * n - 1) :
        /\ can_reserve(id, start + n)
        /\ allocate(id, to_allocate(id, start + n))
        /\ kv' = [kv EXCEPT ![l] = copy_rows(@, seq_blocks'[id], start, PartialRun(id, l, start, c))]
        /\ seq_length' = [seq_length EXCEPT ![id] = IF @ >= start + n THEN @ ELSE start + n]
        /\ ensure_sequence(id)
        /\ UNCHANGED <<initialized, tableVars, written>>

\* Copy c + 1 fails: the blocks stay reserved, the length is not raised.
write_tokens_cuda_fails(id, l, start, n) ==
    \E c \in 0..(2 * n - 1) :
        /\ can_reserve(id, start + n)
        /\ allocate(id, to_allocate(id, start + n))
        /\ kv' = [kv EXCEPT ![l] = copy_rows(@, seq_blocks'[id], start, PartialRun(id, l, start, c))]
        /\ ensure_sequence(id)
        /\ UNCHANGED <<initialized, seq_length, tableVars, written>>

-----------------------------------------------------------------------------
(* Device block tables. *)

\* The first c of the ints of s are copied to the front of a table.
Copied(table, s, c) == SubSeq(s, 1, c) \o SubSeq(table, c + 1, Len(table))

\* The table that is there is large enough.
reusable(id) == /\ block_tables[id] # Null
                /\ block_table_sizes[id] >= Len(seq_blocks[id])

\* Memory after cudaFree of id's table.
Freed(id) == [a \in Addrs |-> IF a = block_tables[id] THEN <<>> ELSE memory[a]]

\* The entry of id points into memory that is allocated.
points(id) == \E a \in Addrs : block_tables[id] = a /\ memory[a] # <<>>

\* A call that frees or overwrites what the entry of id points to.
uses_entry(id) == clobbered' = (clobbered \/ (id \in dangling /\ points(id)))

can_upload(id) == id < num_sequences /\ seq_blocks[id] # <<>>

\* Mutant: a table that is large enough is taken as it is.
upload_reusing_no_copy(id) ==
    /\ can_upload(id) /\ reusable(id) /\ points(id)
    /\ uses_entry(id)
    /\ uploaded' = [uploaded EXCEPT ![id] = Len(seq_blocks[id])]
    /\ UNCHANGED <<vars, num_sequences, block_tables, block_table_sizes, memory, dangling, written>>

upload_reusing(id) ==
    /\ can_upload(id) /\ reusable(id) /\ points(id)
    /\ uses_entry(id)
    /\ memory' = [memory EXCEPT ![block_tables[id]] = Copied(@, seq_blocks[id], Len(seq_blocks[id]))]
    /\ uploaded' = [uploaded EXCEPT ![id] = Len(seq_blocks[id])]
    /\ UNCHANGED <<vars, num_sequences, block_tables, block_table_sizes, dangling, written>>

\* The cudaMemcpy into the table that is there fails, half-way or at once; it
\* must when the table is not allocated.
upload_reusing_fails(id) ==
    /\ can_upload(id) /\ reusable(id)
    /\ \/ /\ points(id)
          /\ uses_entry(id)
          /\ \E c \in 0..(Len(seq_blocks[id]) - 1) :
               memory' = [memory EXCEPT ![block_tables[id]] = Copied(@, seq_blocks[id], c)]
       \/ ~points(id) /\ UNCHANGED <<memory, clobbered>>
    /\ UNCHANGED <<vars, num_sequences, block_tables, block_table_sizes, uploaded, dangling, written>>

\* The table that was too small is freed and a new one allocated, the size of
\* which is recorded before anything is copied to it.  The copy of all c ints
\* is the call that returns ok.
upload_into_new(id, a, c) ==
    LET count == Len(seq_blocks[id])
    IN /\ can_upload(id) /\ ~reusable(id)
       /\ uses_entry(id)
       /\ Freed(id)[a] = <<>>
       /\ block_tables' = [block_tables EXCEPT ![id] = a]
       /\ memory' = [Freed(id) EXCEPT ![a] = Copied([i \in 1..count |-> Uninit], seq_blocks[id], c)]
       /\ block_table_sizes' = [block_table_sizes EXCEPT ![id] = count]
       /\ uploaded' = [uploaded EXCEPT ![id] = IF c = count THEN count ELSE 0]
       /\ dangling' = dangling \ {id}
       /\ UNCHANGED <<vars, num_sequences, written>>

\* Mutant: the table that was too small is not freed.
upload_allocating_leaks(id) ==
    /\ can_upload(id) /\ ~reusable(id)
    /\ \E a \in Addrs :
         /\ memory[a] = <<>>
         /\ block_tables' = [block_tables EXCEPT ![id] = a]
         /\ memory' = [memory EXCEPT ![a] = seq_blocks[id]]
    /\ block_table_sizes' = [block_table_sizes EXCEPT ![id] = Len(seq_blocks[id])]
    /\ uploaded' = [uploaded EXCEPT ![id] = Len(seq_blocks[id])]
    /\ dangling' = dangling \ {id}
    /\ UNCHANGED <<vars, num_sequences, clobbered, written>>

upload_allocating(id) == \E a \in Addrs : upload_into_new(id, a, Len(seq_blocks[id]))

\* The cudaMemcpy into the new table fails.
upload_new_fails(id) ==
    \E a \in Addrs, c \in 0..(Len(seq_blocks[id]) - 1) : upload_into_new(id, a, c)

\* cudaMalloc fails after the cudaFree, if there was a table to free.
upload_malloc_fails(id) ==
    /\ can_upload(id) /\ ~reusable(id)
    /\ uses_entry(id)
    /\ memory' = Freed(id)
    /\ dangling' = IF block_tables[id] = Null THEN dangling ELSE dangling \cup {id}
    /\ uploaded' = [uploaded EXCEPT ![id] = 0]
    /\ UNCHANGED <<vars, num_sequences, block_tables, block_table_sizes, written>>

\* An id the cache does not know returns at once, its table stays.
free_sequence_cuda(id) ==
    /\ id < num_sequences
    /\ free_sequence(id)
    /\ uses_entry(id)
    /\ memory' = Freed(id)
    /\ block_tables' = [block_tables EXCEPT ![id] = Null]
    /\ block_table_sizes' = [block_table_sizes EXCEPT ![id] = 0]
    /\ uploaded' = [uploaded EXCEPT ![id] = 0]
    /\ dangling' = dangling \ {id}
    /\ written' = [written EXCEPT ![id] = [l \in Layers |-> {}]]
    /\ UNCHANGED num_sequences

-----------------------------------------------------------------------------
CudaInit == /\ Init
            /\ num_sequences = 0
            /\ block_tables = [id \in SeqIds |-> Null]
            /\ block_table_sizes = [id \in SeqIds |-> 0]
            /\ memory = [a \in Addrs |-> <<>>]
            /\ uploaded = [id \in SeqIds |-> 0]
            /\ dangling = {} /\ clobbered = FALSE
            /\ written = [id \in SeqIds |-> [l \in Layers |-> {}]]

\* Callers write a row of a layer once, until they cut the sequence back, and
\* leave no gap behind the length.
Appends(id, l, start, n) == Run(start, n) \cap written[id][l] = {}

CudaNext ==
    \/ init_cuda
    \/ release_cuda
    \/ reset_cuda
    \/ \E id \in SeqIds :
         \/ \E n \in 0..MaxTokens : reserve(id, n) \/ reserve_fails(id, n) \/ truncate(id, n)
         \/ \E l \in Layers, start \in 0..seq_length[id] :
              \E n \in 1..(MaxWritten - start) :
                 /\ Appends(id, l, start, n)
                 /\ \/ write_tokens_cuda(id, l, start, n)
                    \/ write_tokens_cuda_fails(id, l, start, n)
         \/ upload_reusing(id) \/ upload_reusing_fails(id)
         \/ upload_allocating(id) \/ upload_new_fails(id) \/ upload_malloc_fails(id)
         \/ free_sequence_cuda(id)

CudaSpec == CudaInit /\ [][CudaNext]_cudaVars

-----------------------------------------------------------------------------
(* Properties. *)

CudaTypeOK == /\ TypeOK
              /\ num_sequences \in Nat
              /\ block_tables \in [SeqIds -> Addrs \cup {Null}]
              /\ block_table_sizes \in [SeqIds -> 0..MaxBlocks]
              /\ memory \in [Addrs -> Seq(Blocks \cup {Uninit})]
              /\ uploaded \in [SeqIds -> 0..MaxBlocks]
              /\ dangling \subseteq SeqIds
              /\ clobbered \in BOOLEAN
              /\ written \in [SeqIds -> [Layers -> SUBSET Nat]]

HasTable(id) == id \notin dangling /\ block_tables[id] # Null

\* No device table leaks, whatever fails: what is allocated has an entry
\* pointing to it, so that release frees it (upload_block_table, release).
NoTableLeaked == \A a \in Addrs : memory[a] # <<>> => \E id \in SeqIds : block_tables[id] = a

\* Every device table belongs to exactly one sequence and has the size the
\* host remembers, whatever order uploads, frees and resets come in and
\* whichever copy or allocation fails, as long as no call goes through the
\* entry that a failed allocation left behind after its address was given
\* away: a call that frees or overwrites through that entry is the only way
\* in which two sequences come to harm each other (upload_block_table,
\* free_sequence).
DeviceTablesOwned ==
    ~clobbered =>
        /\ \A id \in SeqIds : HasTable(id) =>
             block_table_sizes[id] > 0 /\ Len(memory[block_tables[id]]) = block_table_sizes[id]
        /\ \A id, other \in SeqIds :
             HasTable(id) /\ HasTable(other) /\ block_tables[id] = block_tables[other] => id = other

\* The state every call on the device side finds and leaves: of its type, no
\* table leaked, and each owned by one sequence.
DeviceInv == CudaTypeOK /\ NoTableLeaked /\ DeviceTablesOwned

\* A table that an upload has filled stays right for every position it covers
\* until its sequence is freed, the cache reset or a later upload frees it and
\* then fails, though the host table grows, the sequence is cut back, copies
\* into the table fail and other sequences upload, fail and free: a kernel
\* that attends over those positions reads the sequence's own blocks.  As
\* above, no call has gone through an entry whose address was given away.
UploadedTableReadable ==
    ~clobbered => \A id \in SeqIds : \A i \in 1..uploaded[id] :
                      memory[block_tables[id]][i] = seq_blocks[id][i]

\* A position below the length was completed by some layer, and in every layer
\* that completed it both halves of its row are what this sequence copied
\* there, whichever copy of whichever earlier write failed or memory was not
\* cleared: no half of a former owner of the block and no half-copied row
\* (write_tokens_cuda raises the length last).  The length is shared: once one
\* layer has raised it, a copy that fails in another leaves a position below
\* the length that this layer has not completed, and nothing is said of it.
VisibleRowsWhole ==
    \A id \in SeqIds : \A pos \in 0..(seq_length[id] - 1) :
        /\ \E l \in Layers : pos \in written[id][l]
        /\ \A l \in Layers : pos \in written[id][l] => token_row(id, l, pos) = OwnRow(id)
=============================================================================
