----------------------- MODULE PagedKVCacheCudaProofs -----------------------
(***************************************************************************)
(* Proofs about PagedKVCacheCuda: the device block tables, what a kernel   *)
(* reads through them, and the rows below a length, for any number of      *)
(* sequences, layers, blocks and device addresses, every cudaMalloc,       *)
(* cudaMemset and cudaMemcpy that the calls look at being free to fail.    *)
(***************************************************************************)
EXTENDS PagedKVCacheCuda, PagedKVCacheProofs

-----------------------------------------------------------------------------
(* The inductive invariant. *)

\* The uploaded entries are in the host table and in the device table.
UploadedWithin ==
    \A id \in SeqIds :
        /\ uploaded[id] <= Len(seq_blocks[id])
        /\ uploaded[id] > 0 => /\ block_tables[id] # Null
                               /\ uploaded[id] <= block_table_sizes[id]

\* An entry that a failed allocation left behind counts as not uploaded.
DanglingForgotten == ~clobbered => \A id \in dangling : uploaded[id] = 0

DeviceInd == /\ CacheInv
             /\ DeviceInv
             /\ UploadedWithin
             /\ DanglingForgotten
             /\ UploadedTableReadable

-----------------------------------------------------------------------------
(* Tables. *)

Ints == Blocks \cup {Uninit}

\* The front of a device table is overwritten, the rest stays.
LEMMA CopiedEffect ==
  ASSUME NEW table \in Seq(Ints), NEW s \in Seq(Blocks), NEW c \in 0..Len(s)
  PROVE  /\ Copied(table, s, c) \in Seq(Ints)
         /\ c <= Len(table) =>
               /\ Len(Copied(table, s, c)) = Len(table)
               /\ \A i \in 1..Len(table) : Copied(table, s, c)[i] = IF i <= c THEN s[i] ELSE table[i]
<1> DEFINE n == Len(table)
           f == SubSeq(s, 1, c)
           r == SubSeq(table, c + 1, n)
<1>1. /\ n \in Nat /\ c \in Nat /\ c <= Len(s) /\ Len(s) \in Nat
      /\ \A i \in 1..n : table[i] \in Ints
      /\ \A i \in 1..Len(s) : s[i] \in Ints
  BY DEF Ints
<1>2. /\ f \in Seq(Ints) /\ Len(f) = c /\ \A i \in 1..c : f[i] = s[i]
  <2>1. \A i \in 1..c : s[i] \in Ints
    BY <1>1
  <2>2. /\ f \in Seq(Ints) /\ Len(f) = IF 1 <= c THEN c - 1 + 1 ELSE 0
        /\ \A i \in 1..(c - 1 + 1) : f[i] = s[1 + i - 1]
    BY <2>1, <1>1, SubSeqProperties
  <2> QED BY <2>2, <1>1
<1>3. /\ r \in Seq(Ints) /\ Len(r) = IF c + 1 <= n THEN n - (c + 1) + 1 ELSE 0
      /\ \A i \in 1..(n - (c + 1) + 1) : r[i] = table[(c + 1) + i - 1]
  <2> HIDE DEF n
  <2>1. c + 1 \in Int /\ n \in Int /\ \A i \in (c + 1)..n : table[i] \in Ints
    BY <1>1
  <2> QED BY <2>1, SubSeqProperties
<1> HIDE DEF f, r
<1>4. /\ f \o r \in Seq(Ints) /\ Len(f \o r) = Len(f) + Len(r)
      /\ \A i \in 1..(Len(f) + Len(r)) : (f \o r)[i] = IF i <= Len(f) THEN f[i] ELSE r[i - Len(f)]
  BY <1>2, <1>3, ConcatProperties
<1>5. Copied(table, s, c) = f \o r
  BY DEF Copied, f, r
<1>6. ASSUME c <= n
      PROVE  /\ Len(f \o r) = n
             /\ \A i \in 1..n : (f \o r)[i] = IF i <= c THEN s[i] ELSE table[i]
  <2>1. Len(r) = n - c
    BY <1>1, <1>3, <1>6
  <2>2. \A i \in 1..n : i > c => r[i - c] = table[i]
    <3>1. \A i \in 1..n : i > c => i - c \in 1..(n - (c + 1) + 1) /\ (c + 1) + (i - c) - 1 = i
      BY <1>1
    <3> QED BY <3>1, <1>3
  <2> HIDE DEF n
  <2> QED BY <2>1, <2>2, <1>1, <1>2, <1>4
<1> QED BY <1>4, <1>5, <1>6

\* A call of the host side that extends tables, or cuts lengths, and touches
\* no device table.
LEMMA HostStepInd ==
  ASSUME DeviceInd, CacheInv', num_sequences' \in Nat, UNCHANGED tableVars,
         written' \in [SeqIds -> [Layers -> SUBSET Nat]],
         NEW id \in SeqIds, NEW n, TableExtended(id, n)
  PROVE  DeviceInd'
<1> USE DEF DeviceInd
<1>1. \A o \in SeqIds : /\ Len(seq_blocks[o]) \in Nat /\ Len(seq_blocks'[o]) \in Nat
                        /\ Len(seq_blocks[o]) <= Len(seq_blocks'[o])
                        /\ \A i \in 1..Len(seq_blocks[o]) : seq_blocks'[o][i] = seq_blocks[o][i]
  <2>1. \A o \in SeqIds : Len(seq_blocks[o]) \in Nat /\ Len(seq_blocks'[o]) \in Nat
    BY DEF CacheInv, TypeOK
  <2> QED BY <2>1 DEF TableExtended
<1>2. UNCHANGED <<block_tables, block_table_sizes, memory, uploaded, dangling, clobbered>>
  BY DEF tableVars
<1>3. uploaded \in [SeqIds -> 0..MaxBlocks]
  BY DEF DeviceInv, CudaTypeOK
<1>4. DeviceInv'
  BY <1>2 DEF DeviceInv, CudaTypeOK, CacheInv, NoTableLeaked, DeviceTablesOwned, HasTable
<1>5. UploadedWithin' /\ DanglingForgotten'
  BY <1>1, <1>2, <1>3, GeometryAssumption DEF UploadedWithin, DanglingForgotten
<1>6. UploadedTableReadable'
  <2>1. ASSUME ~clobbered, NEW o \in SeqIds, NEW i \in 1..uploaded[o]
        PROVE  memory[block_tables[o]][i] = seq_blocks'[o][i]
    <3>1. i \in 1..Len(seq_blocks[o])
      BY <1>1, <1>3, GeometryAssumption DEF UploadedWithin
    <3> QED BY <2>1, <3>1, <1>1 DEF UploadedTableReadable
  <2> QED BY <2>1, <1>2 DEF UploadedTableReadable
<1> QED BY <1>4, <1>5, <1>6

\* A call after which no entry counts as uploaded.
LEMMA ForgottenInd ==
  ASSUME CacheInv', DeviceInv', uploaded' = [id \in SeqIds |-> 0]
  PROVE  DeviceInd'
<1>1. \A id \in SeqIds : uploaded'[id] = 0 /\ Len(seq_blocks'[id]) \in Nat
  BY DEF CacheInv, TypeOK
<1>2. dangling' \subseteq SeqIds
  BY DEF DeviceInv, CudaTypeOK
<1>3. UploadedWithin' /\ DanglingForgotten' /\ UploadedTableReadable'
  BY <1>1, <1>2 DEF UploadedWithin, DanglingForgotten, UploadedTableReadable
<1> QED BY <1>3 DEF DeviceInd

\* What the invariant says of the types of the tables.
LEMMA TableTypes ==
  ASSUME DeviceInd, NEW id \in SeqIds
  PROVE  /\ block_tables \in [SeqIds -> Addrs \cup {Null}] /\ memory \in [Addrs -> Seq(Ints)]
         /\ block_table_sizes \in [SeqIds -> 0..MaxBlocks] /\ uploaded \in [SeqIds -> 0..MaxBlocks]
         /\ num_sequences \in Nat /\ dangling \subseteq SeqIds /\ clobbered \in BOOLEAN
         /\ written \in [SeqIds -> [Layers -> SUBSET Nat]]
         /\ seq_blocks[id] \in Seq(Blocks) /\ Len(seq_blocks[id]) \in 0..MaxBlocks
         /\ Null \notin Addrs
<1>1. CudaTypeOK /\ CacheInv
  BY DEF DeviceInd, DeviceInv
<1>2. seq_blocks[id] \in Seq(Blocks) /\ Len(seq_blocks[id]) \in 0..MaxBlocks
  BY <1>1, TableFitsPool DEF CudaTypeOK, TypeOK
<1> QED BY <1>1, <1>2, CudaAssumption DEF CudaTypeOK, Ints

\* cudaFree of what the entry of id points to leaves the tables of the others
\* alone, unless the entry dangles and its address was given away.
LEMMA FreedEffect ==
  ASSUME DeviceInd, NEW id \in SeqIds
  PROVE  /\ Freed(id) \in [Addrs -> Seq(Ints)]
         /\ \A c \in Addrs : /\ c = block_tables[id] => Freed(id)[c] = <<>>
                             /\ c # block_tables[id] => Freed(id)[c] = memory[c]
         /\ ~clobbered /\ ~(id \in dangling /\ points(id)) =>
               \A other \in SeqIds \ {id} : HasTable(other) =>
                  /\ block_tables[other] \in Addrs /\ block_tables[other] # block_tables[id]
                  /\ memory[block_tables[other]] # <<>>
<1>1. /\ memory \in [Addrs -> Seq(Ints)] /\ block_tables \in [SeqIds -> Addrs \cup {Null}]
      /\ <<>> \in Seq(Ints) /\ block_table_sizes \in [SeqIds -> 0..MaxBlocks] /\ Null \notin Addrs
  BY TableTypes
<1>2. /\ Freed(id) \in [Addrs -> Seq(Ints)]
      /\ \A c \in Addrs : /\ c = block_tables[id] => Freed(id)[c] = <<>>
                          /\ c # block_tables[id] => Freed(id)[c] = memory[c]
  BY <1>1 DEF Freed
<1>3. ASSUME ~clobbered, ~(id \in dangling /\ points(id)), NEW other \in SeqIds \ {id}, HasTable(other)
      PROVE  /\ block_tables[other] \in Addrs /\ block_tables[other] # block_tables[id]
             /\ memory[block_tables[other]] # <<>>
  <2>1. /\ block_tables[other] \in Addrs
        /\ block_table_sizes[other] > 0 /\ Len(memory[block_tables[other]]) = block_table_sizes[other]
    BY <1>1, <1>3 DEF HasTable, DeviceInd, DeviceInv, DeviceTablesOwned
  <2>2. memory[block_tables[other]] # <<>>
    BY <2>1, <1>1
  <2>3. CASE HasTable(id)
    BY <2>1, <2>2, <2>3, <1>3 DEF DeviceInd, DeviceInv, DeviceTablesOwned
  <2>4. CASE block_tables[id] = Null
    BY <2>1, <2>2, <2>4, <1>1
  <2>5. CASE id \in dangling
    BY <2>1, <2>2, <2>5, <1>3 DEF points
  <2> QED BY <2>3, <2>4, <2>5 DEF HasTable
<1> QED BY <1>2, <1>3

\* A call that frees, fills or replaces the table of id alone: it writes to
\* the address the entry pointed to and to a fresh one only, leaves nothing at
\* an address the entry gives up, and leaves id's own table in order.
LEMMA OneTableInd ==
  ASSUME DeviceInd, CacheInv', CudaTypeOK', NEW id \in SeqIds, uses_entry(id),
         \A o \in SeqIds \ {id} :
            /\ seq_blocks'[o] = seq_blocks[o] /\ block_tables'[o] = block_tables[o]
            /\ block_table_sizes'[o] = block_table_sizes[o] /\ uploaded'[o] = uploaded[o]
            /\ o \in dangling' <=> o \in dangling,
         \/ block_tables'[id] \in {Null, block_tables[id]}
         \/ block_tables'[id] \in Addrs /\ Freed(id)[block_tables'[id]] = <<>>,
         \A c \in Addrs : c \notin {block_tables[id], block_tables'[id]} => memory'[c] = memory[c],
         \A c \in Addrs : c = block_tables[id] /\ c # block_tables'[id] => memory'[c] = <<>>,
         uploaded'[id] <= Len(seq_blocks'[id]),
         uploaded'[id] > 0 => block_tables'[id] # Null /\ uploaded'[id] <= block_table_sizes'[id],
         ~clobbered' =>
            /\ HasTable(id)' => /\ block_table_sizes'[id] > 0
                                /\ Len(memory'[block_tables'[id]]) = block_table_sizes'[id]
            /\ id \in dangling' => uploaded'[id] = 0
            /\ \A i \in 1..uploaded'[id] : memory'[block_tables'[id]][i] = seq_blocks'[id][i]
  PROVE  DeviceInd'
<1> USE DEF DeviceInd
<1>1. /\ block_tables \in [SeqIds -> Addrs \cup {Null}] /\ memory \in [Addrs -> Seq(Ints)]
      /\ uploaded \in [SeqIds -> 0..MaxBlocks] /\ dangling \subseteq SeqIds
      /\ dangling' \subseteq SeqIds /\ Null \notin Addrs
  BY TableTypes DEF CudaTypeOK
<1>2. \A c \in Addrs : /\ c = block_tables[id] => Freed(id)[c] = <<>>
                       /\ c # block_tables[id] => Freed(id)[c] = memory[c]
  BY FreedEffect
<1>3. ASSUME ~clobbered'
      PROVE  /\ ~clobbered
             /\ \A o \in SeqIds \ {id} : HasTable(o) =>
                  /\ block_tables[o] \in Addrs /\ block_tables[o] # block_tables[id]
                  /\ block_tables[o] # block_tables'[id]
                  /\ memory'[block_tables[o]] = memory[block_tables[o]]
  <2>1. ~clobbered /\ ~(id \in dangling /\ points(id))
    BY <1>3 DEF uses_entry
  <2>2. \A o \in SeqIds \ {id} : HasTable(o) =>
           /\ block_tables[o] \in Addrs /\ block_tables[o] # block_tables[id]
           /\ memory[block_tables[o]] # <<>>
    BY <2>1, FreedEffect
  <2>3. \A o \in SeqIds \ {id} : HasTable(o) => block_tables[o] # block_tables'[id]
    BY <2>2, <1>1, <1>2
  <2> QED BY <2>1, <2>2, <2>3
<1>4. \A o \in SeqIds \ {id} : HasTable(o)' <=> HasTable(o)
  BY DEF HasTable
<1>5. NoTableLeaked'
  <2> SUFFICES ASSUME NEW c \in Addrs, memory'[c] # <<>>
               PROVE  \E o \in SeqIds : block_tables'[o] = c
    BY DEF NoTableLeaked
  <2>1. CASE c = block_tables'[id]
    BY <2>1
  <2>2. CASE c # block_tables'[id]
    <3>1. c # block_tables[id]
      BY <2>2
    <3>2. memory[c] # <<>>
      BY <2>2, <3>1
    <3>3. PICK o \in SeqIds : block_tables[o] = c
      BY <3>2 DEF DeviceInv, NoTableLeaked
    <3> QED BY <3>1, <3>3
  <2> QED BY <2>1, <2>2
<1>6. DeviceTablesOwned'
  <2> SUFFICES ASSUME ~clobbered'
               PROVE  /\ \A o \in SeqIds : HasTable(o)' =>
                           /\ block_table_sizes'[o] > 0
                           /\ Len(memory'[block_tables'[o]]) = block_table_sizes'[o]
                      /\ \A o, other \in SeqIds :
                           HasTable(o)' /\ HasTable(other)' /\ block_tables'[o] = block_tables'[other]
                             => o = other
    BY DEF DeviceTablesOwned
  <2>1. ASSUME NEW o \in SeqIds, HasTable(o)'
        PROVE  block_table_sizes'[o] > 0 /\ Len(memory'[block_tables'[o]]) = block_table_sizes'[o]
    <3>1. CASE o = id
      BY <2>1, <3>1
    <3>2. CASE o # id
      BY <2>1, <3>2, <1>3, <1>4 DEF DeviceInv, DeviceTablesOwned
    <3> QED BY <3>1, <3>2
  <2>2. ASSUME NEW o \in SeqIds, NEW other \in SeqIds, HasTable(o)', HasTable(other)',
               block_tables'[o] = block_tables'[other]
        PROVE  o = other
    <3>1. CASE o = id \/ other = id
      BY <2>2, <3>1, <1>3, <1>4
    <3>2. CASE o # id /\ other # id
      BY <2>2, <3>2, <1>3, <1>4 DEF DeviceInv, DeviceTablesOwned
    <3> QED BY <3>1, <3>2
  <2> QED BY <2>1, <2>2
<1>7. UploadedWithin'
  <2>1. ASSUME NEW o \in SeqIds
        PROVE  /\ uploaded'[o] <= Len(seq_blocks'[o])
               /\ uploaded'[o] > 0 => /\ block_tables'[o] # Null
                                      /\ uploaded'[o] <= block_table_sizes'[o]
    <3>1. CASE o = id
      BY <3>1
    <3>2. CASE o # id
      BY <3>2 DEF UploadedWithin
    <3> QED BY <3>1, <3>2
  <2> QED BY <2>1 DEF UploadedWithin
<1>8. DanglingForgotten'
  BY <1>1, <1>3 DEF DanglingForgotten
<1>9. UploadedTableReadable'
  <2>1. ASSUME ~clobbered', NEW o \in SeqIds, NEW i \in 1..uploaded'[o]
        PROVE  memory'[block_tables'[o]][i] = seq_blocks'[o][i]
    <3>1. CASE o = id
      BY <2>1, <3>1
    <3>2. CASE o # id
      <4>1. i \in 1..uploaded[o] /\ uploaded[o] > 0 /\ ~clobbered
        BY <2>1, <3>2, <1>1, <1>3
      <4>2. HasTable(o)
        BY <4>1, <3>2, <1>1 DEF UploadedWithin, DanglingForgotten, HasTable
      <4>3. memory'[block_tables[o]] = memory[block_tables[o]]
        BY <2>1, <3>2, <4>2, <1>3
      <4> QED BY <3>2, <4>1, <4>3 DEF UploadedTableReadable
    <3> QED BY <3>1, <3>2
  <2> QED BY <2>1 DEF UploadedTableReadable
<1> QED BY <1>5, <1>6, <1>7, <1>8, <1>9 DEF DeviceInv
-----------------------------------------------------------------------------
(* The calls that touch device tables. *)

\* upload_block_table copies the first c ints into the table that is there.
\* The copy of all of them is the call that returns ok.
LEMMA UploadReusingInd ==
  ASSUME DeviceInd, NEW id \in SeqIds, reusable(id), points(id), uses_entry(id),
         NEW c \in 0..Len(seq_blocks[id]),
         memory' = [memory EXCEPT ![block_tables[id]] = Copied(@, seq_blocks[id], c)],
         uploaded' = IF c = Len(seq_blocks[id]) THEN [uploaded EXCEPT ![id] = c] ELSE uploaded,
         UNCHANGED <<vars, num_sequences, block_tables, block_table_sizes, dangling, written>>
  PROVE  DeviceInd'
<1> DEFINE a == block_tables[id]
           k == Len(seq_blocks[id])
           tab == Copied(memory[a], seq_blocks[id], c)
<1>1. /\ block_tables \in [SeqIds -> Addrs \cup {Null}] /\ memory \in [Addrs -> Seq(Ints)]
      /\ block_table_sizes \in [SeqIds -> 0..MaxBlocks] /\ uploaded \in [SeqIds -> 0..MaxBlocks]
      /\ num_sequences \in Nat /\ dangling \subseteq SeqIds /\ clobbered \in BOOLEAN
      /\ written \in [SeqIds -> [Layers -> SUBSET Nat]]
      /\ seq_blocks[id] \in Seq(Blocks) /\ k \in 0..MaxBlocks /\ Null \notin Addrs
  BY TableTypes
<1>2. a \in Addrs /\ k <= block_table_sizes[id]
  BY <1>1 DEF reusable, points
<1>3. CacheInv' /\ seq_blocks' = seq_blocks
  BY NextInv DEF DeviceInd, vars
<1>4. /\ tab \in Seq(Ints)
      /\ c <= Len(memory[a]) =>
            /\ Len(tab) = Len(memory[a])
            /\ \A i \in 1..Len(memory[a]) : tab[i] = IF i <= c THEN seq_blocks[id][i] ELSE memory[a][i]
  BY <1>1, <1>2, CopiedEffect
<1> HIDE DEF tab
<1>5. /\ memory' \in [Addrs -> Seq(Ints)] /\ memory'[a] = tab
      /\ \A d \in Addrs \ {a} : memory'[d] = memory[d]
  BY <1>1, <1>2, <1>4 DEF tab
<1>6. /\ uploaded' \in [SeqIds -> 0..MaxBlocks]
      /\ \A o \in SeqIds \ {id} : uploaded'[o] = uploaded[o]
      /\ uploaded'[id] = IF c = k THEN k ELSE uploaded[id]
      /\ uploaded[id] <= k /\ uploaded[id] \in Nat /\ k \in Nat /\ c \in Nat /\ c <= k
  BY <1>1 DEF DeviceInd, UploadedWithin
<1>7. CudaTypeOK'
  BY <1>1, <1>3, <1>5, <1>6 DEF CudaTypeOK, CacheInv, uses_entry, Ints
<1>8. ASSUME ~clobbered'
      PROVE  /\ id \notin dangling /\ ~clobbered /\ HasTable(id)
             /\ Len(memory[a]) = block_table_sizes[id] /\ block_table_sizes[id] > 0
  <2>1. id \notin dangling /\ ~clobbered
    BY <1>8 DEF uses_entry
  <2>2. HasTable(id)
    BY <2>1, <1>1, <1>2 DEF HasTable
  <2> QED BY <2>1, <2>2 DEF DeviceInd, DeviceInv, DeviceTablesOwned
<1>9. ASSUME ~clobbered'
      PROVE  /\ Len(tab) = block_table_sizes[id]
             /\ \A i \in 1..uploaded'[id] : tab[i] = seq_blocks[id][i]
  <2>1. /\ Len(tab) = block_table_sizes[id]
        /\ \A i \in 1..k : tab[i] = IF i <= c THEN seq_blocks[id][i] ELSE memory[a][i]
    BY <1>1, <1>2, <1>4, <1>6, <1>8, <1>9
  <2>2. \A i \in 1..uploaded[id] : memory[a][i] = seq_blocks[id][i]
    BY <1>8, <1>9 DEF DeviceInd, UploadedTableReadable
  <2> QED BY <2>1, <2>2, <1>6
<1>10. /\ uploaded'[id] <= k
       /\ uploaded'[id] > 0 => a # Null /\ uploaded'[id] <= block_table_sizes[id]
  BY <1>1, <1>2, <1>6
<1>11. HasTable(id)' <=> HasTable(id)
  BY DEF HasTable
<1> HIDE DEF k
<1> QED BY <1>1, <1>2, <1>3, <1>5, <1>6, <1>7, <1>8, <1>9, <1>10, <1>11, OneTableInd DEF k

\* upload_block_table into a new table, after the one that was too small is
\* freed.
LEMMA UploadIntoNewInd ==
  ASSUME DeviceInd, NEW id \in SeqIds, NEW a \in Addrs, NEW c \in 0..Len(seq_blocks[id]),
         upload_into_new(id, a, c)
  PROVE  DeviceInd'
<1> DEFINE k == Len(seq_blocks[id])
           fresh == [i \in 1..k |-> Uninit]
           tab == Copied(fresh, seq_blocks[id], c)
<1>1. /\ block_tables \in [SeqIds -> Addrs \cup {Null}] /\ memory \in [Addrs -> Seq(Ints)]
      /\ block_table_sizes \in [SeqIds -> 0..MaxBlocks] /\ uploaded \in [SeqIds -> 0..MaxBlocks]
      /\ num_sequences \in Nat /\ dangling \subseteq SeqIds /\ clobbered \in BOOLEAN
      /\ written \in [SeqIds -> [Layers -> SUBSET Nat]]
      /\ seq_blocks[id] \in Seq(Blocks) /\ k \in 0..MaxBlocks /\ Null \notin Addrs
  BY TableTypes
<1>2. /\ seq_blocks[id] # <<>> /\ uses_entry(id)
      /\ Freed(id)[a] = <<>>
      /\ block_tables' = [block_tables EXCEPT ![id] = a]
      /\ memory' = [Freed(id) EXCEPT ![a] = tab]
      /\ block_table_sizes' = [block_table_sizes EXCEPT ![id] = k]
      /\ uploaded' = [uploaded EXCEPT ![id] = IF c = k THEN k ELSE 0]
      /\ dangling' = dangling \ {id}
      /\ UNCHANGED <<vars, num_sequences, written>>
  BY DEF upload_into_new, can_upload
<1>3. CacheInv' /\ seq_blocks' = seq_blocks
  BY <1>2, NextInv DEF DeviceInd, vars
<1>4. k \in Nat /\ k > 0 /\ c \in Nat /\ c <= k /\ fresh \in Seq(Ints) /\ Len(fresh) = k
  <2>1. k \in Nat /\ k > 0 /\ c \in Nat /\ c <= k
    BY <1>1, <1>2, GeometryAssumption
  <2> HIDE DEF k
  <2> QED BY <2>1 DEF Ints
<1> HIDE DEF fresh
<1>5. /\ tab \in Seq(Ints) /\ Len(tab) = k
      /\ c = k => \A i \in 1..k : tab[i] = seq_blocks[id][i]
  <2>1. /\ tab \in Seq(Ints)
        /\ c <= Len(fresh) =>
              /\ Len(tab) = Len(fresh)
              /\ \A i \in 1..Len(fresh) : tab[i] = IF i <= c THEN seq_blocks[id][i] ELSE fresh[i]
    BY <1>1, <1>4, CopiedEffect
  <2> HIDE DEF tab, k
  <2> QED BY <2>1, <1>4
<1> HIDE DEF tab
<1>6. /\ Freed(id) \in [Addrs -> Seq(Ints)]
      /\ \A d \in Addrs : /\ d = block_tables[id] => Freed(id)[d] = <<>>
                          /\ d # block_tables[id] => Freed(id)[d] = memory[d]
  BY FreedEffect
<1>7. /\ memory' \in [Addrs -> Seq(Ints)] /\ memory'[a] = tab
      /\ \A d \in Addrs \ {a} : memory'[d] = Freed(id)[d]
      /\ block_tables' \in [SeqIds -> Addrs \cup {Null}] /\ block_tables'[id] = a
      /\ \A o \in SeqIds \ {id} : block_tables'[o] = block_tables[o]
  BY <1>1, <1>2, <1>5, <1>6
<1>8. /\ block_table_sizes' \in [SeqIds -> 0..MaxBlocks] /\ block_table_sizes'[id] = k
      /\ uploaded' \in [SeqIds -> 0..MaxBlocks] /\ uploaded'[id] = IF c = k THEN k ELSE 0
      /\ \A o \in SeqIds \ {id} : /\ block_table_sizes'[o] = block_table_sizes[o]
                                  /\ uploaded'[o] = uploaded[o]
  <2>1. k \in 0..MaxBlocks /\ 0 \in 0..MaxBlocks
    BY <1>1, GeometryAssumption
  <2> HIDE DEF k
  <2> QED BY <2>1, <1>1, <1>2
<1>9. CudaTypeOK'
  BY <1>1, <1>2, <1>3, <1>7, <1>8 DEF CudaTypeOK, CacheInv, uses_entry, Ints
<1>10. /\ uploaded'[id] <= Len(seq_blocks'[id])
       /\ uploaded'[id] > 0 => block_tables'[id] # Null /\ uploaded'[id] <= block_table_sizes'[id]
  BY <1>1, <1>3, <1>4, <1>7, <1>8
<1>11. /\ block_table_sizes'[id] > 0 /\ Len(memory'[block_tables'[id]]) = block_table_sizes'[id]
       /\ id \notin dangling'
  BY <1>2, <1>4, <1>5, <1>7, <1>8
<1>12. \A i \in 1..uploaded'[id] : memory'[block_tables'[id]][i] = seq_blocks'[id][i]
  <2>1. CASE c = k
    BY <2>1, <1>3, <1>5, <1>7, <1>8
  <2>2. CASE c # k
    <3>1. uploaded'[id] = 0
      BY <2>2, <1>8
    <3> QED BY <3>1
  <2> QED BY <2>1, <2>2
<1>13. /\ \A d \in Addrs : d \notin {block_tables[id], block_tables'[id]} => memory'[d] = memory[d]
       /\ \A d \in Addrs : d = block_tables[id] /\ d # block_tables'[id] => memory'[d] = <<>>
       /\ block_tables'[id] \in Addrs /\ Freed(id)[block_tables'[id]] = <<>>
  BY <1>2, <1>6, <1>7
<1>14. \A o \in SeqIds \ {id} : o \in dangling' <=> o \in dangling
  BY <1>2
<1> HIDE DEF k
<1> QED BY <1>2, <1>3, <1>7, <1>8, <1>9, <1>10, <1>11, <1>12, <1>13, <1>14, OneTableInd

\* free_sequence frees the device table with the blocks; upload_block_table
\* frees it before it asks for a new one, and gets none.
LEMMA TableGoneInd ==
  ASSUME DeviceInd, CacheInv', NEW id \in SeqIds, uses_entry(id), memory' = Freed(id),
         num_sequences' \in Nat, written' \in [SeqIds -> [Layers -> SUBSET Nat]],
         \A o \in SeqIds \ {id} : seq_blocks'[o] = seq_blocks[o] /\ (o \in dangling' <=> o \in dangling),
         uploaded' = [uploaded EXCEPT ![id] = 0], dangling' \subseteq SeqIds,
         \/ block_tables' = [block_tables EXCEPT ![id] = Null]
         \/ /\ block_tables' = block_tables
            /\ id \in dangling' \/ block_tables[id] = Null,
         \/ block_table_sizes' = block_table_sizes
         \/ block_table_sizes' = [block_table_sizes EXCEPT ![id] = 0]
  PROVE  DeviceInd'
<1>1. /\ block_tables \in [SeqIds -> Addrs \cup {Null}] /\ memory \in [Addrs -> Seq(Ints)]
      /\ block_table_sizes \in [SeqIds -> 0..MaxBlocks] /\ uploaded \in [SeqIds -> 0..MaxBlocks]
      /\ clobbered \in BOOLEAN /\ Null \notin Addrs /\ 0 \in 0..MaxBlocks
  BY TableTypes, GeometryAssumption
<1>2. /\ Freed(id) \in [Addrs -> Seq(Ints)]
      /\ \A d \in Addrs : /\ d = block_tables[id] => Freed(id)[d] = <<>>
                          /\ d # block_tables[id] => Freed(id)[d] = memory[d]
  BY FreedEffect
<1>3. /\ block_tables' \in [SeqIds -> Addrs \cup {Null}]
      /\ block_table_sizes' \in [SeqIds -> 0..MaxBlocks]
      /\ uploaded' \in [SeqIds -> 0..MaxBlocks] /\ uploaded'[id] = 0
      /\ block_tables'[id] \in {Null, block_tables[id]}
      /\ \A o \in SeqIds \ {id} : /\ block_tables'[o] = block_tables[o]
                                  /\ block_table_sizes'[o] = block_table_sizes[o]
                                  /\ uploaded'[o] = uploaded[o]
  BY <1>1
<1>4. ~HasTable(id)'
  BY <1>1 DEF HasTable
<1>5. CudaTypeOK'
  BY <1>1, <1>2, <1>3 DEF CudaTypeOK, CacheInv, uses_entry, Ints
<1>6. /\ \A d \in Addrs : d \notin {block_tables[id], block_tables'[id]} => memory'[d] = memory[d]
      /\ \A d \in Addrs : d = block_tables[id] /\ d # block_tables'[id] => memory'[d] = <<>>
  BY <1>2
<1>7. Len(seq_blocks'[id]) \in Nat
  BY DEF CacheInv, TypeOK
<1>8. 0 <= Len(seq_blocks'[id]) /\ ~(uploaded'[id] > 0) /\ \A i \in 1..uploaded'[id] : FALSE
  BY <1>3, <1>7
<1> QED BY <1>3, <1>4, <1>5, <1>6, <1>8, OneTableInd

\* free_sequence.
LEMMA FreeCudaInd ==
  ASSUME DeviceInd, NEW id \in SeqIds, free_sequence_cuda(id)
  PROVE  DeviceInd'
<1>1. /\ num_sequences \in Nat /\ dangling \subseteq SeqIds
      /\ written \in [SeqIds -> [Layers -> SUBSET Nat]]
  BY TableTypes
<1>2. /\ free_sequence(id) /\ uses_entry(id) /\ memory' = Freed(id)
      /\ block_tables' = [block_tables EXCEPT ![id] = Null]
      /\ block_table_sizes' = [block_table_sizes EXCEPT ![id] = 0]
      /\ uploaded' = [uploaded EXCEPT ![id] = 0]
      /\ dangling' = dangling \ {id} /\ num_sequences' = num_sequences
      /\ written' = [written EXCEPT ![id] = [l \in Layers |-> {}]]
  BY DEF free_sequence_cuda
<1>3. CacheInv' /\ \A o \in SeqIds \ {id} : seq_blocks'[o] = seq_blocks[o]
  BY <1>2, FreeEffect DEF DeviceInd
<1>4. written' \in [SeqIds -> [Layers -> SUBSET Nat]]
  BY <1>1, <1>2
<1> QED BY <1>1, <1>2, <1>3, <1>4, TableGoneInd

\* cudaMalloc fails after the cudaFree.
LEMMA MallocFailsInd ==
  ASSUME DeviceInd, NEW id \in SeqIds, upload_malloc_fails(id)
  PROVE  DeviceInd'
<1>1. /\ num_sequences \in Nat /\ dangling \subseteq SeqIds
      /\ written \in [SeqIds -> [Layers -> SUBSET Nat]]
  BY TableTypes
<1>2. /\ uses_entry(id) /\ memory' = Freed(id)
      /\ dangling' = IF block_tables[id] = Null THEN dangling ELSE dangling \cup {id}
      /\ uploaded' = [uploaded EXCEPT ![id] = 0]
      /\ UNCHANGED <<vars, num_sequences, block_tables, block_table_sizes, written>>
  BY DEF upload_malloc_fails
<1>3. CacheInv' /\ seq_blocks' = seq_blocks
  BY <1>2, NextInv DEF DeviceInd, vars
<1> QED BY <1>1, <1>2, <1>3, TableGoneInd

\* upload_block_table, however it ends.
LEMMA UploadInd ==
  ASSUME DeviceInd, NEW id \in SeqIds,
         \/ upload_reusing(id) \/ upload_reusing_fails(id)
         \/ upload_allocating(id) \/ upload_new_fails(id) \/ upload_malloc_fails(id)
  PROVE  DeviceInd'
<1>1. Len(seq_blocks[id]) \in Nat
  BY TableTypes
<1>2. CASE upload_reusing(id)
  <2>1. PICK c \in 0..Len(seq_blocks[id]) : c = Len(seq_blocks[id])
    BY <1>1
  <2> QED BY <2>1, <1>2, UploadReusingInd DEF upload_reusing
<1>3. CASE upload_reusing_fails(id) /\ points(id)
  <2>1. PICK c \in 0..(Len(seq_blocks[id]) - 1) :
           memory' = [memory EXCEPT ![block_tables[id]] = Copied(@, seq_blocks[id], c)]
    BY <1>3 DEF upload_reusing_fails
  <2>2. c \in 0..Len(seq_blocks[id]) /\ c # Len(seq_blocks[id])
    BY <1>1
  <2> QED BY <2>1, <2>2, <1>3, UploadReusingInd DEF upload_reusing_fails
<1>4. CASE upload_reusing_fails(id) /\ ~points(id)
  <2>1. /\ UNCHANGED <<vars, num_sequences, written>> /\ UNCHANGED tableVars
        /\ num_sequences \in Nat /\ written \in [SeqIds -> [Layers -> SUBSET Nat]]
    BY <1>4, TableTypes DEF upload_reusing_fails, tableVars
  <2>2. CacheInv' /\ TableExtended(id, 0)
    <3>1. CacheInv' /\ seq_blocks' = seq_blocks
      BY <2>1, NextInv DEF DeviceInd, vars
    <3>2. 0 <= Len(seq_blocks[id]) * BlockSize
      BY <1>1, TimesBlockSize
    <3> QED BY <3>1, <3>2, <1>1 DEF TableExtended, sequence_capacity
  <2> QED BY <2>1, <2>2, HostStepInd
<1>5. CASE upload_allocating(id)
  <2>1. PICK a \in Addrs : upload_into_new(id, a, Len(seq_blocks[id]))
    BY <1>5 DEF upload_allocating
  <2>2. Len(seq_blocks[id]) \in 0..Len(seq_blocks[id])
    BY <1>1
  <2> QED BY <2>1, <2>2, UploadIntoNewInd
<1>6. CASE upload_new_fails(id)
  <2>1. PICK a \in Addrs, c \in 0..(Len(seq_blocks[id]) - 1) : upload_into_new(id, a, c)
    BY <1>6 DEF upload_new_fails
  <2>2. c \in 0..Len(seq_blocks[id])
    BY <1>1
  <2> QED BY <2>1, <2>2, UploadIntoNewInd
<1> QED BY <1>2, <1>3, <1>4, <1>5, <1>6, MallocFailsInd
-----------------------------------------------------------------------------
(* The calls of the host side. *)

\* The rows that the copies of this model write.
LEMMA RowFacts ==
  /\ SeqIds \subseteq Nat
  /\ \A id \in SeqIds : OwnRow(id) \in Rows
  /\ \A id \in SeqIds, r \in Rows : <<id, r[2]>> \in Rows
  BY CudaAssumption DEF OwnRow

\* A write that succeeds copies n whole rows, ...
LEMMA WholeRun ==
  ASSUME NEW id \in SeqIds, NEW n \in Nat
  PROVE  /\ [t \in 1..n |-> OwnRow(id)] \in Seq(Rows)
         /\ Len([t \in 1..n |-> OwnRow(id)]) = n
         /\ \A t \in 1..n : [u \in 1..n |-> OwnRow(id)][t] = OwnRow(id)
  BY RowFacts

\* ... one that fails no more than n.
LEMMA PartialRunType ==
  ASSUME CacheInv, NEW id \in SeqIds, NEW l \in Layers, NEW start \in Nat, NEW n \in Nat \ {0},
         can_reserve(id, start + n), allocate(id, to_allocate(id, start + n)),
         NEW c \in 0..(2 * n - 1)
  PROVE  PartialRun(id, l, start, c) \in Seq(Rows) /\ Len(PartialRun(id, l, start, c)) <= n
<1> DEFINE h == c \div 2
           bs == seq_blocks'[id]
           torn == start + h
           old == kv[l][physical_block(bs, torn)][offset_in_block(torn)]
           whole == [t \in 1..h |-> OwnRow(id)]
           tail == IF c % 2 = 1 THEN << <<id, old[2]>> >> ELSE <<>>
<1>1. /\ h \in Nat /\ c % 2 \in {0, 1} /\ h < n /\ start + n \in Nat
      /\ kv \in [Layers -> [Blocks -> [Offsets -> Rows]]]
  BY DEF CacheInv, TypeOK
<1> HIDE DEF h
<1>2. bs \in Seq(Blocks) /\ Len(bs) \in Nat /\ start + n <= Len(bs) * BlockSize
  <2>1. seq_blocks' \in [SeqIds -> Seq(Blocks)] /\ start + n <= Len(bs) * BlockSize
    BY <1>1, RoomAfterAllocate
  <2>2. bs \in Seq(Blocks)
    BY <2>1
  <2> QED BY <2>1, <2>2
<1>3. torn \in 0..(Len(bs) * BlockSize - 1)
  <2> DEFINE cap == Len(bs) * BlockSize
  <2>1. cap \in Nat /\ start + n <= cap
    BY <1>2, TimesBlockSize
  <2> HIDE DEF cap
  <2>2. start + h \in 0..(cap - 1)
    BY <2>1, <1>1
  <2> QED BY <2>2 DEF cap
<1>4. old \in Rows
  <2>1. (torn \div BlockSize) + 1 \in 1..Len(bs) /\ torn % BlockSize \in Offsets
    BY <1>2, <1>3, PositionInTable
  <2>2. physical_block(bs, torn) \in Blocks /\ offset_in_block(torn) \in Offsets
    BY <2>1, <1>2 DEF physical_block, offset_in_block
  <2> HIDE DEF torn
  <2> QED BY <2>2, <1>1
<1> HIDE DEF old, torn
<1>5. whole \in Seq(Rows) /\ Len(whole) = h
  BY <1>1, WholeRun
<1>6. tail \in Seq(Rows) /\ Len(tail) <= 1 /\ Len(tail) \in Nat
  <2>1. <<id, old[2]>> \in Rows
    BY <1>4, RowFacts
  <2> QED BY <2>1
<1> HIDE DEF whole, tail
<1>7. whole \o tail \in Seq(Rows) /\ Len(whole \o tail) = Len(whole) + Len(tail)
  BY <1>5, <1>6, ConcatProperties
<1>8. PartialRun(id, l, start, c) = whole \o tail
  BY DEF PartialRun, whole, tail, old, torn, h
<1> QED BY <1>1, <1>5, <1>6, <1>7, <1>8

\* ensure_sequence keeps the number of sequences a number.
LEMMA EnsureType ==
  ASSUME DeviceInd, NEW id \in SeqIds, ensure_sequence(id)
  PROVE  num_sequences' \in Nat
  BY RowFacts DEF ensure_sequence, DeviceInd, DeviceInv, CudaTypeOK

\* A write that fails reserves blocks and may leave rows behind the length.
LEMMA WriteFailsEffect ==
  ASSUME CacheInv, NEW id \in SeqIds, NEW l \in Layers, NEW start \in Nat, NEW n \in Nat \ {0},
         NEW c \in 0..(2 * n - 1),
         can_reserve(id, start + n), allocate(id, to_allocate(id, start + n)),
         kv' = [kv EXCEPT ![l] = copy_rows(@, seq_blocks'[id], start, PartialRun(id, l, start, c))],
         initialized' = initialized, seq_length' = seq_length
  PROVE  CacheInv' /\ TableExtended(id, start + n)
<1>1. PartialRun(id, l, start, c) \in Seq(Rows) /\ Len(PartialRun(id, l, start, c)) <= n
  BY PartialRunType
<1>2. start + n \in Nat /\ seq_length[id] \in Nat
      /\ seq_length' = [seq_length EXCEPT ![id] = seq_length[id]]
  BY DEF CacheInv, TypeOK
<1>3. kv' \in [Layers -> [Blocks -> [Offsets -> Rows]]]
  BY <1>1, RunEffect
<1>4. seq_length[id] <= start + n \/ seq_length[id] <= seq_length[id]
  BY <1>2
<1>5. CacheInv'
  BY <1>2, <1>3, <1>4, ReserveInv
<1>6. TableExtended(id, start + n)
  BY <1>2, RoomAfterAllocate DEF TableExtended, sequence_capacity
<1> QED BY <1>5, <1>6

-----------------------------------------------------------------------------
(* Every step. *)

\* Nothing is written.
LEMMA NothingWrittenType == NothingWritten => written' \in [SeqIds -> [Layers -> SUBSET Nat]]
  BY DEF NothingWritten

\* The constructor leaves no tables.
LEMMA CudaInitInd == ASSUME CudaInit PROVE DeviceInd
<1>1. CacheInv
  BY InitInv DEF CudaInit
<1>2. /\ num_sequences = 0 /\ block_tables = [id \in SeqIds |-> Null]
      /\ block_table_sizes = [id \in SeqIds |-> 0] /\ memory = [a \in Addrs |-> <<>>]
      /\ uploaded = [id \in SeqIds |-> 0] /\ dangling = {} /\ clobbered = FALSE
      /\ written = [id \in SeqIds |-> [l \in Layers |-> {}]]
  BY DEF CudaInit
<1>3. CudaTypeOK /\ NoTableLeaked /\ DeviceTablesOwned
  <2>1. NoTableLeaked
    BY <1>2 DEF NoTableLeaked
  <2>2. DeviceTablesOwned
    BY <1>2 DEF DeviceTablesOwned, HasTable
  <2>3. /\ block_tables \in [SeqIds -> Addrs \cup {Null}] /\ memory \in [Addrs -> Seq(Ints)]
        /\ block_table_sizes \in [SeqIds -> 0..MaxBlocks] /\ uploaded \in [SeqIds -> 0..MaxBlocks]
        /\ written \in [SeqIds -> [Layers -> SUBSET Nat]]
    BY <1>2, GeometryAssumption
  <2> QED BY <2>1, <2>2, <2>3, <1>1, <1>2 DEF CudaTypeOK, CacheInv, Ints
<1>4. \A id \in SeqIds : Len(seq_blocks[id]) \in Nat
  BY <1>1 DEF CacheInv, TypeOK
<1>5. UploadedWithin /\ DanglingForgotten /\ UploadedTableReadable
  BY <1>2, <1>4 DEF UploadedWithin, DanglingForgotten, UploadedTableReadable
<1> QED BY <1>1, <1>3, <1>5 DEF DeviceInd, DeviceInv

\* reset leaves a full pool, whichever rows it fails to clear.
LEMMA ResetCudaInv == ASSUME CacheInv, reset_cuda PROVE CacheInv'
<1>1. PICK kept \in SUBSET (Layers \X {1, 2}) : kv' = zeroed_rows(kept)
  BY DEF reset_cuda
<1>2. zeroed_rows(kept) \in [Layers -> [Blocks -> [Offsets -> Rows]]]
  <2> DEFINE Halves == SeqIds \cup {ZeroHalf}
             half(l, b, o, h) == IF <<l, h>> \in kept THEN kv[l][b][o][h] ELSE ZeroHalf
  <2>1. kv \in [Layers -> [Blocks -> [Offsets -> Halves \X Halves]]]
    BY CudaAssumption DEF CacheInv, TypeOK
  <2>2. ASSUME NEW l \in Layers, NEW b \in Blocks, NEW o \in Offsets
        PROVE  half(l, b, o, 1) \in Halves /\ half(l, b, o, 2) \in Halves
    <3>1. kv[l][b][o] \in Halves \X Halves
      BY <2>1
    <3>2. kv[l][b][o][1] \in Halves /\ kv[l][b][o][2] \in Halves
      BY <3>1
    <3> QED BY <3>2
  <2> HIDE DEF half
  <2>3. \A l \in Layers, b \in Blocks, o \in Offsets : <<half(l, b, o, 1), half(l, b, o, 2)>> \in Rows
    BY <2>2, CudaAssumption
  <2>4. zeroed_rows(kept) = [l \in Layers |-> [b \in Blocks |-> [o \in Offsets |->
                               <<half(l, b, o, 1), half(l, b, o, 2)>>]]]
    BY DEF zeroed_rows, half
  <2> QED BY <2>3, <2>4
<1>3. \A b \in Blocks : IsFree(b)'
  BY AllBlocksFreeFacts DEF reset_cuda, IsFree
<1>4. EmptyPool'
  BY <1>1, <1>2, <1>3, AllBlocksFreeFacts DEF EmptyPool, reset_cuda, NoSequences
<1> QED BY <1>4, EmptyPoolInv, PTL

\* init_cuda and release free all tables, reset keeps them.
LEMMA LifeCycleInd ==
  ASSUME DeviceInd, init_cuda \/ release_cuda \/ reset_cuda
  PROVE  DeviceInd'
<1>0. CudaTypeOK /\ NoTableLeaked /\ DeviceTablesOwned /\ CacheInv
  BY DEF DeviceInd, DeviceInv
<1>1. /\ num_sequences' = 0 /\ uploaded' = [id \in SeqIds |-> 0]
      /\ written' \in [SeqIds -> [Layers -> SUBSET Nat]]
  BY NothingWrittenType DEF init_cuda, release_cuda, reset_cuda, NoTables
<1>2. CASE init_cuda \/ release_cuda
  <2>1. init \/ release
    BY <1>2 DEF init_cuda, release_cuda
  <2>2. CacheInv'
    BY <2>1, <1>0, NextInv DEF Next
  <2>3. /\ block_tables' = [id \in SeqIds |-> Null] /\ memory' = AllFreed
        /\ block_table_sizes' = [id \in SeqIds |-> 0]
        /\ dangling' = {} /\ clobbered' = FALSE
    BY <1>2 DEF init_cuda, release_cuda, NoTables
  <2>4. AllFreed \in [Addrs -> Seq(Blocks \cup {Uninit})]
    <3>1. memory \in [Addrs -> Seq(Blocks \cup {Uninit})] /\ <<>> \in Seq(Blocks \cup {Uninit})
      BY <1>0 DEF CudaTypeOK
    <3> QED BY <3>1 DEF AllFreed
  <2>5. \A a \in Addrs : memory'[a] = <<>>
    BY <2>3, <1>0 DEF AllFreed, NoTableLeaked
  <2>6. CudaTypeOK' /\ NoTableLeaked' /\ DeviceTablesOwned'
    <3>1. NoTableLeaked'
      BY <2>5 DEF NoTableLeaked
    <3>2. DeviceTablesOwned'
      BY <2>3 DEF DeviceTablesOwned, HasTable
    <3>3. /\ block_tables' \in [SeqIds -> Addrs \cup {Null}]
          /\ block_table_sizes' \in [SeqIds -> 0..MaxBlocks] /\ uploaded' \in [SeqIds -> 0..MaxBlocks]
      BY <2>3, <1>1, GeometryAssumption
    <3> QED BY <3>1, <3>2, <3>3, <2>2, <2>3, <2>4, <1>1 DEF CudaTypeOK, CacheInv
  <2> QED BY <2>2, <2>6, <1>1, ForgottenInd DEF DeviceInv
<1>3. CASE reset_cuda
  <2>1. UNCHANGED <<block_tables, block_table_sizes, memory, dangling, clobbered>>
    BY <1>3 DEF reset_cuda
  <2>2. CacheInv'
    BY <1>0, <1>3, ResetCudaInv
  <2>3. CudaTypeOK' /\ NoTableLeaked' /\ DeviceTablesOwned'
    BY <2>1, <2>2, <1>0, <1>1, GeometryAssumption
    DEF CudaTypeOK, CacheInv, NoTableLeaked, DeviceTablesOwned, HasTable
  <2> QED BY <2>2, <2>3, <1>1, ForgottenInd DEF DeviceInv
<1> QED BY <1>2, <1>3

\* The bounds of a write.
LEMMA WriteBounds ==
  ASSUME DeviceInd, NEW id \in SeqIds, NEW start \in 0..seq_length[id],
         NEW n \in 1..(MaxWritten - start)
  PROVE  /\ seq_length[id] \in Nat /\ start \in Nat /\ start <= seq_length[id] /\ n \in Nat \ {0}
         /\ Run(start, n) \subseteq Nat
<1>1. seq_length[id] \in Nat /\ MaxWritten \in Nat
  BY CudaAssumption, NoOverflowAssumption DEF DeviceInd, CacheInv, TypeOK
<1> QED BY <1>1 DEF Run

\* Every step keeps the invariant.
LEMMA CudaNextInd == ASSUME DeviceInd, [CudaNext]_cudaVars PROVE DeviceInd'
<1>0. /\ CacheInv /\ written \in [SeqIds -> [Layers -> SUBSET Nat]] /\ num_sequences \in Nat
  BY DEF DeviceInd, DeviceInv, CudaTypeOK
<1>1. CASE init_cuda \/ release_cuda \/ reset_cuda
  BY <1>1, LifeCycleInd
<1>2. ASSUME NEW id \in SeqIds, NEW n \in 0..MaxTokens, reserve(id, n) PROVE DeviceInd'
  <2>1. /\ n \in Nat /\ reserve_sequence(id, n) /\ ensure_sequence(id)
        /\ UNCHANGED tableVars /\ written' = written
    BY <1>2, NoOverflowAssumption DEF reserve
  <2>2. CacheInv' /\ TableExtended(id, n)
    BY <2>1, <1>0, ReserveEffect
  <2> QED BY <2>1, <2>2, <1>0, EnsureType, HostStepInd
<1>3. ASSUME NEW id \in SeqIds, NEW n \in 0..MaxTokens, reserve_fails(id, n) PROVE DeviceInd'
  <2>1. ensure_sequence(id) /\ UNCHANGED vars /\ UNCHANGED tableVars /\ written' = written
    BY <1>3 DEF reserve_fails
  <2>2. CacheInv'
    BY <2>1, <1>0, NextInv
  <2>3. TableExtended(id, 0)
    <3>1. Len(seq_blocks[id]) \in Nat /\ seq_blocks' = seq_blocks
      BY <2>1, <1>0 DEF vars, CacheInv, TypeOK
    <3>2. 0 <= Len(seq_blocks[id]) * BlockSize
      BY <3>1, TimesBlockSize
    <3> QED BY <3>1, <3>2 DEF TableExtended, sequence_capacity
  <2> QED BY <2>1, <2>2, <2>3, <1>0, EnsureType, HostStepInd
<1>4. ASSUME NEW id \in SeqIds, NEW n \in 0..MaxTokens, truncate(id, n) PROVE DeviceInd'
  <2>1. /\ n \in Nat /\ set_sequence_length(id, n) /\ num_sequences' \in Nat /\ UNCHANGED tableVars
        /\ written' = [written EXCEPT ![id] = [l \in Layers |-> @[l] \cap 0..(n - 1)]]
    BY <1>4, <1>0, NoOverflowAssumption DEF truncate
  <2>2. CacheInv' /\ TableExtended(id, n)
    BY <2>1, <1>0, SetLengthEffect
  <2>3. written' \in [SeqIds -> [Layers -> SUBSET Nat]]
    BY <2>1, <1>0
  <2> QED BY <2>1, <2>2, <2>3, HostStepInd
<1>5. ASSUME NEW id \in SeqIds, NEW l \in Layers, NEW start \in 0..seq_length[id],
             NEW n \in 1..(MaxWritten - start), write_tokens_cuda(id, l, start, n)
      PROVE  DeviceInd'
  <2> DEFINE vals == [t \in 1..n |-> OwnRow(id)]
  <2>0. n \in Nat /\ start \in Nat /\ Run(start, n) \subseteq Nat
    BY WriteBounds
  <2>1. /\ write_tokens(id, l, start, vals) /\ ensure_sequence(id) /\ UNCHANGED tableVars
        /\ written' = [written EXCEPT ![id][l] = @ \cup Run(start, n)]
    BY <1>5 DEF write_tokens_cuda
  <2>2. vals \in Seq(Rows)
    BY <2>0, WholeRun
  <2> HIDE DEF vals
  <2>3. CacheInv' /\ TableExtended(id, start + Len(vals))
    BY <2>0, <2>1, <2>2, <1>0, WriteEffect
  <2>4. written' \in [SeqIds -> [Layers -> SUBSET Nat]]
    BY <2>0, <2>1, <1>0
  <2> QED BY <2>1, <2>3, <2>4, EnsureType, HostStepInd
<1>6. ASSUME NEW id \in SeqIds, NEW l \in Layers, NEW start \in 0..seq_length[id],
             NEW n \in 1..(MaxWritten - start), write_tokens_cuda_fails(id, l, start, n)
      PROVE  DeviceInd'
  <2>0. n \in Nat \ {0} /\ start \in Nat
    BY WriteBounds
  <2>1. PICK c \in 0..(2 * n - 1) :
          /\ can_reserve(id, start + n) /\ allocate(id, to_allocate(id, start + n))
          /\ kv' = [kv EXCEPT ![l] = copy_rows(@, seq_blocks'[id], start, PartialRun(id, l, start, c))]
          /\ ensure_sequence(id)
          /\ UNCHANGED <<initialized, seq_length, tableVars, written>>
    BY <1>6 DEF write_tokens_cuda_fails
  <2>2. CacheInv' /\ TableExtended(id, start + n)
    BY <2>0, <2>1, <1>0, WriteFailsEffect
  <2> QED BY <2>1, <2>2, <1>0, EnsureType, HostStepInd
<1>7. ASSUME NEW id \in SeqIds,
             \/ upload_reusing(id) \/ upload_reusing_fails(id)
             \/ upload_allocating(id) \/ upload_new_fails(id) \/ upload_malloc_fails(id)
             \/ free_sequence_cuda(id)
      PROVE  DeviceInd'
  BY <1>7, UploadInd, FreeCudaInd
<1>8. CASE UNCHANGED cudaVars
  <2>1. /\ UNCHANGED <<vars, num_sequences, block_tables, block_table_sizes, memory, uploaded>>
        /\ UNCHANGED <<dangling, clobbered, written>>
    BY <1>8 DEF cudaVars, tableVars
  <2>2. CacheInv' /\ seq_blocks' = seq_blocks
    BY <2>1, <1>0, NextInv DEF vars
  <2> QED BY <2>1, <2>2 DEF DeviceInd, DeviceInv, CudaTypeOK, CacheInv, NoTableLeaked, DeviceTablesOwned,
                            HasTable, UploadedWithin, DanglingForgotten, UploadedTableReadable
<1> QED BY <1>1, <1>2, <1>3, <1>4, <1>5, <1>6, <1>7, <1>8 DEF CudaNext

-----------------------------------------------------------------------------
(* The theorems about the device tables. *)

\* The inductive invariant.
THEOREM DeviceIndInvariant == CudaSpec => []DeviceInd
<1>1. CudaInit => DeviceInd
  BY CudaInitInd
<1>2. DeviceInd /\ [CudaNext]_cudaVars => DeviceInd'
  BY CudaNextInd
<1> QED BY <1>1, <1>2, PTL DEF CudaSpec

\* No order of uploads, frees, resets and failures leaks a device table, and
\* none lets two sequences share one before a call goes through an entry that
\* a failed allocation left behind and whose address was given away
\* (upload_block_table, free_sequence).
THEOREM DeviceTables == CudaSpec => []DeviceInv
<1>1. DeviceInd => DeviceInv
  BY DEF DeviceInd
<1> QED BY <1>1, DeviceIndInvariant, PTL

\* A filled table stays right for every position it covers, whatever other
\* sequences do and whichever copy or allocation fails, though the host table
\* grows; with the same exception (upload_block_table).
THEOREM DeviceTablesReadable == CudaSpec => []UploadedTableReadable
<1>1. DeviceInd => UploadedTableReadable
  BY DEF DeviceInd
<1> QED BY <1>1, DeviceIndInvariant, PTL
-----------------------------------------------------------------------------
(* Visible rows. *)

\* Only positions below the length have been completed.
WrittenVisible == \A id \in SeqIds, l \in Layers : written[id][l] \subseteq 0..(seq_length[id] - 1)

VisibleInd == CacheInv /\ WrittenVisible /\ VisibleRowsWhole

\* A call that copies no row: it may cut lengths and drops what it cuts off.
LEMMA VisibleStay ==
  ASSUME VisibleInd, CacheInv', kv' = kv,
         \A o \in SeqIds : seq_length'[o] <= seq_length[o],
         \A o \in SeqIds, l \in Layers :
            written'[o][l] = written[o][l] \cap 0..(seq_length'[o] - 1),
         \A o \in SeqIds : seq_length'[o] > 0 =>
            /\ Len(seq_blocks[o]) <= Len(seq_blocks'[o])
            /\ \A i \in 1..Len(seq_blocks[o]) : seq_blocks'[o][i] = seq_blocks[o][i]
  PROVE  VisibleInd'
<1>1. ASSUME NEW o \in SeqIds, NEW p \in 0..(seq_length'[o] - 1)
      PROVE  /\ \E l \in Layers : p \in written'[o][l]
             /\ \A l \in Layers : p \in written'[o][l] => row_after(o, l, p) = OwnRow(o)
  <2>1. /\ seq_length[o] \in Nat /\ seq_length'[o] \in Nat /\ seq_length[o] <= sequence_capacity(o)
        /\ Len(seq_blocks[o]) \in Nat
    BY DEF VisibleInd, CacheInv, TypeOK, LengthCovered
  <2>2. sequence_capacity(o) \in Nat
    BY <2>1, TimesBlockSize DEF sequence_capacity
  <2>3. p \in 0..(seq_length[o] - 1) /\ p \in 0..(sequence_capacity(o) - 1) /\ seq_length'[o] > 0
    BY <2>1, <2>2
  <2>4. PICK l \in Layers : p \in written[o][l]
    BY <2>3 DEF VisibleInd, VisibleRowsWhole
  <2>5. ASSUME NEW m \in Layers, p \in written'[o][m]
        PROVE  row_after(o, m, p) = OwnRow(o)
    <3>1. row_after(o, m, p) = token_row(o, m, p)
      BY <2>3, RowsStay DEF VisibleInd
    <3>2. token_row(o, m, p) = OwnRow(o)
      BY <2>3, <2>5 DEF VisibleInd, VisibleRowsWhole
    <3> QED BY <3>1, <3>2
  <2> QED BY <2>4, <2>5
<1>2. VisibleRowsWhole'
  BY <1>1 DEF VisibleRowsWhole, OwnRow, row_after, token_row, physical_block, offset_in_block
<1>3. WrittenVisible'
  BY DEF WrittenVisible
<1> QED BY <1>2, <1>3 DEF VisibleInd

\* A run of rows, whole or in part, is copied over positions that the layer
\* has not completed, starting no later than the length.
LEMMA VisibleAfterRun ==
  ASSUME VisibleInd, CacheInv', NEW id \in SeqIds, NEW l \in Layers, NEW n \in Nat,
         NEW start \in Nat, start <= seq_length[id], Appends(id, l, start, n),
         NEW vals \in Seq(Rows), Len(vals) <= n,
         can_reserve(id, start + n), allocate(id, to_allocate(id, start + n)),
         kv' = [kv EXCEPT ![l] = copy_rows(@, seq_blocks'[id], start, vals)],
         \A o \in SeqIds \ {id} : seq_length'[o] = seq_length[o],
         \A o \in SeqIds, m \in Layers : o # id \/ m # l => written'[o][m] = written[o][m],
         \/ seq_length'[id] = seq_length[id] /\ written'[id][l] = written[id][l]
         \/ /\ seq_length'[id] = IF seq_length[id] >= start + n THEN seq_length[id] ELSE start + n
            /\ written'[id][l] = written[id][l] \cup Run(start, n)
            /\ Len(vals) = n /\ \A t \in 1..n : vals[t] = OwnRow(id)
  PROVE  VisibleInd'
<1>1. /\ \A t \in 1..Len(vals) : row_after(id, l, start + t - 1) = vals[t]
      /\ \A m \in Layers, p \in 0..(sequence_capacity(id) - 1) :
            (m = l => p < start \/ p >= start + Len(vals)) => row_after(id, m, p) = token_row(id, m, p)
      /\ \A other \in SeqIds \ {id}, m \in Layers : \A p \in 0..(sequence_capacity(other) - 1) :
            row_after(other, m, p) = token_row(other, m, p)
  <2>1. CacheInv
    BY DEF VisibleInd
  <2>2. RunCopied(id, l, start, vals)
    BY <2>1, RunEffect
  <2> QED BY <2>2 DEF RunCopied
<1>2. \A o \in SeqIds : /\ seq_length[o] \in Nat /\ sequence_capacity(o) \in Nat
                        /\ seq_length[o] <= sequence_capacity(o)
  <2> SUFFICES ASSUME NEW o \in SeqIds
               PROVE  /\ seq_length[o] \in Nat /\ sequence_capacity(o) \in Nat
                      /\ seq_length[o] <= sequence_capacity(o)
    OBVIOUS
  <2>1. seq_length[o] \in Nat /\ Len(seq_blocks[o]) \in Nat /\ seq_length[o] <= sequence_capacity(o)
    BY DEF VisibleInd, CacheInv, TypeOK, LengthCovered
  <2>2. ASSUME NEW m \in Nat PROVE m * BlockSize \in Nat
    BY ONLY GeometryAssumption
  <2> QED BY <2>1, <2>2 DEF sequence_capacity
<1>3. ASSUME NEW o \in SeqIds, NEW m \in Layers, NEW p \in written[o][m]
      PROVE  /\ p \in 0..(seq_length[o] - 1) /\ p \in 0..(sequence_capacity(o) - 1)
             /\ row_after(o, m, p) = OwnRow(o)
  <2>1. p \in 0..(seq_length[o] - 1)
    BY DEF VisibleInd, WrittenVisible
  <2>2. p \in 0..(sequence_capacity(o) - 1) /\ p \in Int
    BY <2>1, <1>2
  <2>3. token_row(o, m, p) = OwnRow(o)
    BY <2>1 DEF VisibleInd, VisibleRowsWhole
  <2>4. CASE o # id
    BY <2>1, <2>2, <2>3, <2>4, <1>1
  <2>5. CASE o = id
    <3>1. m = l => p \notin Run(start, n)
      BY <2>5 DEF Appends
    <3>2. m = l => p < start \/ p >= start + n
      BY <3>1, <2>2 DEF Run
    <3>3. m = l => p < start \/ p >= start + Len(vals)
      BY <3>2, <2>2
    <3> QED BY <2>1, <2>2, <2>3, <2>5, <3>3, <1>1
  <2> QED BY <2>4, <2>5
<1>4. ASSUME Len(vals) = n, \A t \in 1..n : vals[t] = OwnRow(id), NEW p \in Run(start, n)
      PROVE  row_after(id, l, p) = OwnRow(id)
  <2> DEFINE t == p - start + 1
  <2>1. t \in 1..n /\ start + t - 1 = p
    BY DEF Run
  <2> HIDE DEF t
  <2>2. row_after(id, l, start + t - 1) = OwnRow(id)
    BY <2>1, <1>1, <1>4
  <2> QED BY <2>1, <2>2
<1>5. ASSUME NEW o \in SeqIds, NEW m \in Layers, NEW p \in written'[o][m]
      PROVE  p \in 0..(seq_length'[o] - 1) /\ row_after(o, m, p) = OwnRow(o)
  <2>1. CASE p \in written[o][m]
    <3>1. seq_length[o] <= seq_length'[o] /\ seq_length'[o] \in Nat
      BY <1>2
    <3> QED BY <2>1, <3>1, <1>2, <1>3
  <2>2. CASE p \notin written[o][m]
    <3>1. /\ o = id /\ m = l /\ p \in Run(start, n) /\ Len(vals) = n
          /\ \A t \in 1..n : vals[t] = OwnRow(id)
          /\ seq_length'[id] = IF seq_length[id] >= start + n THEN seq_length[id] ELSE start + n
      BY <2>2
    <3>2. p \in 0..(seq_length'[id] - 1)
      BY <3>1, <1>2 DEF Run
    <3> QED BY <3>1, <3>2, <1>4
  <2> QED BY <2>1, <2>2
<1>6. ASSUME NEW o \in SeqIds, NEW p \in 0..(seq_length'[o] - 1)
      PROVE  \E m \in Layers : p \in written'[o][m]
  <2>1. CASE p \in 0..(seq_length[o] - 1)
    <3>1. PICK m \in Layers : p \in written[o][m]
      BY <2>1 DEF VisibleInd, VisibleRowsWhole
    <3> QED BY <3>1
  <2>2. CASE p \notin 0..(seq_length[o] - 1)
    <3>1. /\ o = id /\ written'[id][l] = written[id][l] \cup Run(start, n)
          /\ seq_length'[id] = start + n /\ p >= seq_length[id]
      BY <2>2, <1>2
    <3>2. p \in Run(start, n)
      BY <3>1, <1>2 DEF Run
    <3> QED BY <3>1, <3>2
  <2> QED BY <2>1, <2>2
<1>7. WrittenVisible'
  BY <1>5 DEF WrittenVisible
<1>8. VisibleRowsWhole'
  BY <1>5, <1>6 DEF VisibleRowsWhole, OwnRow, row_after, token_row, physical_block, offset_in_block
<1> QED BY <1>7, <1>8 DEF VisibleInd

\* Every step keeps the visible rows.
LEMMA VisibleNext ==
  ASSUME DeviceInd, VisibleInd, [CudaNext]_cudaVars
  PROVE  VisibleInd'
<1>0. /\ CacheInv /\ CacheInv' /\ WrittenVisible
      /\ written \in [SeqIds -> [Layers -> SUBSET Nat]]
      /\ \A o \in SeqIds : /\ seq_length[o] \in Nat /\ Len(seq_blocks[o]) \in Nat
                           /\ \A l \in Layers : written[o][l] \subseteq 0..(seq_length[o] - 1)
  BY CudaNextInd DEF DeviceInd, DeviceInv, CudaTypeOK, CacheInv, TypeOK, VisibleInd, WrittenVisible
<1>1. CASE init_cuda \/ release_cuda \/ reset_cuda
  <2>1. /\ seq_length' = [id \in SeqIds |-> 0]
        /\ written' = [id \in SeqIds |-> [l \in Layers |-> {}]]
    BY <1>1 DEF init_cuda, release_cuda, reset_cuda, init, release, ZeroedPool, NoSequences, NoTables,
                NothingWritten
  <2>2. \A o \in SeqIds : seq_length'[o] = 0 /\ \A l \in Layers : written'[o][l] = {}
    BY <2>1
  <2> QED BY <2>2, <1>0 DEF VisibleInd, WrittenVisible, VisibleRowsWhole
<1>2. ASSUME written' = written, kv' = kv, seq_length' = seq_length,
             \A o \in SeqIds : /\ Len(seq_blocks[o]) <= Len(seq_blocks'[o])
                               /\ \A i \in 1..Len(seq_blocks[o]) : seq_blocks'[o][i] = seq_blocks[o][i]
      PROVE  VisibleInd'
  <2>1. \A o \in SeqIds, l \in Layers : written'[o][l] = written[o][l] \cap 0..(seq_length'[o] - 1)
    BY <1>0, <1>2
  <2>2. \A o \in SeqIds : seq_length'[o] <= seq_length[o]
    BY <1>0, <1>2
  <2> QED BY <2>1, <2>2, <1>0, <1>2, VisibleStay
<1>3. ASSUME UNCHANGED vars, written' = written PROVE VisibleInd'
  <2>1. kv' = kv /\ seq_length' = seq_length /\ seq_blocks' = seq_blocks
    BY <1>3 DEF vars
  <2> QED BY <2>1, <1>0, <1>2, <1>3
<1>4. ASSUME NEW id \in SeqIds, NEW n \in 0..MaxTokens, reserve(id, n) PROVE VisibleInd'
  <2>1. /\ n \in Nat /\ reserve_sequence(id, n) /\ kv' = kv /\ seq_length' = seq_length
        /\ written' = written
    BY <1>4, NoOverflowAssumption DEF reserve, reserve_sequence
  <2>2. TableExtended(id, n)
    BY <2>1, <1>0, ReserveEffect
  <2> QED BY <2>1, <2>2, <1>0, <1>2 DEF TableExtended
<1>5. ASSUME NEW id \in SeqIds, NEW n \in 0..MaxTokens, reserve_fails(id, n) PROVE VisibleInd'
  BY <1>3, <1>5 DEF reserve_fails
<1>6. ASSUME NEW id \in SeqIds, NEW n \in 0..MaxTokens, truncate(id, n) PROVE VisibleInd'
  <2>1. /\ n \in Nat /\ set_sequence_length(id, n) /\ kv' = kv /\ n < seq_length[id]
        /\ written' = [written EXCEPT ![id] = [l \in Layers |-> @[l] \cap 0..(n - 1)]]
    BY <1>6, NoOverflowAssumption DEF truncate, set_sequence_length
  <2>2. /\ TableExtended(id, n) /\ seq_length'[id] = n
        /\ \A other \in SeqIds \ {id} : seq_length'[other] = seq_length[other]
    BY <2>1, <1>0, SetLengthEffect
  <2>3. \A o \in SeqIds : /\ Len(seq_blocks[o]) <= Len(seq_blocks'[o])
                          /\ \A i \in 1..Len(seq_blocks[o]) : seq_blocks'[o][i] = seq_blocks[o][i]
    BY <2>2, <1>0 DEF TableExtended
  <2>4. \A o \in SeqIds : seq_length'[o] <= seq_length[o]
    BY <2>1, <2>2, <1>0
  <2>5. \A o \in SeqIds, l \in Layers : written'[o][l] = written[o][l] \cap 0..(seq_length'[o] - 1)
    <3>1. \A l \in Layers : written'[id][l] = written[id][l] \cap 0..(n - 1)
      BY <2>1, <1>0
    <3>2. \A o \in SeqIds \ {id}, l \in Layers : written'[o][l] = written[o][l]
      BY <2>1, <1>0
    <3>3. \A o \in SeqIds \ {id}, l \in Layers :
             written[o][l] = written[o][l] \cap 0..(seq_length'[o] - 1)
      BY <2>2, <1>0
    <3> QED BY <3>1, <3>2, <3>3, <2>2
  <2> QED BY <2>1, <2>3, <2>4, <2>5, <1>0, VisibleStay
<1>7. ASSUME NEW id \in SeqIds, NEW l \in Layers, NEW start \in 0..seq_length[id],
             NEW n \in 1..(MaxWritten - start), Appends(id, l, start, n),
             write_tokens_cuda(id, l, start, n)
      PROVE  VisibleInd'
  <2> DEFINE vals == [t \in 1..n |-> OwnRow(id)]
  <2>1. n \in Nat /\ start \in Nat /\ start <= seq_length[id]
    BY WriteBounds
  <2>2. vals \in Seq(Rows) /\ Len(vals) = n /\ \A t \in 1..n : vals[t] = OwnRow(id)
    BY <2>1, WholeRun
  <2>3. /\ write_tokens(id, l, start, vals)
        /\ written' = [written EXCEPT ![id][l] = @ \cup Run(start, n)]
    BY <1>7 DEF write_tokens_cuda
  <2> HIDE DEF vals
  <2>4. /\ can_reserve(id, start + n) /\ allocate(id, to_allocate(id, start + n))
        /\ kv' = [kv EXCEPT ![l] = copy_rows(@, seq_blocks'[id], start, vals)]
    BY <2>2, <2>3 DEF write_tokens
  <2>5. /\ seq_length'[id] = IF seq_length[id] >= start + n THEN seq_length[id] ELSE start + n
        /\ \A other \in SeqIds \ {id} : seq_length'[other] = seq_length[other]
    BY <2>1, <2>2, <2>3, <1>0, WriteEffect
  <2>6. /\ written'[id][l] = written[id][l] \cup Run(start, n)
        /\ \A o \in SeqIds, m \in Layers : o # id \/ m # l => written'[o][m] = written[o][m]
    BY <2>3, <1>0
  <2>7. Len(vals) <= n
    BY <2>1, <2>2
  <2> QED BY <2>1, <2>2, <2>4, <2>5, <2>6, <2>7, <1>0, <1>7, VisibleAfterRun
<1>8. ASSUME NEW id \in SeqIds, NEW l \in Layers, NEW start \in 0..seq_length[id],
             NEW n \in 1..(MaxWritten - start), Appends(id, l, start, n),
             write_tokens_cuda_fails(id, l, start, n)
      PROVE  VisibleInd'
  <2>1. n \in Nat \ {0} /\ start \in Nat /\ start <= seq_length[id]
    BY WriteBounds
  <2>2. PICK c \in 0..(2 * n - 1) :
          /\ can_reserve(id, start + n) /\ allocate(id, to_allocate(id, start + n))
          /\ kv' = [kv EXCEPT ![l] = copy_rows(@, seq_blocks'[id], start, PartialRun(id, l, start, c))]
          /\ seq_length' = seq_length /\ written' = written
    BY <1>8 DEF write_tokens_cuda_fails
  <2>3. PartialRun(id, l, start, c) \in Seq(Rows) /\ Len(PartialRun(id, l, start, c)) <= n
    BY <2>1, <2>2, <1>0, PartialRunType
  <2>4. PICK vals \in Seq(Rows) : vals = PartialRun(id, l, start, c)
    BY <2>3
  <2>5. Len(vals) <= n /\ kv' = [kv EXCEPT ![l] = copy_rows(@, seq_blocks'[id], start, vals)]
    BY <2>2, <2>3, <2>4
  <2>6. n \in Nat /\ can_reserve(id, start + n) /\ allocate(id, to_allocate(id, start + n))
    BY <2>1, <2>2
  <2> QED BY <2>1, <2>2, <2>5, <2>6, <1>0, <1>8, VisibleAfterRun
<1>9. ASSUME NEW id \in SeqIds,
             \/ upload_reusing(id) \/ upload_reusing_fails(id)
             \/ upload_allocating(id) \/ upload_new_fails(id) \/ upload_malloc_fails(id)
      PROVE  VisibleInd'
  <2>1. UNCHANGED vars /\ written' = written
    BY <1>9 DEF upload_reusing, upload_reusing_fails, upload_allocating, upload_new_fails,
                upload_into_new, upload_malloc_fails
  <2> QED BY <2>1, <1>3
<1>10. ASSUME NEW id \in SeqIds, free_sequence_cuda(id) PROVE VisibleInd'
  <2>1. free_sequence(id) /\ written' = [written EXCEPT ![id] = [l \in Layers |-> {}]]
    BY <1>10 DEF free_sequence_cuda
  <2>2. /\ kv' = kv /\ seq_length'[id] = 0
        /\ \A other \in SeqIds \ {id} : /\ seq_blocks'[other] = seq_blocks[other]
                                        /\ seq_length'[other] = seq_length[other]
    BY <2>1, <1>0, FreeEffect
  <2>3. \A o \in SeqIds : seq_length'[o] <= seq_length[o]
    BY <2>2, <1>0
  <2>4. \A o \in SeqIds : seq_length'[o] > 0 =>
            /\ Len(seq_blocks[o]) <= Len(seq_blocks'[o])
            /\ \A i \in 1..Len(seq_blocks[o]) : seq_blocks'[o][i] = seq_blocks[o][i]
    BY <2>2, <1>0
  <2>5. \A o \in SeqIds, l \in Layers : written'[o][l] = written[o][l] \cap 0..(seq_length'[o] - 1)
    <3>1. \A l \in Layers : written'[id][l] = {} /\ written[id][l] \cap 0..(0 - 1) = {}
      BY <2>1, <1>0
    <3>2. \A o \in SeqIds \ {id}, l \in Layers : written'[o][l] = written[o][l]
      BY <2>1, <1>0
    <3>3. \A o \in SeqIds \ {id}, l \in Layers :
             written[o][l] = written[o][l] \cap 0..(seq_length'[o] - 1)
      BY <2>2, <1>0
    <3> QED BY <3>1, <3>2, <3>3, <2>2
  <2> QED BY <2>2, <2>3, <2>4, <2>5, <1>0, VisibleStay
<1>11. CASE UNCHANGED cudaVars
  BY <1>3, <1>11 DEF cudaVars
<1> QED BY <1>1, <1>4, <1>5, <1>6, <1>7, <1>8, <1>9, <1>10, <1>11 DEF CudaNext

\* In any number of layers: a position below a length was completed by some
\* layer, and in each layer that completed it, it holds no half that another
\* sequence or a failed write left there (write_tokens_cuda raises the length
\* last).
THEOREM DeviceRowsWhole == CudaSpec => []VisibleRowsWhole
<1>1. CudaInit => VisibleInd
  <2> SUFFICES ASSUME CudaInit PROVE VisibleInd
    OBVIOUS
  <2>1. CacheInv
    BY InitInv DEF CudaInit
  <2>2. \A id \in SeqIds : seq_length[id] = 0 /\ \A l \in Layers : written[id][l] = {}
    BY DEF CudaInit, Init
  <2> QED BY <2>1, <2>2 DEF VisibleInd, WrittenVisible, VisibleRowsWhole
<1>2. DeviceInd /\ VisibleInd /\ [CudaNext]_cudaVars => VisibleInd'
  BY VisibleNext
<1>3. VisibleInd => VisibleRowsWhole
  BY DEF VisibleInd
<1> QED BY <1>1, <1>2, <1>3, DeviceIndInvariant, PTL DEF CudaSpec
=============================================================================
