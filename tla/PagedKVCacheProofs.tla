------------------------- MODULE PagedKVCacheProofs -------------------------
(***************************************************************************)
(* Proofs about PagedKVCache, for every set of sequence ids and layers,    *)
(* every block size and every pool size: its invariants, and that it       *)
(* implements SequenceStore.                                               *)
(***************************************************************************)
EXTENDS PagedKVCache, FiniteSetTheorems, SequenceTheorems, TLAPS

-----------------------------------------------------------------------------
(* Arithmetic of blocks. *)

\* A position is its block times the block size plus its offset.
LEMMA DivMod == ASSUME NEW p \in Nat
                PROVE  /\ p \div BlockSize \in Nat
                       /\ p % BlockSize \in Offsets
                       /\ p = (p \div BlockSize) * BlockSize + (p % BlockSize)
  BY GeometryAssumption DEF Offsets

\* ceil_div_int rounds up: the blocks it asks for hold n tokens.
LEMMA BlocksNeededCover == ASSUME NEW n \in Nat
                           PROVE  /\ blocks_needed(n) \in Nat
                                  /\ n <= blocks_needed(n) * BlockSize
  BY GeometryAssumption DEF blocks_needed, ceil_div_int

\* The order of naturals is kept by a multiplication by BlockSize.
LEMMA TimesBlockSize == ASSUME NEW a \in Nat, NEW b \in Nat, a <= b
                        PROVE  /\ a * BlockSize \in Nat
                               /\ a * BlockSize <= b * BlockSize
  BY GeometryAssumption
-----------------------------------------------------------------------------
(* Taking blocks from the free list. *)

\* What the loop of reserve_sequence leaves behind, for any number k of blocks
\* that the free list can give.
LEMMA AllocateInv ==
  ASSUME TypeOK, NoBlockShared, NoBlockLost, initialized,
         NEW id \in SeqIds, NEW k \in Nat, k <= Len(free_blocks), allocate(id, k)
  PROVE  /\ free_blocks' \in Seq(Blocks)
         /\ block_used' \in [Blocks -> BOOLEAN]
         /\ seq_blocks' \in [SeqIds -> Seq(Blocks)]
         /\ NoBlockShared'
         /\ \A b \in Blocks : /\ block_used'[b] <=> \E o \in SeqIds : Owns(o, b)'
                              /\ IsFree(b)' \/ block_used'[b]
         /\ Len(seq_blocks'[id]) = Len(seq_blocks[id]) + k
         /\ \A i \in 1..Len(seq_blocks[id]) : seq_blocks'[id][i] = seq_blocks[id][i]
         /\ \A other \in SeqIds \ {id} : seq_blocks'[other] = seq_blocks[other]
<1> DEFINE n == Len(free_blocks)
           m == Len(seq_blocks[id])
<1>0. /\ free_blocks \in Seq(Blocks)
      /\ seq_blocks[id] \in Seq(Blocks)
      /\ seq_blocks \in [SeqIds -> Seq(Blocks)]
  BY DEF TypeOK
<1>1. /\ n \in Nat /\ m \in Nat /\ k <= n
      /\ DOMAIN free_blocks = 1..n /\ DOMAIN seq_blocks[id] = 1..m
      /\ \A i \in 1..n : free_blocks[i] \in Blocks
      /\ \A i \in 1..m : seq_blocks[id][i] \in Blocks
  BY <1>0
<1>2. /\ popped(k) \in Seq(Blocks)
      /\ Len(popped(k)) = k
      /\ \A i \in 1..k : popped(k)[i] = free_blocks[n + 1 - i]
  BY <1>1 DEF popped
<1>3. /\ free_blocks' \in Seq(Blocks)
      /\ Len(free_blocks') = n - k
      /\ DOMAIN free_blocks' = 1..(n - k)
      /\ \A i \in 1..(n - k) : free_blocks'[i] = free_blocks[i]
  <2>1. free_blocks' = SubSeq(free_blocks, 1, n - k)
    BY DEF allocate
  <2>2. \A i \in 1..(n - k) : free_blocks[i] \in Blocks
    BY <1>1
  <2> HIDE DEF n
  <2>3. n - k \in Int /\ 1 \in Int
    BY <1>1
  <2>4. /\ SubSeq(free_blocks, 1, n - k) \in Seq(Blocks)
        /\ Len(SubSeq(free_blocks, 1, n - k)) = IF 1 <= n - k THEN (n - k) - 1 + 1 ELSE 0
        /\ \A i \in 1..((n - k) - 1 + 1) : SubSeq(free_blocks, 1, n - k)[i] = free_blocks[1 + i - 1]
    BY <2>2, <2>3, SubSeqProperties
  <2> QED BY <2>1, <2>4, <1>1
<1>4. seq_blocks' = [seq_blocks EXCEPT ![id] = seq_blocks[id] \o popped(k)]
  BY DEF allocate
<1>5. /\ seq_blocks' \in [SeqIds -> Seq(Blocks)]
      /\ Len(seq_blocks'[id]) = m + k
      /\ DOMAIN seq_blocks'[id] = 1..(m + k)
      /\ \A i \in 1..m : seq_blocks'[id][i] = seq_blocks[id][i]
      /\ \A i \in (m + 1)..(m + k) : seq_blocks'[id][i] = free_blocks[n + 1 - (i - m)]
      /\ \A other \in SeqIds \ {id} : seq_blocks'[other] = seq_blocks[other]
  <2> DEFINE t == seq_blocks[id] \o popped(k)
  <2>1. /\ t \in Seq(Blocks)
        /\ Len(t) = m + k
        /\ \A i \in 1..(m + k) : t[i] = IF i <= m THEN seq_blocks[id][i] ELSE popped(k)[i - m]
    <3> DEFINE s == seq_blocks[id]
               r == popped(k)
    <3>1. s \in Seq(Blocks) /\ r \in Seq(Blocks)
      BY <1>0, <1>2
    <3> HIDE DEF s, r
    <3>2. /\ s \o r \in Seq(Blocks)
          /\ Len(s \o r) = Len(s) + Len(r)
          /\ \A i \in 1..(Len(s) + Len(r)) : (s \o r)[i] = IF i <= Len(s) THEN s[i] ELSE r[i - Len(s)]
      BY <3>1, ConcatProperties
    <3>3. Len(s) = m /\ Len(r) = k
      BY <1>2 DEF s, r
    <3> QED BY <3>2, <3>3 DEF s, r
  <2> HIDE DEF t, n, m
  <2>2. seq_blocks' = [seq_blocks EXCEPT ![id] = t]
    BY <1>4 DEF t
  <2>3. seq_blocks'[id] = t /\ seq_blocks' \in [SeqIds -> Seq(Blocks)]
    BY <2>1, <2>2, <1>0
  <2>4. DOMAIN t = 1..(m + k)
    BY <2>1
  <2>5. \A i \in 1..m : t[i] = seq_blocks[id][i]
    BY <2>1, <1>1
  <2>6. \A i \in (m + 1)..(m + k) : t[i] = free_blocks[n + 1 - (i - m)]
    <3> SUFFICES ASSUME NEW i \in (m + 1)..(m + k) PROVE t[i] = free_blocks[n + 1 - (i - m)]
      OBVIOUS
    <3>1. i \in 1..(m + k) /\ ~(i <= m) /\ i - m \in 1..k
      BY <1>1
    <3> QED BY <3>1, <2>1, <1>2
  <2>7. \A other \in SeqIds \ {id} : seq_blocks'[other] = seq_blocks[other]
    BY <2>2, <1>0
  <2> QED BY <2>1, <2>3, <2>4, <2>5, <2>6, <2>7
<1> HIDE DEF n, m
<1>6. block_used' \in [Blocks -> BOOLEAN]
  BY DEF allocate, TypeOK
<1>7. \A b \in Blocks : IsFree(b)' <=> \E i \in 1..(n - k) : free_blocks[i] = b
  BY <1>3 DEF IsFree
<1>nm. n = Len(free_blocks) /\ m = Len(seq_blocks[id])
  BY DEF n, m
<1>8. \A b \in Blocks : Owns(id, b)' <=> \/ Owns(id, b)
                                         \/ \E i \in (n - k + 1)..n : free_blocks[i] = b
  <2> SUFFICES ASSUME NEW b \in Blocks
               PROVE  Owns(id, b)' <=> \/ Owns(id, b)
                                       \/ \E i \in (n - k + 1)..n : free_blocks[i] = b
    OBVIOUS
  <2>1. ASSUME Owns(id, b)'
        PROVE  Owns(id, b) \/ \E i \in (n - k + 1)..n : free_blocks[i] = b
    <3>1. PICK i \in 1..(m + k) : seq_blocks'[id][i] = b
      BY <2>1, <1>5 DEF Owns
    <3>2. CASE i <= m
      BY <3>1, <3>2, <1>1, <1>5, SMTT(20) DEF Owns
    <3>3. CASE i > m
      <4>1. free_blocks[n + 1 - (i - m)] = b /\ n + 1 - (i - m) \in (n - k + 1)..n
        BY <3>1, <3>3, <1>1, <1>5
      <4> QED BY <4>1
    <3> QED BY <3>2, <3>3, <1>1
  <2>2. ASSUME Owns(id, b) PROVE Owns(id, b)'
    BY <2>2, <1>1, <1>5 DEF Owns
  <2>3. ASSUME NEW i \in (n - k + 1)..n, free_blocks[i] = b PROVE Owns(id, b)'
    <3>1. m + (n + 1 - i) \in (m + 1)..(m + k) /\ n + 1 - ((m + (n + 1 - i)) - m) = i
      BY <1>1
    <3>2. seq_blocks'[id][m + (n + 1 - i)] = b
      BY <3>1, <2>3, <1>5
    <3> QED BY <3>1, <3>2, <1>1, <1>5 DEF Owns
  <2> QED BY <2>1, <2>2, <2>3
<1>9. \A other \in SeqIds \ {id}, b \in Blocks : Owns(other, b)' <=> Owns(other, b)
  BY <1>5 DEF Owns
<1>10. Injective(free_blocks)'
  BY <1>1, <1>3 DEF NoBlockShared, Injective
<1>11. \A other \in SeqIds : Injective(seq_blocks[other])'
  <2>1. Injective(seq_blocks'[id])
    <3> SUFFICES ASSUME NEW i \in 1..(m + k), NEW j \in 1..(m + k),
                        seq_blocks'[id][i] = seq_blocks'[id][j], i < j
                 PROVE  FALSE
      BY <1>1, <1>5 DEF Injective
    <3>1. CASE j <= m
      BY <3>1, <1>1, <1>5 DEF NoBlockShared, Injective
    <3>2. CASE i > m
      <4>1. /\ n + 1 - (i - m) \in 1..n /\ n + 1 - (j - m) \in 1..n
            /\ free_blocks[n + 1 - (i - m)] = free_blocks[n + 1 - (j - m)]
        BY <3>2, <1>1, <1>5
      <4>2. n + 1 - (i - m) = n + 1 - (j - m)
        BY <4>1, <1>1 DEF NoBlockShared, Injective
      <4> QED BY <4>2, <1>1
    <3>3. CASE i <= m /\ j > m
      <4>1. /\ n + 1 - (j - m) \in 1..n
            /\ seq_blocks[id][i] = free_blocks[n + 1 - (j - m)]
            /\ seq_blocks[id][i] \in Blocks
        BY <3>3, <1>1, <1>5
      <4>2. Owns(id, seq_blocks[id][i]) /\ IsFree(seq_blocks[id][i])
        BY <3>3, <4>1, <1>1 DEF Owns, IsFree
      <4> QED BY <4>1, <4>2 DEF NoBlockShared
    <3> QED BY <3>1, <3>2, <3>3, <1>1
  <2> QED BY <2>1, <1>5 DEF NoBlockShared
<1>12. \A o \in SeqIds, b \in Blocks : Owns(o, b)' => ~IsFree(b)'
  <2> SUFFICES ASSUME NEW o \in SeqIds, NEW b \in Blocks, Owns(o, b)', IsFree(b)'
               PROVE  FALSE
    OBVIOUS
  <2>1. PICK i \in 1..(n - k) : free_blocks[i] = b
    BY <1>7
  <2>2. IsFree(b)
    BY <2>1, <1>1 DEF IsFree
  <2>3. ~Owns(o, b)
    BY <2>2 DEF NoBlockShared
  <2>4. PICK j \in (n - k + 1)..n : free_blocks[j] = b
    BY <2>3, <1>8, <1>9
  <2> QED BY <2>1, <2>4, <1>1 DEF NoBlockShared, Injective
<1>13. \A o1, o2 \in SeqIds, b \in Blocks : Owns(o1, b)' /\ Owns(o2, b)' => o1 = o2
  <2>1. \A i \in (n - k + 1)..n, o \in SeqIds : ~Owns(o, free_blocks[i])
    <3> SUFFICES ASSUME NEW i \in (n - k + 1)..n, NEW o \in SeqIds
                 PROVE  ~Owns(o, free_blocks[i])
      OBVIOUS
    <3>1. i \in 1..n
      BY <1>1
    <3>2. free_blocks[i] \in Blocks /\ IsFree(free_blocks[i])
      BY <3>1, <1>1 DEF IsFree
    <3> QED BY <3>2 DEF NoBlockShared
  <2> QED BY <2>1, <1>8, <1>9 DEF NoBlockShared
<1>14. NoBlockShared'
  BY <1>10, <1>11, <1>12, <1>13 DEF NoBlockShared
<1>15. ASSUME NEW b \in Blocks
       PROVE  block_used'[b] <=> (block_used[b] \/ \E i \in (n - k + 1)..n : free_blocks[i] = b)
  <2>1. block_used'[b] <=> (block_used[b] \/ \E i \in 1..k : free_blocks[n + 1 - i] = b)
    BY <1>2 DEF allocate
  <2>2. (\E i \in 1..k : free_blocks[n + 1 - i] = b)
          <=> (\E i \in (n - k + 1)..n : free_blocks[i] = b)
    <3>1. ASSUME NEW i \in 1..k, free_blocks[n + 1 - i] = b
          PROVE  \E j \in (n - k + 1)..n : free_blocks[j] = b
      <4>1. n + 1 - i \in (n - k + 1)..n
        BY <1>1
      <4> QED BY <3>1, <4>1
    <3>2. ASSUME NEW j \in (n - k + 1)..n, free_blocks[j] = b
          PROVE  \E i \in 1..k : free_blocks[n + 1 - i] = b
      <4>1. n + 1 - j \in 1..k /\ n + 1 - (n + 1 - j) = j
        BY <1>1
      <4> QED BY <3>2, <4>1
    <3> QED BY <3>1, <3>2
  <2> QED BY <2>1, <2>2
<1>16. ASSUME NEW b \in Blocks
       PROVE  /\ block_used'[b] <=> \E o \in SeqIds : Owns(o, b)'
              /\ IsFree(b)' \/ block_used'[b]
  <2>1. block_used'[b] <=> \E o \in SeqIds : Owns(o, b)'
    BY <1>8, <1>9, <1>15 DEF NoBlockLost
  <2>2. CASE block_used[b]
    BY <2>1, <2>2, <1>15
  <2>3. CASE ~block_used[b]
    <3>1. PICK i \in 1..n : free_blocks[i] = b
      BY <2>3, <1>1 DEF NoBlockLost, IsFree
    <3>2. i \in 1..(n - k) \/ i \in (n - k + 1)..n
      BY <1>1
    <3> QED BY <3>1, <3>2, <2>1, <1>7, <1>15
  <2> QED BY <2>1, <2>2, <2>3
<1> QED BY <1>3, <1>5, <1>6, <1>14, <1>16, <1>nm
-----------------------------------------------------------------------------
(* Giving blocks back. *)

\* Enumerating 1..m in increasing order is possible, so the CHOOSE of InOrder
\* yields a one-to-one enumeration of all of 1..m.
LEMMA InOrderInterval ==
  ASSUME NEW m \in Nat
  PROVE  /\ Cardinality(1..m) = m
         /\ InOrder(1..m) \in [1..m -> 1..m]
         /\ \A i, j \in 1..m : InOrder(1..m)[i] = InOrder(1..m)[j] => i = j
         /\ \A x \in 1..m : \E i \in 1..m : InOrder(1..m)[i] = x
<1> DEFINE Good(f) == /\ \A i, j \in 1..m : i < j => f[i] < f[j]
                      /\ \A x \in 1..m : \E i \in 1..m : f[i] = x
           id == [i \in 1..m |-> i]
<1>1. Cardinality(1..m) = m
  <2>1. 1 \in Int /\ m \in Int
    OBVIOUS
  <2>2. Cardinality(1..m) = IF 1 > m THEN 0 ELSE m - 1 + 1
    BY <2>1, FS_Interval
  <2> QED BY <2>2
<1>2. InOrder(1..m) = CHOOSE f \in [1..m -> 1..m] : Good(f)
  BY <1>1 DEF InOrder
<1>3. id \in [1..m -> 1..m] /\ Good(id)
  OBVIOUS
<1>4. InOrder(1..m) \in [1..m -> 1..m] /\ Good(InOrder(1..m))
  <2> HIDE DEF Good, id
  <2> QED BY <1>2, <1>3
<1>5. \A i, j \in 1..m : InOrder(1..m)[i] = InOrder(1..m)[j] => i = j
  <2> SUFFICES ASSUME NEW i \in 1..m, NEW j \in 1..m, i < j
               PROVE  InOrder(1..m)[i] # InOrder(1..m)[j]
    OBVIOUS
  <2>1. InOrder(1..m)[i] \in Int /\ InOrder(1..m)[j] \in Int
    BY <1>4
  <2>2. InOrder(1..m)[i] < InOrder(1..m)[j]
    BY <1>4
  <2> QED BY <2>1, <2>2
<1> QED BY <1>1, <1>4, <1>5

\* free_sequence pushes every block of the sequence exactly once: the
\* used-test of its loop drops none of them.
LEMMA ReturnedBlocks ==
  ASSUME TypeOK, NoBlockShared, NoBlockLost, NEW id \in SeqIds
  PROVE  /\ returned(id) \in Seq(Blocks)
         /\ Len(returned(id)) = Len(seq_blocks[id])
         /\ Injective(returned(id))
         /\ \A b \in Blocks : Owns(id, b) <=> \E i \in DOMAIN returned(id) : returned(id)[i] = b
<1> DEFINE bs == seq_blocks[id]
           m == Len(bs)
           f == InOrder(1..m)
<1>1. /\ bs \in Seq(Blocks) /\ m \in Nat /\ DOMAIN bs = 1..m
      /\ \A i \in 1..m : bs[i] \in Blocks
  BY DEF TypeOK
<1>2. StillUsed(id) = 1..m
  <2>1. ASSUME NEW i \in 1..m
        PROVE  block_used[bs[i]] /\ \A j \in 1..(i-1) : bs[j] # bs[i]
    <3>1. bs[i] \in Blocks /\ Owns(id, bs[i])
      BY <1>1 DEF Owns
    <3>2. block_used[bs[i]]
      BY <3>1 DEF NoBlockLost
    <3>3. Injective(bs)
      BY DEF NoBlockShared
    <3>4. \A j \in 1..(i-1) : j \in 1..m /\ j # i
      BY <1>1
    <3> QED BY <3>2, <3>3, <3>4, <1>1 DEF Injective
  <2> QED BY <2>1, <1>1 DEF StillUsed
<1>3. /\ Cardinality(1..m) = m
      /\ f \in [1..m -> 1..m]
      /\ \A i, j \in 1..m : f[i] = f[j] => i = j
      /\ \A x \in 1..m : \E i \in 1..m : f[i] = x
  BY <1>1, InOrderInterval
<1>4. returned(id) = [i \in 1..m |-> bs[f[i]]]
  BY <1>2, <1>3 DEF returned
<1> HIDE DEF f, m
<1>5. /\ returned(id) \in [1..m -> Blocks]
      /\ DOMAIN returned(id) = 1..m
      /\ \A i \in 1..m : returned(id)[i] = bs[f[i]]
  BY <1>1, <1>3, <1>4, SMTT(20)
<1>6. returned(id) \in Seq(Blocks) /\ Len(returned(id)) = m
  BY <1>5, <1>1
<1>7. Injective(returned(id))
  <2>1. \A i, j \in 1..m : bs[i] = bs[j] => i = j
    BY <1>1 DEF NoBlockShared, Injective
  <2>2. ASSUME NEW i \in 1..m, NEW j \in 1..m, returned(id)[i] = returned(id)[j]
        PROVE  i = j
    <3>1. f[i] \in 1..m /\ f[j] \in 1..m /\ bs[f[i]] = bs[f[j]]
      BY <2>2, <1>3, <1>5
    <3> QED BY <3>1, <2>1, <1>3
  <2> QED BY <2>2, <1>5 DEF Injective
<1>8. ASSUME NEW b \in Blocks
      PROVE  Owns(id, b) <=> \E i \in 1..m : returned(id)[i] = b
  <2>1. ASSUME Owns(id, b) PROVE \E i \in 1..m : returned(id)[i] = b
    <3>1. PICK x \in 1..m : bs[x] = b
      BY <2>1, <1>1 DEF Owns
    <3>2. PICK i \in 1..m : f[i] = x
      BY <1>3
    <3> QED BY <3>1, <3>2, <1>5
  <2>2. ASSUME NEW i \in 1..m, returned(id)[i] = b PROVE Owns(id, b)
    BY <2>2, <1>1, <1>3, <1>5 DEF Owns
  <2> QED BY <2>1, <2>2
<1> QED BY <1>5, <1>6, <1>7, <1>8 DEF m

\* What free_sequence leaves behind.
LEMMA FreeInv ==
  ASSUME CacheInv, NEW id \in SeqIds, free_sequence(id)
  PROVE  CacheInv'
<1> DEFINE n == Len(free_blocks)
           r == returned(id)
           m == Len(r)
<1> USE DEF CacheInv
<1>1. /\ r \in Seq(Blocks) /\ Injective(r)
      /\ \A b \in Blocks : Owns(id, b) <=> \E i \in DOMAIN r : r[i] = b
  BY ReturnedBlocks
<1>2. /\ free_blocks \in Seq(Blocks) /\ n \in Nat /\ m \in Nat
      /\ DOMAIN free_blocks = 1..n /\ DOMAIN r = 1..m
      /\ \A i \in 1..n : free_blocks[i] \in Blocks
      /\ \A i \in 1..m : r[i] \in Blocks
  BY <1>1 DEF TypeOK
<1> HIDE DEF r
<1>3. /\ free_blocks' \in Seq(Blocks)
      /\ DOMAIN free_blocks' = 1..(n + m)
      /\ \A i \in 1..(n + m) : free_blocks'[i] = IF i <= n THEN free_blocks[i] ELSE r[i - n]
  <2>1. free_blocks' = free_blocks \o r
    BY DEF free_sequence, r
  <2>2. /\ free_blocks \o r \in Seq(Blocks)
        /\ Len(free_blocks \o r) = n + m
        /\ \A i \in 1..(n + m) : (free_blocks \o r)[i] = IF i <= n THEN free_blocks[i] ELSE r[i - n]
    BY <1>1, <1>2, ConcatProperties
  <2> HIDE DEF n, m
  <2> QED BY <2>1, <2>2, <1>2
<1> HIDE DEF n, m
<1>4. /\ seq_blocks' \in [SeqIds -> Seq(Blocks)]
      /\ seq_blocks'[id] = <<>>
      /\ \A other \in SeqIds \ {id} : seq_blocks'[other] = seq_blocks[other]
      /\ seq_length' \in [SeqIds -> Nat]
      /\ seq_length'[id] = 0
      /\ \A other \in SeqIds \ {id} : seq_length'[other] = seq_length[other]
      /\ initialized' = initialized
      /\ kv' = kv
  BY DEF free_sequence, TypeOK
<1>5. \A b \in Blocks : block_used'[b] <=> (block_used[b] /\ ~Owns(id, b))
  BY DEF free_sequence, Owns
<1>6. TypeOK'
  <2>1. block_used' \in [Blocks -> BOOLEAN]
    BY DEF free_sequence, TypeOK
  <2> QED BY <2>1, <1>3, <1>4 DEF TypeOK
<1>7. \A b \in Blocks : IsFree(b)' <=> (IsFree(b) \/ Owns(id, b))
  <2> SUFFICES ASSUME NEW b \in Blocks PROVE IsFree(b)' <=> (IsFree(b) \/ Owns(id, b))
    OBVIOUS
  <2>1. ASSUME NEW i \in 1..(n + m), free_blocks'[i] = b PROVE IsFree(b) \/ Owns(id, b)
    <3>1. CASE i <= n
      BY <3>1, <2>1, <1>2, <1>3 DEF IsFree
    <3>2. CASE i > n
      <4>1. i - n \in 1..m /\ r[i - n] = b
        BY <3>2, <2>1, <1>2, <1>3
      <4> QED BY <4>1, <1>1, <1>2
    <3> QED BY <3>1, <3>2, <1>2
  <2>2. ASSUME IsFree(b) PROVE IsFree(b)'
    <3>1. PICK i \in 1..n : free_blocks[i] = b
      BY <2>2, <1>2 DEF IsFree
    <3>2. i \in 1..(n + m) /\ i <= n
      BY <1>2
    <3> QED BY <3>1, <3>2, <1>3 DEF IsFree
  <2>3. ASSUME Owns(id, b) PROVE IsFree(b)'
    <3>1. PICK i \in 1..m : r[i] = b
      BY <2>3, <1>1, <1>2
    <3>2. n + i \in 1..(n + m) /\ ~(n + i <= n) /\ (n + i) - n = i
      BY <1>2
    <3> QED BY <3>1, <3>2, <1>3 DEF IsFree
  <2> QED BY <2>1, <2>2, <2>3, <1>3 DEF IsFree
<1>8. /\ \A b \in Blocks : ~Owns(id, b)'
      /\ \A other \in SeqIds \ {id}, b \in Blocks : Owns(other, b)' <=> Owns(other, b)
  BY <1>4 DEF Owns
<1>9. NoBlockShared'
  <2>1. Injective(free_blocks)'
    <3> SUFFICES ASSUME NEW i \in 1..(n + m), NEW j \in 1..(n + m), i < j,
                        free_blocks'[i] = free_blocks'[j]
                 PROVE  FALSE
      BY <1>2, <1>3 DEF Injective
    <3>1. CASE j <= n
      BY <3>1, <1>2, <1>3, SMTT(20) DEF NoBlockShared, Injective
    <3>2. CASE i > n
      <4>1. i - n \in 1..m /\ j - n \in 1..m /\ r[i - n] = r[j - n]
        BY <3>2, <1>2, <1>3
      <4>2. i - n = j - n
        BY <4>1, <1>1, <1>2 DEF Injective
      <4> QED BY <4>2, <1>2
    <3>3. CASE i <= n /\ j > n
      <4>1. i \in 1..n /\ j - n \in 1..m /\ free_blocks[i] = r[j - n] /\ free_blocks[i] \in Blocks
        BY <3>3, <1>2, <1>3
      <4>2. IsFree(free_blocks[i]) /\ Owns(id, free_blocks[i])
        BY <4>1, <1>1, <1>2 DEF IsFree
      <4> QED BY <4>1, <4>2 DEF NoBlockShared
    <3> QED BY <3>1, <3>2, <3>3, <1>2
  <2>2. \A other \in SeqIds : Injective(seq_blocks[other])'
    <3>1. Injective(<<>>)
      BY DEF Injective
    <3>2. \A other \in SeqIds : Injective(seq_blocks'[other])
      BY <3>1, <1>4 DEF NoBlockShared
    <3> QED BY <3>2
  <2>3. \A o \in SeqIds, b \in Blocks : Owns(o, b)' => ~IsFree(b)'
    BY <1>7, <1>8 DEF NoBlockShared
  <2>4. \A o1, o2 \in SeqIds, b \in Blocks : Owns(o1, b)' /\ Owns(o2, b)' => o1 = o2
    BY <1>8 DEF NoBlockShared
  <2> QED BY <2>1, <2>2, <2>3, <2>4 DEF NoBlockShared
<1>10. NoBlockLost'
  BY <1>4, <1>5, <1>7, <1>8, ZenonT(40) DEF NoBlockLost, NoBlockShared
<1>11. LengthCovered'
  <2>1. Len(<<>>) * BlockSize = 0
    BY GeometryAssumption
  <2>2. \A o \in SeqIds : seq_length'[o] <= Len(seq_blocks'[o]) * BlockSize
    <3> SUFFICES ASSUME NEW o \in SeqIds
                 PROVE  seq_length'[o] <= Len(seq_blocks'[o]) * BlockSize
      OBVIOUS
    <3>1. CASE o = id
      <4>1. seq_length'[o] = 0 /\ Len(seq_blocks'[o]) * BlockSize = 0
        BY <3>1, <2>1, <1>4
      <4> QED BY <4>1
    <3>2. CASE o # id
      BY <3>2, <1>4 DEF LengthCovered, sequence_capacity
    <3> QED BY <3>1, <3>2
  <2> QED BY <2>2 DEF LengthCovered, sequence_capacity
<1> QED BY <1>6, <1>9, <1>10, <1>11
-----------------------------------------------------------------------------
(* The other calls. *)

\* init, reset and release leave a full, or an empty, free list.
LEMMA AllBlocksFreeFacts ==
  /\ AllBlocksFree \in Seq(Blocks)
  /\ DOMAIN AllBlocksFree = 1..MaxBlocks
  /\ Injective(AllBlocksFree)
  /\ \A b \in Blocks : \E i \in DOMAIN AllBlocksFree : AllBlocksFree[i] = b
<1>1. /\ AllBlocksFree \in [1..MaxBlocks -> Blocks]
      /\ DOMAIN AllBlocksFree = 1..MaxBlocks
      /\ \A i \in 1..MaxBlocks : AllBlocksFree[i] = MaxBlocks - i
  BY GeometryAssumption DEF AllBlocksFree, Blocks
<1>2. AllBlocksFree \in Seq(Blocks)
  BY <1>1, GeometryAssumption
<1>3. Injective(AllBlocksFree)
  BY <1>1, GeometryAssumption DEF Injective
<1>4. \A b \in Blocks : MaxBlocks - b \in 1..MaxBlocks /\ AllBlocksFree[MaxBlocks - b] = b
  BY <1>1, GeometryAssumption DEF Blocks
<1> QED BY <1>1, <1>2, <1>3, <1>4

\* A cache without sequences.
EmptyPool == /\ initialized \in BOOLEAN
             /\ free_blocks \in Seq(Blocks)
             /\ Injective(free_blocks)
             /\ block_used = [b \in Blocks |-> FALSE]
             /\ seq_blocks = [id \in SeqIds |-> <<>>]
             /\ seq_length = [id \in SeqIds |-> 0]
             /\ kv \in [Layers -> [Blocks -> [Offsets -> Rows]]]
             /\ \A b \in Blocks : initialized <=> IsFree(b)

\* It is consistent when its free list holds every block once, or none if the
\* cache is released.
LEMMA EmptyPoolInv == EmptyPool => CacheInv
<1> SUFFICES ASSUME EmptyPool PROVE CacheInv
  OBVIOUS
<1> USE DEF EmptyPool
<1>1. TypeOK
  BY DEF TypeOK
<1>2. \A id \in SeqIds : seq_blocks[id] = <<>> /\ seq_length[id] = 0
  OBVIOUS
<1>3. \A id \in SeqIds, b \in Blocks : ~Owns(id, b)
  BY <1>2 DEF Owns
<1>4. Injective(<<>>)
  BY DEF Injective
<1>5. NoBlockShared
  BY <1>2, <1>3, <1>4 DEF NoBlockShared
<1>6. NoBlockLost
  BY <1>3 DEF NoBlockLost
<1>7. LengthCovered
  <2>1. Len(<<>>) * BlockSize = 0
    BY GeometryAssumption
  <2> QED BY <2>1, <1>2 DEF LengthCovered, sequence_capacity
<1> QED BY <1>1, <1>5, <1>6, <1>7 DEF CacheInv

\* A call that reserves room for n tokens, then leaves id with a length of at
\* most max(n, the old length), keeps the invariant.
LEMMA ReserveInv ==
  ASSUME CacheInv, NEW id \in SeqIds, NEW n \in Nat, can_reserve(id, n),
         allocate(id, to_allocate(id, n)),
         initialized' = initialized,
         kv' \in [Layers -> [Blocks -> [Offsets -> Rows]]],
         NEW len \in Nat, len <= n \/ len <= seq_length[id],
         seq_length' = [seq_length EXCEPT ![id] = len]
  PROVE  CacheInv'
<1> USE DEF CacheInv
<1> DEFINE k == to_allocate(id, n)
           m == Len(seq_blocks[id])
<1>1. blocks_needed(n) \in Nat /\ n <= blocks_needed(n) * BlockSize
  BY BlocksNeededCover
<1>2. m \in Nat /\ seq_blocks[id] \in Seq(Blocks)
  BY DEF TypeOK
<1>3. k \in Nat /\ blocks_needed(n) <= m + k
  BY <1>1, <1>2 DEF to_allocate
<1>4. initialized /\ k <= Len(free_blocks)
  BY DEF can_reserve
<1>5. allocate(id, k)
  OBVIOUS
<1> HIDE DEF k
<1>6. /\ free_blocks' \in Seq(Blocks)
      /\ block_used' \in [Blocks -> BOOLEAN]
      /\ seq_blocks' \in [SeqIds -> Seq(Blocks)]
      /\ NoBlockShared'
      /\ \A b \in Blocks : /\ block_used'[b] <=> \E o \in SeqIds : Owns(o, b)'
                           /\ IsFree(b)' \/ block_used'[b]
      /\ Len(seq_blocks'[id]) = m + k
      /\ \A other \in SeqIds \ {id} : seq_blocks'[other] = seq_blocks[other]
  BY <1>3, <1>4, <1>5, AllocateInv
<1>7. /\ seq_length' \in [SeqIds -> Nat]
      /\ seq_length'[id] = len
      /\ \A other \in SeqIds \ {id} : seq_length'[other] = seq_length[other]
  BY DEF TypeOK
<1>8. TypeOK'
  BY <1>4, <1>6, <1>7 DEF TypeOK
<1>9. NoBlockLost'
  <2>1. initialized' = TRUE
    BY <1>4 DEF TypeOK
  <2>2. \A b \in Blocks : /\ block_used'[b] <=> \E o \in SeqIds : Owns(o, b)'
                          /\ initialized' <=> (IsFree(b)' \/ block_used'[b])
    BY <2>1, <1>6
  <2> QED BY <2>2 DEF NoBlockLost
<1>10. len <= (m + k) * BlockSize
  <2> HIDE DEF m
  <2>1. CASE len <= n
    <3>1. blocks_needed(n) * BlockSize <= (m + k) * BlockSize /\ (m + k) * BlockSize \in Nat
      BY <1>1, <1>2, <1>3, TimesBlockSize
    <3>2. blocks_needed(n) * BlockSize \in Nat
      BY <1>1, TimesBlockSize
    <3> QED BY <3>1, <3>2, <2>1, <1>1
  <2>2. CASE len <= seq_length[id]
    <3>1. seq_length[id] <= m * BlockSize /\ seq_length[id] \in Nat
      BY DEF LengthCovered, sequence_capacity, TypeOK, m
    <3>2. m * BlockSize <= (m + k) * BlockSize /\ m * BlockSize \in Nat /\ (m + k) * BlockSize \in Nat
      BY <1>2, <1>3, TimesBlockSize
    <3> QED BY <3>1, <3>2, <2>2
  <2> QED BY <2>1, <2>2
<1>11. LengthCovered'
  <2>1. ASSUME NEW o \in SeqIds
        PROVE  seq_length'[o] <= Len(seq_blocks'[o]) * BlockSize
    <3>1. CASE o = id
      BY <3>1, <1>6, <1>7, <1>10
    <3>2. CASE o # id
      BY <3>2, <1>6, <1>7 DEF LengthCovered, sequence_capacity
    <3> QED BY <3>1, <3>2
  <2> QED BY <2>1 DEF LengthCovered, sequence_capacity
<1> QED BY <1>6, <1>8, <1>9, <1>11

-----------------------------------------------------------------------------
(* Rows through a block table. *)

\* A position below the capacity of a table falls in one of its blocks.
LEMMA PositionInTable ==
  ASSUME NEW m \in Nat, NEW p \in 0..(m * BlockSize - 1)
  PROVE  /\ (p \div BlockSize) + 1 \in 1..m
         /\ p % BlockSize \in Offsets
<1> DEFINE q == p \div BlockSize
           r == p % BlockSize
<1>1. m * BlockSize \in Nat
  BY TimesBlockSize
<1>2. p \in Nat /\ p < m * BlockSize
  BY <1>1
<1>3. q \in Nat /\ r \in Offsets /\ p = q * BlockSize + r
  BY <1>2, DivMod
<1> HIDE DEF q, r
<1>4. q < m
  <2> SUFFICES ASSUME m <= q PROVE FALSE
    BY <1>3
  <2>1. m * BlockSize <= q * BlockSize /\ q * BlockSize \in Nat
    BY <1>3, TimesBlockSize
  <2> QED BY <2>1, <1>1, <1>2, <1>3, GeometryAssumption DEF Offsets
<1>5. q + 1 \in 1..m
  BY <1>3, <1>4
<1> QED BY <1>3, <1>5 DEF q, r

\* Two positions of a table without repeated blocks never share a row.
LEMMA SlotUnique ==
  ASSUME NEW bs \in Seq(Blocks), Injective(bs),
         NEW p \in 0..(Len(bs) * BlockSize - 1), NEW q \in 0..(Len(bs) * BlockSize - 1),
         physical_block(bs, p) = physical_block(bs, q),
         offset_in_block(p) = offset_in_block(q)
  PROVE  p = q
<1>1. Len(bs) \in Nat /\ DOMAIN bs = 1..Len(bs)
  OBVIOUS
<1>2. (p \div BlockSize) + 1 \in 1..Len(bs) /\ (q \div BlockSize) + 1 \in 1..Len(bs)
  BY <1>1, PositionInTable
<1>3. (p \div BlockSize) + 1 = (q \div BlockSize) + 1
  BY <1>1, <1>2 DEF physical_block, Injective
<1>4. Len(bs) * BlockSize \in Nat
  BY <1>1, TimesBlockSize
<1>5. p \in Nat /\ q \in Nat
  BY <1>4
<1>6. /\ p \div BlockSize \in Nat /\ p = (p \div BlockSize) * BlockSize + (p % BlockSize)
      /\ q \div BlockSize \in Nat /\ q = (q \div BlockSize) * BlockSize + (q % BlockSize)
  BY <1>5, DivMod
<1>7. p \div BlockSize = q \div BlockSize /\ p % BlockSize = q % BlockSize
  BY <1>3, <1>6 DEF offset_in_block
<1> QED BY <1>6, <1>7

\* What the copy loop of write_tokens does: each row of the run lands at its
\* own place, every place that is not one of those keeps its row.
LEMMA CopyRowsEffect ==
  ASSUME NEW rows \in [Blocks -> [Offsets -> Rows]],
         NEW bs \in Seq(Blocks), Injective(bs),
         NEW start \in Nat, NEW vals \in Seq(Rows),
         start + Len(vals) <= Len(bs) * BlockSize
  PROVE  /\ copy_rows(rows, bs, start, vals) \in [Blocks -> [Offsets -> Rows]]
         /\ \A t \in 1..Len(vals) :
              copy_rows(rows, bs, start, vals)[physical_block(bs, start + t - 1)][offset_in_block(start + t - 1)]
                = vals[t]
         /\ \A b \in Blocks, o \in Offsets :
              (\A t \in 1..Len(vals) : ~(/\ physical_block(bs, start + t - 1) = b
                                         /\ offset_in_block(start + t - 1) = o))
                => copy_rows(rows, bs, start, vals)[b][o] = rows[b][o]
<1> DEFINE res == copy_rows(rows, bs, start, vals)
           T(b, o) == TokensAt(bs, start, Len(vals), b, o)
           n == Len(vals)
           cap == Len(bs) * BlockSize
<1>1. /\ n \in Nat /\ DOMAIN vals = 1..n /\ \A t \in 1..n : vals[t] \in Rows
      /\ Len(bs) \in Nat /\ DOMAIN bs = 1..Len(bs) /\ \A i \in 1..Len(bs) : bs[i] \in Blocks
  OBVIOUS
<1>2. cap \in Nat
  BY <1>1, TimesBlockSize
<1>3. \A t \in 1..n : start + t - 1 \in 0..(cap - 1)
  <2> HIDE DEF cap, n
  <2>1. start + n <= cap
    BY DEF cap, n
  <2> QED BY <2>1, <1>1, <1>2
<1>4. ASSUME NEW t \in 1..n
      PROVE  /\ physical_block(bs, start + t - 1) \in Blocks
             /\ offset_in_block(start + t - 1) \in Offsets
  <2>1. start + t - 1 \in 0..(Len(bs) * BlockSize - 1)
    BY <1>3
  <2>2. /\ ((start + t - 1) \div BlockSize) + 1 \in 1..Len(bs)
        /\ (start + t - 1) % BlockSize \in Offsets
    BY <2>1, <1>1, PositionInTable
  <2> QED BY <2>2, <1>1 DEF physical_block, offset_in_block
<1>5. ASSUME NEW b \in Blocks, NEW o \in Offsets, NEW t \in T(b, o)
      PROVE  t \in 1..n /\ T(b, o) = {t} /\ LatestOf(T(b, o)) = t
  <2>1. t \in 1..n
    BY DEF TokensAt
  <2>2. ASSUME NEW u \in T(b, o) PROVE u = t
    <3>1. /\ u \in 1..n
          /\ physical_block(bs, start + u - 1) = physical_block(bs, start + t - 1)
          /\ offset_in_block(start + u - 1) = offset_in_block(start + t - 1)
      BY DEF TokensAt
    <3>2. /\ start + u - 1 \in 0..(Len(bs) * BlockSize - 1)
          /\ start + t - 1 \in 0..(Len(bs) * BlockSize - 1)
      BY <3>1, <2>1, <1>3
    <3>3. start + u - 1 = start + t - 1
      BY <3>1, <3>2, SlotUnique
    <3> QED BY <3>1, <3>3, <2>1
  <2>3. T(b, o) = {t}
    BY <2>2
  <2>4. LatestOf({t}) = t
    BY <2>1, <1>1 DEF LatestOf
  <2> QED BY <2>1, <2>3, <2>4
<1>6. ASSUME NEW b \in Blocks, NEW o \in Offsets
      PROVE  /\ res[b][o] = IF T(b, o) = {} THEN rows[b][o] ELSE vals[LatestOf(T(b, o))]
             /\ res[b][o] \in Rows
  <2>1. res[b][o] = IF T(b, o) = {} THEN rows[b][o] ELSE vals[LatestOf(T(b, o))]
    BY DEF copy_rows
  <2>2. CASE T(b, o) = {}
    BY <2>1, <2>2
  <2>3. CASE T(b, o) # {}
    <3>1. PICK t \in T(b, o) : TRUE
      BY <2>3
    <3>2. t \in 1..n /\ LatestOf(T(b, o)) = t
      BY <1>5
    <3> QED BY <2>1, <2>3, <3>2, <1>1
  <2> QED BY <2>1, <2>2, <2>3
<1>7. res \in [Blocks -> [Offsets -> Rows]]
  <2>1. res = [b \in Blocks |-> [o \in Offsets |->
                  IF T(b, o) = {} THEN rows[b][o] ELSE vals[LatestOf(T(b, o))]]]
    BY DEF copy_rows
  <2> QED BY <2>1, <1>6
<1>8. ASSUME NEW t \in 1..n
      PROVE  res[physical_block(bs, start + t - 1)][offset_in_block(start + t - 1)] = vals[t]
  <2> DEFINE b == physical_block(bs, start + t - 1)
             o == offset_in_block(start + t - 1)
  <2>1. b \in Blocks /\ o \in Offsets
    BY <1>4
  <2>2. t \in T(b, o)
    BY DEF TokensAt
  <2> HIDE DEF b, o, T
  <2>3. LatestOf(T(b, o)) = t /\ T(b, o) # {}
    BY <2>1, <2>2, <1>5
  <2>4. res[b][o] = vals[t]
    BY <2>1, <2>3, <1>6
  <2> QED BY <2>4 DEF b, o
<1>9. \A b \in Blocks, o \in Offsets :
         (\A t \in 1..n : ~(/\ physical_block(bs, start + t - 1) = b
                            /\ offset_in_block(start + t - 1) = o)) => T(b, o) = {}
  BY DEF TokensAt
<1> QED BY <1>6, <1>7, <1>8, <1>9

-----------------------------------------------------------------------------
(* The invariant. *)

\* Room for n tokens is enough for the n positions.
LEMMA RoomAfterAllocate ==
  ASSUME CacheInv, NEW id \in SeqIds, NEW n \in Nat, can_reserve(id, n),
         allocate(id, to_allocate(id, n))
  PROVE  /\ seq_blocks' \in [SeqIds -> Seq(Blocks)]
         /\ Injective(seq_blocks'[id])
         /\ n <= Len(seq_blocks'[id]) * BlockSize
         /\ Len(seq_blocks[id]) <= Len(seq_blocks'[id])
         /\ \A i \in 1..Len(seq_blocks[id]) : seq_blocks'[id][i] = seq_blocks[id][i]
         /\ \A other \in SeqIds \ {id} : seq_blocks'[other] = seq_blocks[other]
<1> DEFINE k == to_allocate(id, n)
           m == Len(seq_blocks[id])
<1>1. blocks_needed(n) \in Nat /\ n <= blocks_needed(n) * BlockSize
  BY BlocksNeededCover
<1>2. m \in Nat
  BY DEF TypeOK, CacheInv
<1>3. k \in Nat /\ blocks_needed(n) <= m + k
  BY <1>1, <1>2 DEF to_allocate
<1>4. initialized /\ k <= Len(free_blocks) /\ allocate(id, k)
  BY DEF can_reserve
<1> HIDE DEF k
<1>5. /\ seq_blocks' \in [SeqIds -> Seq(Blocks)]
      /\ NoBlockShared'
      /\ Len(seq_blocks'[id]) = m + k
      /\ \A i \in 1..Len(seq_blocks[id]) : seq_blocks'[id][i] = seq_blocks[id][i]
      /\ \A other \in SeqIds \ {id} : seq_blocks'[other] = seq_blocks[other]
  BY <1>3, <1>4, AllocateInv DEF CacheInv
<1>6. Injective(seq_blocks'[id])
  BY <1>5 DEF NoBlockShared
<1> HIDE DEF m
<1>7. n <= (m + k) * BlockSize
  <2>1. blocks_needed(n) * BlockSize <= (m + k) * BlockSize /\ (m + k) * BlockSize \in Nat
    BY <1>1, <1>2, <1>3, TimesBlockSize
  <2>2. blocks_needed(n) * BlockSize \in Nat
    BY <1>1, TimesBlockSize
  <2> QED BY <2>1, <2>2, <1>1
<1>8. m <= m + k
  BY <1>2, <1>3
<1> QED BY <1>5, <1>6, <1>7, <1>8 DEF m

\* write_tokens keeps the invariant.
LEMMA WriteInv ==
  ASSUME CacheInv, NEW id \in SeqIds, NEW l \in Layers, NEW start \in Nat,
         NEW vals \in Seq(Rows), write_tokens(id, l, start, vals)
  PROVE  CacheInv'
<1> DEFINE end_pos == start + Len(vals)
           len == IF seq_length[id] >= end_pos THEN seq_length[id] ELSE end_pos
<1>1. end_pos \in Nat /\ seq_length[id] \in Nat /\ len \in Nat
  BY DEF CacheInv, TypeOK
<1>2. /\ can_reserve(id, end_pos) /\ allocate(id, to_allocate(id, end_pos))
      /\ kv' = [kv EXCEPT ![l] = copy_rows(kv[l], seq_blocks'[id], start, vals)]
      /\ seq_length' = [seq_length EXCEPT ![id] = len]
      /\ initialized' = initialized
  BY DEF write_tokens
<1>3. len <= end_pos \/ len <= seq_length[id]
  BY <1>1
<1>4. /\ seq_blocks'[id] \in Seq(Blocks) /\ Injective(seq_blocks'[id])
      /\ end_pos <= Len(seq_blocks'[id]) * BlockSize
  BY <1>1, <1>2, RoomAfterAllocate
<1>5. kv[l] \in [Blocks -> [Offsets -> Rows]] /\ kv \in [Layers -> [Blocks -> [Offsets -> Rows]]]
  BY DEF CacheInv, TypeOK
<1>6. copy_rows(kv[l], seq_blocks'[id], start, vals) \in [Blocks -> [Offsets -> Rows]]
  BY <1>4, <1>5, CopyRowsEffect
<1> HIDE DEF end_pos, len
<1>7. kv' \in [Layers -> [Blocks -> [Offsets -> Rows]]]
  BY <1>2, <1>5, <1>6
<1> QED BY <1>1, <1>2, <1>3, <1>7, ReserveInv

-----------------------------------------------------------------------------
(* What a call does to the tables and lengths, for the components that call *)
(* the cache.                                                               *)

\* The block table of id is extended to room for n tokens, those of the other
\* sequences stay as they are.
TableExtended(id, n) ==
    /\ n <= sequence_capacity(id)'
    /\ Len(seq_blocks[id]) <= Len(seq_blocks'[id])
    /\ \A i \in 1..Len(seq_blocks[id]) : seq_blocks'[id][i] = seq_blocks[id][i]
    /\ \A other \in SeqIds \ {id} : seq_blocks'[other] = seq_blocks[other]

\* reserve_sequence extends one table and changes no length.
LEMMA ReserveEffect ==
  ASSUME CacheInv, NEW id \in SeqIds, NEW n \in Nat, reserve_sequence(id, n)
  PROVE  CacheInv' /\ TableExtended(id, n) /\ seq_length' = seq_length /\ initialized' = initialized
<1>1. /\ can_reserve(id, n) /\ allocate(id, to_allocate(id, n)) /\ kv' = kv
      /\ seq_length' = seq_length /\ initialized' = initialized
  BY DEF reserve_sequence
<1>2. /\ seq_length[id] \in Nat /\ kv' \in [Layers -> [Blocks -> [Offsets -> Rows]]]
      /\ seq_length' = [seq_length EXCEPT ![id] = seq_length[id]]
      /\ seq_length[id] <= n \/ seq_length[id] <= seq_length[id]
  BY <1>1 DEF CacheInv, TypeOK
<1>3. CacheInv'
  BY <1>1, <1>2, ReserveInv
<1>4. TableExtended(id, n)
  BY <1>1, RoomAfterAllocate DEF TableExtended, sequence_capacity
<1> QED BY <1>1, <1>3, <1>4

\* set_sequence_length extends one table and sets one length.
LEMMA SetLengthEffect ==
  ASSUME CacheInv, NEW id \in SeqIds, NEW n \in Nat, set_sequence_length(id, n)
  PROVE  /\ CacheInv' /\ TableExtended(id, n) /\ initialized' = initialized
         /\ seq_length'[id] = n
         /\ \A other \in SeqIds \ {id} : seq_length'[other] = seq_length[other]
<1>1. /\ can_reserve(id, n) /\ allocate(id, to_allocate(id, n)) /\ kv' = kv
      /\ seq_length' = [seq_length EXCEPT ![id] = n] /\ initialized' = initialized
      /\ n <= n \/ n <= seq_length[id]
  BY DEF set_sequence_length
<1>2. seq_length \in [SeqIds -> Nat] /\ kv' \in [Layers -> [Blocks -> [Offsets -> Rows]]]
  BY <1>1 DEF CacheInv, TypeOK
<1>3. CacheInv'
  BY <1>1, <1>2, ReserveInv
<1>4. TableExtended(id, n)
  BY <1>1, RoomAfterAllocate DEF TableExtended, sequence_capacity
<1> QED BY <1>1, <1>2, <1>3, <1>4

\* write_tokens extends one table to the end of the run and raises one length
\* to it.
LEMMA WriteEffect ==
  ASSUME CacheInv, NEW id \in SeqIds, NEW l \in Layers, NEW start \in Nat,
         NEW vals \in Seq(Rows), write_tokens(id, l, start, vals)
  PROVE  /\ CacheInv' /\ TableExtended(id, start + Len(vals)) /\ initialized' = initialized
         /\ seq_length'[id] = IF seq_length[id] >= start + Len(vals) THEN seq_length[id]
                                                                     ELSE start + Len(vals)
         /\ \A other \in SeqIds \ {id} : seq_length'[other] = seq_length[other]
<1>1. start + Len(vals) \in Nat /\ seq_length \in [SeqIds -> Nat]
  BY DEF CacheInv, TypeOK
<1>2. /\ can_reserve(id, start + Len(vals)) /\ allocate(id, to_allocate(id, start + Len(vals)))
      /\ seq_length' = [seq_length EXCEPT ![id] = IF @ >= start + Len(vals) THEN @ ELSE start + Len(vals)]
      /\ initialized' = initialized
  BY DEF write_tokens
<1>3. CacheInv'
  BY WriteInv
<1>4. TableExtended(id, start + Len(vals))
  BY <1>1, <1>2, RoomAfterAllocate DEF TableExtended, sequence_capacity
<1> QED BY <1>1, <1>2, <1>3, <1>4

\* A block table without repeated blocks is no longer than the pool.
LEMMA TableFitsPool ==
  ASSUME CacheInv, NEW id \in SeqIds
  PROVE  Len(seq_blocks[id]) \in 0..MaxBlocks
<1> DEFINE bs == seq_blocks[id]
           m == Len(bs)
<1>1. m \in Nat /\ bs \in [1..m -> Blocks] /\ Injective(bs) /\ DOMAIN bs = 1..m
  BY DEF CacheInv, TypeOK, NoBlockShared
<1>2. /\ IsFiniteSet(1..m) /\ Cardinality(1..m) = m
      /\ IsFiniteSet(Blocks) /\ Cardinality(Blocks) = MaxBlocks
  <2> HIDE DEF m
  <2>1. IsFiniteSet(1..m) /\ Cardinality(1..m) = IF 1 > m THEN 0 ELSE m - 1 + 1
    BY <1>1, FS_Interval
  <2>2. /\ IsFiniteSet(0..(MaxBlocks - 1))
        /\ Cardinality(0..(MaxBlocks - 1)) = IF 0 > MaxBlocks - 1 THEN 0 ELSE (MaxBlocks - 1) - 0 + 1
    BY GeometryAssumption, FS_Interval
  <2> QED BY <2>1, <2>2, <1>1, GeometryAssumption DEF Blocks
<1> HIDE DEF m, bs
<1>3. ~(MaxBlocks < m)
  <2> SUFFICES ASSUME MaxBlocks < m PROVE FALSE
    OBVIOUS
  <2>1. \E x, y \in 1..m : x # y /\ bs[x] = bs[y]
    BY <1>1, <1>2, FS_PigeonHole
  <2> QED BY <2>1, <1>1 DEF Injective
<1> QED BY <1>1, <1>3, GeometryAssumption DEF m, bs

\* free_sequence empties one table.
LEMMA FreeEffect ==
  ASSUME CacheInv, NEW id \in SeqIds, free_sequence(id)
  PROVE  /\ CacheInv' /\ initialized' = initialized /\ kv' = kv
         /\ seq_blocks'[id] = <<>> /\ seq_length'[id] = 0
         /\ \A other \in SeqIds \ {id} : /\ seq_blocks'[other] = seq_blocks[other]
                                         /\ seq_length'[other] = seq_length[other]
<1>1. CacheInv'
  BY FreeInv
<1> QED BY <1>1 DEF free_sequence, CacheInv, TypeOK

\* A table that has room for n tokens needs no block from the free list.
LEMMA NothingToAllocate ==
  ASSUME CacheInv, NEW id \in SeqIds, NEW n \in Nat, n <= sequence_capacity(id)
  PROVE  to_allocate(id, n) = 0
<1> DEFINE m == Len(seq_blocks[id])
           k == blocks_needed(n)
<1>1. m \in Nat /\ n <= m * BlockSize
  BY DEF CacheInv, TypeOK, sequence_capacity
<1>2. k \in Nat
  BY BlocksNeededCover
<1>3. k <= m
  <2>1. CASE n = 0
    BY <2>1, <1>1 DEF blocks_needed
  <2>2. CASE n # 0
    <3> DEFINE q == (n + BlockSize - 1) \div BlockSize
               r == (n + BlockSize - 1) % BlockSize
    <3>1. n + BlockSize - 1 \in Nat
      BY GeometryAssumption
    <3>2. q \in Nat /\ r \in Offsets /\ n + BlockSize - 1 = q * BlockSize + r
      BY <3>1, DivMod
    <3>3. k = q
      BY <2>2 DEF blocks_needed, ceil_div_int
    <3> HIDE DEF q, r, k, m
    <3>4. SUFFICES ASSUME m + 1 <= q PROVE FALSE
      BY <3>2, <3>3, <1>1
    <3>5. (m + 1) * BlockSize <= q * BlockSize /\ q * BlockSize \in Nat
      BY <3>2, <3>4, <1>1, TimesBlockSize
    <3>6. (m + 1) * BlockSize = m * BlockSize + BlockSize /\ m * BlockSize \in Nat
      BY <1>1, GeometryAssumption
    <3> QED BY <3>2, <3>5, <3>6, <1>1, GeometryAssumption DEF Offsets
  <2> QED BY <2>1, <2>2
<1> QED BY <1>3 DEF to_allocate

\* What token_row is after a step.
row_after(id, l, p) == kv'[l][physical_block(seq_blocks'[id], p)][offset_in_block(p)]

\* Each row of a run is found at its position, every other row of every
\* sequence stays.
RunCopied(id, l, start, vals) ==
    /\ \A t \in 1..Len(vals) : row_after(id, l, start + t - 1) = vals[t]
    /\ \A l2 \in Layers, p \in 0..(sequence_capacity(id) - 1) :
          (l2 = l => p < start \/ p >= start + Len(vals))
            => row_after(id, l2, p) = token_row(id, l2, p)
    /\ \A other \in SeqIds \ {id}, l2 \in Layers : \A p \in 0..(sequence_capacity(other) - 1) :
          row_after(other, l2, p) = token_row(other, l2, p)

\* What the copies of write_tokens do to a sequence that got room for them.
LEMMA RunEffect ==
  ASSUME CacheInv, NEW id \in SeqIds, NEW l \in Layers, NEW start \in Nat, NEW n \in Nat,
         NEW vals \in Seq(Rows), Len(vals) <= n,
         can_reserve(id, start + n), allocate(id, to_allocate(id, start + n)),
         kv' = [kv EXCEPT ![l] = copy_rows(@, seq_blocks'[id], start, vals)]
  PROVE  kv' \in [Layers -> [Blocks -> [Offsets -> Rows]]] /\ RunCopied(id, l, start, vals)
<1> DEFINE k == Len(vals)
           bs == seq_blocks'[id]
           old == seq_blocks[id]
           res == copy_rows(kv[l], bs, start, vals)
<1>1. /\ k \in Nat /\ k <= n /\ start + n \in Nat
      /\ kv \in [Layers -> [Blocks -> [Offsets -> Rows]]]
      /\ seq_blocks \in [SeqIds -> Seq(Blocks)]
      /\ \A o \in SeqIds : /\ Len(seq_blocks[o]) \in Nat /\ DOMAIN seq_blocks[o] = 1..Len(seq_blocks[o])
                           /\ \A i \in 1..Len(seq_blocks[o]) : seq_blocks[o][i] \in Blocks
  BY DEF CacheInv, TypeOK
<1>2. /\ bs \in Seq(Blocks) /\ Injective(bs) /\ start + n <= Len(bs) * BlockSize
      /\ Len(bs) \in Nat /\ DOMAIN bs = 1..Len(bs)
      /\ Len(old) <= Len(bs) /\ \A i \in 1..Len(old) : bs[i] = old[i]
      /\ \A other \in SeqIds \ {id} : seq_blocks'[other] = seq_blocks[other]
  <2>1. /\ seq_blocks' \in [SeqIds -> Seq(Blocks)] /\ Injective(bs)
        /\ start + n <= Len(bs) * BlockSize
        /\ Len(old) <= Len(bs) /\ \A i \in 1..Len(old) : bs[i] = old[i]
        /\ \A other \in SeqIds \ {id} : seq_blocks'[other] = seq_blocks[other]
    BY <1>1, RoomAfterAllocate
  <2>2. bs \in Seq(Blocks)
    BY <2>1
  <2> QED BY <2>1, <2>2
<1>3. \A o, other \in SeqIds : \A i \in DOMAIN seq_blocks'[o], j \in DOMAIN seq_blocks'[other] :
         seq_blocks'[o][i] = seq_blocks'[other][j] /\ seq_blocks'[o][i] \in Blocks => o = other
  <2>1. to_allocate(id, start + n) \in Nat
    <3>1. blocks_needed(start + n) \in Nat /\ Len(old) \in Nat
      BY <1>1, BlocksNeededCover
    <3> QED BY <3>1 DEF to_allocate
  <2>2. NoBlockShared'
    BY <2>1, AllocateInv DEF CacheInv, can_reserve
  <2> QED BY <2>2 DEF NoBlockShared, Owns
<1>4. Len(bs) * BlockSize \in Nat
  BY <1>2, TimesBlockSize, SMTT(20)
<1>5. start + k <= Len(bs) * BlockSize
  BY <1>1, <1>2, <1>4
<1>6. /\ res \in [Blocks -> [Offsets -> Rows]]
      /\ \A t \in 1..k : res[physical_block(bs, start + t - 1)][offset_in_block(start + t - 1)] = vals[t]
      /\ \A b \in Blocks, o \in Offsets :
            (\A t \in 1..k : ~(/\ physical_block(bs, start + t - 1) = b
                               /\ offset_in_block(start + t - 1) = o)) => res[b][o] = kv[l][b][o]
  <2>1. kv[l] \in [Blocks -> [Offsets -> Rows]]
    BY <1>1
  <2> HIDE DEF bs
  <2> QED BY <2>1, <1>2, <1>5, CopyRowsEffect
<1> HIDE DEF res
<1>7. kv' \in [Layers -> [Blocks -> [Offsets -> Rows]]] /\ kv'[l] = res
      /\ \A l2 \in Layers \ {l} : kv'[l2] = kv[l2]
  <2>1. kv' = [kv EXCEPT ![l] = res]
    BY DEF res
  <2> QED BY <2>1, <1>1, <1>6
<1>8. \A t \in 1..k : start + t - 1 \in 0..(Len(bs) * BlockSize - 1)
  <2> DEFINE cap == Len(bs) * BlockSize
  <2>1. cap \in Nat /\ start + k <= cap
    BY <1>4, <1>5
  <2> HIDE DEF cap, k
  <2>2. \A t \in 1..k : start + t - 1 \in 0..(cap - 1)
    BY <2>1, <1>1
  <2> QED BY <2>2 DEF cap
<1>9. ASSUME NEW t \in 1..k PROVE row_after(id, l, start + t - 1) = vals[t]
  BY <1>6, <1>7 DEF row_after, token_row, physical_block, offset_in_block
<1>10. ASSUME NEW l2 \in Layers, NEW p \in 0..(sequence_capacity(id) - 1),
              l2 = l => p < start \/ p >= start + k
       PROVE  row_after(id, l2, p) = token_row(id, l2, p)
  <2> DEFINE b == physical_block(old, p)
             o == offset_in_block(p)
  <2>1. p \in 0..(Len(old) * BlockSize - 1)
    BY DEF sequence_capacity
  <2>2. (p \div BlockSize) + 1 \in 1..Len(old) /\ p % BlockSize \in Offsets
    BY <2>1, <1>1, PositionInTable
  <2>3. b \in Blocks /\ o \in Offsets /\ physical_block(bs, p) = b
    BY <2>2, <1>1, <1>2 DEF physical_block, offset_in_block
  <2>4. p \in 0..(Len(bs) * BlockSize - 1)
    <3>1. Len(old) * BlockSize <= Len(bs) * BlockSize /\ Len(old) * BlockSize \in Nat
      <4> DEFINE a == Len(old)
                 c == Len(bs)
      <4>1. a \in Nat /\ c \in Nat /\ a <= c
        BY <1>1, <1>2
      <4> HIDE DEF a, c
      <4>2. a * BlockSize \in Nat /\ c * BlockSize \in Nat /\ a * BlockSize <= c * BlockSize
        BY <4>1, TimesBlockSize, SMTT(20)
      <4> QED BY <4>2 DEF a, c
    <3> QED BY <3>1, <2>1, <1>4
  <2>5. kv'[l2][b][o] = kv[l2][b][o]
    <3>1. CASE l2 # l
      BY <3>1, <1>7
    <3>2. CASE l2 = l
      <4>1. ASSUME NEW t \in 1..k, physical_block(bs, start + t - 1) = b,
                   offset_in_block(start + t - 1) = o
            PROVE  FALSE
        <5>1. start + t - 1 \in 0..(Len(bs) * BlockSize - 1)
          BY <1>8
        <5>2. start + t - 1 = p
          BY <4>1, <5>1, <2>3, <2>4, <1>2, SlotUnique
        <5> QED BY <5>2, <3>2, <1>1, <1>10, <2>4
      <4> QED BY <4>1, <3>2, <2>3, <1>6, <1>7
    <3> QED BY <3>1, <3>2
  <2> QED BY <2>3, <2>5 DEF row_after, token_row, physical_block, offset_in_block
<1>11. ASSUME NEW other \in SeqIds \ {id}, NEW l2 \in Layers,
              NEW p \in 0..(sequence_capacity(other) - 1)
       PROVE  row_after(other, l2, p) = token_row(other, l2, p)
  <2> DEFINE q == (p \div BlockSize) + 1
             b == seq_blocks[other][q]
             o == p % BlockSize
  <2>1. p \in 0..(Len(seq_blocks[other]) * BlockSize - 1)
    BY DEF sequence_capacity
  <2>2. q \in 1..Len(seq_blocks[other]) /\ o \in Offsets
    BY <2>1, <1>1, PositionInTable
  <2>3. b \in Blocks /\ q \in DOMAIN seq_blocks'[other] /\ seq_blocks'[other][q] = b
    BY <2>2, <1>1, <1>2
  <2>4. ASSUME NEW t \in 1..k, physical_block(bs, start + t - 1) = b PROVE FALSE
    <3>1. start + t - 1 \in 0..(Len(bs) * BlockSize - 1)
      BY <1>8
    <3>2. ((start + t - 1) \div BlockSize) + 1 \in DOMAIN bs
      BY <3>1, <1>2, PositionInTable
    <3>3. bs[((start + t - 1) \div BlockSize) + 1] = seq_blocks'[other][q]
      BY <2>3, <2>4 DEF physical_block
    <3> HIDE DEF b, q
    <3> QED BY <3>2, <3>3, <2>3, <1>3
  <2>5. kv'[l2][b][o] = kv[l2][b][o]
    <3>1. b \in Blocks /\ o \in Offsets /\ \A t \in 1..k : physical_block(bs, start + t - 1) # b
      BY <2>2, <2>3, <2>4
    <3> HIDE DEF b, o
    <3>2. CASE l2 # l
      BY <3>2, <1>7
    <3>3. CASE l2 = l
      BY <3>1, <3>3, <1>6, <1>7
    <3> QED BY <3>2, <3>3
  <2> QED BY <2>5, <1>2 DEF row_after, token_row, physical_block, offset_in_block
<1> QED BY <1>7, <1>9, <1>10, <1>11 DEF RunCopied

\* Rows stay where they are while a table is extended and no row is written.
LEMMA RowsStay ==
  ASSUME CacheInv, NEW id \in SeqIds, NEW l \in Layers, NEW p \in 0..(sequence_capacity(id) - 1),
         kv' = kv, Len(seq_blocks[id]) <= Len(seq_blocks'[id]),
         \A i \in 1..Len(seq_blocks[id]) : seq_blocks'[id][i] = seq_blocks[id][i]
  PROVE  row_after(id, l, p) = token_row(id, l, p)
<1>1. Len(seq_blocks[id]) \in Nat /\ p \in 0..(Len(seq_blocks[id]) * BlockSize - 1)
  BY DEF CacheInv, TypeOK, sequence_capacity
<1>2. (p \div BlockSize) + 1 \in 1..Len(seq_blocks[id])
  BY <1>1, PositionInTable
<1> QED BY <1>2 DEF row_after, token_row, physical_block, offset_in_block

-----------------------------------------------------------------------------
(* The theorems. *)

\* The released cache that the constructor leaves satisfies the invariant.
LEMMA InitInv == ASSUME Init PROVE CacheInv
<1>1. \A b \in Blocks : ~IsFree(b)
  BY DEF IsFree, Init
<1>2. free_blocks \in Seq(Blocks) /\ Injective(free_blocks)
  BY DEF Init, Injective
<1>3. EmptyPool
  BY <1>1, <1>2, RowsAssumption DEF Init, EmptyPool
<1> QED BY <1>3, EmptyPoolInv

\* A run of rows is a sequence of rows.
LEMMA RowRunsType ==
  ASSUME NEW start \in Nat, NEW vals \in RowRuns(start)
  PROVE  vals \in Seq(Rows) /\ Len(vals) \in Nat \ {0}
<1>1. PICK n \in 1..(MaxTokens - start) : vals \in [1..n -> Rows]
  BY DEF RowRuns
<1>2. n \in Nat \ {0}
  BY NoOverflowAssumption
<1> QED BY <1>1, <1>2

\* Every call, and a step that changes nothing, keeps the invariant.
LEMMA NextInv == ASSUME CacheInv, [Next]_vars PROVE CacheInv'
<1>1. CASE init
  <2>1. \A b \in Blocks : IsFree(b)'
    BY <1>1, AllBlocksFreeFacts DEF init, ZeroedPool, IsFree
  <2>2. EmptyPool'
    BY <1>1, <2>1, AllBlocksFreeFacts, RowsAssumption DEF EmptyPool, init, ZeroedPool, NoSequences
  <2> QED BY <2>2, EmptyPoolInv, PTL
<1>2. CASE release
  <2>1. (\A b \in Blocks : ~IsFree(b)') /\ free_blocks' \in Seq(Blocks) /\ Injective(free_blocks')
    BY <1>2 DEF release, IsFree, Injective
  <2>2. EmptyPool'
    BY <1>2, <2>1, RowsAssumption DEF EmptyPool, release, NoSequences
  <2> QED BY <2>2, EmptyPoolInv, PTL
<1>3. CASE reset
  <2>1. \A b \in Blocks : IsFree(b)'
    BY <1>3, AllBlocksFreeFacts DEF reset, ZeroedPool, IsFree
  <2>2. EmptyPool'
    BY <1>3, <2>1, AllBlocksFreeFacts, RowsAssumption DEF EmptyPool, reset, ZeroedPool, NoSequences
  <2> QED BY <2>2, EmptyPoolInv, PTL
<1>4. ASSUME NEW id \in SeqIds, free_sequence(id) PROVE CacheInv'
  BY <1>4, FreeInv
<1>5. ASSUME NEW id \in SeqIds, NEW n \in 0..MaxTokens, reserve_sequence(id, n) PROVE CacheInv'
  <2>1. n \in Nat /\ seq_length[id] \in Nat
        /\ seq_length' = [seq_length EXCEPT ![id] = seq_length[id]]
        /\ kv' \in [Layers -> [Blocks -> [Offsets -> Rows]]]
    BY <1>5, NoOverflowAssumption DEF reserve_sequence, CacheInv, TypeOK
  <2>2. /\ can_reserve(id, n) /\ allocate(id, to_allocate(id, n)) /\ initialized' = initialized
        /\ seq_length[id] <= n \/ seq_length[id] <= seq_length[id]
    BY <1>5, <2>1 DEF reserve_sequence
  <2> QED BY <2>1, <2>2, ReserveInv
<1>6. ASSUME NEW id \in SeqIds, NEW n \in 0..MaxTokens, set_sequence_length(id, n) PROVE CacheInv'
  <2>1. n \in Nat /\ kv' \in [Layers -> [Blocks -> [Offsets -> Rows]]]
    BY <1>6, NoOverflowAssumption DEF set_sequence_length, CacheInv, TypeOK
  <2>2. /\ can_reserve(id, n) /\ allocate(id, to_allocate(id, n)) /\ initialized' = initialized
        /\ n <= n \/ n <= seq_length[id]
        /\ seq_length' = [seq_length EXCEPT ![id] = n]
    BY <1>6, <2>1 DEF set_sequence_length
  <2> QED BY <2>1, <2>2, ReserveInv
<1>7. ASSUME NEW id \in SeqIds, NEW l \in Layers, NEW start \in 0..MaxTokens,
             NEW vals \in RowRuns(start), write_tokens(id, l, start, vals)
      PROVE  CacheInv'
  <2>1. start \in Nat
    BY NoOverflowAssumption
  <2>2. vals \in Seq(Rows)
    BY <2>1, RowRunsType
  <2> QED BY <1>7, <2>1, <2>2, WriteInv
<1>8. ASSUME NEW id \in SeqIds, NEW l \in Layers, NEW vals \in RowRuns(seq_length[id]),
             append_tokens(id, l, vals)
      PROVE  CacheInv'
  <2>1. seq_length[id] \in Nat
    BY DEF CacheInv, TypeOK
  <2>2. vals \in Seq(Rows)
    BY <2>1, RowRunsType
  <2> QED BY <1>8, <2>1, <2>2, WriteInv DEF append_tokens
<1>9. CASE UNCHANGED vars
  BY <1>9 DEF vars, CacheInv, TypeOK, NoBlockShared, NoBlockLost, LengthCovered,
              Owns, IsFree, Injective, sequence_capacity
<1> QED BY <1>1, <1>2, <1>3, <1>4, <1>5, <1>6, <1>7, <1>8, <1>9 DEF Next

\* The invariant of the paged cache, for every number of sequences, layers and
\* blocks: no block is shared, none is lost, and every position below a
\* sequence's length has a block.
THEOREM CacheInvariant == Spec => []CacheInv
<1>1. Init => CacheInv
  BY InitInv
<1>2. CacheInv /\ [Next]_vars => CacheInv'
  BY NextInv
<1> QED BY <1>1, <1>2, PTL DEF Spec

\* Block tables and free list name blocks of the pool, lengths are not
\* negative, and the pages keep their shape, through every call.
THEOREM CacheTypes == Spec => []TypeOK
BY CacheInvariant, PTL DEF CacheInv

\* No block is ever in two tables, twice in a table, or in a table and on the
\* free list: what reserve_sequence and free_sequence owe all sequences.
THEOREM CacheBlocksSafe == Spec => []NoBlockShared
BY CacheInvariant, PTL DEF CacheInv

\* No call loses a block, and block_used_ agrees with the block tables.
THEOREM CacheNoLeak == Spec => []NoBlockLost
BY CacheInvariant, PTL DEF CacheInv

\* Every position below a sequence's length has a block, so that reading
\* 0 .. length - 1 stays inside the block table.
THEOREM CacheLengthCovered == Spec => []LengthCovered
BY CacheInvariant, PTL DEF CacheInv

-----------------------------------------------------------------------------
(* PagedKVCache implements SequenceStore: through its block tables the     *)
(* paged cache behaves as private arrays of rows, one per sequence.  First *)
(* the rows of a sequence in the new state.                                *)

\* The rows callers see, spelled out for one sequence.
LEMMA RowsOfSeq ==
  ASSUME NEW o \in SeqIds
  PROVE  /\ rows_of[o] = [lp \in Positions(o) |->
                kv[lp[1]][physical_block(seq_blocks[o], lp[2])][offset_in_block(lp[2])]]
         /\ rows_of'[o] = [lp \in Positions(o)' |->
                kv'[lp[1]][physical_block(seq_blocks'[o], lp[2])][offset_in_block(lp[2])]]
         /\ DOMAIN rows_of[o] = Positions(o)
         /\ DOMAIN rows_of'[o] = Positions(o)'
  BY DEF rows_of, token_row, physical_block, offset_in_block

\* A sequence keeps all its rows when its table stays as it is and no row of
\* its blocks changes.
LEMMA UntouchedSeq ==
  ASSUME CacheInv, NEW o \in SeqIds, seq_blocks'[o] = seq_blocks[o],
         \A l \in Layers, b \in Blocks, f \in Offsets :
            Owns(o, b) => kv'[l][b][f] = kv[l][b][f]
  PROVE  rows_of'[o] = rows_of[o]
<1>1. Positions(o)' = Positions(o)
  BY DEF Positions, sequence_capacity
<1>2. seq_blocks[o] \in Seq(Blocks) /\ Len(seq_blocks[o]) \in Nat
  BY DEF CacheInv, TypeOK
<1>3. ASSUME NEW lp \in Positions(o)
      PROVE  kv'[lp[1]][physical_block(seq_blocks'[o], lp[2])][offset_in_block(lp[2])]
               = kv[lp[1]][physical_block(seq_blocks[o], lp[2])][offset_in_block(lp[2])]
  <2> DEFINE p == lp[2]
             b == seq_blocks[o][(p \div BlockSize) + 1]
  <2>1. lp[1] \in Layers /\ p \in 0..(Len(seq_blocks[o]) * BlockSize - 1)
    BY DEF Positions, sequence_capacity
  <2>2. (p \div BlockSize) + 1 \in 1..Len(seq_blocks[o]) /\ p % BlockSize \in Offsets
    BY <2>1, <1>2, PositionInTable
  <2>3. b \in Blocks /\ Owns(o, b)
    BY <2>2, <1>2 DEF Owns
  <2>4. kv'[lp[1]][b][p % BlockSize] = kv[lp[1]][b][p % BlockSize]
    BY <2>1, <2>2, <2>3
  <2> QED BY <2>4 DEF physical_block, offset_in_block
<1> DEFINE New(lp) == kv'[lp[1]][physical_block(seq_blocks'[o], lp[2])][offset_in_block(lp[2])]
           Old(lp) == kv[lp[1]][physical_block(seq_blocks[o], lp[2])][offset_in_block(lp[2])]
<1>4. \A lp \in Positions(o) : New(lp) = Old(lp)
  BY <1>3
<1>5. rows_of'[o] = [lp \in Positions(o)' |-> New(lp)] /\ rows_of[o] = [lp \in Positions(o) |-> Old(lp)]
  BY RowsOfSeq
<1> HIDE DEF New, Old
<1>6. rows_of'[o] = [lp \in Positions(o) |-> New(lp)]
  BY <1>1, <1>5
<1> QED BY <1>4, <1>5, <1>6

\* A sequence whose table is extended keeps its rows, except the touched ones.
LEMMA GrownSeq ==
  ASSUME CacheInv, NEW id \in SeqIds, NEW touched,
         seq_blocks'[id] \in Seq(Blocks),
         Len(seq_blocks[id]) <= Len(seq_blocks'[id]),
         \A i \in 1..Len(seq_blocks[id]) : seq_blocks'[id][i] = seq_blocks[id][i],
         \A l \in Layers, p \in 0..(Len(seq_blocks[id]) * BlockSize - 1) :
            <<l, p>> \notin touched =>
               kv'[l][physical_block(seq_blocks[id], p)][offset_in_block(p)]
                 = kv[l][physical_block(seq_blocks[id], p)][offset_in_block(p)]
  PROVE  Store!Kept(id, touched)
<1> DEFINE m == Len(seq_blocks[id])
           m2 == Len(seq_blocks'[id])
<1>1. m \in Nat /\ m2 \in Nat /\ m <= m2
  BY DEF CacheInv, TypeOK
<1>2. m * BlockSize \in Nat /\ m2 * BlockSize \in Nat /\ m * BlockSize <= m2 * BlockSize
  BY <1>1, TimesBlockSize
<1>3. Positions(id) \subseteq Positions(id)'
  <2>1. Positions(id) = Layers \X (0..(m * BlockSize - 1))
    BY DEF Positions, sequence_capacity
  <2>2. Positions(id)' = Layers \X (0..(m2 * BlockSize - 1))
    BY DEF Positions, sequence_capacity
  <2> HIDE DEF m, m2
  <2>3. 0..(m * BlockSize - 1) \subseteq 0..(m2 * BlockSize - 1)
    BY <1>2
  <2> QED BY <2>1, <2>2, <2>3
<1>4. ASSUME NEW lp \in Positions(id) \ touched
      PROVE  kv'[lp[1]][physical_block(seq_blocks'[id], lp[2])][offset_in_block(lp[2])]
               = kv[lp[1]][physical_block(seq_blocks[id], lp[2])][offset_in_block(lp[2])]
  <2> DEFINE l == lp[1]
             p == lp[2]
  <2>1. l \in Layers /\ p \in 0..(m * BlockSize - 1) /\ lp = <<l, p>>
    BY DEF Positions, sequence_capacity
  <2>2. (p \div BlockSize) + 1 \in 1..m
    BY <2>1, <1>1, PositionInTable
  <2>3. physical_block(seq_blocks'[id], p) = physical_block(seq_blocks[id], p)
    BY <2>2 DEF physical_block
  <2>4. <<l, p>> \notin touched
    BY <2>1
  <2>5. kv'[l][physical_block(seq_blocks[id], p)][offset_in_block(p)]
          = kv[l][physical_block(seq_blocks[id], p)][offset_in_block(p)]
    BY <2>1, <2>4
  <2>6. kv'[l][physical_block(seq_blocks'[id], p)][offset_in_block(p)]
          = kv[l][physical_block(seq_blocks[id], p)][offset_in_block(p)]
    BY <2>3, <2>5
  <2> QED BY <2>6
<1>5. \A lp \in Positions(id) \ touched : rows_of'[id][lp] = rows_of[id][lp]
  <2> DEFINE New(lp) == kv'[lp[1]][physical_block(seq_blocks'[id], lp[2])][offset_in_block(lp[2])]
             Old(lp) == kv[lp[1]][physical_block(seq_blocks[id], lp[2])][offset_in_block(lp[2])]
  <2>1. \A lp \in Positions(id) \ touched : New(lp) = Old(lp)
    BY <1>4
  <2>2. rows_of'[id] = [lp \in Positions(id)' |-> New(lp)] /\ rows_of[id] = [lp \in Positions(id) |-> Old(lp)]
    BY RowsOfSeq
  <2> HIDE DEF New, Old
  <2>3. \A lp \in Positions(id) : rows_of'[id][lp] = New(lp) /\ rows_of[id][lp] = Old(lp)
    BY <1>3, <2>2
  <2> QED BY <2>1, <2>3
<1> QED BY <1>3, <1>5, RowsOfSeq DEF Store!Kept

\* A table with room for n tokens has the first n positions in every layer.
LEMMA CoveredSeq ==
  ASSUME NEW id \in SeqIds, NEW n \in Nat, seq_blocks'[id] \in Seq(Blocks),
         n <= Len(seq_blocks'[id]) * BlockSize
  PROVE  Store!Covers(id, n)
<1> DEFINE m2 == Len(seq_blocks'[id])
<1>1. m2 \in Nat
  OBVIOUS
<1>2. m2 * BlockSize \in Nat
  BY <1>1, TimesBlockSize
<1>3. Positions(id)' = Layers \X (0..(m2 * BlockSize - 1))
  BY DEF Positions, sequence_capacity
<1>4. n <= m2 * BlockSize
  OBVIOUS
<1> HIDE DEF m2
<1>5. \A p \in 0..(n-1) : p \in 0..(m2 * BlockSize - 1)
  BY <1>2, <1>4
<1>6. \A l \in Layers, p \in 0..(n-1) : <<l, p>> \in Positions(id)'
  BY <1>3, <1>5
<1> QED BY <1>6, RowsOfSeq DEF Store!Covers

-----------------------------------------------------------------------------
(* Each call implements the abstract call. *)

\* Every sequence but id keeps its rows and its length.
LEMMA OthersUntouched ==
  ASSUME CacheInv, NEW id \in SeqIds,
         \A other \in SeqIds \ {id} : /\ seq_blocks'[other] = seq_blocks[other]
                                      /\ seq_length'[other] = seq_length[other],
         \A other \in SeqIds \ {id}, l \in Layers, b \in Blocks, f \in Offsets :
            Owns(other, b) => kv'[l][b][f] = kv[l][b][f]
  PROVE  Store!OthersKept(id)
<1>1. \A other \in SeqIds \ {id} : rows_of'[other] = rows_of[other]
  BY UntouchedSeq
<1> QED BY <1>1 DEF Store!OthersKept

\* A reservation that changes no row: the part that reserve_sequence and
\* set_sequence_length share.
LEMMA ReserveKeepsRows ==
  ASSUME CacheInv, NEW id \in SeqIds, NEW n \in Nat, can_reserve(id, n),
         allocate(id, to_allocate(id, n)), kv' = kv,
         \A other \in SeqIds \ {id} : seq_length'[other] = seq_length[other]
  PROVE  Store!Kept(id, {}) /\ Store!Covers(id, n) /\ Store!OthersKept(id)
<1>1. /\ seq_blocks' \in [SeqIds -> Seq(Blocks)]
      /\ n <= Len(seq_blocks'[id]) * BlockSize
      /\ Len(seq_blocks[id]) <= Len(seq_blocks'[id])
      /\ \A i \in 1..Len(seq_blocks[id]) : seq_blocks'[id][i] = seq_blocks[id][i]
      /\ \A other \in SeqIds \ {id} : seq_blocks'[other] = seq_blocks[other]
  BY RoomAfterAllocate
<1>2. seq_blocks'[id] \in Seq(Blocks)
  BY <1>1
<1>3. Store!Kept(id, {})
  BY <1>1, <1>2, GrownSeq
<1>4. Store!Covers(id, n)
  BY <1>1, <1>2, CoveredSeq
<1>5. Store!OthersKept(id)
  BY <1>1, OthersUntouched
<1> QED BY <1>3, <1>4, <1>5

\* reserve_sequence is the abstract Reserve.
LEMMA ReserveImplements ==
  ASSUME CacheInv, NEW id \in SeqIds, NEW n \in Nat, reserve_sequence(id, n)
  PROVE  Store!Reserve(id, n)
<1>1. /\ can_reserve(id, n) /\ allocate(id, to_allocate(id, n)) /\ kv' = kv
      /\ seq_length' = seq_length
  BY DEF reserve_sequence
<1>2. Store!Kept(id, {}) /\ Store!Covers(id, n) /\ Store!OthersKept(id)
  BY <1>1, ReserveKeepsRows
<1> QED BY <1>1, <1>2 DEF Store!Reserve

\* set_sequence_length is the abstract SetLength.
LEMMA SetLengthImplements ==
  ASSUME CacheInv, NEW id \in SeqIds, NEW n \in Nat, set_sequence_length(id, n)
  PROVE  Store!SetLength(id, n)
<1>1. /\ can_reserve(id, n) /\ allocate(id, to_allocate(id, n)) /\ kv' = kv
      /\ seq_length' = [seq_length EXCEPT ![id] = n]
  BY DEF set_sequence_length
<1>2. seq_length'[id] = n /\ \A other \in SeqIds \ {id} : seq_length'[other] = seq_length[other]
  BY <1>1 DEF CacheInv, TypeOK
<1>3. Store!Kept(id, {}) /\ Store!Covers(id, n) /\ Store!OthersKept(id)
  BY <1>1, <1>2, ReserveKeepsRows
<1> QED BY <1>2, <1>3 DEF Store!SetLength

\* write_tokens is the abstract Write: the new rows are found at their positions
\* and every other row stays.
LEMMA WriteImplements ==
  ASSUME CacheInv, NEW id \in SeqIds, NEW l \in Layers, NEW start \in Nat,
         NEW vals \in Seq(Rows), write_tokens(id, l, start, vals)
  PROVE  Store!Write(id, l, start, vals)
<1> DEFINE n == Len(vals)
           end_pos == start + n
           old == seq_blocks[id]
           bs == seq_blocks'[id]
           touched == {<<l, start + t - 1>> : t \in DOMAIN vals}
           res == copy_rows(kv[l], bs, start, vals)
<1>1. /\ n \in Nat /\ end_pos \in Nat /\ DOMAIN vals = 1..n
      /\ seq_length \in [SeqIds -> Nat]
      /\ kv \in [Layers -> [Blocks -> [Offsets -> Rows]]]
      /\ old \in Seq(Blocks) /\ Len(old) \in Nat
  BY DEF CacheInv, TypeOK
<1>2. /\ can_reserve(id, end_pos) /\ allocate(id, to_allocate(id, end_pos))
      /\ kv' = [kv EXCEPT ![l] = res]
      /\ seq_length' = [seq_length EXCEPT ![id] = IF @ >= end_pos THEN @ ELSE end_pos]
  BY DEF write_tokens
<1>3. /\ seq_blocks' \in [SeqIds -> Seq(Blocks)]
      /\ Injective(bs)
      /\ end_pos <= Len(bs) * BlockSize
      /\ Len(old) <= Len(bs)
      /\ \A i \in 1..Len(old) : bs[i] = old[i]
      /\ \A other \in SeqIds \ {id} : seq_blocks'[other] = seq_blocks[other]
  BY <1>1, <1>2, RoomAfterAllocate
<1>4. bs \in Seq(Blocks) /\ Len(bs) \in Nat /\ DOMAIN bs = 1..Len(bs)
  BY <1>3
<1>5. Len(bs) * BlockSize \in Nat /\ Len(old) * BlockSize \in Nat
      /\ Len(old) * BlockSize <= Len(bs) * BlockSize
  <2> DEFINE a == Len(old)
             b == Len(bs)
  <2>1. a \in Nat /\ b \in Nat /\ a <= b
    BY <1>1, <1>3, <1>4
  <2> HIDE DEF a, b
  <2>2. a * BlockSize \in Nat /\ b * BlockSize \in Nat /\ a * BlockSize <= b * BlockSize
    BY <2>1, TimesBlockSize
  <2> QED BY <2>2 DEF a, b
<1>6. /\ res \in [Blocks -> [Offsets -> Rows]]
      /\ \A t \in 1..n : res[physical_block(bs, start + t - 1)][offset_in_block(start + t - 1)] = vals[t]
      /\ \A b \in Blocks, o \in Offsets :
            (\A t \in 1..n : t \notin TokensAt(bs, start, n, b, o)) => res[b][o] = kv[l][b][o]
  <2>1. kv[l] \in [Blocks -> [Offsets -> Rows]]
    BY <1>1
  <2>2. start + Len(vals) <= Len(bs) * BlockSize /\ bs \in Seq(Blocks) /\ Injective(bs)
    BY <1>3, <1>4
  <2> HIDE DEF res
  <2>3. copy_rows(kv[l], bs, start, vals) \in [Blocks -> [Offsets -> Rows]]
    BY <2>1, <2>2, CopyRowsEffect
  <2>4. \A t \in 1..Len(vals) :
             copy_rows(kv[l], bs, start, vals)[physical_block(bs, start + t - 1)][offset_in_block(start + t - 1)]
               = vals[t]
    BY <2>1, <2>2, CopyRowsEffect
  <2>5. \A b \in Blocks, o \in Offsets :
             (\A t \in 1..Len(vals) : ~(/\ physical_block(bs, start + t - 1) = b
                                        /\ offset_in_block(start + t - 1) = o))
               => copy_rows(kv[l], bs, start, vals)[b][o] = kv[l][b][o]
    BY <2>1, <2>2, CopyRowsEffect
  <2> QED BY <2>3, <2>4, <2>5 DEF res, TokensAt
<1>7. CacheInv'
  BY WriteInv
<1>8. \A t \in 1..n : start + t - 1 \in 0..(Len(bs) * BlockSize - 1)
  <2> DEFINE cap == Len(bs) * BlockSize
  <2>1. cap \in Nat /\ start + n <= cap
    BY <1>3, <1>5
  <2> HIDE DEF cap, n
  <2>2. \A t \in 1..n : start + t - 1 \in 0..(cap - 1)
    BY <2>1, <1>1
  <2> QED BY <2>2 DEF cap
<1> HIDE DEF res
<1>9. /\ kv'[l] = res
      /\ \A l2 \in Layers \ {l} : kv'[l2] = kv[l2]
  BY <1>1, <1>2
<1>10. Store!Kept(id, touched)
  <2>1. ASSUME NEW l2 \in Layers, NEW p \in 0..(Len(old) * BlockSize - 1), <<l2, p>> \notin touched
        PROVE  kv'[l2][physical_block(old, p)][offset_in_block(p)]
                 = kv[l2][physical_block(old, p)][offset_in_block(p)]
    <3>1. CASE l2 # l
      BY <3>1, <1>9
    <3>2. CASE l2 = l
      <4> DEFINE b == physical_block(old, p)
                 o == offset_in_block(p)
      <4>1. (p \div BlockSize) + 1 \in 1..Len(old) /\ p % BlockSize \in Offsets
        BY <1>1, PositionInTable
      <4>2. b \in Blocks /\ o \in Offsets /\ physical_block(bs, p) = b
        BY <4>1, <1>1, <1>3 DEF physical_block, offset_in_block
      <4>3. p \in 0..(Len(bs) * BlockSize - 1)
        BY <1>5
      <4>4. ASSUME NEW t \in TokensAt(bs, start, n, b, o) PROVE FALSE
        <5>1. /\ t \in 1..n
              /\ physical_block(bs, start + t - 1) = physical_block(bs, p)
              /\ offset_in_block(start + t - 1) = offset_in_block(p)
          BY <4>2 DEF TokensAt
        <5>2. start + t - 1 \in 0..(Len(bs) * BlockSize - 1)
          BY <5>1, <1>8
        <5>3. start + t - 1 = p
          BY <5>1, <5>2, <4>3, <1>3, <1>4, SlotUnique
        <5> QED BY <5>1, <5>3, <3>2, <2>1, <1>1
      <4>5. \A t \in 1..n : t \notin TokensAt(bs, start, n, b, o)
        BY <4>4
      <4> QED BY <4>2, <4>5, <3>2, <1>6, <1>9
    <3> QED BY <3>1, <3>2
  <2>2. \A l2 \in Layers, p \in 0..(Len(seq_blocks[id]) * BlockSize - 1) :
            <<l2, p>> \notin touched =>
               kv'[l2][physical_block(seq_blocks[id], p)][offset_in_block(p)]
                 = kv[l2][physical_block(seq_blocks[id], p)][offset_in_block(p)]
    BY <2>1
  <2>3. /\ seq_blocks'[id] \in Seq(Blocks)
        /\ Len(seq_blocks[id]) <= Len(seq_blocks'[id])
        /\ \A i \in 1..Len(seq_blocks[id]) : seq_blocks'[id][i] = seq_blocks[id][i]
    BY <1>3, <1>4
  <2> HIDE DEF touched, old, bs, n
  <2> QED BY <2>2, <2>3, GrownSeq
<1>11. Store!Covers(id, end_pos)
  BY <1>1, <1>3, <1>4, CoveredSeq
<1>12. ASSUME NEW t \in DOMAIN vals PROVE rows_of'[id][<<l, start + t - 1>>] = vals[t]
  <2> DEFINE p == start + t - 1
  <2>1. t \in 1..n /\ p \in 0..(Len(bs) * BlockSize - 1)
    BY <1>1, <1>8
  <2>2. <<l, p>> \in Positions(id)'
    <3>1. Positions(id)' = Layers \X (0..(Len(bs) * BlockSize - 1))
      BY DEF Positions, sequence_capacity
    <3> QED BY <3>1, <2>1
  <2>3. rows_of'[id][<<l, p>>] = kv'[l][physical_block(bs, p)][offset_in_block(p)]
    <3> DEFINE New(lp) == kv'[lp[1]][physical_block(seq_blocks'[id], lp[2])][offset_in_block(lp[2])]
    <3>1. rows_of'[id] = [lp \in Positions(id)' |-> New(lp)]
      BY RowsOfSeq
    <3>2. New(<<l, p>>) = kv'[l][physical_block(bs, p)][offset_in_block(p)]
      OBVIOUS
    <3> HIDE DEF New, p, bs
    <3> QED BY <3>1, <3>2, <2>2
  <2> QED BY <2>1, <2>3, <1>6, <1>9
<1>13. seq_length'[id] = (IF seq_length[id] >= end_pos THEN seq_length[id] ELSE end_pos)
       /\ \A other \in SeqIds \ {id} : seq_length'[other] = seq_length[other]
  BY <1>1, <1>2
<1>14. Store!OthersKept(id)
  <2>1. ASSUME NEW other \in SeqIds \ {id}, NEW l2 \in Layers, NEW b \in Blocks, NEW f \in Offsets,
               Owns(other, b)
        PROVE  kv'[l2][b][f] = kv[l2][b][f]
    <3>1. CASE l2 # l
      BY <3>1, <1>9
    <3>2. CASE l2 = l
      <4>1. Owns(other, b)'
        BY <2>1, <1>3 DEF Owns
      <4>2. ASSUME NEW t \in TokensAt(bs, start, n, b, f) PROVE FALSE
        <5>1. t \in 1..n /\ physical_block(bs, start + t - 1) = b
          BY DEF TokensAt
        <5>2. start + t - 1 \in 0..(Len(bs) * BlockSize - 1)
          BY <5>1, <1>8
        <5>3. ((start + t - 1) \div BlockSize) + 1 \in 1..Len(bs)
          BY <5>2, <1>4, PositionInTable
        <5>4. Owns(id, b)'
          BY <5>1, <5>3, <1>4 DEF Owns, physical_block
        <5> QED BY <5>4, <4>1, <1>7 DEF CacheInv, NoBlockShared
      <4>3. \A t \in 1..n : t \notin TokensAt(bs, start, n, b, f)
        BY <4>2
      <4> QED BY <4>3, <3>2, <1>6, <1>9
    <3> QED BY <3>1, <3>2
  <2> QED BY <2>1, <1>3, <1>13, OthersUntouched
<1> QED BY <1>10, <1>11, <1>12, <1>13, <1>14 DEF Store!Write

\* free_sequence is the abstract Free.
LEMMA FreeImplements ==
  ASSUME CacheInv, NEW id \in SeqIds, free_sequence(id)
  PROVE  Store!Free(id)
<1>1. /\ seq_blocks'[id] = <<>> /\ seq_length'[id] = 0 /\ kv' = kv
      /\ \A other \in SeqIds \ {id} : /\ seq_blocks'[other] = seq_blocks[other]
                                      /\ seq_length'[other] = seq_length[other]
  BY DEF free_sequence, CacheInv, TypeOK
<1>2. Positions(id)' = {}
  <2>1. Len(<<>>) * BlockSize = 0
    BY GeometryAssumption
  <2>2. Positions(id)' = Layers \X (0..(0 - 1))
    BY <1>1, <2>1 DEF Positions, sequence_capacity
  <2> QED BY <2>2
<1>3. Store!OthersKept(id)
  BY <1>1, OthersUntouched
<1> QED BY <1>1, <1>2, <1>3, RowsOfSeq DEF Store!Free

\* Without sequences there is no position.
LEMMA NoSequencesImplements ==
  ASSUME NoSequences
  PROVE  Store!Clear
<1>1. \A id \in SeqIds : seq_blocks'[id] = <<>> /\ seq_length'[id] = 0
  BY DEF NoSequences
<1>2. Len(<<>>) * BlockSize = 0
  BY GeometryAssumption
<1>3. \A id \in SeqIds : Positions(id)' = Layers \X (0..(0 - 1))
  BY <1>1, <1>2 DEF Positions, sequence_capacity
<1>4. ASSUME NEW id \in SeqIds PROVE DOMAIN rows_of'[id] = {}
  <2>1. DOMAIN rows_of'[id] = Layers \X (0..(0 - 1))
    BY <1>3, RowsOfSeq
  <2> QED BY <2>1
<1> QED BY <1>1, <1>4 DEF Store!Clear
-----------------------------------------------------------------------------
(* The refinement theorems. *)

\* Each call of the cache is the abstract call with the same arguments: the
\* rows given to write_tokens are read back where they were written, and
\* nothing else changes, for every block size.
THEOREM CallsRefine == Spec => CallsImplementStore
<1> DEFINE A == \A id \in SeqIds :
                 /\ \A n \in 0..MaxTokens : /\ reserve_sequence(id, n) => Store!Reserve(id, n)
                                            /\ set_sequence_length(id, n) => Store!SetLength(id, n)
                 /\ \A l \in Layers, start \in 0..MaxTokens : \A vals \in RowRuns(start) :
                      write_tokens(id, l, start, vals) => Store!Write(id, l, start, vals)
<1>1. CacheInv => A
  <2> SUFFICES ASSUME CacheInv, NEW id \in SeqIds
               PROVE  /\ \A n \in 0..MaxTokens : /\ reserve_sequence(id, n) => Store!Reserve(id, n)
                                                 /\ set_sequence_length(id, n) => Store!SetLength(id, n)
                      /\ \A l \in Layers, start \in 0..MaxTokens : \A vals \in RowRuns(start) :
                           write_tokens(id, l, start, vals) => Store!Write(id, l, start, vals)
    OBVIOUS
  <2>1. \A n \in 0..MaxTokens : n \in Nat
    BY NoOverflowAssumption
  <2>2. ASSUME NEW n \in 0..MaxTokens
        PROVE  /\ reserve_sequence(id, n) => Store!Reserve(id, n)
               /\ set_sequence_length(id, n) => Store!SetLength(id, n)
    BY <2>1, ReserveImplements, SetLengthImplements
  <2>3. ASSUME NEW l \in Layers, NEW start \in 0..MaxTokens, NEW vals \in RowRuns(start),
               write_tokens(id, l, start, vals)
        PROVE  Store!Write(id, l, start, vals)
    <3>1. start \in Nat /\ vals \in Seq(Rows)
      BY <2>1, RowRunsType
    <3> QED BY <3>1, <2>3, WriteImplements
  <2> QED BY <2>2, <2>3
<1>2. CacheInv => [A]_vars
  BY <1>1
<1>3. CallsImplementStore <=> [][A]_vars
  BY DEF CallsImplementStore
<1> QED BY <1>2, <1>3, CacheInvariant, PTL

\* The paged cache implements private per-sequence arrays.
THEOREM CacheRefinesStore == Spec => StoreSpec
<1>1. Init => Store!Init
  <2> SUFFICES ASSUME Init PROVE Store!Init
    OBVIOUS
  <2>1. \A id \in SeqIds : seq_blocks[id] = <<>> /\ seq_length[id] = 0
    BY DEF Init
  <2>2. Len(<<>>) * BlockSize = 0
    BY GeometryAssumption
  <2>3. \A id \in SeqIds : Positions(id) = Layers \X (0..(0 - 1))
    BY <2>1, <2>2 DEF Positions, sequence_capacity
  <2>4. ASSUME NEW id \in SeqIds PROVE DOMAIN rows_of[id] = {}
    <3>1. DOMAIN rows_of[id] = Layers \X (0..(0 - 1))
      BY <2>3, RowsOfSeq
    <3> QED BY <3>1
  <2> QED BY <2>1, <2>4 DEF Store!Init
<1>2. CacheInv /\ [Next]_vars => [Store!Next]_(Store!storeVars)
  <2> SUFFICES ASSUME CacheInv, [Next]_vars
               PROVE  Store!Next \/ UNCHANGED Store!storeVars
    OBVIOUS
  <2>1. CASE init \/ release \/ reset
    <3>1. NoSequences
      BY <2>1 DEF init, release, reset, ZeroedPool
    <3> QED BY <3>1, NoSequencesImplements DEF Store!Next
  <2>2. ASSUME NEW id \in SeqIds, free_sequence(id) PROVE Store!Next
    BY <2>2, FreeImplements DEF Store!Next
  <2>3. ASSUME NEW id \in SeqIds, NEW n \in 0..MaxTokens,
               reserve_sequence(id, n) \/ set_sequence_length(id, n)
        PROVE  Store!Next
    <3>1. n \in Nat
      BY NoOverflowAssumption
    <3>2. Store!Reserve(id, n) \/ Store!SetLength(id, n)
      BY <3>1, <2>3, ReserveImplements, SetLengthImplements
    <3> QED BY <3>2 DEF Store!Next
  <2>4. ASSUME NEW id \in SeqIds, NEW l \in Layers, NEW start \in 0..MaxTokens,
               NEW vals \in RowRuns(start), write_tokens(id, l, start, vals)
        PROVE  Store!Next
    <3>1. start \in Nat /\ vals \in Seq(Rows)
      BY NoOverflowAssumption, RowRunsType
    <3>2. Store!Write(id, l, start, vals)
      BY <3>1, <2>4, WriteImplements
    <3>3. vals \in Store!RowRuns(start)
      BY DEF Store!RowRuns, RowRuns
    <3> QED BY <3>2, <3>3 DEF Store!Next
  <2>5. ASSUME NEW id \in SeqIds, NEW l \in Layers, NEW vals \in RowRuns(seq_length[id]),
               append_tokens(id, l, vals)
        PROVE  Store!Next
    <3>1. seq_length[id] \in Nat
      BY DEF CacheInv, TypeOK
    <3>2. seq_length[id] \in 0..MaxTokens
      <4>1. PICK n \in 1..(MaxTokens - seq_length[id]) : vals \in [1..n -> Rows]
        BY DEF RowRuns
      <4> QED BY <4>1, <3>1, NoOverflowAssumption
    <3> QED BY <3>2, <2>5, <2>4 DEF append_tokens
  <2>6. CASE UNCHANGED vars
    BY <2>6 DEF vars, rows_of, Positions, sequence_capacity, token_row, physical_block,
                offset_in_block, Store!storeVars
  <2> QED BY <2>1, <2>2, <2>3, <2>4, <2>5, <2>6 DEF Next
<1> QED BY <1>1, <1>2, CacheInvariant, PTL DEF Spec, StoreSpec, Store!Spec
=============================================================================
