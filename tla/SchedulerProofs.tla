--------------------------- MODULE SchedulerProofs ---------------------------
(***************************************************************************)
(* Proofs about the two schedulers on the paged cache.                     *)
(*                                                                         *)
(* ContinuousBatchScheduler, for any number of sequence ids, requests,     *)
(* submissions and blocks and any batch size, with the calls of the        *)
(* serving loop in the order of docs/design.md: admit_waiting, compute,    *)
(* evict_finished, collect_finished.                                       *)
(*                                                                         *)
(* PagedAttentionScheduler, for any number of sequences and blocks, any    *)
(* block size and any batch size, whatever calls the owner of the cache    *)
(* makes between two calls of the scheduler.                               *)
(***************************************************************************)
EXTENDS ContinuousBatchScheduler, PagedAttentionScheduler, PagedKVCacheProofs, SetFacts

-----------------------------------------------------------------------------
(* Lists of ids. *)

\* push_back of an id that is not in the list.
LEMMA AppendedList ==
  ASSUME NEW s \in Seq(SeqIds), NEW x \in SeqIds
  PROVE  /\ Append(s, x) \in Seq(SeqIds)
         /\ Len(Append(s, x)) = Len(s) + 1
         /\ \A i \in 1..Len(s) : Append(s, x)[i] = s[i]
         /\ \A y \in SeqIds : InSeq(y, Append(s, x)) <=> InSeq(y, s) \/ y = x
         /\ Injective(s) /\ ~InSeq(x, s) => Injective(Append(s, x))
<1>1. /\ Len(s) \in Nat /\ DOMAIN s = 1..Len(s)
      /\ Append(s, x) \in Seq(SeqIds)
      /\ DOMAIN Append(s, x) = 1..(Len(s) + 1)
      /\ Len(Append(s, x)) = Len(s) + 1
      /\ \A i \in 1..Len(s) : Append(s, x)[i] = s[i]
      /\ Append(s, x)[Len(s) + 1] = x
  OBVIOUS
<1> DEFINE t == Append(s, x)
<1> HIDE DEF t
<1>2. ASSUME NEW y \in SeqIds PROVE InSeq(y, t) <=> InSeq(y, s) \/ y = x
  BY <1>1 DEF InSeq, t
<1>3. ASSUME Injective(s), ~InSeq(x, s) PROVE Injective(t)
  BY <1>1, <1>3 DEF Injective, InSeq, t
<1> QED BY <1>1, <1>2, <1>3 DEF t

\* pop of the front of a list without repetitions.
LEMMA PoppedList ==
  ASSUME NEW s \in Seq(SeqIds), s # <<>>, Injective(s)
  PROVE  /\ Head(s) \in SeqIds /\ InSeq(Head(s), s)
         /\ Tail(s) \in Seq(SeqIds) /\ Injective(Tail(s))
         /\ \A y \in SeqIds : InSeq(y, Tail(s)) <=> InSeq(y, s) /\ y # Head(s)
<1>1. /\ Len(s) \in Nat \ {0} /\ DOMAIN s = 1..Len(s)
      /\ Tail(s) \in Seq(SeqIds)
      /\ Len(Tail(s)) = Len(s) - 1
      /\ DOMAIN Tail(s) = 1..(Len(s) - 1)
      /\ \A i \in 1..(Len(s) - 1) : Tail(s)[i] = s[i + 1]
      /\ Head(s) = s[1] /\ Head(s) \in SeqIds
  OBVIOUS
<1> DEFINE t == Tail(s)
<1> HIDE DEF t
<1>2. ASSUME NEW y \in SeqIds PROVE InSeq(y, t) <=> InSeq(y, s) /\ y # Head(s)
  <2>1. ASSUME NEW i \in 1..(Len(s) - 1), t[i] = y PROVE InSeq(y, s) /\ y # Head(s)
    BY <2>1, <1>1 DEF InSeq, Injective, t
  <2>2. ASSUME NEW i \in 1..Len(s), s[i] = y, y # Head(s) PROVE InSeq(y, t)
    <3>1. i - 1 \in 1..(Len(s) - 1) /\ t[i - 1] = y
      BY <2>2, <1>1 DEF t
    <3> QED BY <3>1, <1>1 DEF InSeq, t
  <2> QED BY <2>1, <2>2, <1>1 DEF InSeq, t
<1>3. Injective(t)
  BY <1>1 DEF Injective, t
<1>4. InSeq(Head(s), s)
  BY <1>1 DEF InSeq
<1> QED BY <1>1, <1>2, <1>3, <1>4 DEF t

\* erase of one element of a list without repetitions: what stood before it
\* stays where it is.
LEMMA ErasedList ==
  ASSUME NEW s \in Seq(SeqIds), Injective(s), NEW k \in 1..Len(s)
  PROVE  /\ RemoveIndex(s, k) \in Seq(SeqIds) /\ Injective(RemoveIndex(s, k))
         /\ Len(RemoveIndex(s, k)) = Len(s) - 1
         /\ \A i \in 1..(k - 1) : RemoveIndex(s, k)[i] = s[i]
         /\ \A y \in SeqIds : InSeq(y, RemoveIndex(s, k)) <=> InSeq(y, s) /\ y # s[k]
<1> DEFINE n == Len(s)
           a == SubSeq(s, 1, k - 1)
           b == SubSeq(s, k + 1, n)
           t == RemoveIndex(s, k)
<1>1. n \in Nat /\ DOMAIN s = 1..n /\ k \in 1..n /\ \A i \in 1..n : s[i] \in SeqIds
  OBVIOUS
<1>2. /\ a \in Seq(SeqIds) /\ Len(a) = k - 1
      /\ \A i \in 1..(k - 1) : a[i] = s[i]
  <2> HIDE DEF n
  <2>1. 1 \in Int /\ k - 1 \in Int /\ \A i \in 1..(k - 1) : s[i] \in SeqIds
    BY <1>1
  <2>2. /\ a \in Seq(SeqIds)
        /\ Len(a) = IF 1 <= k - 1 THEN (k - 1) - 1 + 1 ELSE 0
        /\ \A i \in 1..((k - 1) - 1 + 1) : a[i] = s[1 + i - 1]
    BY <2>1, SubSeqProperties
  <2> QED BY <2>2, <1>1
<1>3. /\ b \in Seq(SeqIds) /\ Len(b) = n - k
      /\ \A i \in 1..(n - k) : b[i] = s[k + i]
  <2> HIDE DEF n
  <2>1. k + 1 \in Int /\ n \in Int /\ \A i \in (k + 1)..n : s[i] \in SeqIds
    BY <1>1
  <2>2. /\ b \in Seq(SeqIds)
        /\ Len(b) = IF k + 1 <= n THEN n - (k + 1) + 1 ELSE 0
        /\ \A i \in 1..(n - (k + 1) + 1) : b[i] = s[(k + 1) + i - 1]
    BY <2>1, SubSeqProperties
  <2> QED BY <2>2, <1>1
<1> HIDE DEF n, a, b
<1>4. /\ a \o b \in Seq(SeqIds)
      /\ Len(a \o b) = Len(a) + Len(b)
      /\ \A i \in 1..(Len(a) + Len(b)) : (a \o b)[i] = IF i <= Len(a) THEN a[i] ELSE b[i - Len(a)]
  BY <1>2, <1>3, ConcatProperties
<1>5. t = a \o b
  BY DEF RemoveIndex, a, b, n
<1> HIDE DEF t
<1>6. /\ t \in Seq(SeqIds) /\ Len(t) = n - 1 /\ DOMAIN t = 1..(n - 1)
      /\ \A i \in 1..(n - 1) : t[i] = IF i < k THEN s[i] ELSE s[i + 1]
  <2>1. t \in Seq(SeqIds) /\ Len(t) = n - 1
    <3>1. Len(a) + Len(b) = n - 1
      BY <1>1, <1>2, <1>3
    <3> QED BY <3>1, <1>4, <1>5
  <2>2. ASSUME NEW i \in 1..(n - 1) PROVE t[i] = IF i < k THEN s[i] ELSE s[i + 1]
    <3>1. CASE i < k
      BY <3>1, <1>1, <1>2, <1>3, <1>4, <1>5
    <3>2. CASE i >= k
      <4>1. i - (k - 1) \in 1..(n - k) /\ k + (i - (k - 1)) = i + 1
        BY <3>2, <1>1
      <4> QED BY <4>1, <3>2, <1>1, <1>2, <1>3, <1>4, <1>5
    <3> QED BY <3>1, <3>2, <1>1
  <2> QED BY <2>1, <2>2
<1>7. Injective(t)
  <2> SUFFICES ASSUME NEW i \in 1..(n - 1), NEW j \in 1..(n - 1), t[i] = t[j] PROVE i = j
    BY <1>6 DEF Injective
  <2> DEFINE p(x) == IF x < k THEN x ELSE x + 1
  <2>1. p(i) \in 1..n /\ p(j) \in 1..n /\ s[p(i)] = s[p(j)]
    BY <1>1, <1>6
  <2>2. p(i) = p(j)
    BY <2>1, <1>1 DEF Injective
  <2> QED BY <2>2, <1>1
<1>8. ASSUME NEW y \in SeqIds PROVE InSeq(y, t) <=> InSeq(y, s) /\ y # s[k]
  <2>1. ASSUME NEW i \in 1..(n - 1), t[i] = y PROVE InSeq(y, s) /\ y # s[k]
    <3> DEFINE p == IF i < k THEN i ELSE i + 1
    <3>1. p \in 1..n /\ p # k /\ s[p] = y
      BY <2>1, <1>1, <1>6
    <3> QED BY <3>1, <1>1 DEF InSeq, Injective
  <2>2. ASSUME NEW i \in 1..n, s[i] = y, y # s[k] PROVE InSeq(y, t)
    <3>1. CASE i < k
      BY <3>1, <2>2, <1>1, <1>6 DEF InSeq
    <3>2. CASE i > k
      <4>1. i - 1 \in 1..(n - 1) /\ t[i - 1] = y
        BY <3>2, <2>2, <1>1, <1>6
      <4> QED BY <4>1, <1>6 DEF InSeq
    <3> QED BY <3>1, <3>2, <2>2, <1>1
  <2> QED BY <2>1, <2>2, <1>1, <1>6 DEF InSeq
<1> QED BY <1>1, <1>6, <1>7, <1>8 DEF t, n

-----------------------------------------------------------------------------
(* The inductive invariant of ContinuousBatchScheduler. *)

Slot == [live : BOOLEAN, phase : Phases, prompt : Nat, generated : Nat,
         max_tokens : Nat, prefilled : Nat]

\* What a phase says about the counters of a request.
RequestsInPhase ==
    \A id \in SeqIds :
        /\ states[id].live => states[id].max_tokens > 0
        /\ states[id].phase = "Waiting" => states[id].prefilled = 0 /\ states[id].generated = 0
        /\ states[id].phase = "Prefilling" => states[id].generated = 0
        /\ states[id].phase = "Decoding" => states[id].generated < states[id].max_tokens

\* evict_finished leaves no finished sequence behind it in active_ids.
FinishedLeft ==
    /\ pc = "evict" => \A i \in DOMAIN active_ids :
                          i <= cursor => states[active_ids[i]].phase # "Finished"
    /\ pc = "collect" => \A i \in DOMAIN active_ids : states[active_ids[i]].phase # "Finished"

SchedInd == /\ CacheInv /\ initialized
            /\ SchedTypeOK /\ QueuesAgree /\ AutoIdsFresh
            /\ OnlyActiveHoldBlocks /\ RoomToFinish /\ AttendsOwnTokens
            /\ RequestsInPhase /\ FinishedLeft

\* A step of the cache that leaves all sequences but id alone.
CacheStep(id) ==
    /\ CacheInv' /\ initialized'
    /\ \A other \in SeqIds \ {id} : /\ seq_blocks'[other] = seq_blocks[other]
                                    /\ seq_length'[other] = seq_length[other]

\* What the scheduler sees of the other sequences does not change then.
LEMMA OthersSeen ==
  ASSUME NEW id \in SeqIds, CacheStep(id), NEW other \in SeqIds \ {id}
  PROVE  /\ sequence_capacity(other)' = sequence_capacity(other)
         /\ has_sequence(other)' <=> has_sequence(other)
         /\ seq_length'[other] = seq_length[other]
  BY DEF CacheStep, sequence_capacity, has_sequence

\* Steps of the scheduler that make no call to the cache.
LEMMA CacheUntouched ==
  ASSUME CacheInv, initialized, UNCHANGED cacheVars
  PROVE  /\ CacheInv' /\ initialized'
         /\ \A id \in SeqIds : /\ sequence_capacity(id)' = sequence_capacity(id)
                               /\ has_sequence(id)' <=> has_sequence(id)
                               /\ seq_length'[id] = seq_length[id]
<1>1. UNCHANGED vars
  BY DEF cacheVars
<1>2. CacheInv'
  BY <1>1, NextInv
<1> QED BY <1>1, <1>2 DEF vars, sequence_capacity, has_sequence

\* The capacity of an extended table is no smaller.
LEMMA CapacityGrows ==
  ASSUME CacheInv, CacheInv', NEW id \in SeqIds, NEW n, TableExtended(id, n)
  PROVE  /\ sequence_capacity(id) \in Nat /\ sequence_capacity(id)' \in Nat
         /\ sequence_capacity(id) <= sequence_capacity(id)'
         /\ n <= sequence_capacity(id)'
<1>1. Len(seq_blocks[id]) \in Nat /\ Len(seq_blocks'[id]) \in Nat
  BY DEF CacheInv, TypeOK
<1>2. /\ Len(seq_blocks[id]) * BlockSize \in Nat /\ Len(seq_blocks'[id]) * BlockSize \in Nat
      /\ Len(seq_blocks[id]) * BlockSize <= Len(seq_blocks'[id]) * BlockSize
  BY <1>1, TimesBlockSize DEF TableExtended
<1> QED BY <1>2 DEF TableExtended, sequence_capacity

-----------------------------------------------------------------------------
(* The steps. *)

\* submit queues a request in a slot that nothing uses.
LEMMA AcceptInd ==
  ASSUME SchedInd, NEW id \in SeqIds, NEW r \in Requests, ~states[id].live,
         NEW next \in Nat, id < next, next_sequence_id <= next, accept(id, r, next)
  PROVE  SchedInd'
<1> DEFINE new == [live |-> TRUE, phase |-> "Waiting", prompt |-> r[1], generated |-> 0,
                   max_tokens |-> r[2], prefilled |-> 0]
<1> USE DEF SchedInd
<1>1. r[1] \in Nat \ {0} /\ r[2] \in Nat \ {0} /\ SeqIds \subseteq Nat
  BY SchedulerAssumption
<1>2. /\ states \in [SeqIds -> Slot] /\ waiting_queue \in Seq(SeqIds) /\ active_ids \in Seq(SeqIds)
      /\ next_sequence_id \in Nat /\ submits \in Nat
  BY DEF SchedTypeOK, Slot
<1>3. new \in Slot
  BY <1>1 DEF Slot, Phases
<1>4. /\ states' = [states EXCEPT ![id] = new]
      /\ waiting_queue' = Append(waiting_queue, id)
      /\ next_sequence_id' = next /\ submits' = submits + 1
      /\ active_ids' = active_ids /\ pc' = pc /\ cursor' = cursor /\ UNCHANGED cacheVars
  BY DEF accept
<1>5. /\ new.live /\ new.phase = "Waiting" /\ new.prefilled = 0 /\ new.generated = 0
      /\ new.max_tokens > 0
  BY <1>1
<1> HIDE DEF new
<1>6. /\ states' \in [SeqIds -> Slot] /\ states'[id] = new
      /\ \A o \in SeqIds \ {id} : states'[o] = states[o]
  BY <1>2, <1>3, <1>4
<1>7. ~InSeq(id, waiting_queue) /\ ~InSeq(id, active_ids) /\ ~has_sequence(id)
  BY DEF QueuesAgree, OnlyActiveHoldBlocks
<1>8. /\ waiting_queue' \in Seq(SeqIds)
      /\ \A y \in SeqIds : InSeq(y, waiting_queue') <=> InSeq(y, waiting_queue) \/ y = id
      /\ Injective(waiting_queue')
  BY <1>2, <1>4, <1>7, AppendedList DEF QueuesAgree
<1>9. /\ CacheInv' /\ initialized'
      /\ \A o \in SeqIds : /\ sequence_capacity(o)' = sequence_capacity(o)
                           /\ has_sequence(o)' <=> has_sequence(o)
                           /\ seq_length'[o] = seq_length[o]
  BY <1>4, CacheUntouched
<1>10. SchedTypeOK'
  <2>1. TypeOK'
    BY <1>9 DEF CacheInv
  <2> QED BY <2>1, <1>2, <1>4, <1>6, <1>8 DEF SchedTypeOK, Slot
<1>11. QueuesAgree'
  BY <1>4, <1>5, <1>6, <1>7, <1>8 DEF QueuesAgree
<1>12. AutoIdsFresh'
  BY <1>1, <1>2, <1>4, <1>6 DEF AutoIdsFresh
<1>13. OnlyActiveHoldBlocks'
  BY <1>4, <1>9 DEF OnlyActiveHoldBlocks
<1>14. RoomToFinish'
  BY <1>4, <1>6, <1>7, <1>9 DEF RoomToFinish, total_tokens
<1>15. AttendsOwnTokens'
  BY <1>4, <1>6, <1>7, <1>9 DEF AttendsOwnTokens
<1>16. RequestsInPhase'
  BY <1>5, <1>6 DEF RequestsInPhase
<1>17. FinishedLeft'
  <2>1. \A i \in DOMAIN active_ids : active_ids[i] \in SeqIds /\ active_ids[i] # id
    BY <1>2, <1>7 DEF InSeq
  <2> QED BY <2>1, <1>4, <1>6 DEF FinishedLeft
<1> QED BY <1>9, <1>10, <1>11, <1>12, <1>13, <1>14, <1>15, <1>16, <1>17

\* admit_waiting moves the head of the queue to the batch, with room for all
\* its tokens.
LEMMA AdmitInd ==
  ASSUME SchedInd, admit_head, NEW id \in SeqIds, id = Head(waiting_queue)
  PROVE  SchedInd'
<1> DEFINE new == [states[id] EXCEPT !.phase = "Prefilling"]
<1> USE DEF SchedInd
<1>1. /\ states \in [SeqIds -> Slot] /\ waiting_queue \in Seq(SeqIds) /\ active_ids \in Seq(SeqIds)
      /\ next_sequence_id \in Nat /\ submits \in Nat /\ cursor \in Nat
  BY DEF SchedTypeOK, Slot
<1>2. /\ pc = "admit" /\ waiting_queue # <<>> /\ reserve_sequence(id, total_tokens(id))
      /\ states' = [states EXCEPT ![id].phase = "Prefilling"]
      /\ active_ids' = Append(active_ids, id)
      /\ waiting_queue' = Tail(waiting_queue)
      /\ cursor' = 1 /\ next_sequence_id' = next_sequence_id /\ pc' = pc /\ submits' = submits
  BY DEF admit_head, admits_head
<1>3. /\ InSeq(id, waiting_queue)
      /\ waiting_queue' \in Seq(SeqIds) /\ Injective(waiting_queue')
      /\ \A y \in SeqIds : InSeq(y, waiting_queue') <=> InSeq(y, waiting_queue) /\ y # id
  BY <1>1, <1>2, PoppedList DEF QueuesAgree
<1>4. states[id] \in Slot /\ states[id].live /\ states[id].phase = "Waiting"
  BY <1>1, <1>3 DEF QueuesAgree
<1>5. /\ new \in Slot /\ new.live /\ new.phase = "Prefilling"
      /\ new.prompt = states[id].prompt /\ new.max_tokens = states[id].max_tokens
      /\ new.generated = 0 /\ new.prefilled = 0 /\ new.max_tokens > 0
  BY <1>3, <1>4 DEF Slot, Phases, RequestsInPhase
<1>6. /\ states' \in [SeqIds -> Slot] /\ states'[id] = new
      /\ \A o \in SeqIds \ {id} : states'[o] = states[o]
  BY <1>1, <1>2, <1>3, <1>5
<1> HIDE DEF new
<1>7. ~InSeq(id, active_ids) /\ ~has_sequence(id)
  BY <1>3, <1>4 DEF QueuesAgree, OnlyActiveHoldBlocks
<1>8. /\ active_ids' \in Seq(SeqIds) /\ Injective(active_ids')
      /\ \A y \in SeqIds : InSeq(y, active_ids') <=> InSeq(y, active_ids) \/ y = id
  BY <1>1, <1>2, <1>3, <1>7, AppendedList DEF QueuesAgree
<1>9. total_tokens(id) \in Nat /\ total_tokens(id)' = total_tokens(id)
  BY <1>4, <1>5, <1>6 DEF total_tokens, Slot
<1>10. /\ CacheInv' /\ TableExtended(id, total_tokens(id)) /\ seq_length' = seq_length
       /\ initialized' = initialized
  BY <1>2, <1>3, <1>9, ReserveEffect
<1>11. CacheStep(id)
  BY <1>10 DEF CacheStep, TableExtended
<1>12. seq_length[id] = 0
  BY <1>3, <1>7 DEF has_sequence, CacheInv, TypeOK
<1>13. SchedTypeOK'
  <2>1. TypeOK'
    BY <1>10 DEF CacheInv
  <2> QED BY <2>1, <1>1, <1>2, <1>3, <1>6, <1>8 DEF SchedTypeOK, Slot
<1>14. QueuesAgree'
  BY <1>3, <1>5, <1>6, <1>7, <1>8 DEF QueuesAgree
<1>15. AutoIdsFresh'
  BY <1>2, <1>4, <1>6 DEF AutoIdsFresh
<1>16. OnlyActiveHoldBlocks'
  BY <1>8, <1>11, OthersSeen DEF OnlyActiveHoldBlocks
<1>17. RoomToFinish'
  <2>1. total_tokens(id)' <= sequence_capacity(id)'
    BY <1>9, <1>10 DEF TableExtended
  <2>2. ASSUME NEW o \in SeqIds \ {id}, InSeq(o, active_ids')
        PROVE  total_tokens(o)' <= sequence_capacity(o)'
    <3>1. total_tokens(o)' = total_tokens(o)
      BY <1>6 DEF total_tokens
    <3> QED BY <2>2, <3>1, <1>8, <1>11, OthersSeen DEF RoomToFinish
  <2> QED BY <2>1, <2>2 DEF RoomToFinish
<1>18. AttendsOwnTokens'
  BY <1>5, <1>6, <1>8, <1>10, <1>12 DEF AttendsOwnTokens
<1>19. RequestsInPhase'
  BY <1>5, <1>6 DEF RequestsInPhase
<1>20. FinishedLeft'
  BY <1>2 DEF FinishedLeft
<1> QED BY <1>10, <1>13, <1>14, <1>15, <1>16, <1>17, <1>18, <1>19, <1>20

\* A step of the compute phase: the next active sequence moves on in its life
\* and its length with it.
LEMMA AdvanceInd ==
  ASSUME SchedInd, NEW id \in SeqIds, InSeq(id, active_ids), pc = "compute",
         NEW new \in Slot, states' = [states EXCEPT ![id] = new],
         new.live, new.phase # "Waiting",
         new.prompt = states[id].prompt, new.max_tokens = states[id].max_tokens,
         new.phase = "Prefilling" => new.generated = 0 /\ seq_length'[id] = new.prefilled,
         new.phase = "Decoding" =>
            /\ new.generated < new.max_tokens
            /\ seq_length'[id] = new.prompt + (IF new.generated = 0 THEN 0 ELSE new.generated - 1),
         CacheStep(id), sequence_capacity(id) <= sequence_capacity(id)',
         sequence_capacity(id) \in Nat, sequence_capacity(id)' \in Nat,
         cursor' = cursor + 1,
         UNCHANGED <<waiting_queue, active_ids, next_sequence_id, pc, submits>>
  PROVE  SchedInd'
<1> USE DEF SchedInd
<1>1. /\ states \in [SeqIds -> Slot] /\ cursor \in Nat
      /\ states[id].live /\ states[id].phase # "Waiting" /\ states[id] \in Slot
  BY DEF SchedTypeOK, Slot, QueuesAgree
<1>2. /\ states' \in [SeqIds -> Slot] /\ states'[id] = new
      /\ \A o \in SeqIds \ {id} : states'[o] = states[o]
  BY <1>1
<1>3. SchedTypeOK'
  <2>1. TypeOK'
    BY DEF CacheStep, CacheInv
  <2> QED BY <2>1, <1>1, <1>2 DEF SchedTypeOK, Slot
<1>4. QueuesAgree'
  BY <1>1, <1>2 DEF QueuesAgree
<1>5. AutoIdsFresh'
  BY <1>1, <1>2 DEF AutoIdsFresh
<1>6. OnlyActiveHoldBlocks'
  BY OthersSeen DEF OnlyActiveHoldBlocks
<1>7. RoomToFinish'
  <2>1. total_tokens(id)' = total_tokens(id) /\ total_tokens(id) \in Nat
    BY <1>1, <1>2 DEF total_tokens, Slot
  <2>2. total_tokens(id) <= sequence_capacity(id)
    BY DEF RoomToFinish
  <2>3. total_tokens(id)' <= sequence_capacity(id)'
    BY <2>1, <2>2
  <2>4. ASSUME NEW o \in SeqIds \ {id}, InSeq(o, active_ids)
        PROVE  total_tokens(o)' <= sequence_capacity(o)'
    <3>1. total_tokens(o)' = total_tokens(o)
      BY <1>2 DEF total_tokens
    <3> QED BY <2>4, <3>1, OthersSeen DEF RoomToFinish
  <2> QED BY <2>3, <2>4 DEF RoomToFinish
<1>8. AttendsOwnTokens'
  <2>1. \A o \in SeqIds \ {id} : seq_length'[o] = seq_length[o] /\ states'[o] = states[o]
    BY <1>2, OthersSeen
  <2> QED BY <2>1, <1>2 DEF AttendsOwnTokens
<1>9. RequestsInPhase'
  BY <1>1, <1>2 DEF RequestsInPhase
<1>10. FinishedLeft'
  BY DEF FinishedLeft
<1> QED BY <1>3, <1>4, <1>5, <1>6, <1>7, <1>8, <1>9, <1>10 DEF CacheStep

\* The caller stores the rows of n tokens from position start on.
LEMMA StoreEffect ==
  ASSUME CacheInv, initialized, NEW id \in SeqIds, NEW start \in Nat, NEW n \in Nat,
         store_tokens(id, start, n)
  PROVE  /\ CacheStep(id) /\ TableExtended(id, start + n)
         /\ seq_length'[id] = IF seq_length[id] >= start + n THEN seq_length[id] ELSE start + n
<1> DEFINE vals == [i \in 1..n |-> ZeroRow]
           l == CHOOSE l \in Layers : TRUE
<1>1. vals \in Seq(Rows) /\ Len(vals) = n
  BY RowsAssumption
<1>2. l \in Layers
  BY SchedulerAssumption
<1>3. write_tokens(id, l, start, vals)
  BY DEF store_tokens
<1> HIDE DEF vals, l
<1>4. /\ CacheInv' /\ TableExtended(id, start + n) /\ initialized' = initialized
      /\ seq_length'[id] = IF seq_length[id] >= start + n THEN seq_length[id] ELSE start + n
      /\ \A other \in SeqIds \ {id} : seq_length'[other] = seq_length[other]
  BY <1>1, <1>2, <1>3, WriteEffect
<1> QED BY <1>4 DEF CacheStep, TableExtended

\* A chunk of the prompt is prefilled.
LEMMA PrefillInd ==
  ASSUME SchedInd, NEW id \in SeqIds, InSeq(id, active_ids), pc = "compute", prefill(id),
         cursor' = cursor + 1,
         UNCHANGED <<waiting_queue, active_ids, next_sequence_id, pc, submits>>
  PROVE  SchedInd'
<1>1. /\ states \in [SeqIds -> Slot] /\ states[id] \in Slot
      /\ states[id].live /\ states[id].phase = "Prefilling" /\ CacheInv /\ initialized
  BY DEF SchedInd, SchedTypeOK, Slot, QueuesAgree, prefill
<1>2. PICK n \in (states[id].prefilled + 1)..states[id].prompt :
         /\ store_tokens(id, states[id].prefilled, n - states[id].prefilled)
         /\ mark_prefill_progress(id, n)
  BY DEF prefill
<1> DEFINE new == [states[id] EXCEPT !.prefilled = n,
                                     !.phase = IF n >= states[id].prompt THEN "Decoding" ELSE @]
<1>3. /\ n \in Nat /\ states[id].prefilled \in Nat /\ states[id].prompt \in Nat
      /\ n - states[id].prefilled \in Nat /\ n > states[id].prefilled /\ n <= states[id].prompt
      /\ states[id].prefilled + (n - states[id].prefilled) = n
  BY <1>1, <1>2 DEF Slot
<1>4. states' = [states EXCEPT ![id] = new]
  BY <1>1, <1>2 DEF mark_prefill_progress
<1>5. /\ new \in Slot /\ new.live /\ new.phase = (IF n >= states[id].prompt THEN "Decoding" ELSE "Prefilling")
      /\ new.prefilled = n /\ new.generated = states[id].generated
      /\ new.prompt = states[id].prompt /\ new.max_tokens = states[id].max_tokens
  BY <1>1, <1>3 DEF Slot, Phases
<1> HIDE DEF new
<1>6. seq_length[id] = states[id].prefilled /\ states[id].generated = 0 /\ states[id].max_tokens > 0
  BY <1>1 DEF SchedInd, AttendsOwnTokens, RequestsInPhase
<1>7. /\ CacheStep(id) /\ TableExtended(id, n)
      /\ seq_length'[id] = IF seq_length[id] >= n THEN seq_length[id] ELSE n
  BY <1>1, <1>2, <1>3, StoreEffect
<1>8. seq_length'[id] = n
  BY <1>3, <1>6, <1>7
<1>9. /\ sequence_capacity(id) \in Nat /\ sequence_capacity(id)' \in Nat
      /\ sequence_capacity(id) <= sequence_capacity(id)'
  BY <1>1, <1>7, CapacityGrows DEF CacheStep
<1>10. new.phase = "Decoding" => n = states[id].prompt
  BY <1>3, <1>5
<1>11. /\ new.phase # "Waiting"
       /\ new.phase = "Prefilling" => new.generated = 0 /\ seq_length'[id] = new.prefilled
       /\ new.phase = "Decoding" =>
            /\ new.generated < new.max_tokens
            /\ seq_length'[id] = new.prompt + (IF new.generated = 0 THEN 0 ELSE new.generated - 1)
  BY <1>3, <1>5, <1>6, <1>8, <1>10
<1> QED BY <1>4, <1>5, <1>7, <1>9, <1>11, AdvanceInd

\* What the cache does when a token is sampled: the first token comes from the
\* prefill, for a later one the row of the token before is stored.
SampleStores(id) == IF states[id].generated = 0 THEN UNCHANGED cacheVars
                                                ELSE store_tokens(id, seq_length[id], 1)

LEMMA SampleEffect ==
  ASSUME SchedInd, NEW id \in SeqIds, SampleStores(id)
  PROVE  /\ CacheStep(id)
         /\ sequence_capacity(id) \in Nat /\ sequence_capacity(id)' \in Nat
         /\ sequence_capacity(id) <= sequence_capacity(id)'
         /\ seq_length'[id] = IF states[id].generated = 0 THEN seq_length[id] ELSE seq_length[id] + 1
<1>1. CacheInv /\ initialized /\ seq_length[id] \in Nat
  BY DEF SchedInd, CacheInv, TypeOK
<1>2. CASE states[id].generated = 0
  <2>1. UNCHANGED cacheVars
    BY <1>2 DEF SampleStores
  <2>2. Len(seq_blocks[id]) \in Nat
    BY <1>1 DEF CacheInv, TypeOK
  <2>3. sequence_capacity(id) \in Nat
    BY <2>2, TimesBlockSize DEF sequence_capacity
  <2>4. CacheInv' /\ initialized' /\ sequence_capacity(id)' = sequence_capacity(id)
    BY <1>1, <2>1, CacheUntouched
  <2> QED BY <1>2, <2>1, <2>3, <2>4 DEF CacheStep, cacheVars, vars
<1>3. CASE states[id].generated # 0
  <2>1. store_tokens(id, seq_length[id], 1)
    BY <1>3 DEF SampleStores
  <2>2. /\ CacheStep(id) /\ TableExtended(id, seq_length[id] + 1)
        /\ seq_length'[id] = IF seq_length[id] >= seq_length[id] + 1 THEN seq_length[id]
                                                                     ELSE seq_length[id] + 1
    BY <1>1, <2>1, StoreEffect
  <2>3. /\ sequence_capacity(id) \in Nat /\ sequence_capacity(id)' \in Nat
        /\ sequence_capacity(id) <= sequence_capacity(id)'
    BY <1>1, <2>2, CapacityGrows DEF CacheStep
  <2> QED BY <1>1, <1>3, <2>2, <2>3
<1> QED BY <1>2, <1>3

\* A token is sampled and counted.
LEMMA DecodeInd ==
  ASSUME SchedInd, NEW id \in SeqIds, InSeq(id, active_ids), pc = "compute", decode(id),
         cursor' = cursor + 1,
         UNCHANGED <<waiting_queue, active_ids, next_sequence_id, pc, submits>>
  PROVE  SchedInd'
<1> DEFINE g == states[id].generated + 1
           new == [states[id] EXCEPT !.generated = g,
                                     !.phase = IF g >= states[id].max_tokens THEN "Finished" ELSE @]
<1>1. /\ states \in [SeqIds -> Slot] /\ states[id] \in Slot /\ seq_length[id] \in Nat
      /\ states[id].live /\ states[id].phase = "Decoding"
  BY DEF SchedInd, SchedTypeOK, Slot, QueuesAgree, decode, CacheInv, TypeOK
<1>2. states' = [states EXCEPT ![id] = new] /\ SampleStores(id)
  BY <1>1 DEF decode, mark_token_generated, SampleStores
<1>0. /\ states[id].generated \in Nat /\ g \in Nat \ {0}
      /\ states[id].prompt \in Nat /\ states[id].max_tokens \in Nat
  BY <1>1 DEF Slot
<1>3. /\ new \in Slot /\ new.live /\ new.phase = (IF g >= states[id].max_tokens THEN "Finished" ELSE "Decoding")
      /\ new.generated = g
      /\ new.prompt = states[id].prompt /\ new.max_tokens = states[id].max_tokens
  <2> HIDE DEF g
  <2> QED BY <1>0, <1>1 DEF Slot, Phases
<1>4. /\ seq_length[id] = states[id].prompt
                          + (IF states[id].generated = 0 THEN 0 ELSE states[id].generated - 1)
  BY <1>1 DEF SchedInd, AttendsOwnTokens
<1>5. /\ CacheStep(id)
      /\ sequence_capacity(id) \in Nat /\ sequence_capacity(id)' \in Nat
      /\ sequence_capacity(id) <= sequence_capacity(id)'
      /\ seq_length'[id] = IF states[id].generated = 0 THEN seq_length[id] ELSE seq_length[id] + 1
  BY <1>2, SampleEffect
<1>6. g = states[id].generated + 1
  OBVIOUS
<1> HIDE DEF new, g
<1>7. /\ new.phase # "Waiting" /\ new.phase # "Prefilling"
      /\ new.phase = "Decoding" =>
            /\ new.generated < new.max_tokens
            /\ seq_length'[id] = new.prompt + (IF new.generated = 0 THEN 0 ELSE new.generated - 1)
  <2>1. new.phase # "Waiting" /\ new.phase # "Prefilling"
    BY <1>3
  <2>2. ASSUME new.phase = "Decoding" PROVE g < states[id].max_tokens
    BY <2>2, <1>0, <1>3
  <2>3. seq_length'[id] = states[id].prompt + (g - 1)
    <3>1. CASE states[id].generated = 0
      BY <3>1, <1>0, <1>4, <1>5, <1>6
    <3>2. CASE states[id].generated # 0
      BY <3>2, <1>0, <1>4, <1>5, <1>6
    <3> QED BY <3>1, <3>2
  <2>4. g # 0
    BY <1>0
  <2> QED BY <2>1, <2>2, <2>3, <2>4, <1>3
<1> QED BY <1>2, <1>3, <1>5, <1>7, AdvanceInd

\* An end-of-sequence token is sampled.
LEMMA EosInd ==
  ASSUME SchedInd, NEW id \in SeqIds, InSeq(id, active_ids), pc = "compute", eos(id),
         cursor' = cursor + 1,
         UNCHANGED <<waiting_queue, active_ids, next_sequence_id, pc, submits>>
  PROVE  SchedInd'
<1> DEFINE new == [states[id] EXCEPT !.phase = "Finished"]
<1>1. /\ states \in [SeqIds -> Slot] /\ states[id] \in Slot /\ states[id].live
  BY DEF SchedInd, SchedTypeOK, Slot, QueuesAgree
<1>2. states' = [states EXCEPT ![id] = new] /\ SampleStores(id)
  BY <1>1 DEF eos, mark_finished, SampleStores
<1>3. /\ new \in Slot /\ new.live /\ new.phase = "Finished"
      /\ new.prompt = states[id].prompt /\ new.max_tokens = states[id].max_tokens
  BY <1>1 DEF Slot, Phases
<1>4. /\ CacheStep(id)
      /\ sequence_capacity(id) \in Nat /\ sequence_capacity(id)' \in Nat
      /\ sequence_capacity(id) <= sequence_capacity(id)'
  BY <1>2, SampleEffect
<1> HIDE DEF new
<1> QED BY <1>2, <1>3, <1>4, AdvanceInd

\* compute gives the next active sequence its step.
LEMMA ComputeInd ==
  ASSUME SchedInd, compute, NEW id, id = active_ids[cursor + 1]
  PROVE  SchedInd'
<1>1. active_ids \in Seq(SeqIds) /\ cursor \in Nat
  BY DEF SchedInd, SchedTypeOK
<1>2. /\ pc = "compute" /\ cursor < Len(active_ids)
      /\ prefill(id) \/ decode(id) \/ eos(id)
      /\ cursor' = cursor + 1
      /\ UNCHANGED <<waiting_queue, active_ids, next_sequence_id, pc, submits>>
  BY DEF compute
<1>3. id \in SeqIds /\ InSeq(id, active_ids)
  BY <1>1, <1>2 DEF InSeq
<1>4. CASE prefill(id)
  BY <1>2, <1>3, <1>4, PrefillInd
<1>5. CASE decode(id)
  BY <1>2, <1>3, <1>5, DecodeInd
<1>6. CASE eos(id)
  BY <1>2, <1>3, <1>6, EosInd
<1> QED BY <1>2, <1>4, <1>5, <1>6

\* A call of the serving loop returns, or ends without changing a request.
LEMMA ReturnInd ==
  ASSUME SchedInd, pc' \in {"admit", "compute", "evict", "collect"}, cursor' \in Nat,
         FinishedLeft',
         UNCHANGED <<states, waiting_queue, active_ids, next_sequence_id, submits, cacheVars>>
  PROVE  SchedInd'
<1> USE DEF SchedInd
<1>1. /\ CacheInv' /\ initialized'
      /\ \A o \in SeqIds : /\ sequence_capacity(o)' = sequence_capacity(o)
                           /\ has_sequence(o)' <=> has_sequence(o)
                           /\ seq_length'[o] = seq_length[o]
  BY CacheUntouched
<1>2. SchedTypeOK'
  <2>1. TypeOK'
    BY <1>1 DEF CacheInv
  <2> QED BY <2>1 DEF SchedTypeOK
<1>3. QueuesAgree' /\ AutoIdsFresh' /\ RequestsInPhase'
  BY DEF QueuesAgree, AutoIdsFresh, RequestsInPhase
<1>4. OnlyActiveHoldBlocks'
  BY <1>1 DEF OnlyActiveHoldBlocks
<1>5. RoomToFinish'
  BY <1>1 DEF RoomToFinish, total_tokens
<1>6. AttendsOwnTokens'
  BY <1>1 DEF AttendsOwnTokens
<1> QED BY <1>1, <1>2, <1>3, <1>4, <1>5, <1>6

\* evict_finished takes a finished sequence out of the batch and gives its
\* blocks back, or goes on to the next one.
LEMMA EvictInd ==
  ASSUME SchedInd, evict_finished, NEW id, id = active_ids[cursor + 1]
  PROVE  SchedInd'
<1>1. /\ active_ids \in Seq(SeqIds) /\ cursor \in Nat /\ Len(active_ids) \in Nat
      /\ states \in [SeqIds -> Slot] /\ Injective(active_ids)
      /\ DOMAIN active_ids = 1..Len(active_ids)
  BY SMTT(20) DEF SchedInd, SchedTypeOK, QueuesAgree, Slot
<1>2. /\ pc = "evict" /\ cursor < Len(active_ids) /\ pc' = pc
      /\ UNCHANGED <<states, waiting_queue, next_sequence_id, submits>>
  BY DEF evict_finished
<1>3. id \in SeqIds /\ InSeq(id, active_ids) /\ cursor + 1 \in 1..Len(active_ids)
  BY <1>1, <1>2 DEF InSeq
<1>4. CASE states[id].phase # "Finished"
  <2>1. cursor' = cursor + 1 /\ UNCHANGED <<active_ids, cacheVars>>
    BY <1>4 DEF evict_finished
  <2>2. FinishedLeft'
    <3>1. ASSUME NEW i \in DOMAIN active_ids, i <= cursor + 1
          PROVE  states[active_ids[i]].phase # "Finished"
      BY <1>1, <1>2, <1>4, <3>1 DEF SchedInd, FinishedLeft
    <3> QED BY <3>1, <2>1, <1>2 DEF FinishedLeft
  <2> QED BY <2>1, <2>2, <1>1, <1>2, ReturnInd
<1>5. CASE states[id].phase = "Finished"
  <2>1. /\ free_sequence(id) /\ cursor' = cursor
        /\ active_ids' = RemoveIndex(active_ids, cursor + 1)
    BY <1>5 DEF evict_finished
  <2>2. /\ active_ids' \in Seq(SeqIds) /\ Injective(active_ids')
        /\ Len(active_ids') = Len(active_ids) - 1
        /\ \A i \in 1..cursor : active_ids'[i] = active_ids[i]
        /\ \A y \in SeqIds : InSeq(y, active_ids') <=> InSeq(y, active_ids) /\ y # id
    <3> DEFINE k == cursor + 1
    <3>1. k \in 1..Len(active_ids) /\ k - 1 = cursor
      BY <1>1, <1>3
    <3> HIDE DEF k
    <3>2. /\ RemoveIndex(active_ids, k) \in Seq(SeqIds) /\ Injective(RemoveIndex(active_ids, k))
          /\ Len(RemoveIndex(active_ids, k)) = Len(active_ids) - 1
          /\ \A i \in 1..(k - 1) : RemoveIndex(active_ids, k)[i] = active_ids[i]
          /\ \A y \in SeqIds :
               InSeq(y, RemoveIndex(active_ids, k)) <=> InSeq(y, active_ids) /\ y # active_ids[k]
      BY <3>1, <1>1, ErasedList
    <3>3. active_ids' = RemoveIndex(active_ids, k) /\ active_ids[k] = id
      BY <2>1 DEF k
    <3> QED BY <3>1, <3>2, <3>3
  <2>3. /\ CacheInv' /\ initialized' = initialized
        /\ seq_blocks'[id] = <<>> /\ seq_length'[id] = 0
        /\ \A other \in SeqIds \ {id} : /\ seq_blocks'[other] = seq_blocks[other]
                                        /\ seq_length'[other] = seq_length[other]
    BY <2>1, <1>3, FreeEffect DEF SchedInd
  <2>4. CacheStep(id) /\ ~has_sequence(id)'
    BY <2>3 DEF SchedInd, CacheStep, has_sequence
  <2>5. SchedTypeOK'
    <3>1. TypeOK'
      BY <2>3 DEF CacheInv
    <3> QED BY <3>1, <2>1, <2>2, <1>2 DEF SchedInd, SchedTypeOK
  <2>6. QueuesAgree'
    BY <2>2, <1>2, <1>5 DEF SchedInd, QueuesAgree
  <2>7. AutoIdsFresh' /\ RequestsInPhase'
    BY <1>2 DEF SchedInd, AutoIdsFresh, RequestsInPhase
  <2>8. OnlyActiveHoldBlocks'
    BY <2>2, <2>4, OthersSeen, <1>3 DEF SchedInd, OnlyActiveHoldBlocks
  <2>9. RoomToFinish'
    BY <2>2, <2>4, OthersSeen, <1>2, <1>3 DEF SchedInd, RoomToFinish, total_tokens
  <2>10. AttendsOwnTokens'
    BY <2>2, <2>3, <1>2 DEF SchedInd, AttendsOwnTokens
  <2>11. FinishedLeft'
    <3>1. DOMAIN active_ids' = 1..(Len(active_ids) - 1)
      BY <2>2
    <3>2. ASSUME NEW i \in DOMAIN active_ids', i <= cursor
          PROVE  states[active_ids'[i]].phase # "Finished"
      BY <3>1, <3>2, <2>2, <1>1, <1>2 DEF SchedInd, FinishedLeft
    <3> QED BY <3>2, <2>1, <1>2 DEF FinishedLeft
  <2> QED BY <2>3, <2>5, <2>6, <2>7, <2>8, <2>9, <2>10, <2>11 DEF SchedInd
<1> QED BY <1>4, <1>5

\* collect_finished gives slots back that no list refers to any more.
LEMMA CollectInd ==
  ASSUME ~CollectFirst, SchedInd, collect_finished
  PROVE  SchedInd'
<1>1. /\ active_ids \in Seq(SeqIds) /\ states \in [SeqIds -> Slot]
      /\ \A i \in DOMAIN active_ids : states[active_ids[i]].phase # "Finished"
  BY DEF SchedInd, SchedTypeOK, Slot, FinishedLeft, collect_finished
<1>2. /\ pc' = "admit"
      /\ states' = [id \in SeqIds |->
                      IF states[id].phase = "Finished" /\ states[id].live
                      THEN [states[id] EXCEPT !.live = FALSE] ELSE states[id]]
      /\ UNCHANGED <<waiting_queue, active_ids, next_sequence_id, cursor, submits, cacheVars>>
  BY DEF collect_finished
<1>3. /\ states' \in [SeqIds -> Slot]
      /\ \A id \in SeqIds :
           /\ states'[id].phase = states[id].phase /\ states'[id].prompt = states[id].prompt
           /\ states'[id].generated = states[id].generated
           /\ states'[id].max_tokens = states[id].max_tokens
           /\ states'[id].prefilled = states[id].prefilled
           /\ states'[id].live <=> states[id].live /\ states[id].phase # "Finished"
  <2>1. ASSUME NEW id \in SeqIds
        PROVE /\ states'[id] \in Slot
              /\ states'[id].phase = states[id].phase /\ states'[id].prompt = states[id].prompt
              /\ states'[id].generated = states[id].generated
              /\ states'[id].max_tokens = states[id].max_tokens
              /\ states'[id].prefilled = states[id].prefilled
              /\ states'[id].live <=> states[id].live /\ states[id].phase # "Finished"
    BY <1>1, <1>2 DEF Slot
  <2> QED BY <2>1, <1>2
<1>4. \A id \in SeqIds : InSeq(id, active_ids) => states[id].phase # "Finished"
  BY <1>1 DEF InSeq
<1>5. /\ CacheInv' /\ initialized'
      /\ \A o \in SeqIds : /\ sequence_capacity(o)' = sequence_capacity(o)
                           /\ has_sequence(o)' <=> has_sequence(o)
                           /\ seq_length'[o] = seq_length[o]
  BY <1>2, CacheUntouched DEF SchedInd
<1>6. SchedTypeOK'
  <2>1. TypeOK'
    BY <1>5 DEF CacheInv
  <2> QED BY <2>1, <1>2, <1>3 DEF SchedInd, SchedTypeOK, Slot
<1>7. QueuesAgree'
  BY <1>2, <1>3, <1>4 DEF SchedInd, QueuesAgree
<1>8. AutoIdsFresh'
  BY <1>2, <1>3 DEF SchedInd, AutoIdsFresh
<1>9. RequestsInPhase'
  BY <1>2, <1>3 DEF SchedInd, RequestsInPhase
<1>10. OnlyActiveHoldBlocks'
  BY <1>2, <1>5 DEF SchedInd, OnlyActiveHoldBlocks
<1>11. RoomToFinish'
  BY <1>2, <1>3, <1>5 DEF SchedInd, RoomToFinish, total_tokens
<1>12. AttendsOwnTokens'
  BY <1>2, <1>3, <1>5 DEF SchedInd, AttendsOwnTokens
<1>13. FinishedLeft'
  BY <1>2 DEF FinishedLeft
<1> QED BY <1>5, <1>6, <1>7, <1>8, <1>9, <1>10, <1>11, <1>12, <1>13 DEF SchedInd

\* A scheduler on an empty cache.
LEMMA SchedInitInd == ASSUME SchedInit PROVE SchedInd
<1>1. \A b \in Blocks : IsFree(b)
  BY AllBlocksFreeFacts DEF SchedInit, IsFree
<1>2. EmptyPool
  BY <1>1, AllBlocksFreeFacts, RowsAssumption DEF SchedInit, EmptyPool
<1>3. CacheInv /\ initialized
  BY <1>2, EmptyPoolInv DEF SchedInit
<1>4. NoRequest \in Slot /\ \A id \in SeqIds : states[id] = NoRequest
  BY DEF SchedInit, NoRequest, Slot, Phases
<1>5. \A id : ~InSeq(id, <<>>)
  BY DEF InSeq
<1>6. SchedTypeOK
  BY <1>3, <1>4 DEF SchedInit, SchedTypeOK, CacheInv, Slot
<1>7. QueuesAgree
  BY <1>4, <1>5 DEF SchedInit, QueuesAgree, NoRequest, Injective
<1>8. AutoIdsFresh /\ RequestsInPhase
  BY <1>4 DEF AutoIdsFresh, RequestsInPhase, NoRequest
<1>9. OnlyActiveHoldBlocks
  BY DEF SchedInit, OnlyActiveHoldBlocks, has_sequence
<1>10. RoomToFinish /\ AttendsOwnTokens /\ FinishedLeft
  BY <1>5 DEF SchedInit, RoomToFinish, AttendsOwnTokens, FinishedLeft
<1> QED BY <1>3, <1>6, <1>7, <1>8, <1>9, <1>10 DEF SchedInd

\* An auto-assigned id is unused, so submit never consumes one in vain; an id
\* that a client chose moves next_sequence_id_ past it.
LEMMA ClientInd == ASSUME SchedInd, Client PROVE SchedInd'
<1>1. next_sequence_id \in Nat /\ SeqIds \subseteq Nat
  BY SchedulerAssumption DEF SchedInd, SchedTypeOK
<1>2. ASSUME NEW r \in Requests, submit_auto(r) PROVE SchedInd'
  <2>1. next_sequence_id \in SeqIds /\ ~states[next_sequence_id].live
    BY <1>1, <1>2 DEF submit_auto, SchedInd, AutoIdsFresh
  <2>2. accept(next_sequence_id, r, next_sequence_id + 1)
    BY <1>2, <2>1 DEF submit_auto
  <2>3. /\ next_sequence_id + 1 \in Nat /\ next_sequence_id < next_sequence_id + 1
        /\ next_sequence_id <= next_sequence_id + 1
    BY <1>1
  <2> QED BY <2>1, <2>2, <2>3, AcceptInd
<1>3. ASSUME NEW r \in Requests, NEW id \in SeqIds, submit_explicit(id, r) PROVE SchedInd'
  <2> DEFINE next == IF id >= next_sequence_id THEN id + 1 ELSE next_sequence_id
  <2>1. next \in Nat /\ id < next /\ next_sequence_id <= next
    BY <1>1
  <2>2. ~states[id].live /\ accept(id, r, next)
    BY <1>3 DEF submit_explicit
  <2> QED BY <2>1, <2>2, AcceptInd
<1> QED BY <1>2, <1>3 DEF Client

\* Every step keeps the invariant.
LEMMA SchedNextInd == ASSUME ~CollectFirst, SchedInd, [SchedNext]_allVars PROVE SchedInd'
<1>1. CASE admit_head
  <2>1. Head(waiting_queue) \in SeqIds
    BY <1>1, PoppedList DEF admit_head, admits_head, SchedInd, SchedTypeOK, QueuesAgree
  <2> QED BY <1>1, <2>1, AdmitInd
<1>2. CASE admit_return
  BY <1>2, ReturnInd DEF admit_return, FinishedLeft
<1>3. CASE compute
  BY <1>3, ComputeInd
<1>4. CASE compute_return
  <2>1. /\ pc' = "evict" /\ cursor' = 0
        /\ UNCHANGED <<states, waiting_queue, active_ids, next_sequence_id, submits, cacheVars>>
    BY <1>4 DEF compute_return
  <2>2. DOMAIN active_ids' = 1..Len(active_ids) /\ Len(active_ids) \in Nat
    BY <2>1 DEF SchedInd, SchedTypeOK
  <2>3. FinishedLeft'
    BY <2>1, <2>2 DEF FinishedLeft
  <2> QED BY <2>1, <2>3, ReturnInd
<1>5. CASE evict_finished
  BY <1>5, EvictInd
<1>6. CASE evict_return
  <2>1. /\ pc = "evict" /\ cursor >= Len(active_ids) /\ pc' = "collect" /\ cursor' = 0
        /\ UNCHANGED <<states, waiting_queue, active_ids, next_sequence_id, submits, cacheVars>>
    BY <1>6 DEF evict_return
  <2>2. DOMAIN active_ids = 1..Len(active_ids) /\ Len(active_ids) \in Nat /\ cursor \in Nat
    BY DEF SchedInd, SchedTypeOK
  <2>3. FinishedLeft'
    BY <2>1, <2>2 DEF SchedInd, FinishedLeft
  <2> QED BY <2>1, <2>3, ReturnInd
<1>7. CASE collect_finished
  BY <1>7, CollectInd
<1>8. CASE Client
  BY <1>8, ClientInd
<1>9. CASE UNCHANGED allVars
  <2>1. UNCHANGED <<states, waiting_queue, active_ids, next_sequence_id, pc, cursor, submits, cacheVars>>
    BY <1>9 DEF allVars, schedVars, cacheVars
  <2>2. FinishedLeft' /\ pc' \in {"admit", "compute", "evict", "collect"} /\ cursor' \in Nat
    BY <2>1 DEF SchedInd, SchedTypeOK, FinishedLeft
  <2> QED BY <2>1, <2>2, ReturnInd
<1> QED BY <1>1, <1>2, <1>3, <1>4, <1>5, <1>6, <1>7, <1>8, <1>9 DEF SchedNext, Loop

-----------------------------------------------------------------------------
(* Its theorems.  ~CollectFirst: the caller evicts before it collects, as   *)
(* docs/design.md prescribes.                                               *)

LoopOrder == ~CollectFirst

\* The inductive invariant holds at every point of every call of the loop.
THEOREM SchedInvariant == ASSUME LoopOrder PROVE SchedSpec => []SchedInd
<1>1. SchedInit => SchedInd
  BY SchedInitInd
<1>2. SchedInd /\ [SchedNext]_allVars => SchedInd'
  BY SchedNextInd DEF LoopOrder
<1> QED BY <1>1, <1>2, PTL DEF SchedSpec

\* Slots, queue and batch agree whatever clients submit and in whatever order
\* requests are admitted, finish and leave (submit, admit_waiting,
\* evict_finished, collect_finished).
THEOREM SchedListsAgree == ASSUME LoopOrder PROVE SchedSpec => []SchedInv
<1>1. SchedInd => SchedInv
  BY DEF SchedInd, SchedInv
<1> QED BY <1>1, SchedInvariant, PTL

\* Auto-assigned and client-chosen ids never collide (submit).
THEOREM SchedAutoIdsFresh == ASSUME LoopOrder PROVE SchedSpec => []AutoIdsFresh
<1>1. SchedInd => AutoIdsFresh
  BY DEF SchedInd
<1> QED BY <1>1, SchedInvariant, PTL

\* A request that left the batch left no KV blocks behind (evict_finished).
THEOREM SchedOnlyActiveHoldBlocks == ASSUME LoopOrder PROVE SchedSpec => []OnlyActiveHoldBlocks
<1>1. SchedInd => OnlyActiveHoldBlocks
  BY DEF SchedInd
<1> QED BY <1>1, SchedInvariant, PTL

\* Every admitted sequence keeps room for its prompt and its whole output,
\* whatever the other sequences do (admit_waiting).
THEOREM SchedRoomToFinish == ASSUME LoopOrder PROVE SchedSpec => []RoomToFinish
<1>1. SchedInd => RoomToFinish
  BY DEF SchedInd
<1> QED BY <1>1, SchedInvariant, PTL

\* The cached length of an active sequence counts exactly its own tokens
\* (mark_prefill_progress, mark_token_generated, free_sequence).
THEOREM SchedAttendsOwnTokens == ASSUME LoopOrder PROVE SchedSpec => []AttendsOwnTokens
<1>1. SchedInd => AttendsOwnTokens
  BY DEF SchedInd
<1> QED BY <1>1, SchedInvariant, PTL

\* The next store of an active sequence, a prompt chunk or the row of the
\* last token, finds its blocks in the sequence's own table: it takes none
\* from the free list and cannot fail (write_tokens under compute).
ComputeNeverShort ==
    \A id \in SeqIds : InSeq(id, active_ids) =>
        /\ states[id].phase = "Prefilling" =>
             \A n \in (states[id].prefilled + 1)..states[id].prompt :
                can_reserve(id, n) /\ to_allocate(id, n) = 0
        /\ states[id].phase = "Decoding" =>
             /\ can_reserve(id, seq_length[id] + 1)
             /\ to_allocate(id, seq_length[id] + 1) = 0

\* No compute step ever runs out of blocks, so evicting the finished ones is
\* all the loop ever waits for (admit_waiting reserves prompt + max_tokens).
THEOREM SchedComputeNeverShort == ASSUME LoopOrder PROVE SchedSpec => []ComputeNeverShort
<1>1. ASSUME SchedInd PROVE ComputeNeverShort
  <2> USE <1>1 DEF SchedInd
  <2> SUFFICES ASSUME NEW id \in SeqIds, InSeq(id, active_ids)
               PROVE  /\ states[id].phase = "Prefilling" =>
                           \A n \in (states[id].prefilled + 1)..states[id].prompt :
                              can_reserve(id, n) /\ to_allocate(id, n) = 0
                      /\ states[id].phase = "Decoding" =>
                           /\ can_reserve(id, seq_length[id] + 1)
                           /\ to_allocate(id, seq_length[id] + 1) = 0
    BY DEF ComputeNeverShort
  <2> DEFINE m == sequence_capacity(id)
  <2>1. /\ states[id].prompt \in Nat /\ states[id].prefilled \in Nat
        /\ states[id].generated \in Nat /\ states[id].max_tokens \in Nat
        /\ seq_length[id] \in Nat /\ Len(free_blocks) \in Nat /\ Len(seq_blocks[id]) \in Nat
    BY DEF SchedTypeOK, TypeOK
  <2>2. m \in Nat /\ states[id].prompt + states[id].max_tokens <= m
    BY <2>1, TimesBlockSize DEF RoomToFinish, total_tokens, sequence_capacity
  <2>3. ASSUME NEW n \in Nat, n <= m PROVE can_reserve(id, n) /\ to_allocate(id, n) = 0
    <3>1. to_allocate(id, n) = 0
      BY <2>3, NothingToAllocate
    <3> QED BY <3>1, <2>1 DEF can_reserve
  <2> HIDE DEF m
  <2>4. ASSUME NEW n \in (states[id].prefilled + 1)..states[id].prompt
        PROVE  can_reserve(id, n) /\ to_allocate(id, n) = 0
    <3>1. n \in Nat /\ n <= m
      BY <2>1, <2>2, SMTT(20)
    <3> QED BY <3>1, <2>3
  <2>5. ASSUME states[id].phase = "Decoding"
        PROVE  can_reserve(id, seq_length[id] + 1) /\ to_allocate(id, seq_length[id] + 1) = 0
    <3>1. /\ states[id].generated < states[id].max_tokens
          /\ seq_length[id] = states[id].prompt
                 + (IF states[id].generated = 0 THEN 0 ELSE states[id].generated - 1)
      BY <2>5 DEF AttendsOwnTokens, RequestsInPhase
    <3>2. seq_length[id] + 1 \in Nat /\ seq_length[id] + 1 <= m
      <4>1. ASSUME NEW p \in Nat, NEW g \in Nat, NEW t \in Nat, NEW c \in Nat, g < t, p + t <= c
            PROVE  /\ p + (IF g = 0 THEN 0 ELSE g - 1) + 1 \in Nat
                   /\ p + (IF g = 0 THEN 0 ELSE g - 1) + 1 <= c
        BY <4>1
      <4> QED BY <4>1, <3>1, <2>1, <2>2
    <3> QED BY <3>2, <2>3
  <2> QED BY <2>4, <2>5
<1> QED BY <1>1, SchedInvariant, PTL

\* A slot's phase moves one stage at a time (the mark_ methods, admit_waiting,
\* submit).
THEOREM SchedLifeCycle == ASSUME LoopOrder PROVE SchedSpec => LifeCycle
<1> DEFINE Moves(id) ==
        \/ states[id].phase = "Waiting" /\ states'[id].phase = "Prefilling"
        \/ states[id].phase = "Prefilling" /\ states'[id].phase = "Decoding"
        \/ states[id].phase = "Decoding" /\ states'[id].phase = "Finished"
        \/ ~states[id].live /\ states'[id].phase = "Waiting"
           Stage == \A id \in SeqIds : states'[id].phase # states[id].phase => Moves(id)
<1>1. ASSUME SchedInd, SchedNext PROVE Stage
  <2>0. /\ states \in [SeqIds -> Slot] /\ waiting_queue \in Seq(SeqIds)
        /\ active_ids \in Seq(SeqIds) /\ cursor \in Nat /\ Injective(waiting_queue)
    BY <1>1 DEF SchedInd, SchedTypeOK, Slot, QueuesAgree
  <2>1. ASSUME NEW id \in SeqIds, NEW r \in Requests, NEW next, accept(id, r, next), ~states[id].live
        PROVE  Stage
    BY <2>0, <2>1 DEF accept
  <2>2. CASE admit_head
    <3> DEFINE h == Head(waiting_queue)
    <3>1. h \in SeqIds /\ InSeq(h, waiting_queue)
      BY <2>0, <2>2, PoppedList DEF admit_head, admits_head
    <3>2. states[h].phase = "Waiting"
      BY <3>1, <1>1 DEF SchedInd, QueuesAgree
    <3>3. states' = [states EXCEPT ![h].phase = "Prefilling"]
      BY <2>2 DEF admit_head
    <3> HIDE DEF h
    <3> QED BY <3>1, <3>2, <3>3, <2>0 DEF Slot
  <2>3. CASE compute
    <3> DEFINE k == active_ids[cursor + 1]
    <3>1. prefill(k) \/ decode(k) \/ eos(k)
      BY <2>0, <2>3 DEF compute
    <3>2. k \in SeqIds
      BY <2>0, <2>3 DEF compute
    <3> HIDE DEF k
    <3>3. CASE prefill(k)
      BY <2>0, <3>2, <3>3 DEF prefill, mark_prefill_progress, Slot
    <3>4. CASE decode(k)
      BY <2>0, <3>2, <3>4 DEF decode, mark_token_generated, Slot
    <3>5. CASE eos(k)
      BY <2>0, <3>2, <3>5 DEF eos, mark_finished, Slot
    <3> QED BY <3>1, <3>3, <3>4, <3>5
  <2>4. CASE collect_finished
    <3>1. \A id \in SeqIds : states'[id].phase = states[id].phase
      BY <2>0, <2>4 DEF collect_finished, Slot
    <3> QED BY <3>1
  <2>5. CASE admit_return \/ compute_return \/ evict_finished \/ evict_return
    BY <2>5 DEF admit_return, compute_return, evict_finished, evict_return
  <2>6. CASE Client
    <3>1. ASSUME NEW r \in Requests, submit_auto(r) PROVE Stage
      <4>1. CASE states[next_sequence_id].live
        BY <3>1, <4>1 DEF submit_auto
      <4>2. CASE ~states[next_sequence_id].live
        BY <3>1, <4>2, <2>1 DEF submit_auto
      <4> QED BY <4>1, <4>2
    <3>2. ASSUME NEW r \in Requests, NEW id \in SeqIds, submit_explicit(id, r) PROVE Stage
      BY <3>2, <2>1 DEF submit_explicit
    <3> QED BY <2>6, <3>1, <3>2 DEF Client
  <2> QED BY <1>1, <2>2, <2>3, <2>4, <2>5, <2>6 DEF SchedNext, Loop
<1>2. ASSUME SchedInd, [SchedNext]_allVars
      PROVE  [\A id \in SeqIds : states'[id].phase # states[id].phase =>
                \/ states[id].phase = "Waiting" /\ states'[id].phase = "Prefilling"
                \/ states[id].phase = "Prefilling" /\ states'[id].phase = "Decoding"
                \/ states[id].phase = "Decoding" /\ states'[id].phase = "Finished"
                \/ ~states[id].live /\ states'[id].phase = "Waiting"]_allVars
  BY <1>1, <1>2
<1> QED BY <1>2, SchedInvariant, PTL DEF SchedSpec, LifeCycle

\* submit takes an id only when nothing of an earlier request of that id is
\* left: no place in a list, no blocks, no cached length.
THEOREM SchedAcceptsOnlyUnusedIds == ASSUME LoopOrder PROVE SchedSpec => AcceptsOnlyUnusedIds
<1>1. ASSUME SchedInd, [SchedNext]_allVars
      PROVE  [\A id \in SeqIds : ~states[id].live /\ states'[id].live =>
                /\ ~InSeq(id, waiting_queue) /\ ~InSeq(id, active_ids)
                /\ ~has_sequence(id)]_allVars
  BY <1>1 DEF SchedInd, QueuesAgree, OnlyActiveHoldBlocks
<1> QED BY <1>1, SchedInvariant, PTL DEF SchedSpec, AcceptsOnlyUnusedIds

-----------------------------------------------------------------------------
(* The inductive invariant of PagedAttentionScheduler. *)

\* The list keeps below its limit, and every position that the last batch
\* covers is still inside the block table of its sequence.
BatchCovered ==
    /\ Len(active_sequence_ids) <= MaxBatch
    /\ batch.sequence_lengths \in Seq(Nat)
    /\ Len(batch.sequence_lengths) = Len(batch.sequence_ids)
    /\ \A i \in DOMAIN batch.sequence_ids :
         batch.sequence_lengths[i] <= sequence_capacity(batch.sequence_ids[i])

\* What every call of the scheduler and of the cache's owner keeps.
BatchInd == /\ CacheInv
            /\ BatchTypeOK
            /\ BatchCovered
            /\ BatchStaysReadable
-----------------------------------------------------------------------------
(* Rows and columns of a flat table. *)

\* Entry a * w + q of a table with rows of width w is in row a, column q.
LEMMA RowColumn ==
  ASSUME NEW w \in Nat \ {0}, NEW a \in Nat, NEW q \in 0..(w - 1)
  PROVE  (a * w + q) \div w = a /\ (a * w + q) % w = q
  OBVIOUS

\* An entry of a table of m rows is in one of the rows.
LEMMA RowInTable ==
  ASSUME NEW w \in Nat \ {0}, NEW m \in Nat, NEW k \in 0..(m * w - 1)
  PROVE  k \div w \in 0..(m - 1) /\ k % w \in 0..(w - 1)
<1> DEFINE q == k \div w
           r == k % w
<1>1. m * w \in Nat
  OBVIOUS
<1>2. k \in Nat /\ k < m * w
  BY <1>1
<1>3. q \in Nat /\ r \in 0..(w - 1) /\ k = q * w + r
  BY <1>2
<1> HIDE DEF q, r
<1>4. ~(m <= q)
  <2> SUFFICES ASSUME m <= q PROVE FALSE
    OBVIOUS
  <2>1. m * w <= q * w /\ q * w \in Nat
    BY <1>3
  <2> QED BY <2>1, <1>1, <1>2, <1>3
<1>5. q \in 0..(m - 1)
  BY <1>3, <1>4
<1> QED BY <1>3, <1>5 DEF q, r

\* The blocks that n tokens need: no more than a table with room for n tokens
\* has, and enough for every position below n.
LEMMA BlocksForLength ==
  ASSUME NEW n \in Nat, NEW m \in Nat, n <= m * BlockSize
  PROVE  /\ blocks_for_length(n) \in 0..m
         /\ \A p \in 0..(n - 1) : p \div BlockSize \in 0..(blocks_for_length(n) - 1)
<1> DEFINE c == (n + BlockSize - 1) \div BlockSize
           r == (n + BlockSize - 1) % BlockSize
<1>1. n + BlockSize - 1 \in Nat /\ BlockSize \in Nat \ {0}
  BY GeometryAssumption
<1>2. c \in Nat /\ r \in Offsets /\ n + BlockSize - 1 = c * BlockSize + r
  BY <1>1, DivMod
<1>3. c = blocks_for_length(n)
  BY DEF blocks_for_length
<1> HIDE DEF c, r
<1>4. ~(m + 1 <= c)
  <2> SUFFICES ASSUME m + 1 <= c PROVE FALSE
    OBVIOUS
  <2>1. (m + 1) * BlockSize <= c * BlockSize /\ c * BlockSize \in Nat
    BY <1>2, TimesBlockSize
  <2>2. (m + 1) * BlockSize = m * BlockSize + BlockSize /\ m * BlockSize \in Nat
    BY GeometryAssumption
  <2> QED BY <2>1, <2>2, <1>1, <1>2 DEF Offsets
<1>5. ASSUME NEW p \in 0..(n - 1) PROVE p \div BlockSize \in 0..(c - 1)
  <2> DEFINE q == p \div BlockSize
             s == p % BlockSize
  <2>1. p \in Nat /\ p < n
    OBVIOUS
  <2>2. q \in Nat /\ s \in Offsets /\ p = q * BlockSize + s
    BY <2>1, DivMod
  <2> HIDE DEF q, s
  <2>3. ~(c <= q)
    <3> SUFFICES ASSUME c <= q PROVE FALSE
      OBVIOUS
    <3>1. c * BlockSize <= q * BlockSize /\ c * BlockSize \in Nat /\ q * BlockSize \in Nat
      BY <1>2, <2>2, TimesBlockSize
    <3> QED BY <3>1, <2>1, <2>2, <1>1, <1>2 DEF Offsets
  <2>4. q \in 0..(c - 1)
    BY <1>2, <2>2, <2>3
  <2> QED BY <2>4 DEF q
<1>6. c \in 0..m
  BY <1>2, <1>4
<1> QED BY <1>3, <1>5, <1>6
-----------------------------------------------------------------------------
(* build_batch. *)

\* A table that covers the length of its sequence is never too short: of the
\* two failures only the missing sequence is left.
LEMMA BuildStatus ==
  ASSUME BatchInd
  PROVE  /\ build_status # "internal_error"
         /\ build_status = "batch" =>
              /\ active_sequence_ids # <<>>
              /\ \A i \in DOMAIN active_sequence_ids : seq_length[active_sequence_ids[i]] > 0
<1> DEFINE ids == active_sequence_ids
           Missing(i) == ~has_sequence(ids[i]) \/ seq_length[ids[i]] <= 0
           Short(i) == Len(seq_blocks[ids[i]]) < blocks_for_length(seq_length[ids[i]])
           Bad == {i \in DOMAIN ids : Missing(i) \/ Short(i)}
<1>1. /\ ids \in Seq(SeqIds) /\ DOMAIN ids \in SUBSET Nat
      /\ \A i \in DOMAIN ids : ids[i] \in SeqIds
      /\ Len(ids) \in Nat /\ Len(ids) <= MaxBatch /\ MaxBatch \in Nat
  BY BatchAssumption DEF BatchInd, BatchTypeOK, BatchCovered
<1>2. ASSUME NEW i \in DOMAIN ids PROVE ~Short(i)
  <2>1. PICK id \in SeqIds : id = ids[i]
    BY <1>1
  <2>2. /\ seq_length[id] \in Nat /\ Len(seq_blocks[id]) \in Nat
        /\ seq_length[id] <= Len(seq_blocks[id]) * BlockSize
    BY DEF BatchInd, CacheInv, TypeOK, LengthCovered, sequence_capacity
  <2>3. blocks_for_length(seq_length[id]) \in 0..Len(seq_blocks[id])
    BY <2>2, BlocksForLength
  <2> QED BY <2>1, <2>2, <2>3
<1>3. build_status = IF ids = <<>> THEN "invalid_argument"
                     ELSE IF Len(ids) > MaxBatch THEN "internal_error"
                     ELSE IF Bad = {} THEN "batch"
                     ELSE IF Missing(Min(Bad)) THEN "not_found" ELSE "internal_error"
  BY DEF build_status
<1>4. Bad # {} => Missing(Min(Bad))
  <2>1. SUFFICES ASSUME Bad # {} PROVE Missing(Min(Bad))
    OBVIOUS
  <2>2. Bad \in SUBSET Nat
    BY <1>1
  <2> HIDE DEF Bad
  <2>3. Min(Bad) \in Bad
    BY <2>1, <2>2, LeastElement
  <2>4. PICK i \in Bad : i = Min(Bad)
    BY <2>3
  <2>5. i \in DOMAIN ids /\ (Missing(i) \/ Short(i))
    BY DEF Bad
  <2>6. Missing(i)
    BY <2>5, <1>2
  <2> HIDE DEF Missing
  <2> QED BY <2>4, <2>6
<1>5. ~(Len(ids) > MaxBatch)
  BY <1>1
<1> HIDE DEF Missing, Short
<1>6. build_status # "internal_error"
  BY <1>3, <1>4, <1>5
<1>7. build_status = "batch" => ids # <<>> /\ Bad = {}
  BY <1>3
<1>8. ASSUME Bad = {}, NEW i \in DOMAIN ids PROVE seq_length[ids[i]] > 0
  <2>1. ~Missing(i)
    BY <1>8
  <2>2. seq_length[ids[i]] \in Nat
    BY <1>1 DEF BatchInd, CacheInv, TypeOK
  <2> QED BY <2>1, <2>2 DEF Missing
<1> QED BY <1>6, <1>7, <1>8

\* The flattened table: its width is that of the longest row, and every
\* position of every listed sequence is found at its row and column.
LEMMA FlattenedTable ==
  ASSUME BatchInd, build_status = "batch"
  PROVE  /\ batch_width(active_sequence_ids) \in 0..MaxBlocks
         /\ flattened(active_sequence_ids) \in Seq(Blocks \cup {-1})
         /\ \A i \in DOMAIN active_sequence_ids :
              \A pos \in 0..(seq_length[active_sequence_ids[i]] - 1) :
                flattened(active_sequence_ids)
                    [(i - 1) * batch_width(active_sequence_ids) + (pos \div BlockSize) + 1]
                  = physical_block(seq_blocks[active_sequence_ids[i]], pos)
<1> DEFINE ids == active_sequence_ids
           n == Len(ids)
           width(id) == blocks_for_length(seq_length[id])
           W == {width(ids[i]) : i \in DOMAIN ids}
           w == batch_width(ids)
           t == flattened(ids)
           entry(k) == IF (k - 1) % w < width(ids[((k - 1) \div w) + 1])
                       THEN seq_blocks[ids[((k - 1) \div w) + 1]][((k - 1) % w) + 1] ELSE -1
<1>1. /\ n \in Nat \ {0} /\ DOMAIN ids = 1..n
      /\ \A i \in 1..n : ids[i] \in SeqIds /\ seq_length[ids[i]] > 0
  BY BuildStatus DEF BatchInd, BatchTypeOK
<1>2. ASSUME NEW id \in SeqIds
      PROVE  /\ seq_blocks[id] \in Seq(Blocks) /\ Len(seq_blocks[id]) \in 0..MaxBlocks
             /\ seq_length[id] \in Nat
             /\ width(id) \in 0..Len(seq_blocks[id]) /\ width(id) \in 0..MaxBlocks
             /\ \A p \in 0..(seq_length[id] - 1) : p \div BlockSize \in 0..(width(id) - 1)
  <2>1. /\ seq_blocks[id] \in Seq(Blocks) /\ seq_length[id] \in Nat
        /\ seq_length[id] <= Len(seq_blocks[id]) * BlockSize
    BY DEF BatchInd, CacheInv, TypeOK, LengthCovered, sequence_capacity
  <2>2. Len(seq_blocks[id]) \in 0..MaxBlocks
    BY TableFitsPool DEF BatchInd
  <2>3. /\ width(id) \in 0..Len(seq_blocks[id])
        /\ \A p \in 0..(seq_length[id] - 1) : p \div BlockSize \in 0..(width(id) - 1)
    BY <2>1, <2>2, BlocksForLength
  <2> HIDE DEF width
  <2>4. width(id) \in 0..MaxBlocks
    <3>1. ASSUME NEW a \in 0..MaxBlocks, NEW b \in 0..a PROVE b \in 0..MaxBlocks
      BY GeometryAssumption
    <3> QED BY <3>1, <2>2, <2>3
  <2> QED BY <2>1, <2>2, <2>3, <2>4
<1> HIDE DEF width
<1>3. /\ w \in 0..MaxBlocks /\ \A i \in 1..n : width(ids[i]) <= w
  <2>1. W \in SUBSET (0..MaxBlocks) /\ W # {}
    BY <1>1, <1>2
  <2>2. MaxBlocks \in Nat /\ w = Max(W)
    BY GeometryAssumption DEF batch_width, width
  <2>3. width(ids[1]) \in W /\ \A i \in 1..n : width(ids[i]) \in W
    BY <1>1
  <2> HIDE DEF W, w, ids, n
  <2>4. Max(W) \in W /\ \A x \in W : x <= Max(W)
    BY <2>1, <2>2, GreatestElement
  <2> QED BY <2>1, <2>2, <2>3, <2>4
<1>4. w \in Nat \ {0}
  <2>1. ids[1] \in SeqIds /\ seq_length[ids[1]] > 0 /\ 1 \in 1..n
    BY <1>1
  <2>2. PICK id \in SeqIds : id = ids[1]
    BY <2>1
  <2>3. 0 \in 0..(seq_length[id] - 1)
    BY <2>1, <2>2, <1>2
  <2>4. 0 \div BlockSize \in 0..(width(id) - 1)
    BY <2>3, <1>2
  <2>5. width(id) \in Nat /\ width(id) <= w /\ w \in Nat
    BY <2>1, <2>2, <1>2, <1>3, GeometryAssumption
  <2>6. 0 <= width(id) - 1
    BY <2>4, <2>5
  <2> QED BY <2>5, <2>6
<1>5. t = [k \in 1..(n * w) |-> entry(k)]
  BY DEF flattened, width
<1> HIDE DEF w, t, n, ids
<1>6. n * w \in Nat
  BY <1>1, <1>4
<1>7. ASSUME NEW k \in 1..(n * w) PROVE entry(k) \in Blocks \cup {-1}
  <2>1. k - 1 \in 0..(n * w - 1)
    BY <1>6
  <2>2. (k - 1) \div w \in 0..(n - 1) /\ (k - 1) % w \in 0..(w - 1)
    BY <2>1, <1>1, <1>4, RowInTable
  <2>3. PICK i \in 1..n, c \in 0..(w - 1) : i = ((k - 1) \div w) + 1 /\ c = (k - 1) % w
    BY <2>2, <1>1
  <2>4. ids[i] \in SeqIds
    BY <1>1
  <2>5. c < width(ids[i]) => seq_blocks[ids[i]][c + 1] \in Blocks
    <3>1. PICK id \in SeqIds : id = ids[i]
      BY <2>4
    <3>2. /\ seq_blocks[id] \in Seq(Blocks) /\ width(id) \in 0..Len(seq_blocks[id])
          /\ c \in Nat
      BY <1>2, <1>4
    <3>3. c < width(id) => c + 1 \in 1..Len(seq_blocks[id])
      BY <3>2
    <3> QED BY <3>1, <3>2, <3>3
  <2> QED BY <2>3, <2>5
<1>8. t \in Seq(Blocks \cup {-1})
  <2>1. t \in [1..(n * w) -> Blocks \cup {-1}]
    BY <1>5, <1>7
  <2> QED BY <2>1, <1>6
<1>9. ASSUME NEW i \in 1..n, NEW pos \in 0..(seq_length[ids[i]] - 1)
      PROVE  t[(i - 1) * w + (pos \div BlockSize) + 1] = physical_block(seq_blocks[ids[i]], pos)
  <2>1. PICK id \in SeqIds : id = ids[i]
    BY <1>1
  <2>2. pos \in 0..(seq_length[id] - 1)
    BY <2>1
  <2>3. PICK q \in Nat : q = pos \div BlockSize /\ q < width(id) /\ q \in 0..(w - 1)
    <3>1. pos \div BlockSize \in 0..(width(id) - 1) /\ width(id) \in Nat /\ width(id) <= w
      BY <2>1, <2>2, <1>2, <1>3
    <3> HIDE DEF entry
    <3> QED BY <3>1, <1>4
  <2>4. i - 1 \in Nat /\ i - 1 \in 0..(n - 1)
    BY <1>1
  <2> DEFINE a == i - 1
             k == a * w + q + 1
  <2>5. k - 1 = a * w + q /\ k \in 1..(n * w)
    <3>1. a * w \in Nat /\ (a + 1) * w = a * w + w /\ (a + 1) * w <= n * w
      <4>1. a \in Nat /\ a + 1 \in Nat /\ n \in Nat /\ a + 1 <= n
        BY <2>4, <1>1
      <4> HIDE DEF a
      <4> QED BY <4>1, <1>4
    <3> QED BY <3>1, <2>3, <1>4, <1>6
  <2>6. (a * w + q) \div w = a /\ (a * w + q) % w = q
    BY <2>3, <2>4, <1>4, RowColumn
  <2>7. t[k] = entry(k)
    BY <2>5, <1>5
  <2>8. (k - 1) \div w = a /\ (k - 1) % w = q /\ a + 1 = i
    BY <2>5, <2>6
  <2>9. entry(k) = seq_blocks[id][q + 1]
    <3> HIDE DEF a, k
    <3>1. entry(k) = IF q < width(ids[i]) THEN seq_blocks[ids[i]][q + 1] ELSE -1
      BY <2>8, Zenon
    <3> QED BY <3>1, <2>1, <2>3
  <2>10. k = (i - 1) * w + (pos \div BlockSize) + 1
    BY <2>3
  <2> QED BY <2>7, <2>9, <2>10, <2>1, <2>3 DEF physical_block
<1> QED BY <1>1, <1>3, <1>8, <1>9 DEF w, t, ids, n
\* A new batch is of its type, covers the lengths of its sequences and finds
\* their blocks.
LEMMA BuildInd ==
  ASSUME BatchInd, build_batch
  PROVE  BatchInd'
<1> DEFINE ids == active_sequence_ids
           lens == [i \in DOMAIN ids |-> seq_length[ids[i]]]
<1>1. /\ build_status = "batch"
      /\ batch' = [sequence_ids |-> ids, sequence_lengths |-> lens,
                   block_tables |-> flattened(ids), max_blocks_per_sequence |-> batch_width(ids)]
      /\ UNCHANGED <<vars, active_sequence_ids>>
  BY DEF build_batch
<1>2. /\ batch'.sequence_ids = ids /\ batch'.sequence_lengths = lens
      /\ batch'.block_tables = flattened(ids)
      /\ batch'.max_blocks_per_sequence = batch_width(ids)
  BY <1>1
<1>3. /\ CacheInv /\ ids \in Seq(SeqIds) /\ DOMAIN ids = 1..Len(ids) /\ Len(ids) \in Nat
      /\ \A i \in DOMAIN ids : ids[i] \in SeqIds
      /\ \A id \in SeqIds : seq_length[id] \in Nat /\ seq_length[id] <= sequence_capacity(id)
      /\ Len(ids) <= MaxBatch
  BY DEF BatchInd, BatchTypeOK, BatchCovered, CacheInv, TypeOK, LengthCovered
<1>4. /\ flattened(ids) \in Seq(Blocks \cup {-1}) /\ batch_width(ids) \in 0..MaxBlocks
      /\ \A i \in DOMAIN ids : \A pos \in 0..(seq_length[ids[i]] - 1) :
           flattened(ids)[(i - 1) * batch_width(ids) + (pos \div BlockSize) + 1]
             = physical_block(seq_blocks[ids[i]], pos)
  BY <1>1, FlattenedTable
<1>5. CacheInv'
  BY <1>1, <1>3, NextInv
<1>6. BatchTypeOK'
  BY <1>1, <1>2, <1>3, <1>4, <1>5 DEF BatchTypeOK, CacheInv
<1>7. /\ lens \in Seq(Nat) /\ Len(lens) = Len(ids)
      /\ \A i \in DOMAIN ids : lens[i] = seq_length[ids[i]]
  BY <1>3
<1> HIDE DEF lens, ids
<1>8. BatchCovered'
  <2>1. \A i \in DOMAIN ids : lens[i] <= Len(seq_blocks[ids[i]]) * BlockSize
    BY <1>3, <1>7 DEF sequence_capacity
  <2>2. active_sequence_ids' = ids /\ seq_blocks' = seq_blocks
    BY <1>1 DEF vars, ids
  <2> QED BY <2>1, <2>2, <1>2, <1>3, <1>7 DEF BatchCovered, sequence_capacity
<1>9. BatchStaysReadable'
  <2>1. SUFFICES ASSUME NEW i \in DOMAIN ids, NEW pos \in 0..(lens[i] - 1)
                 PROVE  flattened(ids)[(i - 1) * batch_width(ids) + (pos \div BlockSize) + 1]
                          = seq_blocks'[ids[i]][(pos \div BlockSize) + 1]
    BY <1>2 DEF BatchStaysReadable, batch_block, physical_block
  <2>2. pos \in 0..(seq_length[ids[i]] - 1) /\ seq_blocks' = seq_blocks
    BY <1>1, <1>7 DEF vars
  <2> QED BY <2>2, <1>4 DEF physical_block
<1> QED BY <1>5, <1>6, <1>8, <1>9 DEF BatchInd

-----------------------------------------------------------------------------
(* Steps under a batch. *)

\* A batch outlives every step that keeps what was in the tables of its
\* sequences.
LEMMA BatchKept ==
  ASSUME BatchInd, CacheInv', batch' = batch,
         active_sequence_ids' \in Seq(SeqIds), Len(active_sequence_ids') <= MaxBatch,
         \A id \in SeqIds : Listed(id, batch.sequence_ids) =>
            /\ Len(seq_blocks[id]) <= Len(seq_blocks'[id])
            /\ \A i \in 1..Len(seq_blocks[id]) : seq_blocks'[id][i] = seq_blocks[id][i]
  PROVE  BatchInd'
<1>1. /\ CacheInv /\ BatchTypeOK /\ BatchCovered /\ BatchStaysReadable
      /\ \A i \in DOMAIN batch.sequence_ids :
            batch.sequence_ids[i] \in SeqIds /\ Listed(batch.sequence_ids[i], batch.sequence_ids)
      /\ \A id \in SeqIds : Len(seq_blocks[id]) \in Nat /\ Len(seq_blocks'[id]) \in Nat
      /\ DOMAIN batch.sequence_lengths = DOMAIN batch.sequence_ids
  BY SMTT(20) DEF BatchInd, BatchTypeOK, BatchCovered, Listed, CacheInv, TypeOK
<1>2. BatchTypeOK'
  BY <1>1 DEF BatchTypeOK, CacheInv
<1>3. ASSUME NEW i \in DOMAIN batch.sequence_ids
      PROVE  /\ batch.sequence_lengths[i] <= Len(seq_blocks'[batch.sequence_ids[i]]) * BlockSize
             /\ \A pos \in 0..(batch.sequence_lengths[i] - 1) :
                  batch_block(i, pos) = physical_block(seq_blocks'[batch.sequence_ids[i]], pos)
  <2>1. PICK id \in SeqIds : id = batch.sequence_ids[i]
    BY <1>1
  <2>2. PICK n \in Nat : n = batch.sequence_lengths[i]
    BY <1>1 DEF BatchCovered
  <2>3. /\ n <= Len(seq_blocks[id]) * BlockSize
        /\ \A pos \in 0..(n - 1) : batch_block(i, pos) = physical_block(seq_blocks[id], pos)
        /\ Listed(id, batch.sequence_ids)
    <3>1. Listed(id, batch.sequence_ids)
      BY <2>1, <1>1
    <3>2. batch.sequence_lengths[i] <= sequence_capacity(batch.sequence_ids[i])
      BY <1>1 DEF BatchCovered
    <3>3. \A pos \in 0..(batch.sequence_lengths[i] - 1) :
            batch_block(i, pos) = physical_block(seq_blocks[batch.sequence_ids[i]], pos)
      BY <1>1 DEF BatchStaysReadable
    <3> QED BY <3>1, <3>2, <3>3, <2>1, <2>2 DEF sequence_capacity
  <2>4. /\ Len(seq_blocks[id]) * BlockSize \in Nat
        /\ Len(seq_blocks[id]) * BlockSize <= Len(seq_blocks'[id]) * BlockSize
        /\ Len(seq_blocks'[id]) * BlockSize \in Nat
    <3>1. /\ Len(seq_blocks[id]) \in Nat /\ Len(seq_blocks'[id]) \in Nat
          /\ Len(seq_blocks[id]) <= Len(seq_blocks'[id])
      BY <2>3, <1>1
    <3>2. ASSUME NEW a \in Nat, NEW b \in Nat, a <= b
          PROVE  a * BlockSize \in Nat /\ b * BlockSize \in Nat /\ a * BlockSize <= b * BlockSize
      BY <3>2, TimesBlockSize
    <3> QED BY <3>1, <3>2
  <2>5. n <= Len(seq_blocks'[id]) * BlockSize
    BY <2>3, <2>4
  <2>6. ASSUME NEW pos \in 0..(n - 1)
        PROVE  physical_block(seq_blocks'[id], pos) = physical_block(seq_blocks[id], pos)
    <3>1. pos \in 0..(Len(seq_blocks[id]) * BlockSize - 1)
      BY <2>3, <2>4
    <3>2. (pos \div BlockSize) + 1 \in 1..Len(seq_blocks[id])
      BY <3>1, <1>1, PositionInTable
    <3> QED BY <3>2, <2>3 DEF physical_block
  <2> QED BY <2>1, <2>2, <2>3, <2>5, <2>6
<1>4. BatchCovered'
  BY <1>1, <1>3 DEF BatchCovered, sequence_capacity
<1>5. BatchStaysReadable'
  BY <1>3 DEF BatchStaysReadable, batch_block, physical_block
<1> QED BY <1>2, <1>4, <1>5 DEF BatchInd

\* No batch is left after a step that takes it back.
LEMMA BatchDropped ==
  ASSUME BatchInd, CacheInv', batch' = NoBatch, active_sequence_ids' = active_sequence_ids
  PROVE  BatchInd'
<1>1. /\ batch'.sequence_ids = <<>> /\ batch'.sequence_lengths = <<>>
      /\ batch'.block_tables = <<>> /\ batch'.max_blocks_per_sequence = 0
  BY DEF NoBatch
<1>2. /\ active_sequence_ids \in Seq(SeqIds) /\ Len(active_sequence_ids) <= MaxBatch
      /\ MaxBlocks \in Nat
  BY GeometryAssumption DEF BatchInd, BatchTypeOK, BatchCovered
<1>3. BatchTypeOK'
  BY <1>1, <1>2 DEF BatchTypeOK, CacheInv
<1>4. BatchCovered' /\ BatchStaysReadable'
  BY <1>1, <1>2 DEF BatchCovered, BatchStaysReadable
<1> QED BY <1>3, <1>4 DEF BatchInd

\* The list without its k-th element.
LEMMA ErasedFromList ==
  ASSUME NEW s \in Seq(SeqIds), NEW k \in 1..Len(s)
  PROVE  /\ SubSeq(s, 1, k - 1) \o SubSeq(s, k + 1, Len(s)) \in Seq(SeqIds)
         /\ Len(SubSeq(s, 1, k - 1) \o SubSeq(s, k + 1, Len(s))) <= Len(s)
<1> DEFINE n == Len(s)
           a == SubSeq(s, 1, k - 1)
           b == SubSeq(s, k + 1, n)
<1>1. n \in Nat /\ k \in 1..n /\ \A i \in 1..n : s[i] \in SeqIds
  OBVIOUS
<1> HIDE DEF n
<1>2. a \in Seq(SeqIds) /\ Len(a) = k - 1
  <2>1. 1 \in Int /\ k - 1 \in Int /\ \A i \in 1..(k - 1) : s[i] \in SeqIds
    BY <1>1
  <2>2. a \in Seq(SeqIds) /\ Len(a) = IF 1 <= k - 1 THEN (k - 1) - 1 + 1 ELSE 0
    BY <2>1, SubSeqProperties
  <2> QED BY <2>2, <1>1
<1>3. b \in Seq(SeqIds) /\ Len(b) = n - k
  <2>1. k + 1 \in Int /\ n \in Int /\ \A i \in (k + 1)..n : s[i] \in SeqIds
    BY <1>1
  <2>2. b \in Seq(SeqIds) /\ Len(b) = IF k + 1 <= n THEN n - (k + 1) + 1 ELSE 0
    BY <2>1, SubSeqProperties
  <2> QED BY <2>2, <1>1
<1> HIDE DEF a, b
<1>4. a \o b \in Seq(SeqIds) /\ Len(a \o b) = Len(a) + Len(b)
  BY <1>2, <1>3, ConcatProperties
<1>5. Len(a \o b) <= n
  BY <1>1, <1>2, <1>3, <1>4
<1> QED BY <1>4, <1>5 DEF a, b, n
\* The calls that make tables longer.
LEMMA GrowsInd ==
  ASSUME BatchInd, cache_grows
  PROVE  BatchInd'
<1>1. /\ CacheInv /\ batch' = batch /\ active_sequence_ids' = active_sequence_ids
      /\ active_sequence_ids \in Seq(SeqIds) /\ Len(active_sequence_ids) <= MaxBatch
  BY DEF BatchInd, BatchTypeOK, BatchCovered, cache_grows
<1>2. ASSUME NEW id \in SeqIds, NEW n \in Nat, TableExtended(id, n), CacheInv' PROVE BatchInd'
  <2>1. \A o \in SeqIds : /\ Len(seq_blocks[o]) <= Len(seq_blocks'[o])
                          /\ \A i \in 1..Len(seq_blocks[o]) : seq_blocks'[o][i] = seq_blocks[o][i]
    <3>1. \A o \in SeqIds : Len(seq_blocks[o]) \in Nat
      BY <1>1 DEF CacheInv, TypeOK
    <3> QED BY <3>1, <1>2 DEF TableExtended
  <2> QED BY <2>1, <1>1, <1>2, BatchKept
<1>3. ASSUME NEW id \in SeqIds, NEW n \in 0..MaxTokens, reserve_sequence(id, n) PROVE BatchInd'
  <2>1. n \in Nat
    BY NoOverflowAssumption
  <2>2. CacheInv' /\ TableExtended(id, n)
    BY <2>1, <1>1, <1>3, ReserveEffect
  <2> QED BY <2>1, <2>2, <1>2
<1>4. ASSUME NEW id \in SeqIds, NEW n \in 0..MaxTokens, set_sequence_length(id, n) PROVE BatchInd'
  <2>1. n \in Nat
    BY NoOverflowAssumption
  <2>2. CacheInv' /\ TableExtended(id, n)
    BY <2>1, <1>1, <1>4, SetLengthEffect
  <2> QED BY <2>1, <2>2, <1>2
<1>5. ASSUME NEW id \in SeqIds, NEW l \in Layers, NEW start \in 0..MaxTokens,
             NEW vals \in RowRuns(start), write_tokens(id, l, start, vals)
      PROVE  BatchInd'
  <2>1. start \in Nat
    BY NoOverflowAssumption
  <2>2. vals \in Seq(Rows) /\ start + Len(vals) \in Nat
    BY <2>1, RowRunsType
  <2>3. CacheInv' /\ TableExtended(id, start + Len(vals))
    BY <2>1, <2>2, <1>1, <1>5, WriteEffect
  <2> QED BY <2>2, <2>3, <1>2
<1> QED BY <1>3, <1>4, <1>5 DEF cache_grows

\* free_sequence takes the batch back when it names the sequence, and leaves
\* the other tables alone.
LEMMA FreesInd ==
  ASSUME BatchInd, NEW id \in SeqIds, free_sequence(id),
         batch' = IF Listed(id, batch.sequence_ids) THEN NoBatch ELSE batch,
         active_sequence_ids' = active_sequence_ids
  PROVE  BatchInd'
<1>1. /\ CacheInv
      /\ active_sequence_ids \in Seq(SeqIds) /\ Len(active_sequence_ids) <= MaxBatch
  BY DEF BatchInd, BatchTypeOK, BatchCovered
<1>2. /\ CacheInv'
      /\ \A other \in SeqIds \ {id} : seq_blocks'[other] = seq_blocks[other]
      /\ \A other \in SeqIds : Len(seq_blocks[other]) \in Nat
  BY <1>1, FreeEffect DEF CacheInv, TypeOK
<1>3. CASE Listed(id, batch.sequence_ids)
  BY <1>2, <1>3, BatchDropped
<1>4. CASE ~Listed(id, batch.sequence_ids)
  <2>1. \A o \in SeqIds : Listed(o, batch.sequence_ids) =>
            /\ Len(seq_blocks[o]) <= Len(seq_blocks'[o])
            /\ \A i \in 1..Len(seq_blocks[o]) : seq_blocks'[o][i] = seq_blocks[o][i]
    BY <1>2, <1>4
  <2> QED BY <2>1, <1>1, <1>2, <1>4, BatchKept
<1> QED BY <1>3, <1>4

\* Every step, and one that changes nothing, keeps the invariant.
LEMMA BatchNextInd == ASSUME BatchInd, [BatchNext]_batchVars PROVE BatchInd'
<1>1. /\ CacheInv
      /\ active_sequence_ids \in Seq(SeqIds) /\ Len(active_sequence_ids) \in Nat
      /\ Len(active_sequence_ids) <= MaxBatch /\ MaxBatch \in Nat
      /\ \A id \in SeqIds : Len(seq_blocks[id]) \in Nat
  BY BatchAssumption DEF BatchInd, BatchTypeOK, BatchCovered, CacheInv, TypeOK
<1>2. ASSUME UNCHANGED vars, batch' = batch,
             active_sequence_ids' \in Seq(SeqIds), Len(active_sequence_ids') <= MaxBatch
      PROVE  BatchInd'
  <2>1. CacheInv' /\ seq_blocks' = seq_blocks
    BY <1>1, <1>2, NextInv DEF vars
  <2> QED BY <2>1, <1>1, <1>2, BatchKept
<1>3. ASSUME NEW id \in SeqIds, add_sequence(id) PROVE BatchInd'
  <2>1. /\ active_sequence_ids' = Append(active_sequence_ids, id)
        /\ Len(active_sequence_ids) < MaxBatch
        /\ UNCHANGED vars /\ batch' = batch
    BY <1>3 DEF add_sequence
  <2>2. active_sequence_ids' \in Seq(SeqIds) /\ Len(active_sequence_ids') <= MaxBatch
    BY <2>1, <1>1
  <2> QED BY <2>1, <2>2, <1>2
<1>4. ASSUME NEW id \in SeqIds, remove_sequence(id) PROVE BatchInd'
  <2>1. PICK k \in 1..Len(active_sequence_ids) :
          active_sequence_ids' = SubSeq(active_sequence_ids, 1, k - 1)
                                   \o SubSeq(active_sequence_ids, k + 1, Len(active_sequence_ids))
    <3>1. PICK k \in DOMAIN active_sequence_ids :
            active_sequence_ids' = SubSeq(active_sequence_ids, 1, k - 1)
                                     \o SubSeq(active_sequence_ids, k + 1, Len(active_sequence_ids))
      BY <1>4, Zenon DEF remove_sequence
    <3>2. k \in 1..Len(active_sequence_ids)
      BY <1>1
    <3> QED BY <3>1, <3>2, Zenon
  <2>2. UNCHANGED vars /\ batch' = batch
    BY <1>4 DEF remove_sequence
  <2>3. active_sequence_ids' \in Seq(SeqIds) /\ Len(active_sequence_ids') <= Len(active_sequence_ids)
    BY <2>1, <1>1, ErasedFromList
  <2>4. Len(active_sequence_ids') <= MaxBatch
    BY <2>3, <1>1
  <2> QED BY <2>2, <2>3, <2>4, <1>2
<1>5. CASE clear
  <2>1. active_sequence_ids' = <<>> /\ UNCHANGED vars /\ batch' = batch
    BY <1>5 DEF clear
  <2>2. active_sequence_ids' \in Seq(SeqIds) /\ Len(active_sequence_ids') <= MaxBatch
    BY <2>1, <1>1
  <2> QED BY <2>1, <2>2, <1>2
<1>6. CASE build_batch
  BY <1>6, BuildInd
<1>7. CASE cache_grows
  BY <1>7, GrowsInd
<1>8. CASE cache_frees
  BY <1>8, FreesInd DEF cache_frees
<1>9. CASE cache_restarts
  <2>1. CacheInv' /\ batch' = NoBatch /\ active_sequence_ids' = active_sequence_ids
    BY <1>1, <1>9, NextInv DEF cache_restarts, Next
  <2> QED BY <2>1, BatchDropped
<1>10. CASE UNCHANGED batchVars
  <2>1. UNCHANGED vars /\ batch' = batch /\ active_sequence_ids' = active_sequence_ids
    BY <1>10 DEF batchVars
  <2> QED BY <2>1, <1>1, <1>2
<1> QED BY <1>3, <1>4, <1>5, <1>6, <1>7, <1>8, <1>9, <1>10 DEF BatchNext

\* The invariant at the start.
LEMMA BatchInitInd == ASSUME BatchInit PROVE BatchInd
<1>1. CacheInv /\ MaxBatch \in Nat /\ MaxBlocks \in Nat
  BY InitInv, BatchAssumption, GeometryAssumption DEF BatchInit
<1>2. /\ active_sequence_ids = <<>>
      /\ batch.sequence_ids = <<>> /\ batch.sequence_lengths = <<>>
      /\ batch.block_tables = <<>> /\ batch.max_blocks_per_sequence = 0
  BY DEF BatchInit, NoBatch
<1> QED BY <1>1, <1>2 DEF BatchInd, BatchTypeOK, BatchCovered, BatchStaysReadable, CacheInv

-----------------------------------------------------------------------------
(* The theorems about PagedAttentionScheduler. *)

\* The inductive invariant, for every sequence of calls of the scheduler and
\* of the cache's owner.
THEOREM BatchInvariant == BatchSpec => []BatchInd
<1>1. BatchInit => BatchInd
  BY BatchInitInd
<1>2. BatchInd /\ [BatchNext]_batchVars => BatchInd'
  BY BatchNextInd
<1> QED BY <1>1, <1>2, PTL DEF BatchSpec

\* build_batch never returns internal_error: its two "cannot happen" branches
\* are dead, whatever the cache's owner did before.
THEOREM BatchNeverInternal == BatchSpec => []BatchInv
<1>1. BatchInd => BatchInv
  BY BuildStatus DEF BatchInd, BatchInv, BuildNeverInternal
<1> QED BY <1>1, BatchInvariant, PTL

\* A batch of which no sequence was freed is still right for every position
\* that it covers, however the cache changed since build_batch flattened the
\* tables.
THEOREM BatchReadable == BatchSpec => []BatchStaysReadable
BY BatchInvariant, PTL DEF BatchInd
=============================================================================
