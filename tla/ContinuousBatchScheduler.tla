---------------------- MODULE ContinuousBatchScheduler ----------------------
(***************************************************************************)
(* The continuous batching scheduler                                       *)
(* (src/runtime/continuous_batch_scheduler.{h,cpp}) on top of the paged KV *)
(* cache, driven by the serving loop that docs/design.md prescribes:       *)
(* admit_waiting, compute (prefill or decode one step of every active      *)
(* sequence), evict_finished, collect_finished, with submit calls between  *)
(* any two of these.                                                       *)
(*                                                                         *)
(* One action per method.  The loops of admit_waiting and evict_finished   *)
(* take one iteration per step; cursor > 0 says that the call is under way *)
(* and nothing else happens in between.  Token ids are abstracted to their *)
(* number; one layer with one row value stands for the K/V contents.       *)
(***************************************************************************)
EXTENDS PagedKVCache

CONSTANTS Requests,        \* <<number of prompt tokens, max_tokens>> of the requests
          MaxBatchSize,    \* config_.max_batch_size
          MaxSubmits,      \* bound: accepted submissions
          CollectFirst     \* the caller collects before it evicts

ASSUME SchedulerAssumption ==
    /\ SeqIds \subseteq Nat
    /\ Requests \subseteq (Nat \ {0}) \X (Nat \ {0})
    /\ \A r \in Requests : r[1] + r[2] <= MaxTokens
    /\ MaxBatchSize \in Nat \ {0}
    /\ MaxSubmits \in Nat
    /\ CollectFirst \in BOOLEAN
    /\ Layers # {}                  \* PagedKVCache::init wants num_layers > 0

VARIABLES states,             \* states_: the request in each slot
          waiting_queue,      \* waiting_queue_
          active_ids,         \* active_ids_
          next_sequence_id,   \* next_sequence_id_
          pc,                 \* the call of the serving loop that comes next or is under way
          cursor,             \* 0 between calls, else the position of the loop in the call
          submits             \* number of accepted submissions

cacheVars == vars
schedVars == <<states, waiting_queue, active_ids, next_sequence_id, pc, cursor, submits>>
allVars   == <<vars, schedVars>>

Phases == {"Waiting", "Prefilling", "Decoding", "Finished"}

\* A default-constructed SeqState; live stands for sequence_id >= 0.
NoRequest == [live |-> FALSE, phase |-> "Waiting", prompt |-> 0, generated |-> 0,
              max_tokens |-> 0, prefilled |-> 0]

\* Clients and the caller make other calls between two calls of the loop, and
\* between two steps of the compute phase.
Between == cursor = 0 \/ pc = "compute"

-----------------------------------------------------------------------------
(* submit. *)

\* The slot is taken, the request queued.  next is the new next_sequence_id_.
accept(id, r, next) ==
    /\ states' = [states EXCEPT ![id] = [live |-> TRUE, phase |-> "Waiting", prompt |-> r[1],
                                         generated |-> 0, max_tokens |-> r[2], prefilled |-> 0]]
    /\ waiting_queue' = Append(waiting_queue, id)
    /\ next_sequence_id' = next
    /\ submits' = submits + 1
    /\ UNCHANGED <<active_ids, pc, cursor, cacheVars>>

\* Mutant: next_sequence_id_ is not moved past the id.
submit_explicit_no_bump(id, r) ==
    /\ Between /\ submits < MaxSubmits
    /\ ~states[id].live
    /\ accept(id, r, next_sequence_id)

\* Mutant: a slot in use is overwritten.
submit_explicit_any_slot(id, r) ==
    /\ Between /\ submits < MaxSubmits
    /\ accept(id, r, IF id >= next_sequence_id THEN id + 1 ELSE next_sequence_id)

\* With sequence_id >= 0.  A slot in use is refused and nothing changes: its
\* id is below next_sequence_id_ already.
submit_explicit(id, r) ==
    /\ Between /\ submits < MaxSubmits
    /\ ~states[id].live
    /\ accept(id, r, IF id >= next_sequence_id THEN id + 1 ELSE next_sequence_id)

\* With sequence_id = -1.  Were the slot in use, the id would be consumed.
submit_auto(r) ==
    /\ Between /\ submits < MaxSubmits
    /\ next_sequence_id \in SeqIds
    /\ IF states[next_sequence_id].live
       THEN /\ next_sequence_id' = next_sequence_id + 1
            /\ UNCHANGED <<states, waiting_queue, active_ids, pc, cursor, submits, cacheVars>>
       ELSE accept(next_sequence_id, r, next_sequence_id + 1)

-----------------------------------------------------------------------------
(* admit_waiting. *)

total_tokens(id) == states[id].prompt + states[id].max_tokens

\* The loop condition, the batch-size break and the break on a failed
\* reservation.
admits_head == /\ waiting_queue # <<>>
               /\ Len(active_ids) < MaxBatchSize
               /\ can_reserve(Head(waiting_queue), total_tokens(Head(waiting_queue)))

\* Mutant: the head stays queued.
admit_head_no_pop ==
    LET id == Head(waiting_queue)
    IN /\ pc = "admit" /\ admits_head
       /\ reserve_sequence(id, total_tokens(id))
       /\ states' = [states EXCEPT ![id].phase = "Prefilling"]
       /\ active_ids' = Append(active_ids, id)
       /\ cursor' = 1
       /\ UNCHANGED <<waiting_queue, next_sequence_id, pc, submits>>

\* Mutant: room for the prompt only.
admit_head_prompt_only ==
    LET id == Head(waiting_queue)
    IN /\ pc = "admit" /\ admits_head
       /\ reserve_sequence(id, states[id].prompt)
       /\ states' = [states EXCEPT ![id].phase = "Prefilling"]
       /\ active_ids' = Append(active_ids, id)
       /\ waiting_queue' = Tail(waiting_queue)
       /\ cursor' = 1
       /\ UNCHANGED <<next_sequence_id, pc, submits>>

admit_head ==
    LET id == Head(waiting_queue)
    IN /\ pc = "admit" /\ admits_head
       /\ reserve_sequence(id, total_tokens(id))
       /\ states' = [states EXCEPT ![id].phase = "Prefilling"]
       /\ active_ids' = Append(active_ids, id)
       /\ waiting_queue' = Tail(waiting_queue)
       /\ cursor' = 1
       /\ UNCHANGED <<next_sequence_id, pc, submits>>

\* Mutant: the head that could not be admitted is dropped.
admit_return_drops_head ==
    /\ pc = "admit" /\ ~admits_head
    /\ pc' = "compute" /\ cursor' = 0
    /\ waiting_queue' = IF waiting_queue = <<>> THEN <<>> ELSE Tail(waiting_queue)
    /\ UNCHANGED <<states, active_ids, next_sequence_id, submits, cacheVars>>

admit_return ==
    /\ pc = "admit" /\ ~admits_head
    /\ pc' = "compute" /\ cursor' = 0
    /\ UNCHANGED <<states, waiting_queue, active_ids, next_sequence_id, submits, cacheVars>>

-----------------------------------------------------------------------------
(* The caller's compute phase and the mark_ methods. *)

mark_prefill_progress(id, n) ==
    states' = [states EXCEPT ![id].prefilled = n,
                             ![id].phase = IF n >= states[id].prompt THEN "Decoding" ELSE @]

mark_token_generated(id) ==
    states' = [states EXCEPT ![id].generated = @ + 1,
                             ![id].phase = IF states[id].generated + 1 >= states[id].max_tokens
                                           THEN "Finished" ELSE @]

mark_finished(id) == states' = [states EXCEPT ![id].phase = "Finished"]

\* The caller stores the K/V rows of n tokens from position start on.
store_tokens(id, start, n) ==
    write_tokens(id, CHOOSE l \in Layers : TRUE, start, [i \in 1..n |-> ZeroRow])

\* The caller prefills the prompt up to n tokens, in chunks of any size.
prefill(id) ==
    /\ states[id].phase = "Prefilling"
    /\ \E n \in (states[id].prefilled + 1)..states[id].prompt :
         /\ store_tokens(id, states[id].prefilled, n - states[id].prefilled)
         /\ mark_prefill_progress(id, n)

\* The caller samples a token.  The first one comes from the prefill; later
\* ones from a decode step that first stores the K/V of the previous token.
decode(id) ==
    /\ states[id].phase = "Decoding"
    /\ IF states[id].generated = 0 THEN UNCHANGED cacheVars
                                   ELSE store_tokens(id, seq_length[id], 1)
    /\ mark_token_generated(id)

\* The sampled token is an end-of-sequence token.
eos(id) ==
    /\ states[id].phase = "Decoding"
    /\ IF states[id].generated = 0 THEN UNCHANGED cacheVars
                                   ELSE store_tokens(id, seq_length[id], 1)
    /\ mark_finished(id)

\* The next active sequence gets its step.
compute ==
    LET id == active_ids[cursor + 1]
    IN /\ pc = "compute" /\ cursor < Len(active_ids)
       /\ \/ prefill(id)
          \/ decode(id)
          \/ eos(id)
       /\ cursor' = cursor + 1
       /\ UNCHANGED <<waiting_queue, active_ids, next_sequence_id, pc, submits>>

compute_return ==
    /\ pc = "compute" /\ cursor >= Len(active_ids)
    /\ pc' = IF CollectFirst THEN "collect" ELSE "evict"
    /\ cursor' = 0
    /\ UNCHANGED <<states, waiting_queue, active_ids, next_sequence_id, submits, cacheVars>>

\* The caller gives a request up before it was admitted.
cancel(id) ==
    /\ Between
    /\ states[id].live /\ states[id].phase = "Waiting"
    /\ mark_finished(id)
    /\ UNCHANGED <<waiting_queue, active_ids, next_sequence_id, pc, cursor, submits, cacheVars>>

-----------------------------------------------------------------------------
(* evict_finished and collect_finished. *)

RemoveIndex(s, i) == SubSeq(s, 1, i - 1) \o SubSeq(s, i + 1, Len(s))

\* Mutant: the blocks are not given back.
evict_finished_keeps_blocks ==
    LET id == active_ids[cursor + 1]
    IN /\ pc = "evict" /\ cursor < Len(active_ids)
       /\ IF states[id].phase = "Finished"
          THEN /\ active_ids' = RemoveIndex(active_ids, cursor + 1)
               /\ UNCHANGED cursor
          ELSE /\ cursor' = cursor + 1
               /\ UNCHANGED active_ids
       /\ UNCHANGED <<states, waiting_queue, next_sequence_id, pc, submits, cacheVars>>

\* Mutant: the loop advances after it erased an element.
evict_finished_skips ==
    LET id == active_ids[cursor + 1]
    IN /\ pc = "evict" /\ cursor < Len(active_ids)
       /\ IF states[id].phase = "Finished"
          THEN /\ free_sequence(id)
               /\ active_ids' = RemoveIndex(active_ids, cursor + 1)
               /\ cursor' = cursor + 1
          ELSE /\ cursor' = cursor + 1
               /\ UNCHANGED <<active_ids, cacheVars>>
       /\ UNCHANGED <<states, waiting_queue, next_sequence_id, pc, submits>>

evict_finished ==
    LET id == active_ids[cursor + 1]
    IN /\ pc = "evict" /\ cursor < Len(active_ids)
       /\ IF states[id].phase = "Finished"
          THEN /\ free_sequence(id)
               /\ active_ids' = RemoveIndex(active_ids, cursor + 1)
               /\ UNCHANGED cursor
          ELSE /\ cursor' = cursor + 1
               /\ UNCHANGED <<active_ids, cacheVars>>
       /\ UNCHANGED <<states, waiting_queue, next_sequence_id, pc, submits>>

evict_return ==
    /\ pc = "evict" /\ cursor >= Len(active_ids)
    /\ pc' = IF CollectFirst THEN "admit" ELSE "collect"
    /\ cursor' = 0
    /\ UNCHANGED <<states, waiting_queue, active_ids, next_sequence_id, submits, cacheVars>>

\* Every finished request is output and its slot given back; the phase stays.
collect_finished ==
    /\ pc = "collect"
    /\ states' = [id \in SeqIds |->
                    IF states[id].phase = "Finished" /\ states[id].live
                    THEN [states[id] EXCEPT !.live = FALSE] ELSE states[id]]
    /\ pc' = IF CollectFirst THEN "evict" ELSE "admit"
    /\ UNCHANGED <<waiting_queue, active_ids, next_sequence_id, cursor, submits, cacheVars>>

-----------------------------------------------------------------------------
\* The scheduler is built on an initialized, empty cache.
SchedInit == /\ initialized = TRUE
             /\ free_blocks = AllBlocksFree
             /\ block_used = [b \in Blocks |-> FALSE]
             /\ seq_blocks = [id \in SeqIds |-> <<>>]
             /\ seq_length = [id \in SeqIds |-> 0]
             /\ kv = [l \in Layers |-> [b \in Blocks |-> [o \in Offsets |-> ZeroRow]]]
             /\ states = [id \in SeqIds |-> NoRequest]
             /\ waiting_queue = <<>>
             /\ active_ids = <<>>
             /\ next_sequence_id = 0
             /\ pc = "admit"
             /\ cursor = 0
             /\ submits = 0

\* The serving loop.
Loop == \/ admit_head
        \/ admit_return
        \/ compute
        \/ compute_return
        \/ evict_finished
        \/ evict_return
        \/ collect_finished

\* The clients.
Client == \E r \in Requests : \/ submit_auto(r)
                              \/ \E id \in SeqIds : submit_explicit(id, r)

SchedNext == Loop \/ Client

SchedSpec == SchedInit /\ [][SchedNext]_allVars

\* The same with callers that also give waiting requests up.
CancelSpec == SchedInit /\ [][SchedNext \/ \E id \in SeqIds : cancel(id)]_allVars

\* The caller keeps running its serving loop; clients owe nothing.
FairSched == SchedSpec /\ WF_allVars(Loop)

-----------------------------------------------------------------------------
(* Properties. *)

InSeq(id, s) == \E i \in DOMAIN s : s[i] = id

SchedTypeOK ==
    /\ TypeOK
    /\ states \in [SeqIds -> [live : BOOLEAN, phase : Phases, prompt : Nat, generated : Nat,
                              max_tokens : Nat, prefilled : Nat]]
    /\ waiting_queue \in Seq(SeqIds)
    /\ active_ids \in Seq(SeqIds)
    /\ next_sequence_id \in Nat
    /\ pc \in {"admit", "compute", "evict", "collect"}
    /\ cursor \in Nat
    /\ submits \in Nat

\* A slot and the two lists agree at every point of every call: a live
\* waiting request is queued exactly once, a live admitted one is active
\* exactly once, and no id is listed twice or in both lists (submit,
\* admit_waiting, evict_finished).
QueuesAgree ==
    /\ Injective(waiting_queue) /\ Injective(active_ids)
    /\ \A id \in SeqIds :
         /\ InSeq(id, waiting_queue) <=> states[id].live /\ states[id].phase = "Waiting"
         /\ InSeq(id, active_ids) => states[id].live /\ states[id].phase # "Waiting"
         /\ states[id].phase \in {"Prefilling", "Decoding"} => InSeq(id, active_ids)

\* The state every call of the scheduler finds and leaves: of its type, and
\* with the slots and the two lists in agreement.
SchedInv == SchedTypeOK /\ QueuesAgree

\* Auto-assigned ids never collide with ids that clients chose: a slot in use
\* is always below next_sequence_id_ (submit).
AutoIdsFresh == \A id \in SeqIds : states[id].live => id < next_sequence_id

\* Only active sequences hold KV blocks: a request that left the batch left
\* none behind, so after the last one the whole pool is free again
\* (evict_finished, "Finished ... blocks returned to free list").
OnlyActiveHoldBlocks == \A id \in SeqIds : has_sequence(id) => InSeq(id, active_ids)

\* An admitted sequence holds room for its whole prompt and all its output
\* tokens, so no decode step of any active sequence runs out of blocks,
\* whatever the others do (admit_waiting reserves prompt + max_tokens).
RoomToFinish ==
    \A id \in SeqIds : InSeq(id, active_ids) => total_tokens(id) <= sequence_capacity(id)

\* The cached length of an active sequence counts exactly the tokens of its
\* own request that were processed: attention over 0 .. length - 1 never
\* includes rows of an earlier request that used the same id.
AttendsOwnTokens ==
    \A id \in SeqIds :
        InSeq(id, active_ids) =>
            /\ states[id].phase = "Prefilling" => seq_length[id] = states[id].prefilled
            /\ states[id].phase = "Decoding" =>
                 seq_length[id] = states[id].prompt
                                    + (IF states[id].generated = 0 THEN 0 ELSE states[id].generated - 1)

\* The life cycle: a slot's phase moves forward one stage at a time, and goes
\* back to Waiting only when a new request takes a slot that was given back.
LifeCycle ==
    [][\A id \in SeqIds : states'[id].phase # states[id].phase =>
         \/ states[id].phase = "Waiting" /\ states'[id].phase = "Prefilling"
         \/ states[id].phase = "Prefilling" /\ states'[id].phase = "Decoding"
         \/ states[id].phase = "Decoding" /\ states'[id].phase = "Finished"
         \/ ~states[id].live /\ states'[id].phase = "Waiting"]_allVars

\* Finished is the last phase: a request that reached it, for whatever reason,
\* never gets KV blocks again.
FinishedIsFinal ==
    [][\A id \in SeqIds :
         states[id].phase = "Finished" => states'[id].phase \in {"Finished", "Waiting"}]_allVars

\* An id is accepted only when nothing of an earlier request with that id is
\* left: not queued, not active, no blocks, no cached length.
AcceptsOnlyUnusedIds ==
    [][\A id \in SeqIds : ~states[id].live /\ states'[id].live =>
         /\ ~InSeq(id, waiting_queue) /\ ~InSeq(id, active_ids)
         /\ ~has_sequence(id)]_allVars

\* Every accepted request is eventually output, when each request fits in the
\* pool: no order of submissions, admissions and evictions starves one.
Served == \A id \in SeqIds : states[id].live ~> ~states[id].live
=============================================================================
