---------------------------- MODULE PagedDecode -----------------------------
(***************************************************************************)
(* Multi-sequence generation over the paged cache                          *)
(* (examples/generate_paged.cpp): reserve every session's blocks, prefill  *)
(* each session, then decode round-robin through ONE shared executor and   *)
(* RuntimeContext.  A run of the decode graph (CpuExecutor::run) executes  *)
(* RoPE and paged attention once per layer (cpu_kernel_adapter.cpp); the   *)
(* logical position they use is kept in the context between layers, in     *)
(* paged_kv_write_pos_.                                                    *)
(*                                                                         *)
(* A K row is modelled by what attention needs of it: the sequence it was  *)
(* projected for and the position RoPE rotated it by.                      *)
(***************************************************************************)
EXTENDS PagedKVCache

CONSTANTS MaxPrompt,   \* bound: prompt tokens of a session
          MaxNew,      \* max_new_tokens
          ReserveModes \* whether the caller reserves prompt + max_new_tokens up front

NumSeqs   == Cardinality(SeqIds)
NumLayers == Cardinality(Layers)

ASSUME DecodeAssumption ==
    /\ NumSeqs \in Nat \ {0} /\ SeqIds = 0..(NumSeqs - 1)
    /\ NumLayers \in Nat \ {0} /\ Layers = 0..(NumLayers - 1)
    /\ MaxPrompt \in Nat \ {0} /\ MaxNew \in Nat \ {0}
    /\ MaxPrompt + MaxNew <= MaxTokens
    /\ ReserveModes \subseteq BOOLEAN
    /\ SeqIds \X (0..MaxTokens) \subseteq Rows
    /\ ZeroRow \notin SeqIds \X (0..MaxTokens)

VARIABLES prompt,      \* prompt length of each session
          reserved,    \* generate_paged reserves; a caller that does not can run dry
          write_pos,   \* paged_kv_write_pos_ of the shared decode context
          pc,          \* where main() is
          turn,        \* the session of the current loop iteration
          layer,       \* the layer of the current loop or run
          step,        \* decode rounds completed
          generated,   \* number of generated tokens of each session
          positions,   \* seq_positions
          failed,      \* the session's last run returned an error
          done         \* seq_done

driverVars == <<prompt, reserved, pc, turn, layer, step, generated, positions, failed, done>>
decodeVars == <<vars, write_pos, driverVars>>

Row(id, pos) == <<id, pos>>

-----------------------------------------------------------------------------
(* Reservation and prefill. *)

\* Mutant: room for the prompt only.
reserve_session_prompt_only ==
    /\ pc = "reserve"
    /\ reserve_sequence(turn, prompt[turn])
    /\ IF turn + 1 = NumSeqs THEN pc' = "prefill" /\ turn' = 0
                             ELSE pc' = pc /\ turn' = turn + 1
    /\ UNCHANGED <<prompt, reserved, write_pos, layer, step, generated, positions, failed, done>>

reserve_session ==
    /\ pc = "reserve"
    /\ reserve_sequence(turn, prompt[turn] + MaxNew)
    /\ IF turn + 1 = NumSeqs THEN pc' = "prefill" /\ turn' = 0
                             ELSE pc' = pc /\ turn' = turn + 1
    /\ UNCHANGED <<prompt, reserved, write_pos, layer, step, generated, positions, failed, done>>

\* main() returns 1.
reserve_fails ==
    /\ pc = "reserve"
    /\ ~can_reserve(turn, prompt[turn] + MaxNew)
    /\ pc' = "exit"
    /\ UNCHANGED <<vars, prompt, reserved, write_pos, turn, layer, step, generated, positions, failed, done>>

\* The prompt's rows, computed in a contiguous cache with RoPE from position
\* 0, are copied layer by layer.
prefill_layer ==
    /\ pc = "prefill" /\ layer < NumLayers
    /\ write_tokens(turn, layer, 0, [i \in 1..prompt[turn] |-> Row(turn, i - 1)])
    /\ layer' = layer + 1
    /\ UNCHANGED <<prompt, reserved, write_pos, pc, turn, step, generated, positions, failed, done>>

prefill_fails ==
    /\ pc = "prefill" /\ layer < NumLayers
    /\ ~can_reserve(turn, prompt[turn])
    /\ pc' = "exit"
    /\ UNCHANGED <<vars, prompt, reserved, write_pos, turn, layer, step, generated, positions, failed, done>>

\* The length is set and the first token sampled from the prefill's logits.
prefill_end ==
    /\ pc = "prefill" /\ layer = NumLayers
    /\ set_sequence_length(turn, prompt[turn])
    /\ generated' = [generated EXCEPT ![turn] = 1]
    /\ positions' = [positions EXCEPT ![turn] = prompt[turn]]
    /\ layer' = 0
    /\ IF turn + 1 = NumSeqs THEN pc' = "decode" /\ turn' = 0
                             ELSE pc' = pc /\ turn' = turn + 1
    /\ UNCHANGED <<prompt, reserved, write_pos, step, failed, done>>

-----------------------------------------------------------------------------
(* One run of the decode graph for session turn. *)

run_begin ==
    /\ pc = "decode" /\ turn < NumSeqs /\ ~done[turn]
    /\ pc' = "run" /\ layer' = 0
    /\ UNCHANGED <<vars, prompt, reserved, write_pos, turn, step, generated, positions, failed, done>>

\* Mutant: every layer asks the cache for the length again.
logical_pos_from_length == seq_length[turn]

\* kernel_rope and kernel_attention: the position kept in the context, or the
\* sequence length when none is kept.
logical_pos == IF write_pos >= 0 THEN write_pos ELSE seq_length[turn]

\* RoPE and attention of one layer.
run_layer ==
    /\ pc = "run" /\ layer < NumLayers
    /\ write_tokens(turn, layer, logical_pos, << Row(turn, logical_pos) >>)
    /\ write_pos' = logical_pos
    /\ layer' = layer + 1
    /\ UNCHANGED <<prompt, reserved, pc, turn, step, generated, positions, failed, done>>

\* write_tokens finds no free block: the kernel's error ends CpuExecutor::run
\* before advance_kv_cache_step, and the caller gives the session up.
run_fails ==
    /\ pc = "run" /\ layer < NumLayers
    /\ ~can_reserve(turn, logical_pos + 1)
    /\ write_pos' = logical_pos
    /\ failed' = [failed EXCEPT ![turn] = TRUE]
    /\ done' = [done EXCEPT ![turn] = TRUE]
    /\ pc' = "decode" /\ turn' = turn + 1
    /\ UNCHANGED <<vars, prompt, reserved, layer, step, generated, positions>>

\* advance_kv_cache_step of a context that advances no contiguous cache.
advance_kv_cache_step == write_pos' = -1

\* Mutant: > for >= in the test of the token count.
run_end_one_more ==
    /\ pc = "run" /\ layer = NumLayers
    /\ advance_kv_cache_step
    /\ positions' = [positions EXCEPT ![turn] = @ + 1]
    /\ generated' = [generated EXCEPT ![turn] = @ + 1]
    /\ done' = [done EXCEPT ![turn] = generated[turn] + 1 > MaxNew]
    /\ pc' = "decode" /\ turn' = turn + 1
    /\ UNCHANGED <<vars, prompt, reserved, layer, step, failed>>

\* The run succeeded; the sampled token ends the session or is appended.
run_end ==
    /\ pc = "run" /\ layer = NumLayers
    /\ advance_kv_cache_step
    /\ positions' = [positions EXCEPT ![turn] = @ + 1]
    /\ \/ /\ done' = [done EXCEPT ![turn] = TRUE]                  \* eos
          /\ UNCHANGED generated
       \/ /\ generated' = [generated EXCEPT ![turn] = @ + 1]
          /\ done' = [done EXCEPT ![turn] = generated[turn] + 1 >= MaxNew]
    /\ pc' = "decode" /\ turn' = turn + 1
    /\ UNCHANGED <<vars, prompt, reserved, layer, step, failed>>

\* Mutant: a done session is looked at again instead of the next one.
skip_done_stays ==
    /\ pc = "decode" /\ turn < NumSeqs /\ done[turn]
    /\ UNCHANGED decodeVars

skip_done ==
    /\ pc = "decode" /\ turn < NumSeqs /\ done[turn]
    /\ turn' = turn + 1
    /\ UNCHANGED <<vars, prompt, reserved, write_pos, pc, layer, step, generated, positions, failed, done>>

round_end ==
    /\ pc = "decode" /\ turn = NumSeqs
    /\ step' = step + 1
    /\ turn' = 0
    /\ pc' = IF step + 1 < MaxNew /\ \E id \in SeqIds : ~done[id] THEN "decode" ELSE "exit"
    /\ UNCHANGED <<vars, prompt, reserved, write_pos, layer, generated, positions, failed, done>>

-----------------------------------------------------------------------------
DecodeInit ==
    /\ initialized = TRUE
    /\ free_blocks = AllBlocksFree
    /\ block_used = [b \in Blocks |-> FALSE]
    /\ seq_blocks = [id \in SeqIds |-> <<>>]
    /\ seq_length = [id \in SeqIds |-> 0]
    /\ kv = [l \in Layers |-> [b \in Blocks |-> [o \in Offsets |-> ZeroRow]]]
    /\ prompt \in [SeqIds -> 1..MaxPrompt]
    /\ reserved \in ReserveModes
    /\ write_pos = -1
    /\ pc = IF reserved THEN "reserve" ELSE "prefill"
    /\ turn = 0
    /\ layer = 0
    /\ step = 0
    /\ generated = [id \in SeqIds |-> 0]
    /\ positions = [id \in SeqIds |-> 0]
    /\ failed = [id \in SeqIds |-> FALSE]
    /\ done = [id \in SeqIds |-> FALSE]

DecodeNext == \/ reserve_session
              \/ reserve_fails
              \/ prefill_layer
              \/ prefill_fails
              \/ prefill_end
              \/ run_begin
              \/ run_layer
              \/ run_fails
              \/ run_end
              \/ skip_done
              \/ round_end

DecodeSpec == DecodeInit /\ [][DecodeNext]_decodeVars

\* main() keeps running until it returns.
FairDecode == DecodeSpec /\ WF_decodeVars(DecodeNext)

-----------------------------------------------------------------------------
(* Properties. *)

DecodeTypeOK ==
    /\ TypeOK
    /\ prompt \in [SeqIds -> 1..MaxPrompt]
    /\ reserved \in ReserveModes
    /\ write_pos \in -1..MaxTokens
    /\ pc \in {"reserve", "prefill", "decode", "run", "exit"}
    /\ turn \in 0..NumSeqs
    /\ layer \in 0..NumLayers
    /\ step \in Nat
    /\ generated \in [SeqIds -> Nat] /\ positions \in [SeqIds -> Nat]
    /\ failed \in [SeqIds -> BOOLEAN] /\ done \in [SeqIds -> BOOLEAN]

\* How many positions of id must hold their row in layer l by now: in a
\* running or prefilling session the layers already executed are one step
\* ahead of the others.
Filled(id, l) ==
    IF pc = "run" /\ id = turn /\ l < layer THEN positions[id] + 1
    ELSE IF pc = "prefill" /\ id = turn /\ l < layer THEN prompt[id]
    ELSE positions[id]

\* Every layer holds, at every position attention will read, the row of that
\* session rotated for that position: no token is skipped, overwritten,
\* stored twice or stored at a position left over from another session's run
\* (the shared paged_kv_write_pos_).
RowsMatchPositions ==
    \A id \in SeqIds, l \in Layers :
        ~failed[id] => \A p \in 0..(Filled(id, l) - 1) :
            p < sequence_capacity(id) /\ token_row(id, l, p) = Row(id, p)

\* It holds in every round of every session under the reservations of
\* generate_paged, whatever the prompts and whichever sessions end early.
ReservedRowsMatch == reserved => RowsMatchPositions

\* The cache length advances once per generated token, never once per layer
\* (the comment in kernel_attention): between runs it is the position count
\* the example keeps.
AdvancesOncePerToken ==
    reserved /\ pc \in {"decode", "exit"} =>
        \A id \in SeqIds : ~failed[id] /\ positions[id] > 0 => seq_length[id] = positions[id]

\* The state of the example between any two steps: of its type, with every
\* row at its position in every layer, and with the cache's lengths and the
\* example's positions in step.
DecodeInv == DecodeTypeOK /\ ReservedRowsMatch /\ AdvancesOncePerToken

\* Sessions share one pool, one executor and one context, yet no block of a
\* session ever holds a row projected for another one, failed runs included.
RowsNeverCross ==
    \A id \in SeqIds, l \in Layers : \A p \in 0..(sequence_capacity(id) - 1) :
        token_row(id, l, p) \in {ZeroRow} \cup {Row(id, q) : q \in 0..MaxTokens}

\* A session never produces more tokens than the max_tokens argument, except
\* that with max_tokens = 1 it may produce two: the token that prefill samples
\* is counted, but the limit is tested only after a decode run.
TokenBudget == \A id \in SeqIds : generated[id] <= IF MaxNew > 1 THEN MaxNew ELSE 2

\* main() returns.
Terminates == <>(pc = "exit")

\* With the reservations of generate_paged no decode run fails, whatever the
\* prompts and whichever sessions end early: main() gives up before the first
\* prefill or not at all.
NoRunFails == reserved /\ pc = "run" => can_reserve(turn, logical_pos + 1)
=============================================================================
