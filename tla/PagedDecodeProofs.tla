-------------------------- MODULE PagedDecodeProofs --------------------------
(***************************************************************************)
(* Proofs about PagedDecode, for any number of sessions and layers, any    *)
(* prompts, token limit and pool: no session's token budget is exceeded,   *)
(* no row crosses from one session to another, failed runs included, and   *)
(* under the reservations of generate_paged no run fails and every row is  *)
(* at its position in every layer.                                         *)
(***************************************************************************)
EXTENDS PagedDecode, PagedKVCacheProofs

-----------------------------------------------------------------------------
(* The inductive invariant. *)

\* Where main() is, and what has not happened by then.
ControlInd ==
    /\ initialized
    /\ pc \in {"reserve", "prefill", "run"} => turn < NumSeqs
    /\ pc = "run" => ~done[turn] /\ (layer > 0 => write_pos >= 0)
    /\ pc # "exit" => step < MaxNew
    /\ pc \in {"reserve", "prefill"} => /\ step = 0 /\ write_pos = -1
                                        /\ \A id \in SeqIds : ~failed[id] /\ ~done[id]
    /\ pc = "reserve" => layer = 0

\* A session that may go on has used up no more than its limit less one.
TokensInd ==
    /\ TokenBudget
    /\ \A id \in SeqIds : ~done[id] => generated[id] <= 1 \/ generated[id] < MaxNew

\* The decode rounds in which id has had its run, and those in which it has
\* written a row.
RunsHad(id) == IF pc \in {"decode", "run"} /\ id < turn THEN step + 1 ELSE step
RowsWritten(id) == IF pc = "run" /\ id = turn /\ layer > 0 THEN step + 1 ELSE RunsHad(id)

\* No session is longer than its rounds allow, though a position left over
\* from another session's failed run may make it longer than its own tokens.
LengthInd ==
    /\ \A id \in SeqIds : seq_length[id] <= MaxPrompt + RowsWritten(id)
    /\ write_pos <= MaxPrompt + step

\* The rows that a block of id may hold.
SessionRows(id) == {ZeroRow} \cup {Row(id, q) : q \in 0..MaxTokens}

\* A block that nobody owns has never been written.
BlockRows ==
    \A l \in Layers, b \in Blocks, o \in Offsets :
        /\ IsFree(b) => kv[l][b][o] = ZeroRow
        /\ \A id \in SeqIds : Owns(id, b) => kv[l][b][o] \in SessionRows(id)

\* What a reservation of the whole budget makes room for.
RoomInd ==
    /\ pc = "reserve" => \A id \in SeqIds : id < turn => prompt[id] + MaxNew <= sequence_capacity(id)
    /\ pc \in {"prefill", "decode", "run"} =>
         \A id \in SeqIds : prompt[id] + MaxNew <= sequence_capacity(id)

\* The lengths of the cache, the positions of the example and the position
\* kept in the context.
StepInd ==
    /\ pc = "reserve" => \A id \in SeqIds : positions[id] = 0 /\ seq_length[id] = 0
    /\ pc = "prefill" =>
         \A id \in SeqIds : /\ positions[id] = IF id < turn THEN prompt[id] ELSE 0
                            /\ id # turn => seq_length[id] = positions[id]
    /\ pc \in {"decode", "run"} =>
         \A id \in SeqIds :
            /\ prompt[id] <= positions[id] /\ positions[id] <= prompt[id] + RunsHad(id)
            /\ seq_length[id] = positions[id] + (IF pc = "run" /\ id = turn /\ layer > 0 THEN 1 ELSE 0)
    /\ pc = "exit" => \A id \in SeqIds : positions[id] > 0 => seq_length[id] = positions[id]
    /\ write_pos = IF pc = "run" /\ layer > 0 THEN positions[turn] ELSE -1

\* What holds when every session's budget was reserved first.
ReservedInd ==
    reserved => /\ \A id \in SeqIds : ~failed[id]
                /\ RoomInd
                /\ StepInd
                /\ RowsMatchPositions

\* The example between any two steps.
DecodeInd ==
    /\ CacheInv
    /\ DecodeTypeOK
    /\ ControlInd
    /\ TokensInd
    /\ LengthInd
    /\ BlockRows
    /\ ReservedInd
-----------------------------------------------------------------------------
(* Lemmas. *)

\* What the constants are.
LEMMA DecodeSizes ==
  /\ NumSeqs \in Nat \ {0} /\ \A id : id \in SeqIds <=> id \in Nat /\ id < NumSeqs
  /\ NumLayers \in Nat \ {0} /\ \A l : l \in Layers <=> l \in Nat /\ l < NumLayers
  /\ MaxPrompt \in Nat \ {0} /\ MaxNew \in Nat \ {0} /\ MaxTokens \in Nat
  /\ MaxPrompt + MaxNew <= MaxTokens
<1>1. /\ NumSeqs \in Nat \ {0} /\ SeqIds = 0..(NumSeqs - 1)
      /\ NumLayers \in Nat \ {0} /\ Layers = 0..(NumLayers - 1)
      /\ MaxPrompt \in Nat \ {0} /\ MaxNew \in Nat \ {0} /\ MaxTokens \in Nat
      /\ MaxPrompt + MaxNew <= MaxTokens
  BY DecodeAssumption, NoOverflowAssumption
<1> QED BY <1>1

\* The rows of a session are rows.
LEMMA RowTypes ==
  ASSUME NEW id \in SeqIds, NEW q \in 0..MaxTokens
  PROVE  Row(id, q) \in Rows /\ Row(id, q) \in SessionRows(id)
BY DecodeAssumption DEF Row, SessionRows

\* A call that extends the table of id takes the new blocks from the free
\* list.
LEMMA TakenBlocks ==
  ASSUME CacheInv, CacheInv', initialized, NEW id \in SeqIds, NEW n \in Nat, TableExtended(id, n),
         NEW b \in Blocks
  PROVE  /\ IsFree(b)' => IsFree(b)
         /\ \A o \in SeqIds : Owns(o, b)' => Owns(o, b) \/ (o = id /\ IsFree(b))
<1>1. ASSUME NEW o \in SeqIds, Owns(o, b) PROVE Owns(o, b)'
  <2>1. seq_blocks[o] \in Seq(Blocks) /\ seq_blocks'[o] \in Seq(Blocks)
    BY DEF CacheInv, TypeOK
  <2>2. PICK i \in 1..Len(seq_blocks[o]) : seq_blocks[o][i] = b
    BY <1>1, <2>1 DEF Owns
  <2>3. Len(seq_blocks[o]) <= Len(seq_blocks'[o]) /\ seq_blocks'[o][i] = b
    BY <2>1, <2>2 DEF TableExtended
  <2>4. i \in DOMAIN seq_blocks'[o]
    BY <2>1, <2>2, <2>3
  <2> QED BY <2>3, <2>4 DEF Owns
<1>2. IsFree(b) \/ \E o \in SeqIds : Owns(o, b)
  BY DEF CacheInv, NoBlockLost
<1>3. \A o, o2 \in SeqIds : Owns(o, b)' /\ Owns(o2, b)' => o = o2
  BY DEF CacheInv, NoBlockShared
<1>4. \A o \in SeqIds : Owns(o, b)' => ~IsFree(b)'
  BY DEF CacheInv, NoBlockShared
<1>5. \A o \in SeqIds \ {id} : Owns(o, b)' <=> Owns(o, b)
  BY DEF TableExtended, Owns
<1> QED BY <1>1, <1>2, <1>3, <1>4, <1>5

\* Taking blocks leaves no session with another one's rows.
LEMMA BlocksTaken ==
  ASSUME CacheInv, CacheInv', initialized, BlockRows, NEW id \in SeqIds, NEW n \in Nat,
         TableExtended(id, n), kv' = kv
  PROVE  BlockRows'
<1> SUFFICES ASSUME NEW l \in Layers, NEW b \in Blocks, NEW o \in Offsets
             PROVE  /\ IsFree(b)' => kv[l][b][o] = ZeroRow
                    /\ \A s \in SeqIds : Owns(s, b)' => kv[l][b][o] \in SessionRows(s)
  BY DEF BlockRows, SessionRows
<1>1. /\ IsFree(b)' => IsFree(b)
      /\ \A s \in SeqIds : Owns(s, b)' => Owns(s, b) \/ (s = id /\ IsFree(b))
  BY TakenBlocks
<1>2. \A s \in SeqIds : ZeroRow \in SessionRows(s)
  BY DEF SessionRows
<1> QED BY <1>1, <1>2 DEF BlockRows

\* Nor does writing its own rows.
LEMMA BlocksWritten ==
  ASSUME CacheInv, initialized, BlockRows, NEW id \in SeqIds, NEW l \in Layers, NEW start \in Nat,
         NEW vals \in Seq(Rows), \A t \in 1..Len(vals) : vals[t] \in SessionRows(id),
         write_tokens(id, l, start, vals)
  PROVE  BlockRows'
<1> DEFINE bs == seq_blocks'[id]
           res == copy_rows(kv[l], bs, start, vals)
<1>1. PICK n \in Nat : n = start + Len(vals)
  OBVIOUS
<1>2. CacheInv' /\ TableExtended(id, n)
  BY <1>1, WriteEffect
<1>3. /\ can_reserve(id, n) /\ allocate(id, to_allocate(id, n))
      /\ kv' = [kv EXCEPT ![l] = res]
  BY <1>1 DEF write_tokens
<1>4. bs \in Seq(Blocks) /\ Injective(bs) /\ n <= Len(bs) * BlockSize
  BY <1>3, RoomAfterAllocate
<1>5. kv \in [Layers -> [Blocks -> [Offsets -> Rows]]]
  BY DEF CacheInv, TypeOK
<1>6. /\ \A t \in 1..Len(vals) :
            res[physical_block(bs, start + t - 1)][offset_in_block(start + t - 1)] = vals[t]
      /\ \A b \in Blocks, o \in Offsets :
            (\A t \in 1..Len(vals) : ~(/\ physical_block(bs, start + t - 1) = b
                                       /\ offset_in_block(start + t - 1) = o))
              => res[b][o] = kv[l][b][o]
  <2>1. start + Len(vals) <= Len(bs) * BlockSize /\ kv[l] \in [Blocks -> [Offsets -> Rows]]
    BY <1>1, <1>4, <1>5
  <2> HIDE DEF bs
  <2> QED BY <2>1, <1>4, CopyRowsEffect, ZenonT(40)
<1> HIDE DEF res
<1>7. kv'[l] = res /\ \A l2 \in Layers : l2 # l => kv'[l2] = kv[l2]
  BY <1>3, <1>5
<1> SUFFICES ASSUME NEW l2 \in Layers, NEW b \in Blocks, NEW o \in Offsets
             PROVE  /\ IsFree(b)' => kv'[l2][b][o] = ZeroRow
                    /\ \A s \in SeqIds : Owns(s, b)' => kv'[l2][b][o] \in SessionRows(s)
  BY DEF BlockRows, SessionRows
<1>8. /\ IsFree(b)' => IsFree(b)
      /\ \A s \in SeqIds : Owns(s, b)' => Owns(s, b) \/ (s = id /\ IsFree(b))
  BY <1>2, TakenBlocks
<1>9. CASE kv'[l2][b][o] = kv[l2][b][o]
  <2>1. \A s \in SeqIds : ZeroRow \in SessionRows(s)
    BY DEF SessionRows
  <2> QED BY <1>8, <1>9, <2>1 DEF BlockRows
<1>10. CASE kv'[l2][b][o] # kv[l2][b][o]
  <2>1. l2 = l /\ res[b][o] # kv[l][b][o]
    BY <1>7, <1>10
  <2>2. PICK t \in 1..Len(vals) : /\ physical_block(bs, start + t - 1) = b
                                  /\ offset_in_block(start + t - 1) = o
    BY <2>1, <1>6
  <2>3. kv'[l2][b][o] = vals[t]
    BY <2>1, <2>2, <1>6, <1>7
  <2>4. Owns(id, b)'
    <3>1. PICK p \in Nat : p = start + t - 1
      BY <1>1
    <3>2. p \in 0..(Len(bs) * BlockSize - 1) /\ Len(bs) \in Nat
      <4>1. Len(bs) \in Nat /\ Len(vals) \in Nat
        BY <1>4
      <4>2. Len(bs) * BlockSize \in Nat
        BY <4>1, TimesBlockSize
      <4> QED BY <3>1, <4>1, <4>2, <1>1, <1>4
    <3>3. (p \div BlockSize) + 1 \in 1..Len(bs)
      BY <3>2, PositionInTable
    <3>4. bs[(p \div BlockSize) + 1] = b
      BY <3>1, <2>2 DEF physical_block
    <3> HIDE DEF bs
    <3>5. DOMAIN bs = 1..Len(bs)
      BY <1>4
    <3> QED BY <3>3, <3>4, <3>5 DEF Owns, bs
  <2>5. ~IsFree(b)' /\ \A s \in SeqIds : Owns(s, b)' => s = id
    BY <2>4, <1>2 DEF CacheInv, NoBlockShared
  <2> QED BY <2>3, <2>5
<1> QED BY <1>9, <1>10

\* Extending a table loses no room.
LEMMA RoomKept ==
  ASSUME CacheInv, CacheInv', NEW id \in SeqIds, NEW n \in Nat, TableExtended(id, n), NEW o \in SeqIds
  PROVE  /\ sequence_capacity(o) \in Nat /\ sequence_capacity(o)' \in Nat
         /\ sequence_capacity(o) <= sequence_capacity(o)'
<1>1. Len(seq_blocks[o]) \in Nat /\ Len(seq_blocks'[o]) \in Nat
  BY DEF CacheInv, TypeOK
<1>2. Len(seq_blocks[o]) <= Len(seq_blocks'[o])
  BY <1>1 DEF TableExtended
<1>3. /\ Len(seq_blocks[o]) * BlockSize \in Nat /\ Len(seq_blocks'[o]) * BlockSize \in Nat
      /\ Len(seq_blocks[o]) * BlockSize <= Len(seq_blocks'[o]) * BlockSize
  BY <1>1, <1>2, TimesBlockSize
<1> QED BY <1>3 DEF sequence_capacity

\* Nor does it move a row.
LEMMA RowKept ==
  ASSUME CacheInv, CacheInv', NEW id \in SeqIds, NEW n \in Nat, TableExtended(id, n), kv' = kv,
         NEW o \in SeqIds, NEW l \in Layers, NEW p \in Nat, p < sequence_capacity(o)
  PROVE  p < sequence_capacity(o)' /\ row_after(o, l, p) = token_row(o, l, p)
<1>1. /\ sequence_capacity(o) \in Nat /\ sequence_capacity(o)' \in Nat
      /\ sequence_capacity(o) <= sequence_capacity(o)'
  BY RoomKept
<1>2. /\ Len(seq_blocks[o]) \in Nat /\ Len(seq_blocks[o]) <= Len(seq_blocks'[o])
      /\ \A i \in 1..Len(seq_blocks[o]) : seq_blocks'[o][i] = seq_blocks[o][i]
  <2>1. Len(seq_blocks[o]) \in Nat
    BY DEF CacheInv, TypeOK
  <2>2. CASE o = id
    BY <2>1, <2>2 DEF TableExtended
  <2>3. CASE o # id
    BY <2>1, <2>3 DEF TableExtended
  <2> QED BY <2>2, <2>3
<1>3. p \in 0..(sequence_capacity(o) - 1)
  BY <1>1
<1> QED BY <1>1, <1>2, <1>3, RowsStay

\* What a write of rows does to all rows.
LEMMA WrittenRows ==
  ASSUME CacheInv, NEW id \in SeqIds, NEW l \in Layers, NEW start \in Nat,
         NEW vals \in Seq(Rows), write_tokens(id, l, start, vals)
  PROVE  RunCopied(id, l, start, vals)
<1>1. Len(vals) \in Nat /\ Len(vals) <= Len(vals)
  OBVIOUS
<1>2. /\ can_reserve(id, start + Len(vals)) /\ allocate(id, to_allocate(id, start + Len(vals)))
      /\ kv' = [kv EXCEPT ![l] = copy_rows(@, seq_blocks'[id], start, vals)]
  BY DEF write_tokens
<1> QED BY <1>1, <1>2, RunEffect
\* While the cache stays as it is, so do its invariant and its rows.
LEMMA CacheUnchanged ==
  ASSUME CacheInv, BlockRows, UNCHANGED vars
  PROVE  /\ CacheInv' /\ BlockRows'
         /\ UNCHANGED <<initialized, free_blocks, block_used, seq_blocks, seq_length, kv>>
         /\ \A id \in SeqIds : sequence_capacity(id)' = sequence_capacity(id)
<1>1. UNCHANGED <<initialized, free_blocks, block_used, seq_blocks, seq_length, kv>>
  BY DEF vars
<1>2. CacheInv'
  BY NextInv
<1>3. BlockRows'
  BY <1>1 DEF BlockRows, IsFree, Owns, SessionRows
<1> QED BY <1>1, <1>2, <1>3 DEF sequence_capacity

\* So does their match with the positions, of which no more are claimed.
LEMMA MatchUnchanged ==
  ASSUME CacheInv, BlockRows, DecodeTypeOK, RowsMatchPositions, UNCHANGED vars,
         \A id \in SeqIds : ~failed'[id] => ~failed[id],
         \A id \in SeqIds, l \in Layers : Filled(id, l)' \in Nat /\ Filled(id, l)' <= Filled(id, l)
  PROVE  RowsMatchPositions'
<1> SUFFICES ASSUME NEW id \in SeqIds, NEW l \in Layers, ~failed'[id], NEW p \in 0..(Filled(id, l)' - 1)
             PROVE  p < sequence_capacity(id)' /\ token_row(id, l, p)' = Row(id, p)
  BY DEF RowsMatchPositions, Row
<1>1. Filled(id, l) \in Nat
  BY DEF Filled, DecodeTypeOK
<1>2. p \in 0..(Filled(id, l) - 1)
  BY <1>1
<1>3. p < sequence_capacity(id) /\ token_row(id, l, p) = Row(id, p)
  BY <1>2 DEF RowsMatchPositions
<1> QED BY <1>3, CacheUnchanged DEF token_row

\* The cache that the example initialised.
LEMMA DecodeInitInd == ASSUME DecodeInit PROVE DecodeInd
<1>1. CacheInv
  <2>1. EmptyPool
    <3>1. \A b \in Blocks : IsFree(b)
      BY AllBlocksFreeFacts DEF DecodeInit, IsFree
    <3> QED BY <3>1, AllBlocksFreeFacts, RowsAssumption DEF DecodeInit, EmptyPool
  <2> QED BY <2>1, EmptyPoolInv
<1>2. DecodeTypeOK
  <2>1. TypeOK
    BY <1>1 DEF CacheInv
  <2>2. write_pos \in -1..MaxTokens /\ turn \in 0..NumSeqs /\ layer \in 0..NumLayers /\ step \in Nat
    BY DecodeSizes DEF DecodeInit
  <2> QED BY <2>1, <2>2 DEF DecodeInit, DecodeTypeOK
<1>3. ControlInd
  BY DecodeSizes DEF DecodeInit, ControlInd
<1>4. TokensInd
  BY DecodeSizes DEF DecodeInit, TokensInd, TokenBudget
<1>5. LengthInd
  BY DecodeSizes DEF DecodeInit, LengthInd, RowsWritten, RunsHad
<1>6. BlockRows
  <2>1. \A l \in Layers, b \in Blocks, o \in Offsets : kv[l][b][o] = ZeroRow
    BY DEF DecodeInit
  <2> QED BY <2>1 DEF BlockRows, SessionRows
<1>7. ReservedInd
  <2> SUFFICES ASSUME reserved PROVE ReservedInd
    BY DEF ReservedInd
  <2>1. /\ pc = "reserve" /\ turn = 0 /\ layer = 0 /\ write_pos = -1
        /\ \A id \in SeqIds : positions[id] = 0 /\ seq_length[id] = 0 /\ failed[id] = FALSE
    BY DEF DecodeInit
  <2>2. RoomInd
    BY <2>1, DecodeSizes DEF RoomInd
  <2>3. StepInd
    BY <2>1 DEF StepInd
  <2>4. RowsMatchPositions
    BY <2>1 DEF RowsMatchPositions, Filled
  <2> QED BY <2>1, <2>2, <2>3, <2>4 DEF ReservedInd
<1> QED BY <1>1, <1>2, <1>3, <1>4, <1>5, <1>6, <1>7 DEF DecodeInd

-----------------------------------------------------------------------------
(* Steps that leave the cache alone. *)

\* main() gives up before decoding.
LEMMA GiveUpInd ==
  ASSUME DecodeInd, pc \in {"reserve", "prefill"}, pc' = "exit", UNCHANGED vars,
         UNCHANGED <<prompt, reserved, write_pos, turn, layer, step, generated, positions, failed, done>>
  PROVE  DecodeInd'
<1> USE DEF DecodeInd
<1>1. /\ CacheInv' /\ BlockRows'
      /\ UNCHANGED <<initialized, free_blocks, block_used, seq_blocks, seq_length, kv>>
  BY CacheUnchanged
<1>2. DecodeTypeOK'
  BY <1>1 DEF DecodeTypeOK, CacheInv
<1>3. ControlInd' /\ TokensInd'
  BY <1>1 DEF ControlInd, TokensInd, TokenBudget
<1>4. LengthInd'
  BY <1>1 DEF LengthInd, RowsWritten, RunsHad
<1>5. ReservedInd'
  <2> SUFFICES ASSUME reserved PROVE ReservedInd'
    BY DEF ReservedInd
  <2>1. RoomInd' /\ StepInd' /\ \A id \in SeqIds : ~failed'[id]
    <3>1. RoomInd' /\ \A id \in SeqIds : ~failed'[id]
      BY DEF ReservedInd, RoomInd
    <3>2. \A id \in SeqIds : positions'[id] > 0 => seq_length'[id] = positions'[id]
      <4>1. \A id \in SeqIds : positions[id] > 0 => seq_length[id] = positions[id]
        <5>1. CASE pc = "reserve"
          BY <5>1 DEF ReservedInd, StepInd
        <5>2. CASE pc = "prefill"
          <6>1. turn \in Nat
            BY DEF DecodeTypeOK
          <6> QED BY <5>2, <6>1 DEF ReservedInd, StepInd
        <5> QED BY <5>1, <5>2
      <4> QED BY <4>1, <1>1
    <3> QED BY <3>1, <3>2 DEF ReservedInd, StepInd
  <2>2. RowsMatchPositions'
    <3>1. ASSUME NEW id \in SeqIds, NEW l \in Layers
          PROVE  Filled(id, l)' \in Nat /\ Filled(id, l)' <= Filled(id, l)
      <4>1. positions[id] \in Nat /\ prompt[id] \in Nat /\ turn \in Nat
        BY DecodeSizes DEF DecodeTypeOK
      <4>2. positions[id] = 0 \/ Filled(id, l) = positions[id]
        BY <4>1 DEF ReservedInd, StepInd, Filled
      <4>3. Filled(id, l)' = positions[id] /\ Filled(id, l) \in Nat
        BY <4>1 DEF Filled
      <4> QED BY <4>1, <4>2, <4>3
    <3> QED BY <3>1, MatchUnchanged DEF ReservedInd
  <2> QED BY <2>1, <2>2 DEF ReservedInd
<1> QED BY <1>1, <1>2, <1>3, <1>4, <1>5

\* A run begins.
LEMMA RunBeginInd ==
  ASSUME DecodeInd, run_begin
  PROVE  DecodeInd'
<1> USE DEF DecodeInd
<1>1. /\ pc = "decode" /\ turn < NumSeqs /\ ~done[turn] /\ pc' = "run" /\ layer' = 0 /\ UNCHANGED vars
      /\ UNCHANGED <<prompt, reserved, write_pos, turn, step, generated, positions, failed, done>>
  BY DEF run_begin
<1>2. /\ CacheInv' /\ BlockRows'
      /\ UNCHANGED <<initialized, free_blocks, block_used, seq_blocks, seq_length, kv>>
      /\ \A id \in SeqIds : sequence_capacity(id)' = sequence_capacity(id)
  BY <1>1, CacheUnchanged
<1>3. DecodeTypeOK'
  <2>1. layer' \in 0..NumLayers
    BY <1>1, DecodeSizes
  <2> QED BY <2>1, <1>1, <1>2 DEF DecodeTypeOK, CacheInv
<1>4. ControlInd' /\ TokensInd'
  BY <1>1, <1>2 DEF ControlInd, TokensInd, TokenBudget
<1>5. LengthInd'
  BY <1>1, <1>2 DEF LengthInd, RowsWritten, RunsHad
<1>6. ReservedInd'
  <2> SUFFICES ASSUME reserved PROVE ReservedInd'
    BY <1>1 DEF ReservedInd
  <2>1. RoomInd' /\ \A id \in SeqIds : ~failed'[id]
    BY <1>1, <1>2 DEF ReservedInd, RoomInd
  <2>2. StepInd'
    BY <1>1, <1>2 DEF ReservedInd, StepInd, RunsHad
  <2>3. RowsMatchPositions'
    <3>1. ASSUME NEW id \in SeqIds, NEW l \in Layers
          PROVE  Filled(id, l)' \in Nat /\ Filled(id, l)' <= Filled(id, l)
      <4>1. positions[id] \in Nat /\ l \in Nat
        BY DecodeSizes DEF DecodeTypeOK
      <4>2. Filled(id, l)' = positions[id] /\ Filled(id, l) = positions[id]
        BY <4>1, <1>1 DEF Filled
      <4> QED BY <4>1, <4>2
    <3> QED BY <3>1, <1>1, MatchUnchanged DEF ReservedInd
  <2> QED BY <2>1, <2>2, <2>3 DEF ReservedInd
<1> QED BY <1>2, <1>3, <1>4, <1>5, <1>6
\* A done session is passed over.
LEMMA SkipDoneInd ==
  ASSUME DecodeInd, skip_done
  PROVE  DecodeInd'
<1> USE DEF DecodeInd
<1>1. /\ pc = "decode" /\ turn < NumSeqs /\ done[turn] /\ turn' = turn + 1 /\ UNCHANGED vars
      /\ UNCHANGED <<prompt, reserved, write_pos, pc, layer, step, generated, positions, failed, done>>
  BY DEF skip_done
<1>2. /\ CacheInv' /\ BlockRows'
      /\ UNCHANGED <<initialized, free_blocks, block_used, seq_blocks, seq_length, kv>>
      /\ \A id \in SeqIds : sequence_capacity(id)' = sequence_capacity(id)
  BY <1>1, CacheUnchanged
<1>3. turn \in Nat /\ step \in Nat /\ turn' \in 0..NumSeqs
  BY <1>1, DecodeSizes DEF DecodeTypeOK
<1>4. DecodeTypeOK'
  BY <1>1, <1>2, <1>3 DEF DecodeTypeOK, CacheInv
<1>5. ControlInd' /\ TokensInd'
  BY <1>1, <1>2 DEF ControlInd, TokensInd, TokenBudget
<1>6. \A id \in SeqIds : RunsHad(id) <= RunsHad(id)' /\ RowsWritten(id) <= RowsWritten(id)'
                         /\ RunsHad(id) \in Nat /\ RunsHad(id)' \in Nat
                         /\ RowsWritten(id) \in Nat /\ RowsWritten(id)' \in Nat
  BY <1>1, <1>3, DecodeSizes DEF RowsWritten, RunsHad
<1>7. LengthInd'
  <2>1. \A id \in SeqIds : seq_length[id] \in Nat
    BY DEF CacheInv, TypeOK
  <2>2. ASSUME NEW id \in SeqIds PROVE seq_length[id] <= MaxPrompt + RowsWritten(id)'
    <3>1. seq_length[id] <= MaxPrompt + RowsWritten(id)
      BY DEF LengthInd
    <3> QED BY <3>1, <2>1, <1>6, DecodeSizes
  <2> QED BY <2>2, <1>1, <1>2 DEF LengthInd
<1>8. ReservedInd'
  <2> SUFFICES ASSUME reserved PROVE ReservedInd'
    BY <1>1 DEF ReservedInd
  <2>1. RoomInd' /\ \A id \in SeqIds : ~failed'[id]
    BY <1>1, <1>2 DEF ReservedInd, RoomInd
  <2>2. StepInd'
    <3>1. ASSUME NEW id \in SeqIds
          PROVE  /\ prompt[id] <= positions[id] /\ positions[id] <= prompt[id] + RunsHad(id)'
                 /\ seq_length[id] = positions[id]
      <4>1. /\ prompt[id] <= positions[id] /\ positions[id] <= prompt[id] + RunsHad(id)
            /\ seq_length[id] = positions[id] + 0
        BY <1>1 DEF ReservedInd, StepInd
      <4>2. prompt[id] \in Nat /\ positions[id] \in Nat
        BY DecodeSizes DEF DecodeTypeOK
      <4> QED BY <4>1, <4>2, <1>6
    <3>2. \A id \in SeqIds : positions[id] \in Nat
      BY DEF DecodeTypeOK
    <3> QED BY <3>1, <3>2, <1>1, <1>2 DEF ReservedInd, StepInd
  <2>3. RowsMatchPositions'
    <3>1. ASSUME NEW id \in SeqIds, NEW l \in Layers
          PROVE  Filled(id, l)' \in Nat /\ Filled(id, l)' <= Filled(id, l)
      BY <1>1 DEF Filled, DecodeTypeOK
    <3> QED BY <3>1, <1>1, MatchUnchanged DEF ReservedInd
  <2> QED BY <2>1, <2>2, <2>3 DEF ReservedInd
<1> QED BY <1>2, <1>4, <1>5, <1>7, <1>8

\* A round ends.
LEMMA RoundEndInd ==
  ASSUME DecodeInd, round_end
  PROVE  DecodeInd'
<1> USE DEF DecodeInd
<1>1. /\ pc = "decode" /\ turn = NumSeqs /\ step' = step + 1 /\ turn' = 0 /\ UNCHANGED vars
      /\ pc' \in {"decode", "exit"} /\ (pc' = "decode" => step + 1 < MaxNew)
      /\ UNCHANGED <<prompt, reserved, write_pos, layer, generated, positions, failed, done>>
  BY DEF round_end
<1>2. /\ CacheInv' /\ BlockRows'
      /\ UNCHANGED <<initialized, free_blocks, block_used, seq_blocks, seq_length, kv>>
      /\ \A id \in SeqIds : sequence_capacity(id)' = sequence_capacity(id)
  BY <1>1, CacheUnchanged
<1>3. step \in Nat /\ turn' \in 0..NumSeqs /\ write_pos \in Int
  BY <1>1, DecodeSizes DEF DecodeTypeOK
<1>4. DecodeTypeOK'
  BY <1>1, <1>2, <1>3 DEF DecodeTypeOK, CacheInv
<1>5. ControlInd' /\ TokensInd'
  BY <1>1, <1>2 DEF ControlInd, TokensInd, TokenBudget
<1>6. \A id \in SeqIds : /\ RunsHad(id) = step + 1 /\ RowsWritten(id) = step + 1
                         /\ RunsHad(id)' = step + 1 /\ RowsWritten(id)' = step + 1
  BY <1>1, <1>3, DecodeSizes DEF RowsWritten, RunsHad
<1>7. LengthInd'
  <2>1. write_pos <= MaxPrompt + step'
    BY <1>1, <1>3, DecodeSizes DEF LengthInd
  <2> QED BY <2>1, <1>1, <1>2, <1>6 DEF LengthInd
<1>8. ReservedInd'
  <2> SUFFICES ASSUME reserved PROVE ReservedInd'
    BY <1>1 DEF ReservedInd
  <2>1. RoomInd' /\ \A id \in SeqIds : ~failed'[id]
    BY <1>1, <1>2 DEF ReservedInd, RoomInd
  <2>2. StepInd'
    <3>1. \A id \in SeqIds : /\ prompt[id] <= positions[id] /\ positions[id] <= prompt[id] + RunsHad(id)'
                             /\ seq_length[id] = positions[id] /\ positions[id] \in Nat
      BY <1>1, <1>6 DEF ReservedInd, StepInd, DecodeTypeOK
    <3> QED BY <3>1, <1>1, <1>2 DEF ReservedInd, StepInd
  <2>3. RowsMatchPositions'
    <3>1. ASSUME NEW id \in SeqIds, NEW l \in Layers
          PROVE  Filled(id, l)' \in Nat /\ Filled(id, l)' <= Filled(id, l)
      BY <1>1 DEF Filled, DecodeTypeOK
    <3> QED BY <3>1, <1>1, MatchUnchanged DEF ReservedInd
  <2> QED BY <2>1, <2>2, <2>3 DEF ReservedInd
<1> QED BY <1>2, <1>4, <1>5, <1>7, <1>8

\* The position a run uses is within what the rounds allow, and with the
\* reservations it is that of the next token, for which there is room.
LEMMA LogicalPosition ==
  ASSUME DecodeInd, pc = "run"
  PROVE  /\ turn \in SeqIds /\ ~done[turn] /\ step \in Nat /\ step < MaxNew
         /\ logical_pos \in 0..(MaxPrompt + step) /\ logical_pos \in 0..MaxTokens
         /\ reserved => /\ logical_pos = positions[turn]
                        /\ logical_pos + 1 <= sequence_capacity(turn)
                        /\ can_reserve(turn, logical_pos + 1)
<1> USE DEF DecodeInd
<1>1. /\ turn \in SeqIds /\ turn \in Nat /\ ~done[turn] /\ step \in Nat /\ step < MaxNew
      /\ write_pos \in Int /\ layer \in Nat /\ seq_length[turn] \in Nat /\ initialized
      /\ prompt[turn] \in Nat /\ positions[turn] \in Nat
  <2>1. turn \in SeqIds /\ turn \in Nat
    BY DecodeSizes DEF ControlInd, DecodeTypeOK
  <2>2. prompt[turn] \in Nat
    BY <2>1, DecodeSizes DEF DecodeTypeOK
  <2> QED BY <2>1, <2>2, DecodeSizes DEF ControlInd, DecodeTypeOK, CacheInv, TypeOK
<1>2. logical_pos \in 0..(MaxPrompt + step)
  <2>1. CASE write_pos >= 0
    BY <2>1, <1>1, DecodeSizes DEF logical_pos, LengthInd
  <2>2. CASE write_pos < 0
    <3>1. layer = 0
      BY <2>2, <1>1 DEF ControlInd
    <3>2. RowsWritten(turn) = step
      BY <3>1, <1>1 DEF RowsWritten, RunsHad
    <3>3. seq_length[turn] <= MaxPrompt + step
      BY <3>2, <1>1 DEF LengthInd
    <3> QED BY <3>3, <2>2, <1>1, DecodeSizes DEF logical_pos
  <2> QED BY <2>1, <2>2, <1>1
<1>3. logical_pos \in 0..MaxTokens
  BY <1>1, <1>2, DecodeSizes
<1>4. ASSUME reserved
      PROVE  /\ logical_pos = positions[turn] /\ logical_pos + 1 <= sequence_capacity(turn)
             /\ can_reserve(turn, logical_pos + 1)
  <2>1. RoomInd /\ StepInd
    BY <1>4 DEF ReservedInd
  <2>2. logical_pos = positions[turn]
    <3>1. CASE layer > 0
      BY <3>1, <2>1, <1>1 DEF StepInd, logical_pos
    <3>2. CASE ~(layer > 0)
      BY <3>2, <2>1, <1>1 DEF StepInd, logical_pos
    <3> QED BY <3>1, <3>2
  <2>3. RunsHad(turn) = step
    BY <1>1 DEF RunsHad
  <2>4. positions[turn] <= prompt[turn] + step
    BY <2>1, <2>3, <1>1 DEF StepInd
  <2>5. prompt[turn] + MaxNew <= sequence_capacity(turn) /\ sequence_capacity(turn) \in Nat
    <3>1. Len(seq_blocks[turn]) \in Nat
      BY <1>1 DEF CacheInv, TypeOK
    <3>2. sequence_capacity(turn) \in Nat
      BY <3>1, TimesBlockSize DEF sequence_capacity
    <3> QED BY <3>2, <2>1, <1>1 DEF RoomInd
  <2>6. logical_pos + 1 \in Nat /\ logical_pos + 1 <= sequence_capacity(turn)
    BY <2>2, <2>4, <2>5, <1>1, DecodeSizes
  <2>7. to_allocate(turn, logical_pos + 1) = 0
    BY <2>6, <1>1, NothingToAllocate
  <2>8. Len(free_blocks) \in Nat
    BY DEF CacheInv, TypeOK
  <2> QED BY <2>2, <2>6, <2>7, <2>8, <1>1 DEF can_reserve
<1> QED BY <1>1, <1>2, <1>3, <1>4
\* A run fails, which it only does for a caller that reserved nothing.
LEMMA RunFailsInd ==
  ASSUME DecodeInd, run_fails
  PROVE  DecodeInd'
<1>1. PICK pos : pos = logical_pos
  OBVIOUS
<1>2. /\ pc = "run" /\ layer < NumLayers /\ ~can_reserve(turn, pos + 1) /\ write_pos' = pos
      /\ failed' = [failed EXCEPT ![turn] = TRUE] /\ done' = [done EXCEPT ![turn] = TRUE]
      /\ pc' = "decode" /\ turn' = turn + 1 /\ UNCHANGED vars
      /\ UNCHANGED <<prompt, reserved, layer, step, generated, positions>>
  BY <1>1 DEF run_fails
<1>3. /\ turn \in SeqIds /\ step \in Nat /\ step < MaxNew
      /\ pos \in 0..(MaxPrompt + step) /\ pos \in 0..MaxTokens /\ ~reserved
  BY <1>1, <1>2, LogicalPosition
<1> USE DEF DecodeInd
<1>4. /\ CacheInv' /\ BlockRows'
      /\ UNCHANGED <<initialized, free_blocks, block_used, seq_blocks, seq_length, kv>>
  BY <1>2, CacheUnchanged
<1>5. turn \in Nat /\ turn' \in 0..NumSeqs /\ layer \in Nat
  BY <1>2, <1>3, DecodeSizes DEF DecodeTypeOK
<1>6. DecodeTypeOK'
  <2>1. write_pos' \in -1..MaxTokens
    BY <1>2, <1>3, DecodeSizes
  <2> QED BY <2>1, <1>2, <1>4, <1>5 DEF DecodeTypeOK, CacheInv
<1>7. ControlInd'
  BY <1>2, <1>4 DEF ControlInd
<1>8. TokensInd'
  BY <1>2, <1>3 DEF TokensInd, TokenBudget, DecodeTypeOK
<1>9. LengthInd'
  <2>1. \A id \in SeqIds : /\ RowsWritten(id) \in Nat /\ RowsWritten(id)' \in Nat
                           /\ RowsWritten(id) <= RowsWritten(id)'
    BY <1>2, <1>3, <1>5, DecodeSizes DEF RowsWritten, RunsHad
  <2>2. ASSUME NEW id \in SeqIds PROVE seq_length[id] <= MaxPrompt + RowsWritten(id)'
    <3>1. seq_length[id] <= MaxPrompt + RowsWritten(id) /\ seq_length[id] \in Nat
      BY DEF LengthInd, CacheInv, TypeOK
    <3> QED BY <3>1, <2>1, DecodeSizes
  <2>3. write_pos' <= MaxPrompt + step'
    BY <1>2, <1>3, DecodeSizes
  <2> QED BY <2>2, <2>3, <1>2, <1>4 DEF LengthInd
<1>10. ReservedInd'
  BY <1>2, <1>3 DEF ReservedInd
<1> QED BY <1>4, <1>6, <1>7, <1>8, <1>9, <1>10

\* A run has executed every layer.
LEMMA RunEndInd ==
  ASSUME DecodeInd, run_end
  PROVE  DecodeInd'
<1>1. /\ pc = "run" /\ layer = NumLayers /\ write_pos' = -1 /\ positions' = [positions EXCEPT ![turn] = @ + 1]
      /\ pc' = "decode" /\ turn' = turn + 1 /\ UNCHANGED vars
      /\ UNCHANGED <<prompt, reserved, layer, step, failed>>
      /\ \/ done' = [done EXCEPT ![turn] = TRUE] /\ generated' = generated
         \/ /\ generated' = [generated EXCEPT ![turn] = @ + 1]
            /\ done' = [done EXCEPT ![turn] = generated[turn] + 1 >= MaxNew]
  BY DEF run_end, advance_kv_cache_step
<1>2. turn \in SeqIds /\ ~done[turn] /\ step \in Nat /\ step < MaxNew
  BY <1>1, LogicalPosition
<1> USE DEF DecodeInd
<1>3. /\ CacheInv' /\ BlockRows'
      /\ UNCHANGED <<initialized, free_blocks, block_used, seq_blocks, seq_length, kv>>
      /\ \A id \in SeqIds : sequence_capacity(id)' = sequence_capacity(id)
  BY <1>1, CacheUnchanged
<1>4. /\ turn \in Nat /\ turn' \in 0..NumSeqs /\ layer > 0
      /\ positions \in [SeqIds -> Nat] /\ generated \in [SeqIds -> Nat] /\ done \in [SeqIds -> BOOLEAN]
  BY <1>1, <1>2, DecodeSizes DEF DecodeTypeOK
<1>5. DecodeTypeOK'
  <2>1. positions' \in [SeqIds -> Nat] /\ generated' \in [SeqIds -> Nat] /\ write_pos' \in -1..MaxTokens
    BY <1>1, <1>2, <1>4, DecodeSizes
  <2>2. \E f \in BOOLEAN : done' = [done EXCEPT ![turn] = f]
    <3>1. (generated[turn] + 1 >= MaxNew) \in BOOLEAN /\ TRUE \in BOOLEAN
      OBVIOUS
    <3> QED BY <3>1, <1>1, Zenon
  <2>3. done' \in [SeqIds -> BOOLEAN]
    BY <2>2, <1>4
  <2> QED BY <2>1, <2>3, <1>1, <1>3, <1>4 DEF DecodeTypeOK, CacheInv
<1>6. ControlInd'
  BY <1>1, <1>3 DEF ControlInd
<1>7. TokensInd'
  <2>1. CASE done' = [done EXCEPT ![turn] = TRUE] /\ generated' = generated
    BY <2>1, <1>2, <1>4 DEF TokensInd, TokenBudget
  <2>2. CASE /\ generated' = [generated EXCEPT ![turn] = @ + 1]
             /\ done' = [done EXCEPT ![turn] = generated[turn] + 1 >= MaxNew]
    <3>1. generated[turn] <= 1 \/ generated[turn] < MaxNew
      BY <1>2 DEF TokensInd
    <3>2. generated'[turn] = generated[turn] + 1 /\ generated[turn] \in Nat
      BY <2>2, <1>2, <1>4
    <3>3. generated'[turn] <= IF MaxNew > 1 THEN MaxNew ELSE 2
      BY <3>1, <3>2, DecodeSizes
    <3>4. ~done'[turn] => generated'[turn] < MaxNew
      <4>1. ~done'[turn] => ~(generated[turn] + 1 >= MaxNew)
        BY <2>2, <1>2, <1>4, Zenon
      <4> QED BY <4>1, <3>2, DecodeSizes
    <3>5. \A id \in SeqIds : id # turn => generated'[id] = generated[id] /\ done'[id] = done[id]
      BY <2>2, <1>4
    <3> QED BY <3>3, <3>4, <3>5 DEF TokensInd, TokenBudget
  <2> QED BY <2>1, <2>2, <1>1
<1>8. \A id \in SeqIds : /\ RowsWritten(id) \in Nat /\ RowsWritten(id)' \in Nat
                         /\ RowsWritten(id) <= RowsWritten(id)'
                         /\ RunsHad(id)' = IF id = turn THEN step + 1 ELSE RunsHad(id)
                         /\ RunsHad(turn) = step
  BY <1>1, <1>2, <1>4, DecodeSizes DEF RowsWritten, RunsHad
<1>9. LengthInd'
  <2>1. ASSUME NEW id \in SeqIds PROVE seq_length[id] <= MaxPrompt + RowsWritten(id)'
    <3>1. seq_length[id] <= MaxPrompt + RowsWritten(id) /\ seq_length[id] \in Nat
      BY DEF LengthInd, CacheInv, TypeOK
    <3> QED BY <3>1, <1>8, DecodeSizes
  <2>2. write_pos' <= MaxPrompt + step'
    BY <1>1, <1>2, DecodeSizes
  <2> QED BY <2>1, <2>2, <1>1, <1>3 DEF LengthInd
<1>10. ReservedInd'
  <2> SUFFICES ASSUME reserved PROVE ReservedInd'
    BY <1>1 DEF ReservedInd
  <2>1. RoomInd' /\ \A id \in SeqIds : ~failed'[id]
    BY <1>1, <1>3 DEF ReservedInd, RoomInd
  <2>2. StepInd'
    <3>1. ASSUME NEW id \in SeqIds
          PROVE  /\ prompt[id] <= positions'[id] /\ positions'[id] <= prompt[id] + RunsHad(id)'
                 /\ seq_length[id] = positions'[id] /\ positions'[id] \in Nat
      <4>1. /\ prompt[id] <= positions[id] /\ positions[id] <= prompt[id] + RunsHad(id)
            /\ seq_length[id] = positions[id] + (IF id = turn THEN 1 ELSE 0)
        BY <1>1, <1>4 DEF ReservedInd, StepInd
      <4>2. prompt[id] \in Nat /\ positions[id] \in Nat
        BY DecodeSizes DEF DecodeTypeOK
      <4>3. positions'[id] = IF id = turn THEN positions[id] + 1 ELSE positions[id]
        BY <1>1, <1>4
      <4> QED BY <4>1, <4>2, <4>3, <1>2, <1>8
    <3> QED BY <3>1, <1>1, <1>3 DEF StepInd
  <2>3. RowsMatchPositions'
    <3>1. ASSUME NEW id \in SeqIds, NEW l \in Layers
          PROVE  Filled(id, l)' \in Nat /\ Filled(id, l)' <= Filled(id, l)
      <4>1. positions[id] \in Nat /\ l < layer
        BY <1>1, <1>4, DecodeSizes
      <4>2. Filled(id, l) = IF id = turn THEN positions[id] + 1 ELSE positions[id]
        BY <4>1, <1>1 DEF Filled
      <4>3. Filled(id, l)' = positions'[id]
        BY <1>1 DEF Filled
      <4>4. positions'[id] = IF id = turn THEN positions[id] + 1 ELSE positions[id]
        BY <1>1, <1>4
      <4> QED BY <4>1, <4>2, <4>3, <4>4
    <3> QED BY <3>1, <1>1, MatchUnchanged DEF ReservedInd
  <2> QED BY <2>1, <2>2, <2>3 DEF ReservedInd
<1> QED BY <1>3, <1>5, <1>6, <1>7, <1>9, <1>10
-----------------------------------------------------------------------------
(* Steps that write rows. *)

\* A run of a session's own rows, written where its rows end, keeps every
\* row at its position.
LEMMA MatchWritten ==
  ASSUME CacheInv, DecodeTypeOK, RowsMatchPositions, failed' = failed,
         NEW s \in SeqIds, NEW l0 \in Layers, NEW start \in Nat, NEW vals \in Seq(Rows),
         write_tokens(s, l0, start, vals),
         \A t \in 1..Len(vals) : vals[t] = Row(s, start + t - 1),
         start <= Filled(s, l0), Filled(s, l0)' = start + Len(vals),
         \A id \in SeqIds, l \in Layers : id # s \/ l # l0 => Filled(id, l)' = Filled(id, l)
  PROVE  RowsMatchPositions'
<1>1. PICK n \in Nat : n = start + Len(vals)
  OBVIOUS
<1>2. CacheInv' /\ TableExtended(s, n)
  BY <1>1, WriteEffect
<1>3. RunCopied(s, l0, start, vals)
  BY WrittenRows
<1> SUFFICES ASSUME NEW id \in SeqIds, NEW l \in Layers, ~failed[id], NEW p \in 0..(Filled(id, l)' - 1)
             PROVE  p < sequence_capacity(id)' /\ row_after(id, l, p) = Row(id, p)
  BY DEF RowsMatchPositions, Row, token_row, row_after
<1>4. /\ sequence_capacity(id) \in Nat /\ sequence_capacity(id)' \in Nat
      /\ sequence_capacity(id) <= sequence_capacity(id)'
  BY <1>2, RoomKept
<1>5. Filled(id, l) \in Nat /\ Len(vals) \in Nat
  BY DEF Filled, DecodeTypeOK
<1>6. CASE p \in 0..(Filled(id, l) - 1) /\ ~(id = s /\ l = l0 /\ start <= p)
  <2>1. p < sequence_capacity(id) /\ token_row(id, l, p) = Row(id, p)
    BY <1>6 DEF RowsMatchPositions
  <2>2. p \in 0..(sequence_capacity(id) - 1)
    BY <2>1, <1>4, <1>6, <1>5
  <2>3. row_after(id, l, p) = token_row(id, l, p)
    <3>1. CASE id # s
      BY <3>1, <2>2, <1>3 DEF RunCopied
    <3>2. CASE id = s
      <4>1. l = l0 => p < start
        BY <3>2, <1>6, <1>5
      <4> QED BY <4>1, <3>2, <2>2, <1>3 DEF RunCopied
    <3> QED BY <3>1, <3>2
  <2> QED BY <2>1, <2>2, <2>3, <1>4
<1>7. CASE id = s /\ l = l0 /\ start <= p
  <2>1. p < n /\ p \in Nat
    BY <1>1, <1>5, <1>7
  <2>2. n <= sequence_capacity(id)'
    BY <1>2, <1>7 DEF TableExtended
  <2>3. PICK t \in 1..Len(vals) : start + t - 1 = p
    <3>1. p - start + 1 \in 1..Len(vals) /\ start + (p - start + 1) - 1 = p
      BY <2>1, <1>1, <1>5, <1>7
    <3> QED BY <3>1
  <2>4. row_after(s, l0, start + t - 1) = vals[t] /\ vals[t] = Row(s, start + t - 1)
    BY <1>3 DEF RunCopied
  <2> QED BY <2>1, <2>2, <2>3, <2>4, <1>1, <1>4, <1>7, SMTT(20)
<1>8. p \in 0..(Filled(id, l) - 1) \/ (id = s /\ l = l0 /\ start <= p)
  <2>1. CASE id = s /\ l = l0
    BY <2>1, <1>1, <1>5
  <2>2. CASE ~(id = s /\ l = l0)
    BY <2>2
  <2> QED BY <2>1, <2>2
<1> QED BY <1>6, <1>7, <1>8

\* One layer of a run.
LEMMA RunLayerInd ==
  ASSUME DecodeInd, run_layer
  PROVE  DecodeInd'
<1>1. PICK pos : pos = logical_pos
  OBVIOUS
<1>2. PICK vals : vals = << Row(turn, pos) >>
  OBVIOUS
<1>3. /\ pc = "run" /\ layer < NumLayers /\ write_tokens(turn, layer, pos, vals)
      /\ write_pos' = pos /\ layer' = layer + 1
      /\ UNCHANGED <<prompt, reserved, pc, turn, step, generated, positions, failed, done>>
  BY <1>1, <1>2 DEF run_layer
<1>4. /\ turn \in SeqIds /\ ~done[turn] /\ step \in Nat /\ step < MaxNew
      /\ pos \in 0..(MaxPrompt + step) /\ pos \in 0..MaxTokens
      /\ reserved => pos = positions[turn]
  BY <1>1, <1>3, LogicalPosition
<1> USE DEF DecodeInd
<1>5. /\ pos \in Nat /\ vals \in Seq(Rows) /\ Len(vals) = 1 /\ vals[1] = Row(turn, pos)
      /\ vals[1] \in SessionRows(turn) /\ \A t \in 1..Len(vals) : t = 1
  <2>1. Row(turn, pos) \in Rows /\ Row(turn, pos) \in SessionRows(turn)
    BY <1>4, RowTypes
  <2> QED BY <2>1, <1>2, <1>4
<1>6. layer \in Layers /\ layer \in Nat /\ turn \in Nat /\ initialized
  BY <1>3, <1>4, DecodeSizes DEF DecodeTypeOK, ControlInd
<1>7. PICK s \in SeqIds, l0 \in Layers : s = turn /\ l0 = layer
  BY <1>4, <1>6
<1>8. write_tokens(s, l0, pos, vals) /\ \A t \in 1..Len(vals) : vals[t] \in SessionRows(s)
  BY <1>3, <1>5, <1>7
<1>9. /\ CacheInv' /\ TableExtended(s, pos + Len(vals)) /\ initialized' = initialized
      /\ seq_length'[s] = IF seq_length[s] >= pos + 1 THEN seq_length[s] ELSE pos + 1
      /\ \A other \in SeqIds \ {s} : seq_length'[other] = seq_length[other]
  <2>1. /\ CacheInv' /\ TableExtended(s, pos + Len(vals)) /\ initialized' = initialized
        /\ seq_length'[s] = IF seq_length[s] >= pos + Len(vals) THEN seq_length[s] ELSE pos + Len(vals)
        /\ \A other \in SeqIds \ {s} : seq_length'[other] = seq_length[other]
    BY <1>5, <1>8, WriteEffect
  <2> QED BY <2>1, <1>5
<1>10. BlockRows'
  BY <1>5, <1>6, <1>8, BlocksWritten
<1>11. DecodeTypeOK'
  <2>1. layer' \in 0..NumLayers /\ write_pos' \in -1..MaxTokens
    BY <1>3, <1>4, <1>6, DecodeSizes
  <2> QED BY <2>1, <1>3, <1>9 DEF DecodeTypeOK, CacheInv
<1>12. ControlInd'
  BY <1>3, <1>4, <1>9 DEF ControlInd
<1>13. TokensInd'
  BY <1>3 DEF TokensInd, TokenBudget
<1>14. LengthInd'
  <2>1. \A id \in SeqIds : /\ RowsWritten(id) \in Nat
                           /\ RowsWritten(id)' = IF id = turn THEN step + 1 ELSE RowsWritten(id)
                           /\ RowsWritten(turn) <= step + 1
    BY <1>3, <1>4, <1>6, DecodeSizes DEF RowsWritten, RunsHad
  <2>2. ASSUME NEW id \in SeqIds PROVE seq_length'[id] <= MaxPrompt + RowsWritten(id)'
    <3>1. seq_length[id] <= MaxPrompt + RowsWritten(id) /\ seq_length[id] \in Nat
      BY DEF LengthInd, CacheInv, TypeOK
    <3>2. CASE id = turn
      BY <3>1, <3>2, <2>1, <1>4, <1>9, <1>7, DecodeSizes
    <3>3. CASE id # turn
      BY <3>1, <3>3, <2>1, <1>9, <1>7
    <3> QED BY <3>2, <3>3
  <2>3. write_pos' <= MaxPrompt + step'
    BY <1>3, <1>4, DecodeSizes
  <2> QED BY <2>2, <2>3 DEF LengthInd
<1>15. ReservedInd'
  <2> SUFFICES ASSUME reserved PROVE ReservedInd'
    BY <1>3 DEF ReservedInd
  <2>1. RoomInd' /\ \A id \in SeqIds : ~failed'[id]
    <3>1. ASSUME NEW id \in SeqIds PROVE prompt[id] + MaxNew <= sequence_capacity(id)'
      <4>1. /\ sequence_capacity(id) \in Nat /\ sequence_capacity(id)' \in Nat
            /\ sequence_capacity(id) <= sequence_capacity(id)'
        BY <1>5, <1>9, RoomKept
      <4>2. prompt[id] + MaxNew <= sequence_capacity(id) /\ prompt[id] \in Nat
        BY <1>3, DecodeSizes DEF ReservedInd, RoomInd, DecodeTypeOK
      <4> QED BY <4>1, <4>2, DecodeSizes
    <3> QED BY <3>1, <1>3 DEF ReservedInd, RoomInd
  <2>2. StepInd'
    <3>1. ASSUME NEW id \in SeqIds
          PROVE  /\ prompt[id] <= positions[id] /\ positions[id] <= prompt[id] + RunsHad(id)'
                 /\ seq_length'[id] = positions[id] + (IF id = turn THEN 1 ELSE 0)
      <4>1. /\ prompt[id] <= positions[id] /\ positions[id] <= prompt[id] + RunsHad(id)
            /\ seq_length[id] = positions[id] + (IF id = turn /\ layer > 0 THEN 1 ELSE 0)
            /\ positions[id] \in Nat
        BY <1>3 DEF ReservedInd, StepInd, DecodeTypeOK
      <4>2. RunsHad(id)' = RunsHad(id)
        BY <1>3 DEF RunsHad
      <4>3. seq_length'[id] = positions[id] + (IF id = turn THEN 1 ELSE 0)
        <5>1. CASE id = turn
          BY <5>1, <4>1, <1>4, <1>9, <1>7
        <5>2. CASE id # turn
          BY <5>2, <4>1, <1>9, <1>7
        <5> QED BY <5>1, <5>2
      <4> QED BY <4>1, <4>2, <4>3
    <3>2. layer' > 0 /\ write_pos' = positions'[turn']
      BY <1>3, <1>4, <1>6
    <3> QED BY <3>1, <3>2, <1>3 DEF StepInd
  <2>3. RowsMatchPositions'
    <3>1. \A t \in 1..Len(vals) : vals[t] = Row(turn, pos + t - 1)
      <4>1. pos + 1 - 1 = pos
        BY <1>5
      <4> QED BY <4>1, <1>5
    <3>2. positions \in [SeqIds -> Nat]
      BY DEF DecodeTypeOK
    <3>3. pos <= Filled(turn, layer)
      BY <3>2, <1>3, <1>4, <1>6 DEF Filled
    <3>4. \A id \in SeqIds, l \in Layers : Filled(id, l)' =
            IF id = turn /\ l < layer + 1 THEN positions[id] + 1 ELSE positions[id]
      BY <1>3 DEF Filled
    <3>5. \A id \in SeqIds, l \in Layers : Filled(id, l) =
            IF id = turn /\ l < layer THEN positions[id] + 1 ELSE positions[id]
      BY <1>3 DEF Filled
    <3>6. \A l \in Layers : l # layer => (l < layer + 1 <=> l < layer)
      BY <1>6, DecodeSizes
    <3>7. \A id \in SeqIds, l \in Layers : id # turn \/ l # layer => Filled(id, l)' = Filled(id, l)
      BY <3>4, <3>5, <3>6
    <3> HIDE DEF DecodeInd
    <3>9. Filled(s, l0)' = pos + Len(vals)
      BY <3>4, <1>7, <1>4, <1>5, <1>6
    <3>10. /\ CacheInv /\ DecodeTypeOK /\ RowsMatchPositions /\ failed' = failed
           /\ \A t \in 1..Len(vals) : vals[t] = Row(s, pos + t - 1)
           /\ pos <= Filled(s, l0)
           /\ \A id \in SeqIds, l \in Layers : id # s \/ l # l0 => Filled(id, l)' = Filled(id, l)
      BY <3>1, <3>3, <3>7, <1>7, <1>3 DEF DecodeInd, ReservedInd
    <3> QED BY <3>9, <3>10, <1>5, <1>8, MatchWritten
  <2> QED BY <2>1, <2>2, <2>3 DEF ReservedInd
<1> QED BY <1>9, <1>10, <1>11, <1>12, <1>13, <1>14, <1>15
\* One layer of a session's prefill.
LEMMA PrefillLayerInd ==
  ASSUME DecodeInd, prefill_layer
  PROVE  DecodeInd'
<1>1. PICK k, vals : k = prompt[turn] /\ vals = [i \in 1..k |-> Row(turn, i - 1)]
  OBVIOUS
<1>2. /\ pc = "prefill" /\ layer < NumLayers /\ write_tokens(turn, layer, 0, vals) /\ layer' = layer + 1
      /\ UNCHANGED <<prompt, reserved, write_pos, pc, turn, step, generated, positions, failed, done>>
  BY <1>1 DEF prefill_layer
<1> USE DEF DecodeInd
<1>3. turn < NumSeqs /\ step = 0 /\ write_pos = -1 /\ initialized
  BY <1>2 DEF ControlInd
<1>4. turn \in SeqIds /\ turn \in Nat /\ layer \in Layers /\ layer \in Nat
  BY <1>2, <1>3, DecodeSizes DEF DecodeTypeOK
<1>5. PICK s \in SeqIds, l0 \in Layers : s = turn /\ l0 = layer
  BY <1>4
<1>6. k \in 1..MaxPrompt /\ k \in Nat
  BY <1>1, <1>4, DecodeSizes DEF DecodeTypeOK
<1>7. /\ \A i \in 1..k : Row(s, i - 1) \in Rows /\ Row(s, i - 1) \in SessionRows(s)
      /\ vals = [i \in 1..k |-> Row(s, i - 1)]
  <2>1. \A i \in 1..k : i - 1 \in 0..MaxTokens
    BY <1>6, DecodeSizes
  <2> QED BY <2>1, <1>1, <1>5, RowTypes
<1>8. vals \in Seq(Rows) /\ Len(vals) = k /\ \A t \in 1..Len(vals) : vals[t] = Row(s, t - 1)
  BY <1>6, <1>7
<1>9. write_tokens(s, l0, 0, vals) /\ \A t \in 1..Len(vals) : vals[t] \in SessionRows(s)
  BY <1>2, <1>5, <1>7, <1>8
<1>10. /\ CacheInv' /\ TableExtended(s, 0 + Len(vals)) /\ initialized' = initialized
       /\ seq_length'[s] = IF seq_length[s] >= k THEN seq_length[s] ELSE k
       /\ \A other \in SeqIds \ {s} : seq_length'[other] = seq_length[other]
  <2>1. /\ CacheInv' /\ TableExtended(s, 0 + Len(vals)) /\ initialized' = initialized
        /\ seq_length'[s] = IF seq_length[s] >= 0 + Len(vals) THEN seq_length[s] ELSE 0 + Len(vals)
        /\ \A other \in SeqIds \ {s} : seq_length'[other] = seq_length[other]
    BY <1>8, <1>9, WriteEffect
  <2> QED BY <2>1, <1>6, <1>8
<1>11. BlockRows'
  BY <1>3, <1>8, <1>9, BlocksWritten
<1>12. DecodeTypeOK'
  <2>1. layer' \in 0..NumLayers
    BY <1>2, <1>4, DecodeSizes
  <2> QED BY <2>1, <1>2, <1>10 DEF DecodeTypeOK, CacheInv
<1>13. ControlInd' /\ TokensInd'
  BY <1>2, <1>3, <1>10 DEF ControlInd, TokensInd, TokenBudget
<1>14. LengthInd'
  <2>1. \A id \in SeqIds : RowsWritten(id)' = 0 /\ RowsWritten(id) = 0
    BY <1>2, <1>3 DEF RowsWritten, RunsHad
  <2>2. \A id \in SeqIds : seq_length'[id] <= MaxPrompt + RowsWritten(id)'
    BY <2>1, <1>6, <1>10, DecodeSizes DEF LengthInd
  <2> QED BY <2>2, <1>2 DEF LengthInd
<1>15. ReservedInd'
  <2> SUFFICES ASSUME reserved PROVE ReservedInd'
    BY <1>2 DEF ReservedInd
  <2>1. RoomInd' /\ \A id \in SeqIds : ~failed'[id]
    <3>1. ASSUME NEW id \in SeqIds PROVE prompt[id] + MaxNew <= sequence_capacity(id)'
      <4>1. /\ sequence_capacity(id) \in Nat /\ sequence_capacity(id)' \in Nat
            /\ sequence_capacity(id) <= sequence_capacity(id)'
        BY <1>8, <1>10, <1>6, RoomKept
      <4>2. prompt[id] + MaxNew <= sequence_capacity(id) /\ prompt[id] \in Nat
        BY <1>2, DecodeSizes DEF ReservedInd, RoomInd, DecodeTypeOK
      <4> QED BY <4>1, <4>2, DecodeSizes
    <3> QED BY <3>1, <1>2 DEF ReservedInd, RoomInd
  <2>2. StepInd'
    <3>1. \A id \in SeqIds : /\ positions[id] = IF id < turn THEN prompt[id] ELSE 0
                             /\ id # turn => seq_length[id] = positions[id]
      BY <1>2 DEF ReservedInd, StepInd
    <3>2. \A id \in SeqIds : id # turn => seq_length'[id] = positions[id]
      BY <3>1, <1>5, <1>10
    <3> QED BY <3>1, <3>2, <1>2, <1>3 DEF StepInd
  <2>3. RowsMatchPositions'
    <3>1. positions[s] = 0 /\ \A id \in SeqIds : positions[id] \in Nat
      BY <1>2, <1>4, <1>5 DEF ReservedInd, StepInd, DecodeTypeOK
    <3>2. \A id \in SeqIds, l \in Layers : Filled(id, l)' =
            IF id = turn /\ l < layer + 1 THEN prompt[id] ELSE positions[id]
      BY <1>2 DEF Filled
    <3>3. \A id \in SeqIds, l \in Layers : Filled(id, l) =
            IF id = turn /\ l < layer THEN prompt[id] ELSE positions[id]
      BY <1>2 DEF Filled
    <3>4. \A l \in Layers : l # layer => (l < layer + 1 <=> l < layer)
      BY <1>4, DecodeSizes
    <3>5. \A id \in SeqIds, l \in Layers : id # s \/ l # l0 => Filled(id, l)' = Filled(id, l)
      BY <3>2, <3>3, <3>4, <1>5
    <3>6. Filled(s, l0)' = 0 + Len(vals) /\ 0 <= Filled(s, l0)
      BY <3>1, <3>2, <3>3, <1>1, <1>4, <1>5, <1>6, <1>8
    <3>7. \A t \in 1..Len(vals) : vals[t] = Row(s, 0 + t - 1)
      <4>1. \A t \in 1..Len(vals) : 0 + t - 1 = t - 1
        BY <1>6, <1>8
      <4> QED BY <4>1, <1>8
    <3>8. CacheInv /\ DecodeTypeOK /\ RowsMatchPositions /\ failed' = failed
      BY <1>2 DEF ReservedInd
    <3> QED BY <3>5, <3>6, <3>7, <3>8, <1>8, <1>9, MatchWritten
  <2> QED BY <2>1, <2>2, <2>3 DEF ReservedInd
<1> QED BY <1>10, <1>11, <1>12, <1>13, <1>14, <1>15

\* A call that moves no row keeps the match.
LEMMA MatchExtended ==
  ASSUME CacheInv, CacheInv', DecodeTypeOK, RowsMatchPositions, failed' = failed,
         NEW s \in SeqIds, NEW n \in Nat, TableExtended(s, n), kv' = kv,
         \A id \in SeqIds, l \in Layers : Filled(id, l)' \in Nat /\ Filled(id, l)' <= Filled(id, l)
  PROVE  RowsMatchPositions'
<1> SUFFICES ASSUME NEW id \in SeqIds, NEW l \in Layers, ~failed[id], NEW p \in 0..(Filled(id, l)' - 1)
             PROVE  p < sequence_capacity(id)' /\ row_after(id, l, p) = Row(id, p)
  BY DEF RowsMatchPositions, Row, token_row, row_after
<1>1. Filled(id, l) \in Nat
  BY DEF Filled, DecodeTypeOK
<1>2. p \in 0..(Filled(id, l) - 1) /\ p \in Nat
  BY <1>1
<1>3. p < sequence_capacity(id) /\ token_row(id, l, p) = Row(id, p)
  BY <1>2 DEF RowsMatchPositions
<1> QED BY <1>2, <1>3, RowKept

\* A session's prefill ends.
LEMMA PrefillEndInd ==
  ASSUME DecodeInd, prefill_end
  PROVE  DecodeInd'
<1>1. PICK k : k = prompt[turn]
  OBVIOUS
<1>2. /\ pc = "prefill" /\ layer = NumLayers /\ set_sequence_length(turn, k)
      /\ generated' = [generated EXCEPT ![turn] = 1] /\ positions' = [positions EXCEPT ![turn] = k]
      /\ layer' = 0
      /\ \/ turn + 1 = NumSeqs /\ pc' = "decode" /\ turn' = 0
         \/ turn + 1 # NumSeqs /\ pc' = "prefill" /\ turn' = turn + 1
      /\ UNCHANGED <<prompt, reserved, write_pos, step, failed, done>>
  BY <1>1 DEF prefill_end
<1> USE DEF DecodeInd
<1>3. turn < NumSeqs /\ step = 0 /\ write_pos = -1 /\ initialized /\ \A id \in SeqIds : ~done[id] /\ ~failed[id]
  BY <1>2 DEF ControlInd
<1>4. turn \in SeqIds /\ turn \in Nat
  BY <1>2, <1>3, DecodeSizes DEF DecodeTypeOK
<1>5. PICK s \in SeqIds : s = turn
  BY <1>4
<1>6. k \in 1..MaxPrompt /\ k \in Nat
  BY <1>1, <1>4, DecodeSizes DEF DecodeTypeOK
<1>7. set_sequence_length(s, k)
  BY <1>2, <1>5
<1>8. /\ CacheInv' /\ TableExtended(s, k) /\ initialized' = initialized /\ kv' = kv
      /\ seq_length'[s] = k
      /\ \A other \in SeqIds \ {s} : seq_length'[other] = seq_length[other]
  BY <1>6, <1>7, SetLengthEffect DEF set_sequence_length
<1>9. BlockRows'
  BY <1>3, <1>6, <1>8, BlocksTaken
<1>10. /\ turn' \in Nat /\ turn' < NumSeqs
       /\ \A id \in SeqIds : id < turn + 1 <=> id < turn \/ id = s
       /\ pc' = "decode" => \A id \in SeqIds : id < turn + 1
  BY <1>2, <1>3, <1>4, <1>5, DecodeSizes
<1>11. DecodeTypeOK'
  <2>1. layer' \in 0..NumLayers /\ turn' \in 0..NumSeqs /\ pc' \in {"decode", "prefill"}
    BY <1>2, <1>10, DecodeSizes
  <2>2. generated' \in [SeqIds -> Nat] /\ positions' \in [SeqIds -> Nat]
    BY <1>2, <1>6 DEF DecodeTypeOK
  <2> QED BY <2>1, <2>2, <1>2, <1>8 DEF DecodeTypeOK, CacheInv
<1>12. ControlInd'
  BY <1>2, <1>3, <1>8, <1>10, DecodeSizes DEF ControlInd
<1>13. TokensInd'
  <2>1. generated \in [SeqIds -> Nat]
    BY DEF DecodeTypeOK
  <2>2. generated'[s] = 1 /\ \A id \in SeqIds : id # s => generated'[id] = generated[id]
    BY <2>1, <1>2, <1>5
  <2> QED BY <2>2, <1>2, DecodeSizes DEF TokensInd, TokenBudget
<1>14. LengthInd'
  <2>1. \A id \in SeqIds : RowsWritten(id) = 0 /\ RowsWritten(id)' = 0
    BY <1>2, <1>3, DecodeSizes DEF RowsWritten, RunsHad
  <2>2. \A id \in SeqIds : seq_length'[id] <= MaxPrompt + RowsWritten(id)'
    BY <2>1, <1>6, <1>8, DecodeSizes DEF LengthInd
  <2> QED BY <2>2, <1>2 DEF LengthInd
<1>15. ReservedInd'
  <2> SUFFICES ASSUME reserved PROVE ReservedInd'
    BY <1>2 DEF ReservedInd
  <2>1. RoomInd' /\ \A id \in SeqIds : ~failed'[id]
    <3>1. ASSUME NEW id \in SeqIds PROVE prompt[id] + MaxNew <= sequence_capacity(id)'
      <4>1. /\ sequence_capacity(id) \in Nat /\ sequence_capacity(id)' \in Nat
            /\ sequence_capacity(id) <= sequence_capacity(id)'
        BY <1>6, <1>8, RoomKept
      <4>2. prompt[id] + MaxNew <= sequence_capacity(id) /\ prompt[id] \in Nat
        BY <1>2, DecodeSizes DEF ReservedInd, RoomInd, DecodeTypeOK
      <4> QED BY <4>1, <4>2, DecodeSizes
    <3> QED BY <3>1, <1>2, <1>3 DEF RoomInd
  <2>2. \A id \in SeqIds : /\ positions[id] = IF id < turn THEN prompt[id] ELSE 0
                           /\ id # turn => seq_length[id] = positions[id]
                           /\ positions'[id] = IF id = s THEN prompt[id] ELSE positions[id]
                           /\ prompt[id] \in Nat
    <3>1. positions \in [SeqIds -> Nat] /\ \A id \in SeqIds : prompt[id] \in Nat
      BY DecodeSizes DEF DecodeTypeOK
    <3> QED BY <3>1, <1>1, <1>2, <1>5 DEF ReservedInd, StepInd
  <2>3. \A id \in SeqIds : /\ positions'[id] = IF id < turn + 1 THEN prompt[id] ELSE 0
                           /\ id # turn + 1 => seq_length'[id] = positions'[id]
                           /\ id < turn + 1 => seq_length'[id] = positions'[id]
    BY <2>2, <1>1, <1>4, <1>5, <1>8, <1>10, DecodeSizes
  <2>4. StepInd'
    <3>1. CASE pc' = "decode"
      <4>1. \A id \in SeqIds : /\ prompt[id] <= positions'[id] /\ positions'[id] <= prompt[id] + RunsHad(id)'
                               /\ seq_length'[id] = positions'[id] + 0
        BY <3>1, <2>2, <2>3, <1>2, <1>3, <1>10, DecodeSizes DEF RunsHad
      <4> QED BY <4>1, <3>1, <1>2, <1>3 DEF StepInd
    <3>2. CASE pc' = "prefill"
      BY <3>2, <2>3, <1>2, <1>3 DEF StepInd
    <3> QED BY <3>1, <3>2, <1>2
  <2>5. RowsMatchPositions'
    <3>1. ASSUME NEW id \in SeqIds, NEW l \in Layers
          PROVE  Filled(id, l)' \in Nat /\ Filled(id, l)' <= Filled(id, l)
      <4>1. Filled(id, l)' = positions'[id]
        BY <1>2, DecodeSizes DEF Filled
      <4>2. Filled(id, l) = IF id = turn THEN prompt[id] ELSE positions[id]
        BY <1>2, DecodeSizes DEF Filled
      <4> QED BY <4>1, <4>2, <2>2, <1>5
    <3>2. CacheInv /\ DecodeTypeOK /\ RowsMatchPositions /\ failed' = failed
      BY <1>2 DEF ReservedInd
    <3> QED BY <3>1, <3>2, <1>6, <1>8, MatchExtended
  <2> QED BY <2>1, <2>4, <2>5 DEF ReservedInd
<1> QED BY <1>8, <1>9, <1>11, <1>12, <1>13, <1>14, <1>15
\* A session's budget is reserved.
LEMMA ReserveSessionInd ==
  ASSUME DecodeInd, reserve_session
  PROVE  DecodeInd'
<1>1. PICK n : n = prompt[turn] + MaxNew
  OBVIOUS
<1>2. /\ pc = "reserve" /\ reserve_sequence(turn, n)
      /\ \/ turn + 1 = NumSeqs /\ pc' = "prefill" /\ turn' = 0
         \/ turn + 1 # NumSeqs /\ pc' = "reserve" /\ turn' = turn + 1
      /\ UNCHANGED <<prompt, reserved, write_pos, layer, step, generated, positions, failed, done>>
  BY <1>1 DEF reserve_session
<1> USE DEF DecodeInd
<1>3. /\ turn < NumSeqs /\ step = 0 /\ write_pos = -1 /\ initialized /\ layer = 0
      /\ \A id \in SeqIds : ~done[id] /\ ~failed[id]
  BY <1>2 DEF ControlInd
<1>4. turn \in SeqIds /\ turn \in Nat
  BY <1>2, <1>3, DecodeSizes DEF DecodeTypeOK
<1>5. PICK s \in SeqIds : s = turn
  BY <1>4
<1>6. n \in Nat
  BY <1>1, <1>4, DecodeSizes DEF DecodeTypeOK
<1>7. reserve_sequence(s, n)
  BY <1>2, <1>5
<1>8. CacheInv' /\ TableExtended(s, n) /\ initialized' = initialized /\ kv' = kv /\ seq_length' = seq_length
  BY <1>6, <1>7, ReserveEffect DEF reserve_sequence
<1>9. BlockRows'
  BY <1>3, <1>6, <1>8, BlocksTaken
<1>10. /\ turn' \in Nat /\ turn' < NumSeqs
       /\ \A id \in SeqIds : id < turn + 1 <=> id < turn \/ id = s
       /\ pc' = "prefill" => turn' = 0 /\ \A id \in SeqIds : id < turn + 1
  BY <1>2, <1>3, <1>4, <1>5, DecodeSizes
<1>11. DecodeTypeOK'
  <2>1. turn' \in 0..NumSeqs /\ pc' \in {"reserve", "prefill"}
    BY <1>2, <1>10, DecodeSizes
  <2> QED BY <2>1, <1>2, <1>8 DEF DecodeTypeOK, CacheInv
<1>12. ControlInd' /\ TokensInd'
  BY <1>2, <1>3, <1>8, <1>10, DecodeSizes DEF ControlInd, TokensInd, TokenBudget
<1>13. LengthInd'
  <2>1. \A id \in SeqIds : RowsWritten(id) = 0 /\ RowsWritten(id)' = 0
    BY <1>2, <1>3 DEF RowsWritten, RunsHad
  <2> QED BY <2>1, <1>2, <1>8 DEF LengthInd
<1>14. ReservedInd'
  <2> SUFFICES ASSUME reserved PROVE ReservedInd'
    BY <1>2 DEF ReservedInd
  <2>1. RoomInd' /\ \A id \in SeqIds : ~failed'[id]
    <3>1. ASSUME NEW id \in SeqIds, id < turn + 1 PROVE prompt[id] + MaxNew <= sequence_capacity(id)'
      <4>1. /\ sequence_capacity(id) \in Nat /\ sequence_capacity(id)' \in Nat
            /\ sequence_capacity(id) <= sequence_capacity(id)'
        BY <1>6, <1>8, RoomKept
      <4>2. CASE id = s
        BY <4>2, <1>1, <1>5, <1>8 DEF TableExtended
      <4>3. CASE id < turn
        <5>1. prompt[id] + MaxNew <= sequence_capacity(id) /\ prompt[id] \in Nat
          BY <4>3, <1>2, DecodeSizes DEF ReservedInd, RoomInd, DecodeTypeOK
        <5> QED BY <5>1, <4>1, DecodeSizes
      <4> QED BY <4>2, <4>3, <3>1, <1>10
    <3> QED BY <3>1, <1>2, <1>3, <1>10 DEF RoomInd
  <2>2. \A id \in SeqIds : positions[id] = 0 /\ seq_length[id] = 0
    BY <1>2 DEF ReservedInd, StepInd
  <2>3. StepInd'
    <3>1. pc' = "prefill" => \A id \in SeqIds : ~(id < turn')
      BY <1>10, DecodeSizes
    <3> QED BY <3>1, <2>2, <1>2, <1>3, <1>8 DEF StepInd
  <2>4. RowsMatchPositions'
    <3>1. ASSUME NEW id \in SeqIds, NEW l \in Layers
          PROVE  Filled(id, l)' \in Nat /\ Filled(id, l)' <= Filled(id, l)
      BY <2>2, <1>2, <1>3, DecodeSizes DEF Filled
    <3>2. CacheInv /\ DecodeTypeOK /\ RowsMatchPositions /\ failed' = failed
      BY <1>2 DEF ReservedInd
    <3> QED BY <3>1, <3>2, <1>6, <1>8, MatchExtended
  <2> QED BY <2>1, <2>3, <2>4 DEF ReservedInd
<1> QED BY <1>8, <1>9, <1>11, <1>12, <1>13, <1>14

\* Nothing happens.
LEMMA DecodeStutterInd ==
  ASSUME DecodeInd, UNCHANGED decodeVars
  PROVE  DecodeInd'
<1> USE DEF DecodeInd
<1>1. /\ UNCHANGED vars
      /\ UNCHANGED <<prompt, reserved, write_pos, pc, turn, layer, step, generated, positions, failed, done>>
  BY DEF decodeVars, driverVars
<1>2. /\ CacheInv' /\ BlockRows'
      /\ UNCHANGED <<initialized, free_blocks, block_used, seq_blocks, seq_length, kv>>
      /\ \A id \in SeqIds : sequence_capacity(id)' = sequence_capacity(id)
  BY <1>1, CacheUnchanged
<1>3. DecodeTypeOK'
  BY <1>1, <1>2 DEF DecodeTypeOK, CacheInv
<1>4. ControlInd' /\ TokensInd'
  BY <1>1, <1>2 DEF ControlInd, TokensInd, TokenBudget
<1>5. LengthInd'
  BY <1>1, <1>2 DEF LengthInd, RowsWritten, RunsHad
<1>6. ReservedInd'
  <2> SUFFICES ASSUME reserved PROVE ReservedInd'
    BY <1>1 DEF ReservedInd
  <2>1. RoomInd' /\ \A id \in SeqIds : ~failed'[id]
    BY <1>1, <1>2 DEF ReservedInd, RoomInd
  <2>2. StepInd'
    BY <1>1, <1>2 DEF ReservedInd, StepInd, RunsHad
  <2>3. RowsMatchPositions'
    <3>1. ASSUME NEW id \in SeqIds, NEW l \in Layers
          PROVE  Filled(id, l)' \in Nat /\ Filled(id, l)' <= Filled(id, l)
      <4>1. positions[id] \in Nat /\ prompt[id] \in Nat
        BY DecodeSizes DEF DecodeTypeOK
      <4> QED BY <4>1, <1>1 DEF Filled
    <3> QED BY <3>1, <1>1, MatchUnchanged DEF ReservedInd
  <2> QED BY <2>1, <2>2, <2>3 DEF ReservedInd
<1> QED BY <1>2, <1>3, <1>4, <1>5, <1>6

-----------------------------------------------------------------------------
(* The theorems. *)

\* Every step of the example keeps the invariant.
LEMMA DecodeNextInd == ASSUME DecodeInd, [DecodeNext]_decodeVars PROVE DecodeInd'
<1>1. CASE reserve_session
  BY <1>1, ReserveSessionInd
<1>2. CASE reserve_fails
  BY <1>2, GiveUpInd DEF reserve_fails
<1>3. CASE prefill_layer
  BY <1>3, PrefillLayerInd
<1>4. CASE prefill_fails
  BY <1>4, GiveUpInd DEF prefill_fails
<1>5. CASE prefill_end
  BY <1>5, PrefillEndInd
<1>6. CASE run_begin
  BY <1>6, RunBeginInd
<1>7. CASE run_layer
  BY <1>7, RunLayerInd
<1>8. CASE run_fails
  BY <1>8, RunFailsInd
<1>9. CASE run_end
  BY <1>9, RunEndInd
<1>10. CASE skip_done
  BY <1>10, SkipDoneInd
<1>11. CASE round_end
  BY <1>11, RoundEndInd
<1>12. CASE UNCHANGED decodeVars
  BY <1>12, DecodeStutterInd
<1> QED BY <1>1, <1>2, <1>3, <1>4, <1>5, <1>6, <1>7, <1>8, <1>9, <1>10, <1>11, <1>12 DEF DecodeNext

\* The invariant holds at every step of every run of the example.
THEOREM DecodeInvariant == DecodeSpec => []DecodeInd
<1>1. DecodeInit => DecodeInd
  BY DecodeInitInd
<1>2. DecodeInd /\ [DecodeNext]_decodeVars => DecodeInd'
  BY DecodeNextInd
<1> QED BY <1>1, <1>2, PTL DEF DecodeSpec

\* With the reservations of generate_paged every layer holds every row at its
\* position, and the cache's length advances once per token, never once per
\* layer (kernel_attention, advance_kv_cache_step).
THEOREM DecodeRowsInPlace == DecodeSpec => []DecodeInv
<1>1. DecodeInd => DecodeInv
  <2> SUFFICES ASSUME DecodeInd PROVE DecodeInv
    OBVIOUS
  <2>1. AdvancesOncePerToken
    <3> SUFFICES ASSUME reserved, pc \in {"decode", "exit"}, NEW id \in SeqIds, positions[id] > 0
                 PROVE  seq_length[id] = positions[id]
      BY DEF AdvancesOncePerToken
    <3>1. StepInd /\ positions[id] \in Nat
      BY DEF DecodeInd, ReservedInd, DecodeTypeOK
    <3> QED BY <3>1 DEF StepInd
  <2> QED BY <2>1 DEF DecodeInd, DecodeInv, ReservedInd, ReservedRowsMatch
<1> QED BY <1>1, DecodeInvariant, PTL

\* No block of a session ever holds another session's row, whether or not
\* runs fail (write_tokens through the shared executor and context).
THEOREM DecodeRowsNeverCross == DecodeSpec => []RowsNeverCross
<1>1. DecodeInd => RowsNeverCross
  <2> SUFFICES ASSUME DecodeInd, NEW id \in SeqIds, NEW l \in Layers,
                      NEW p \in 0..(sequence_capacity(id) - 1)
               PROVE  token_row(id, l, p) \in SessionRows(id)
    BY DEF RowsNeverCross, SessionRows
  <2> DEFINE bs == seq_blocks[id]
  <2>1. bs \in Seq(Blocks) /\ Len(bs) \in Nat
    BY DEF DecodeInd, CacheInv, TypeOK
  <2>2. (p \div BlockSize) + 1 \in 1..Len(bs) /\ p % BlockSize \in Offsets
    BY <2>1, PositionInTable DEF sequence_capacity
  <2>3. PICK i \in 1..Len(bs) : i = (p \div BlockSize) + 1
    BY <2>2
  <2>4. bs[i] \in Blocks /\ Owns(id, bs[i])
    BY <2>1, <2>3 DEF Owns
  <2> HIDE DEF bs
  <2>5. kv[l][bs[i]][p % BlockSize] \in SessionRows(id)
    BY <2>2, <2>4 DEF DecodeInd, BlockRows
  <2> QED BY <2>3, <2>5 DEF token_row, physical_block, offset_in_block, bs
<1> QED BY <1>1, DecodeInvariant, PTL

\* No session exceeds its token limit, but for the two tokens of a limit of
\* one (the test of the count after a decode run).
THEOREM DecodeTokenBudget == DecodeSpec => []TokenBudget
<1>1. DecodeInd => TokenBudget
  BY DEF DecodeInd, TokensInd
<1> QED BY <1>1, DecodeInvariant, PTL

\* With the reservations of generate_paged there is room for every run.
THEOREM DecodeNeverFails == DecodeSpec => []NoRunFails
<1>1. DecodeInd => NoRunFails
  BY LogicalPosition DEF NoRunFails
<1> QED BY <1>1, DecodeInvariant, PTL
=============================================================================
