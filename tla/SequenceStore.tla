--------------------------- MODULE SequenceStore ---------------------------
(***************************************************************************)
(* What a paged KV cache promises to its callers, without blocks: every    *)
(* sequence has a private array of K/V rows per layer, addressed by token  *)
(* position.  A call on one sequence never touches another one, a row that *)
(* was written stays until it is overwritten or its sequence is freed, and *)
(* positions that a sequence gains hold arbitrary rows until written.      *)
(*                                                                         *)
(* PagedKVCache implements this specification (PagedKVCache!Store).        *)
(***************************************************************************)
EXTENDS Integers, Sequences

CONSTANTS SeqIds,      \* sequence ids
          Layers,      \* layer indices
          Rows,        \* K/V rows, one value standing for the K and the V row
          MaxTokens    \* the largest number of tokens a call may ask for

VARIABLES store,       \* store[id] : <<layer, position>> -> row, for the reserved positions
          len          \* len[id] : logical number of tokens

storeVars == <<store, len>>

Init == \A id \in SeqIds : /\ DOMAIN store[id] = {}
                           /\ len[id] = 0

\* Every sequence but id keeps its positions, its rows and its length.
OthersKept(id) ==
    \A other \in SeqIds \ {id} : /\ store'[other] = store[other]
                                 /\ len'[other] = len[other]

\* id keeps its positions, and their rows except those in touched; it may
\* gain positions.
Kept(id, touched) ==
    /\ DOMAIN store[id] \subseteq DOMAIN store'[id]
    /\ \A p \in DOMAIN store[id] \ touched : store'[id][p] = store[id][p]

\* The first n positions of id exist in every layer.
Covers(id, n) == \A l \in Layers, p \in 0..(n-1) : <<l, p>> \in DOMAIN store'[id]

\* A sequence gains the positions it needs to hold n tokens.
Reserve(id, n) == /\ Kept(id, {})
                  /\ Covers(id, n)
                  /\ len'[id] = len[id]
                  /\ OthersKept(id)

\* The logical length changes; positions are gained when it needs them.
SetLength(id, n) == /\ Kept(id, {})
                    /\ Covers(id, n)
                    /\ len'[id] = n
                    /\ OthersKept(id)

\* The rows vals are written from position start on, in layer l.
Write(id, l, start, vals) ==
    /\ Kept(id, {<<l, start + t - 1>> : t \in DOMAIN vals})
    /\ Covers(id, start + Len(vals))
    /\ \A t \in DOMAIN vals : store'[id][<<l, start + t - 1>>] = vals[t]
    /\ len'[id] = IF len[id] >= start + Len(vals) THEN len[id] ELSE start + Len(vals)
    /\ OthersKept(id)

\* A sequence loses all its positions.
Free(id) == /\ DOMAIN store'[id] = {}
            /\ len'[id] = 0
            /\ OthersKept(id)

\* Every sequence loses all its positions.
Clear == \A id \in SeqIds : /\ DOMAIN store'[id] = {}
                            /\ len'[id] = 0

\* Non-empty sequences of rows that fit between start and MaxTokens.
RowRuns(start) == UNION {[1..n -> Rows] : n \in 1..(MaxTokens - start)}

Next == \/ Clear
        \/ \E id \in SeqIds : \/ Free(id)
                              \/ \E n \in 0..MaxTokens : \/ Reserve(id, n)
                                                         \/ SetLength(id, n)
                              \/ \E l \in Layers, start \in 0..MaxTokens :
                                    \E vals \in RowRuns(start) : Write(id, l, start, vals)

Spec == Init /\ [][Next]_storeVars
=============================================================================
