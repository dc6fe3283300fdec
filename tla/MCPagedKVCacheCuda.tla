------------------------- MODULE MCPagedKVCacheCuda -------------------------
(* PagedKVCacheCuda for TLC.  The device tables do not depend on rows and   *)
(* lengths, nor the rows on device tables, so a behaviour has either        *)
(* tables over all blocks or rows in two of them, and their states add up   *)
(* instead of multiplying.                                                  *)
EXTENDS PagedKVCacheCuda, TLC

CONSTANTS a1, a2, l1, l2

MCSeqIds   == 0..1
MCHalves   == SeqIds \cup {ZeroHalf}
MCRows     == MCHalves \X MCHalves
MCZeroRow  == <<ZeroHalf, ZeroHalf>>
MCSymmetry == Permutations(Addrs) \cup Permutations(Layers)

VARIABLE has  \* what the behaviour has, "tables" or "rows"

MCInit == CudaInit /\ has \in {"tables", "rows"}

\* The block at the bottom of the free list stays there when there are rows.
HasOnly == /\ has = "tables" => UNCHANGED written /\ UNCHANGED kv
           /\ has = "rows" => UNCHANGED memory /\ Cardinality({b \in Blocks : block_used'[b]}) < MaxBlocks

MCNext == CudaNext /\ UNCHANGED has /\ HasOnly

MCSpec == MCInit /\ [][MCNext]_<<cudaVars, has>>
=============================================================================
