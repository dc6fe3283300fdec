--------------------------- MODULE MCPagedKVCache ---------------------------
(* PagedKVCache for TLC. *)
EXTENDS PagedKVCache, TLC

CONSTANTS s1, s2, s3

MCTwoSeqIds   == {s1, s2}
MCThreeSeqIds == {s1, s2, s3}
MCOneLayer    == {0}
MCSymmetry    == Permutations(SeqIds)
=============================================================================
