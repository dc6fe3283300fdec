--------------------- MODULE MCPagedAttentionScheduler ----------------------
(* PagedAttentionScheduler for TLC. *)
EXTENDS PagedAttentionScheduler, TLC

CONSTANTS s1, s2, s3

MCSeqIds   == {s1, s2, s3}
MCOneLayer == {0}
MCSymmetry == Permutations(SeqIds)
=============================================================================
