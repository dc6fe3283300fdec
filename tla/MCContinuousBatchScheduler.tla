--------------------- MODULE MCContinuousBatchScheduler ---------------------
(* ContinuousBatchScheduler for TLC. *)
EXTENDS ContinuousBatchScheduler

MCSeqIds   == 0..2
MCLayers   == {0}
MCRequests == {<<1, 1>>, <<2, 3>>}
=============================================================================
