--------------------------- MODULE MCPagedDecode ----------------------------
(* PagedDecode for TLC. *)
EXTENDS PagedDecode

MCSeqIds  == 0..1
MCThreeSeqIds == 0..2
MCLayers  == 0..1
MCZeroRow == <<-1, -1>>
MCRows    == (SeqIds \X (0..MaxTokens)) \cup {MCZeroRow}
=============================================================================
