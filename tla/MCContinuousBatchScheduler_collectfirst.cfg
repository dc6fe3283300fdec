SPECIFICATION SchedSpec
CONSTANTS
    SeqIds <- MCSeqIds
    Layers <- MCLayers
    BlockSize = 2
    MaxBlocks = 4
    Rows = {0}
    ZeroRow = 0
    MaxTokens = 6
    Requests <- MCRequests
    MaxBatchSize = 2
    MaxSubmits = 4
    CollectFirst = TRUE
PROPERTIES AcceptsOnlyUnusedIds
