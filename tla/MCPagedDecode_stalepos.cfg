SPECIFICATION DecodeSpec
CONSTANTS
    SeqIds <- MCSeqIds
    Layers <- MCLayers
    BlockSize = 2
    MaxBlocks = 3
    Rows <- MCRows
    ZeroRow <- MCZeroRow
    MaxTokens = 7
    MaxPrompt = 3
    MaxNew = 4
    ReserveModes = {FALSE}
CHECK_DEADLOCK FALSE
INVARIANTS RowsMatchPositions
