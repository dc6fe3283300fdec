SPECIFICATION FairDecode
CONSTANTS
    SeqIds <- MCThreeSeqIds
    Layers <- MCLayers
    BlockSize = 2
    MaxBlocks = 7
    Rows <- MCRows
    ZeroRow <- MCZeroRow
    MaxTokens = 8
    MaxPrompt = 5
    MaxNew = 3
    ReserveModes = {TRUE, FALSE}
INVARIANTS DecodeInv TokenBudget NoRunFails RowsNeverCross
PROPERTIES Terminates
CHECK_DEADLOCK FALSE
