SPECIFICATION MCSpec
CONSTANTS
    a1 = a1
    a2 = a2
    l1 = l1
    l2 = l2
    Addrs = {a1, a2}
    Null = Null
    Uninit = Uninit
    ZeroHalf = 99
    SeqIds <- MCSeqIds
    Layers = {l1, l2}
    BlockSize = 1
    MaxBlocks = 3
    Rows <- MCRows
    ZeroRow <- MCZeroRow
    MaxTokens = 2
    MaxWritten = 2
SYMMETRY MCSymmetry
INVARIANTS DeviceInv UploadedTableReadable VisibleRowsWhole
