SPECIFICATION BatchSpec
CONSTANTS
    s1 = s1
    s2 = s2
    s3 = s3
    SeqIds <- MCSeqIds
    Layers <- MCOneLayer
    BlockSize = 2
    MaxBlocks = 3
    Rows = {0}
    ZeroRow = 0
    MaxTokens = 4
    MaxBatch = 2
SYMMETRY MCSymmetry
INVARIANTS BatchInv BatchStaysReadable
