SPECIFICATION Spec
CONSTANTS
    s1 = s1
    s2 = s2
    s3 = s3
    SeqIds <- MCTwoSeqIds
    Layers <- MCOneLayer
    BlockSize = 2
    MaxBlocks = 2
    Rows = {0, 1}
    ZeroRow = 0
    MaxTokens = 4
SYMMETRY MCSymmetry
INVARIANTS TypeOK NoBlockShared NoBlockLost LengthCovered
PROPERTIES StoreSpec CallsImplementStore
