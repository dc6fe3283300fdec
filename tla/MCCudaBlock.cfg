SPECIFICATION BlockSpec
CONSTANTS
    Launches <- MCLaunches
    Garbage = {0, 7}
    ExpRange = 12
INVARIANTS
    BlockSafe
    ComputesWhole
