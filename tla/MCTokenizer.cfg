SPECIFICATION TokenizerSpec
CONSTANTS
    Files <- MCFiles
    Texts <- MCTexts
INVARIANTS
    EncodesByRank
    RoundTrips
CHECK_DEADLOCK FALSE
