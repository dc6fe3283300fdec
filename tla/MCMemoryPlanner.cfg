SPECIFICATION PlannerSpec
CONSTANTS
    N = 4
    Ids <- MCIds
    InputLists <- MCInputLists
    Pools <- MCPools
    ValueSpecs <- MCSpecs
    PlainSpecs <- MCPlainSpecs
    Alignment = 2
    IncludeOutputs = TRUE
INVARIANTS SortInv PlanInv LiveValuesIntact
CHECK_DEADLOCK FALSE
