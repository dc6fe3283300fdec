SPECIFICATION GenerateSpec
CONSTANTS
    Files <- MCFiles
    Sizes <- MCSizes
    MaxStringLen = 16
    MaxArrayLen = 3
    MaxTensorDims = 4
    MaxTensorCount = 21
    Devices = {"cpu", "cuda"}
    MassRange = 40
    Prompts <- MCPrompts
    MaxNewTokens <- MCMaxNewTokens
    Logits <- MCLogits
    SampConfigs <- MCSampConfigs
INVARIANTS ParsesExactlyTheWhole LoadedAsWritten WeightsSharedOnce CacheInv OnlyCompleteModelsSpeak TokenLimit
PROPERTIES SamplesEligible Generates Returns
CHECK_DEADLOCK FALSE
