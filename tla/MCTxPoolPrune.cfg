SPECIFICATION Spec
CONSTANTS
    Tx <- MCTx
    KeyImages <- MCKeyImages
    Needs <- MCNeeds
    Weight <- MCWeight
    FeeRate <- MCFeeRate
    Methods <- MCPrivate
    MaxPoolWeight = 1
    SizeMod = 16
    LiveTime = 0
    AltLiveTime = 0
    Blocks <- MCBlocks
    Skips <- MCSkips
    MaxHeight = 2
    MaxTime = 1
    DbErrors = FALSE
INVARIANT KeyImagesMatchDb
