SPECIFICATION Spec
CONSTANTS
    Tx <- MCTx
    KeyImages <- MCKeyImages
    Needs <- MCNeeds
    Weight <- MCWeightless
    FeeRate <- MCFeeRate
    Methods <- MCPrivate
    MaxPoolWeight = 1
    SizeMod = 16
    LiveTime = 0
    AltLiveTime = 0
    Blocks <- MCFewBlocks
    Skips <- MCSkips
    MaxHeight = 1
    MaxTime = 1
    DbErrors = TRUE
INVARIANTS
    IndexedUnlessAborted
    TemplateSound
PROPERTIES
    CanRestart
    NeverLessPublic
    BatchKeepsTxs
