SPECIFICATION BgvSpec
CONSTANTS
    Degree = 2
    BaseLog = 3
    Levels = 5
    Moduli <- MCSmallFirst
    T = 3
    HolderSets <- MCOneHolder
    Recipient <- MCRecipient
    Messages <- MCMessages
    Masks <- MCMasks
    Errors <- MCErrors
    ErrorBound = 1
    Ternaries <- MCTernaries
    RowMasks <- MCRowMasks
    RowErrors <- MCRowErrors
    RowTernaries <- MCRowTernaries
    Smudging <- MCSmudging
    SmudgeBound = 3
    PModuli = {}
    Element = 3
    MaxOps = 4
    NoiseCap = 400
INVARIANT BudgetDecrypts
CHECK_DEADLOCK FALSE
