\* One product of two fresh ciphertexts that both wrap around the modulus.
SPECIFICATION Spec
CONSTANTS
    Degree = 2
    BaseLog = 3
    Levels = 5
    Moduli <- MCModuli
    T = 7
    HolderSets <- MCOneHolder
    Recipient <- MCRecipient
    Messages <- MCMessages
    Masks <- MCMasks
    Errors <- MCErrors
    ErrorBound = 1
    Ternaries <- MCTernaries
    RowMasks <- MCRowMasks
    RowErrors <- MCRowErrors
    RowTernaries <- MCRowTernaries
    Smudging <- MCSmudging
    SmudgeBound = 3
    PModuli <- MCPModuli
    Element = 3
    MaxOps = 1
    NoiseCap = 400
PROPERTY MulWithinCodeBound
CHECK_DEADLOCK FALSE
