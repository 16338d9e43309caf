\* Computations of a few operations on two fresh ciphertexts, under each scheme,
\* with one holder of the key and with two.
SPECIFICATION Spec
CONSTANTS
    Degree = 2
    BaseLog = 3
    Levels = 5
    T = 3
    HolderSets <- MCHolderSets
    Recipient <- MCRecipient
    Messages <- MCMessages
    Masks <- MCMasks
    Errors <- MCErrors
    ErrorBound = 1
    Ternaries <- MCTernaries
    RowMasks <- MCRowMasks
    RowErrors <- MCRowErrors
    RowTernaries <- MCRowTernaries
    Smudging <- MCSmudging
    SmudgeBound = 3
    PModuli = {}
    Element = 3
    MaxOps = 4
    Moduli <- MCBgvModuli
    NoiseCap = 400
    BfvModuli <- MCBfvModuli
    BfvPModuli <- MCBfvPModuli
    BfvNoiseCap = 400
    CkksModuli <- MCCkksModuli
    CkksPModuli <- MCCkksPModuli
    DefaultScale = 256
    Slots <- MCSlots
    Unit = 4096
    Tolerance = 32
    SmudgeFactor = 2
    ScaleCap = 65536
INVARIANTS
    SchemesTypeOK
    NoiseBounded
    Decrypts
    DigitsRecompose
    ScaledMessage
    BfvDecrypts
    Approximates
    EstimateSound
CHECK_DEADLOCK FALSE
