SPECIFICATION FairSpec
CONSTANTS
    Dealers = {1, 2}
    Recipients = {1, 2, 3}
    Threshold = 2
    L = 7
    Small = 3
    SecretBound = 1
    Coefficients = {1, 5}
    MaxFaults = 1
    NotYet = NotYet
    OutsideBound = OutsideBound
INVARIANTS
    TypeOK
    AccumulatedIsSum
    VerifiedReconstruction
PROPERTIES
    HonestRunCompletes
CHECK_DEADLOCK FALSE
