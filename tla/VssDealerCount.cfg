SPECIFICATION Spec
CONSTANTS
    Dealers = {1}
    Recipients = {1, 2}
    Threshold = 2
    L = 7
    Small = 3
    SecretBound = 1
    Coefficients = {0, 4}
    MaxFaults = 1
    NotYet = NotYet
    OutsideBound = OutsideBound
INVARIANTS
    DealerCountIsAccumulated
CHECK_DEADLOCK FALSE
