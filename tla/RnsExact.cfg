\* Every value of a basis of three small primes; words of five bits; rings of
\* eight coefficients, whose transforms, slots and embedding live modulo 17.
SPECIFICATION Spec
CONSTANTS
    QBasis <- MCQBasis
    PBasis <- MCPBasis
    T = 3
    Cases = 1001
    WordBits = 5
    Degree = 8
    NttModuli = {17}
    DenseCases = 150
    SlotModulus = 17
    CipherModulus = 12289
    SlotCaseCount = 15
    Field = 17
    Drifts <- MCDrifts
    RaiseValue = 4
    TwoPi = 3
    CircuitCases = 12
    MaxDoublings = 5
    WireCaseCount = 200
INVARIANTS
    RepresentationExact
    ModDownIsFloor
    SwitchKeepsResidueModT
    RescaleIsNearest
    DecodeFindsMessage
    BarrettExact
    WordsExact
    NttMultiplies
    SlotsIndependent
    SlotCircuitsCompute
    CircuitsLand
    CoeffsInSlots
    EvalModFollowsAngle
    EncodingsBind
