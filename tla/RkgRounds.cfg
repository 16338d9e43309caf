\* Three rounds of two members; the first has two combiners, and a member and
\* one of them restart.
SPECIFICATION RkgFairSpec
CONSTANTS
    p1 = p1
    p2 = p2
    c0 = c0
    c1 = c1
    c2 = c2
    c3 = c3
    rlk = rlk
    NoShare = NoShare
    Members = {p1, p2}
    Strangers = {}
    SessionIds <- OneId
    Protocols = {rlk}
    Sessions <- ThreeRounds
    Kinds = {rlk}
    Combiners = {c0, c1, c2, c3}
    SessionOf <- TwoInFirst
    KindOf <- RlkKinds
    Threshold = 2
    MaxRestarts <- RestartsInFirst
    FirstSession <- Base
    RlkKind = rlk
    LastRound = 2
INVARIANTS
    RkgTypeOK
    OneChain
    RoundsInOrder
    KeyFromOneChain
PROPERTIES
    KeyOrLostRound
