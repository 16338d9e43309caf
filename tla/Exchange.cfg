\* One session of two members, a process outside it, and combiners of four
\* sessions: two of this one, and one each that differs in one field.
SPECIFICATION FairSpec
CONSTANTS
    p1 = p1
    p2 = p2
    p3 = p3
    c1 = c1
    c2 = c2
    byRound = byRound
    byId = byId
    byProtocol = byProtocol
    ckg = ckg
    gkg = gkg
    NoShare = NoShare
    Members = {p1, p2}
    Strangers = {p3}
    SessionIds <- TwoIds
    Protocols = {ckg, gkg}
    Sessions <- OneSession
    Kinds = {ckg, gkg}
    Combiners = {c1, c2, byRound, byId, byProtocol}
    SessionOf <- SessionOfEach
    KindOf <- SameKind
    Threshold = 2
    MaxRestarts <- RestartsOnce
INVARIANTS
    TypeOK
    OneShareReleased
    ResultBound
    ResultComplete
    ResultsAgree
PROPERTIES
    ResultFinal
    ImplementsCollectiveResult
    EventuallyDecided
