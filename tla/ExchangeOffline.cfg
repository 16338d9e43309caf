SPECIFICATION Spec
CONSTANTS
    p1 = p1
    p2 = p2
    p3 = p3
    c1 = c1
    c2 = c2
    byRound = byRound
    byId = byId
    byProtocol = byProtocol
    ckg = ckg
    gkg = gkg
    NoShare = NoShare
    Members = {p1, p2, p3}
    Strangers = {}
    SessionIds <- TwoIds
    Protocols = {ckg, gkg}
    Sessions <- OneSession
    Kinds = {ckg}
    Combiners = {c1}
    SessionOf <- SessionOfEach
    KindOf <- SameKind
    Threshold = 2
    MaxRestarts <- NoRestarts
INVARIANTS
    OfflineParticipantBlocks
