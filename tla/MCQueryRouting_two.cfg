CONSTANTS
    me = me
    strong = strong
    weak = weak
    spare = spare
    math = math
    general = general
    NoNode = NoNode
    Nodes = {me, strong}
    Self = me
    Queries = {q1, q2}
    Caps = {math, general}
    General = general
    FailureCap = 3
    Quality <- MCQuality
    Advertised <- MCAdvertised
    ClassifiedMixes <- MCMixes
    GivenMixes <- MCNoMixes
    ClientExclusions <- MCNoExclusion
    Rtts <- MCOneRtt
    Aging <- MCNobody
    Talkers <- MCNobody
SPECIFICATION FairSpec
INVARIANTS
    Invariant
PROPERTIES
    QueriesEndOrHang
