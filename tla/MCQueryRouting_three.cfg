CONSTANTS
    me = me
    strong = strong
    weak = weak
    spare = spare
    math = math
    general = general
    NoNode = NoNode
    Nodes = {me, strong, weak, spare}
    Self = me
    Queries = {q1}
    Caps = {math, general}
    General = general
    FailureCap = 3
    Quality <- MCUselessQuality
    Advertised <- MCAdvertised
    ClassifiedMixes <- MCOneMix
    GivenMixes <- MCNoMixes
    ClientExclusions <- MCNoExclusion
    Rtts <- MCOneRtt
    Aging <- MCPeers
    Talkers <- MCNobody
SPECIFICATION Spec
INVARIANTS
    AnswerIsCurrent
    NoSuitableNodeJustified
PROPERTIES
    KeepsContract
    QueriesAdvance
