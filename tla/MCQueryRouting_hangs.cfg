CONSTANTS
    me = me
    strong = strong
    weak = weak
    spare = spare
    math = math
    general = general
    NoNode = NoNode
    Nodes = {me, strong, weak}
    Self = me
    Queries = {q1}
    Caps = {math, general}
    General = general
    FailureCap = 3
    Quality <- MCQuality
    Advertised <- MCAdvertised
    ClassifiedMixes <- MCMixes
    GivenMixes <- MCNoMixes
    ClientExclusions <- MCNoExclusion
    Rtts <- MCOneRtt
    Aging <- MCNobody
    Talkers <- MCNobody
SPECIFICATION PatientSpec
PROPERTIES
    EveryQueryEnds
