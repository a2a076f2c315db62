CONSTANTS
    me = me
    strong = strong
    weak = weak
    spare = spare
    math = math
    general = general
    NoNode = NoNode
    Nodes = {me, strong, weak}
    Self = me
    Queries = {q1}
    Caps = {math, general}
    General = general
    FailureCap = 3
    Quality <- MCQuality
    Advertised <- MCAdvertised
    ClassifiedMixes <- MCMixes
    GivenMixes <- MCRawMixes
    ClientExclusions <- MCExclusions
    Rtts <- MCRtts
    Aging <- MCPeers
    Talkers <- MCTalkers
SPECIFICATION Spec
INVARIANTS
    Invariant
    SelectionSound
    NoSuitableNodeJustified
PROPERTIES
    ClassifiedOnce
