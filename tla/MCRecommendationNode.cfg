SPECIFICATION FairSpec
CONSTANTS
    a = a
    b = b
    self = self
    Nodes = {self, a, b}
    Self = self
    NoNode = NoNode
    FailureCap = 1
    Requests = {r1, r2}
    code = code
    Caps = {code}
    good = good
    fair = fair
    other = other
    Offers = {good, fair, other}
    Advertises <- MCAdvertises
    Quality <- MCQuality
    Possible <- MCPossible
    Limits = {1}
    Exclusions <- MCExclusions
INVARIANTS
    RepliesSound
PROPERTIES
    ServedIsRecommended
    EveryRequestEnds
