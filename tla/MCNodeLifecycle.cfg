CONSTANTS
    a = a
    b = b
    math = math
    general = general
    NoNode = NoNode
    Nodes = {a, b}
    Caps = {math, general}
    Top <- MCTop
    Configured <- MCConfigured
    Gossip = TRUE
    MaxStarts <- MCStarts
SPECIFICATION MCSpec
CHECK_DEADLOCK FALSE
INVARIANTS
    IndexSound
    ProfilesSound
PROPERTIES
    StaysFindable
    EveryStartEnds
