CONSTANTS
    t1 = t1
    t2 = t2
    s1 = s1
    d1 = d1
    Turns = {t1, t2}
    Blanks = {}
    Selections = {s1}
    Deletions = {d1}
    MaxLosses = 1
    MaxFailures = 1
    MaxForeign = 1
    MaxPreviews = 2
SPECIFICATION MCSpec
CHECK_DEADLOCK FALSE
INVARIANTS
    ScreenSound
    NoBubbleLeft
    OneConversation
    MeterFresh
PROPERTIES
    EverySendEnds
