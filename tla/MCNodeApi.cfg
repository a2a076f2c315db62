CONSTANTS
    r1 = r1
    r2 = r2
    r3 = r3
    i1 = i1
    i2 = i2
    p1 = p1
    none = none
    Requests = {r1, r2, r3}
    Ids = {i1, i2}
    Pollers = {p1}
    NoId = none
    KeptEvents = 2
    MaxEvents = 3
SYMMETRY MCSymmetry
SPECIFICATION Spec
CHECK_DEADLOCK FALSE
INVARIANTS
    AnswersSound
PROPERTIES
    PollsOnlyAdvance
