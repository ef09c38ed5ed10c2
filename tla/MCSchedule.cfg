\* A thread and a single tweet for later, and two workers that poll at will.
CONSTANTS
    p1 = p1
    p2 = p2
    w1 = w1
    w2 = w2
    Post = {p1, p2}
    Size <- MCSize
    Worker = {w1, w2}
    Faults = {"database", "crash"}
SPECIFICATION FairSpec
INVARIANTS
    TypeOK
    NeverEarly
    AnsweredIsWhole
    AcceptedIsFindable
PROPERTIES
    AcceptedIsPublished
CHECK_DEADLOCK FALSE
