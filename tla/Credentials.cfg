CONSTANTS
    t1 = t1
    t2 = t2
    t3 = t3
    p1 = p1
    p2 = p2
    Thread = {t1, t2, t3}
    Replica = {p1, p2}
    Home <- HomesOfThree
    First = First
    State = {s1}
    Slow = {t1}
    Nobody = Nobody
SPECIFICATION Spec
INVARIANTS StateServesOnce
PROPERTIES RefreshesKeepEachOther InvalidationKeepsNewer EveryCallEnds
CHECK_DEADLOCK FALSE
