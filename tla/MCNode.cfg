SPECIFICATION Spec
CONSTANTS
    Captures = {c1, c2, c3}
    Quiets = {q1, q2, q3}
    NoMove = None
    Alien = Alien
    CaptureValues = {1, 2}
    QuietValues <- QuietValueSet
    Depths = {1, 3, 5}
    Thread = {t1, t2}
    Keys = {p0, p1}
    p0 = p0
    p1 = p1
    Tag <- TheTag
    ClusterSize = 2
    Generations = 2
    None = None
    m = m
    Results <- TheResults
    MaxSaves = 2
SYMMETRY Threads
INVARIANTS TypeOK PicksInOrder HitsAreSaved
CHECK_DEADLOCK FALSE
