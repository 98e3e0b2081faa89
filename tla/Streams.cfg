CONSTANTS
    c1 = c1
    s1 = s1
    s2 = s2
    t1 = t1
    t2 = t2
    t3 = t3
    k1 = k1
    k2 = k2
    r1 = r1
    r2 = r2
    Nobody = Nobody
    Cameras = {c1}
    Streams = {s1, s2}
    Tasks = {t1, t2}
    Captures = {k1, k2}
    Requests = {r1}
    Nil = Nobody
SPECIFICATION Spec
CHECK_DEADLOCK FALSE
INVARIANTS
    TypeOK
    LiveMeansLoop
PROPERTIES
    UsedWithCare
    StopsReturn
    RemovedStreamsLetGo
