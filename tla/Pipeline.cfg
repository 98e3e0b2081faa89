CONSTANTS
    c1 = c1
    c2 = c2
    r1 = r1
    e1 = e1
    v1 = v1
    Cameras = {c1}
    Requests = {r1}
    Employees = {e1}
    Strangers = {v1}
    EventWindow = 1
    Window = 1
    MaxPending = 1
    MaxTime = 2
    LastSight = 0
    MaxEvents = 2
SPECIFICATION Spec
CHECK_DEADLOCK FALSE
INVARIANTS
    TypeOK
    DeliveredOnceInOrder
PROPERTIES
    NoopMeansRecorded
    EventsSettle
