CONSTANTS
    w1 = w1
    w2 = w2
    w3 = w3
    p1 = p1
    p2 = p2
    Writers <- TwoWriters
    Processes <- OneProcess
    ProcOf <- SameProcess
    Consumers = {w1}
    Serves <- AllDoors
    RedisEnabled = TRUE
    MaxTime = 2
    MaxTxn = 0
    Window <- CardsWaitLonger
    MinWindow = 1
    Days <- TwoDays
    WorkDay <- Midnight
    LateTimes <- LateFromTwo
    BreakMinutes = 1
    HalfDayMinutes = 3
    MinWorkMinutes = 4
    Edits <- OneEdit
SPECIFICATION Spec
INVARIANTS
    TypeOK
PROPERTIES
    BareRowsAreSuppressedSightings
