CONSTANTS
    w1 = w1
    w2 = w2
    w3 = w3
    p1 = p1
    p2 = p2
    Writers <- TwoWriters
    Processes <- TwoProcesses
    ProcOf <- OwnProcesses
    Consumers = {}
    Serves <- Kiosks
    RedisEnabled = FALSE
    MaxTime = 4
    MaxTxn = 1
    Window <- EqualWindows
    MinWindow = 3
    Days <- OneDay
    WorkDay <- AllOneDay
    LateTimes <- LateFromTwo
    BreakMinutes = 1
    HalfDayMinutes = 3
    MinWorkMinutes = 4
    Edits <- NoEdits
SPECIFICATION Spec
PROPERTIES
    NoSecondCheckOutWithinWindow
