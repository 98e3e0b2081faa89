CONSTANTS
    w1 = w1
    w2 = w2
    w3 = w3
    p1 = p1
    p2 = p2
    Writers <- ThreeWriters
    Processes <- TwoProcesses
    ProcOf <- SharedProcess
    Consumers = {}
    Serves <- Kiosks
    RedisEnabled = FALSE
    MaxTime = 4
    MaxTxn = 1
    Window <- EqualWindows
    MinWindow = 3
    Days <- OneDay
    WorkDay <- AllOneDay
    LateTimes <- LateFromTwo
    BreakMinutes = 1
    HalfDayMinutes = 2
    MinWorkMinutes = 3
    Edits <- NoEdits
SPECIFICATION Spec
SYMMETRY SharedProcessSymmetry
INVARIANTS
    ClosedDaysSpanWindow
    ColumnsAgree
PROPERTIES
    ImplementsDay
