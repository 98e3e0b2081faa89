\* The fourteen components of MCWorkplace, one of them at a time.
SPECIFICATION WorkplaceSpec
CONSTANTS
    Nil = Nil
    a1 = a1  a2 = a2  r1 = r1  r2 = r2  n1 = n1  n2 = n2
    s1 = s1  s2 = s2  w1 = w1  w2 = w2  u1 = u1
    d1 = d1  d2 = d2  ua = ua  ub = ub  k1 = k1  k2 = k2
    Admins = {a1, a2}
    SuperAdmins = {a2}
    MaxGone = 1
    Granted <- MCGranted
    Rosters <- MCRosters
    Nodes = {r1, r2, n1, n2}
    Staff = {e1}
    Places = {l1}
    FirstTrees <- MCFirstTrees
    Workers = {w1, w2}
    Sockets = {s1, s2}
    WorkerOf <- MCWorkerOf
    UserOf <- MCUserOf
    ScopeOf <- MCScopeOf
    Emitted <- MCEmitted
    MaxPerUser = 1
    MaxQueued = 1
    MaxFaults = 1
    Desks = {d1, d2}
    Job = job
    Asks <- MCAsks
    Photos = {1, 2}
    VisitHours = 1
    FaceBuffer = 0
    LastVisitTime = 1
    MaxRequests = 4
    MaxJobErrors = 1
    TapReaders = {rd1}
    CardUids = {c1}
    Holders = {h1, h2}
    Doors = {dr1, dr2}
    LastToken = 1
    MaxTaps = 2
    MaxCardEdits = 3
    Persons = {p1, p2}
    Clerks = {k1, k2}
    LastFaceId = 3
    MaxFaceAsks = 2
    Galleries <- MCGalleries
    MinImages = 1
    MaxImages = 2
    Poses = {"front"}
    EnforcePoses = TRUE
    BlockSpoofs = TRUE
    Chatters = {ua, ub}
    Founder = ua
    Pair = {ua, ub}
    Threads = {k1, k2}
    LastMessage = 2
    ClientMarks = {1, 3}
    MaxChatAsks = 5
    ChatAsked <- MCChatAsked
    Accounts = {ua, ub}
    Root = ua
    Consoles = {k1, k2}
    LastSecond = 2
    LastPassword = 2
    MaxLogons = 5
    Faces = {p1, p2}
    Known = {p1}
    Slots = {k1, k2}
    LastTrack = 2
    MaxTracks = 1
    MinHits = 2
    MaxAge = 1
    CoolDown = 1
    AlarmPause = 1
    LivenessEnabled = TRUE
    LiveActiveRequired = TRUE
    Kiosks = {k1, k2}
    Workmates = {p1, p2}
    Supervisors = {a1}
    LastEvent = 2
    LastTime = 2
    UnknownPause = 2
    AlertPause = 1
    TailWindow = 1
    KeepPictures = 0
    AfterHours = {1}
    RequireQuality = TRUE
    MaxTriage = 1
    Databases = {r1, r2}
    Configured = r1
    WizardTabs = {k1, k2}
    Emails = {ua, ub}
    MaxVisits = 4
    Cams = {c1}
    CamUrls = {v1, v2}
    Operators = {k1, k2}
    MaxCamCalls = 3
    WorkDays = {n1}
    Weekend = {}
    Triagers = {a1, a2}
    MinDays = 1
    MlMinSamples = 1
    MaxRuns = 1
    MaxJudgements = 2
    Policies = {p1, p2}
    RuleCalls = {k1, k2}
    Branches = {l1, l2}
    MaxRuleCalls = 3
    Roles = {r1}
    Permissions = {l1, l2}
    RoleUsers = {ua}
    RoleForms = {k1, k2}
    MaxRoleForms = 4
INVARIANTS
    WorkplaceTypeOK
    NoCycle
    PlacesFitCompanies
    NoGhosts
    VisitorRowAgrees
    RevokedCardsAreDead
    EventsExplainTheDay
    FlagTellsIndex
    ForgottenStayForgotten
    SentByMembers
    RacersInsertOnce
    TokensEndWithPassword
    SuperAdminRemains
    NamesStayOnTheirTrack
    TailgatersWereTwo
    StreamsFollowRows
    ListsFollowRows
    OneOrganization
    RulesAreUnambiguous
    RolesAreMeant
PROPERTIES
    OnlyNewcomersAreLost
    LoopsSettle
CHECK_DEADLOCK FALSE
