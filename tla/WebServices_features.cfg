SPECIFICATION Spec
CONSTANTS
    p1 = p1
    p2 = p2
    Sessions = {s1, s2}
    Endpoints = {e1, e2}
    Nobody = Nobody
    NoEndpoint = NoEndpoint
    MaxPushQueue = 1
    MaxPushOps = 2
    MaxPushClicks = 4
    MaxNotices = 2
    Mails = {m1}
    NoMail = NoMail
    Bodies = {b1}
    NoBody = NoBody
    MaxMailCalls = 2
    MaxMailEdits = 1
    MaxMailClicks = 3
    Admins = {a1}
    NoAdmin = NoAdmin
    EnvBackends = {}
    MaxSaves = 2
    MaxStops = 1
    MaxSetupCalls = 2
    Bots = {t1, t2}
    MaxSelected = 2
    VisionModels = 2
    Sees <- ModelsSeen
    Slots = {1, 2}
    Names = {p1, p2}
    NameOf <- NamesOfSlots
    Default = 0
    MaxSteps = 2
    MaxActions = 1
    MaxAttempts = 3
    Quota = 4
    MaxListings = 1
    Viewers = {v1, v2}
    Keys = {"k1", "k2"}
    MaxShells = 2
    MaxSessions = 1
    MaxViewers = 1
    MaxQueue = 3
    MaxReplay = 1
    MaxOutput = 2
    Desktops = {d1, d2}
    NoDesktop = NoDesktop
    MaxStored = 2
    MaxRunning = 1
    MaxAsked = 1
    MaxLate = 1
    Commits = {1, 2, 3}
    FirstCommit = 1
    DesktopOf <- DesktopOfCommit
    MaxDeploys = 3
INVARIANTS
    NotifiesItsAccount
    SavedSettingsSurvive
    CallsAreReserved
    ViewersSeeAll
    RunningIsLeased
    RestIsConsistent
PROPERTIES
    SenderEditsAreKept
SYMMETRY Symmetry
CHECK_DEADLOCK FALSE
