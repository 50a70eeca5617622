SPECIFICATION Spec
CONSTANTS
    ma = ma
    mb = mb
    mc = mc
    Torn = Torn
    None = None
    Corrupt = Corrupt
    NoAutomation = NoAutomation
    Nonces = {n1, n2}
    Digests = {g1}
    MaxSends = 3
    MaxRestarts = 1
    Entries = {k1, k2, k3}
    MaxTranscriptRestarts = 2
    MaxRewrites = 1
    Triggers = {"interval", "schedule"}
    MaxAutomations = 2
    Period = 1
    Day = 2
    DueMinute = 1
    MaxMinutes = 2
    MaxEdits = 2
    MaxAutomationRestarts = 1
    AgentIds = {n1, n2}
    AgentLimit = 1
    MaxStoreCalls = 3
    MaxStoreCrashes = 1
    Devices = {k1, k2, k3}
    Merging = TRUE
    MaxUpdates = 3
    MaxVersions = 3
    MaxRequests = 2
    MaxStrays = 1
    Events = {"ev1", "ev2", "ev3"}
    Wanted = {"ev1", "ev2"}
    MaxPublished = 2
    MaxReconnects = 1
    MaxConnections = 2
    MaxHostChanges = 1
    MaxFailures = 2
    Prompts = {n1, n2}
    Gateways = {e1, e2}
    MaxSwitches = 2
    MemberOrder <- ThreeMembers
    MaxRounds = 3
    MaxTurns = 4
    MaxPerTurn = 2
    Subs = {n1, n2}
    MaxSubRuns = 3
    MaxSteers = 1
INVARIANTS
    SentOncePerNonce
    AcknowledgedEntriesStay
    FiresWhatIsDue
    AgentsAreWhole
    DevicesAgree
    PortsAnswerTheirOwn
    StreamTellsAll
    PromptOncePerHost
    RoomIsFair
    RecordTellsOutcome
CHECK_DEADLOCK FALSE
