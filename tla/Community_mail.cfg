\* Two mails of one sender, the second a copy of the first or another one.
SPECIFICATION MailSpec
CONSTANTS
    p1 = p1
    p2 = p2
    m1 = m1
    m2 = m2
    i1 = i1
    Posts = {}
    Mails = {m1, m2}
    Nonces = {n1}
    Lobby = lobby
    NoRoom = NoRoom
    NoMail = NoMail
    MessageIds = {i1, i2}
    References <- Follows
    MaxTurns = 2
    Compacted = {}
    MaxAttempts = 2
    MaxChanges = 2
    MaxCloses = 0
    MaxCrashes = 1
INVARIANTS
    TaskRunsOnce
    RepliesOnce
    RevokedTaskIsSilent
PROPERTIES
    TasksEnd
CHECK_DEADLOCK FALSE
