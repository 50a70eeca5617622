\* Two posts, with one nonce or two, and one mail task.
SPECIFICATION Spec
CONSTANTS
    p1 = p1
    p2 = p2
    m1 = m1
    m2 = m2
    i1 = i1
    Posts = {p1, p2}
    Mails = {m1}
    Nonces = {n1, n2}
    Lobby = lobby
    NoRoom = NoRoom
    NoMail = NoMail
    MessageIds = {i1}
    References = {}
    MaxTurns = 3
    Compacted = {lobby}
    MaxAttempts = 1
    MaxChanges = 0
    MaxCloses = 1
    MaxCrashes = 1
INVARIANTS
    WorkIsExclusive
    AcceptedOnce
SYMMETRY Interchangeable
CHECK_DEADLOCK FALSE
