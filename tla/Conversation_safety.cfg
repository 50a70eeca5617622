CONSTANTS
    Prompts = {p1, p2, p3}
    Recoveries = {p3}
    MaxWakes = 3
    NoTurn = NoTurn
    MaxEscapes = 1
    Nonces = {n1}
    NoNonce = NoNonce
    Messages = {m1, m2}
    Priority = {m2}
SYMMETRY Interchangeable
SPECIFICATION Spec
INVARIANTS NewestPromptIsServed SupersededTurnIsAborted MessagesAreKept
PROPERTIES UserTurnsYieldOnlyToUser TurnsAreExclusive
CHECK_DEADLOCK FALSE
