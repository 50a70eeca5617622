CONSTANTS
    Prompts = {p1, p2, p3}
    Recoveries = {p3}
    MaxWakes = 3
    NoTurn = NoTurn
    MaxEscapes = 1
    Nonces = {n1}
    NoNonce = NoNonce
    Messages = {m1, m2}
    Priority = {m2}
SPECIFICATION Spec
INVARIANTS RecoveryKeepsSkipped
CHECK_DEADLOCK FALSE
