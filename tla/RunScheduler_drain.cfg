CONSTANTS
    Agents = {a1}
    Tasks = {t1, t2}
    Drains = {d1}
    NoTask = NoTask
SPECIFICATION LSpec
INVARIANTS DrainWaitsForKnown
CHECK_DEADLOCK FALSE
